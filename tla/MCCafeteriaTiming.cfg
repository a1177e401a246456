SPECIFICATION Spec
CONSTANTS
  NumOrders = 20
  NumBurners = 8
  MaxLate = 1
INVARIANT CookDuration
