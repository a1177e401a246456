SPECIFICATION Spec
CONSTANTS
  NumOrders = 3
  NumThreads = 2
  NumBurners = 1
  MaxLate = 1
INVARIANTS TypeOK CanGoOn CleanExit NeverSpoiled ServedInPairs
