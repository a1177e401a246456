SPECIFICATION FairSpec
CONSTANTS
  NumOrders = 2
  NumThreads = 3
  NumBurners = 2
  MaxLate = 2
INVARIANT HandlerOncePerOrder
PROPERTY Finishes
