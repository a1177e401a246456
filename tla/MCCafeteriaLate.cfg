SPECIFICATION FairSpec
CONSTANTS
  NumOrders = 2
  NumThreads = 1
  NumBurners = 1
  MaxLate = 2
PROPERTY EveryOrderAnswered
