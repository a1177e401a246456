SPECIFICATION Spec
CONSTANTS
  Orders = {o1, o2, o3}
  NumThreads = 2
  ArgOrder <- LastToFirst
SYMMETRY Symmetry
INVARIANTS TypeOK HotDogIdsUnique OrdersNumberedDensely
CHECK_DEADLOCK FALSE
