SPECIFICATION Spec
CONSTANTS
  Orders = {o1, o2, o3}
  NumThreads = 2
  ArgOrder <- LastToFirst
SYMMETRY Symmetry
INVARIANT VerifiedIngredients
CHECK_DEADLOCK FALSE
