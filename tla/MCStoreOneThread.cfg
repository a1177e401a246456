SPECIFICATION Spec
CONSTANTS
  Orders = {o1, o2, o3}
  NumThreads = 1
  ArgOrder <- FirstToLast
SYMMETRY Symmetry
INVARIANT IngredientIdsUnique
CHECK_DEADLOCK FALSE
