SPECIFICATION FairSpec
CONSTANTS
  Users = {u1, u2, u3, u4}
  NumBurners = 2
INVARIANTS TypeOK BurnersAccounted NoLostRequest AssertsHold DestroyedIdle
PROPERTIES NoOvertaking ImplementsPool EveryRequestServed
CHECK_DEADLOCK FALSE
