SPECIFICATION FairSpec
CONSTANTS
  c1 = c1
  c2 = c2
  Clients <- MCClients
  Targets <- MCTargets
  Script <- MCScript
  NoClient = NoClient
  AcceptMayFail = TRUE
INVARIANTS TypeOK ConnectionInOnePlace AnsweredInTurn
PROPERTIES ImplementsExchange EventuallyAccepted EventuallyAnswered SessionsEnd
