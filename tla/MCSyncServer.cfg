SPECIFICATION FairSpec
CONSTANTS
  c1 = c1
  c2 = c2
  Clients <- MCClients
  Targets <- MCTargets
  Script <- MCScript
  AcceptMayFail = TRUE
PROPERTIES ImplementsExchange EventuallyAnswered
