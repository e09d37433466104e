SPECIFICATION FairSpec
CONSTANTS
  a = a
  b = b
  Clients <- TwoClients
  Owners <- OneOwner
  MaxCalls = 2
  MaxPanics = 1
  MaxCopies = 1
INVARIANTS TypeOK ObjectsBeforeDriver DestructOnce
PROPERTIES AwaitReturns TeardownHappens SerialFairSpec
CHECK_DEADLOCK FALSE
