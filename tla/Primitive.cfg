SPECIFICATION FairSpec
CONSTANTS
  t1 = t1
  t2 = t2
  t3 = t3
  h1 = h1
  h2 = h2
  Threads <- TwoThreads
  Starters <- FirstThread
  Aborters <- Nobody
  Handles <- OneHandle
  Capacity = 8
  MaxEvents = 2
  MaxErrors = 2
  MaxFails = 1
INVARIANTS TypeOK FlagsLeadEvents WaitersLeaveAtTheEnd FirstWaiterMissesNothing
PROPERTIES ContractSpec FirstWaiterReturns CancelTakesEffect NothingLeaks
CHECK_DEADLOCK FALSE
