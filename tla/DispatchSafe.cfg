SPECIFICATION FairSpec
CONSTANTS
  cll = cll
  cop = cop
  c1 = c1
  c2 = c2
  Objects <- LinkAndPrimitive
  Callbacks <- TwoCallbacks
  DriverModes <- EitherMode
  MaxEvents <- OneAndTwo
  MaxFailures = 1
INVARIANTS TypeOK NothingLost ArrivesInOrder
PROPERTIES DroppedForgotten
CHECK_DEADLOCK FALSE
