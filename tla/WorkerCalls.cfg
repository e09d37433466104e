SPECIFICATION ServedSpec
CONSTANTS
  command = command
  a = a
  Threads <- CommandThread
  Ops <- QueryOps
  Workers <- WithWorker
  Descriptions <- WithWorker
  MaxOps = 6
  MaxItems = 3
  Clients <- OneClient
  Owners <- NoOwner
  MaxCalls = 5
  MaxPanics = 0
  MaxCopies = 1
CONSTRAINT Purposeful
INVARIANT AcceptedOrSetOnce
CHECK_DEADLOCK FALSE
