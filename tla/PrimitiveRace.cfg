SPECIFICATION Spec
CONSTANTS
  t1 = t1
  t2 = t2
  t3 = t3
  h1 = h1
  h2 = h2
  Threads <- TwoThreads
  Starters <- TwoThreads
  Aborters <- FirstThread
  Handles <- TwoHandles
  Capacity = 8
  MaxEvents = 1
  MaxErrors = 1
  MaxFails = 0
SYMMETRY HandleSymmetry
INVARIANTS EveryHandleAccounted EndIsLast
CHECK_DEADLOCK FALSE
