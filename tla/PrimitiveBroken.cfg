SPECIFICATION Spec
CONSTANTS
  t1 = t1
  t2 = t2
  t3 = t3
  h1 = h1
  h2 = h2
  Threads <- ThreeThreads
  Starters <- TwoThreads
  Aborters <- Nobody
  Handles <- TwoHandles
  Capacity = 8
  MaxEvents = 1
  MaxErrors = 0
  MaxFails = 0
SYMMETRY HandleSymmetry
INVARIANT StartsOrWaiters
CHECK_DEADLOCK FALSE
