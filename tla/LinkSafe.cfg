SPECIFICATION FairSpec
CONSTANTS
  a = a
  b = b
  p = p
  q = q
  u = u
  default = default
  other = other
  Threads <- TwoThreads
  Owners <- TwoOwners
  Nobody = nobody
  Setters <- OneOwner
  Params <- EveryClass
  Known <- Named
  Unique <- UniqueOnly
  Values <- TwoValues
  Default = default
  Calls <- AllButRestore
  WorkerModes <- EitherMode
  MayAbandon = TRUE
  MaxCalls = 2
INVARIANTS TypeOK NothingInvented WorkingMirrors DestroyedUnused
PROPERTIES CallsReturn
CHECK_DEADLOCK FALSE
