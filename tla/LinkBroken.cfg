SPECIFICATION Spec
CONSTANTS
  a = a
  b = b
  p = p
  q = q
  u = u
  default = default
  other = other
  Threads <- TwoThreads
  Owners <- TwoOwners
  Nobody = nobody
  Setters <- NoSetter
  Params <- OneParam
  Known <- OneParam
  Unique <- NoUnique
  Values <- TwoValues
  Default = default
  Calls <- AllButSet
  WorkerModes <- NoWorker
  MayAbandon = FALSE
  MaxCalls = 2
INVARIANTS CopiesOrDisconnects
CHECK_DEADLOCK FALSE
