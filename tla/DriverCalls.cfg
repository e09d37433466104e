SPECIFICATION Spec
CONSTANTS
  t1 = t1
  t2 = t2
  Threads <- TwoThreads
  Ops <- AllOps
  Workers <- Both
  Descriptions <- Both
  MaxOps = 2
  MaxItems = 3
SYMMETRY Symmetry
INVARIANTS TypeOK ItemsReturned SuppressionEnds AnswersDelivered
PROPERTY DestructorsFinish
CHECK_DEADLOCK FALSE
