SPECIFICATION FairSpec
CONSTANTS
  v1 = v1
  v2 = v2
  l1 = l1
  t1 = t1
  t2 = t2
  Vcis <- TwoVcis
  Links <- OneLink
  Tasks <- TwoTasks
  MaxCalls = 2
  MaxFails = 1
INVARIANTS TypeOK ListedIsFound LinkAccounted
PROPERTIES DestructorSparesOthers DroppedReleased
CHECK_DEADLOCK FALSE
