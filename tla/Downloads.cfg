CONSTANTS
  d1 = d1
  d2 = d2
  p1 = p1
  p2 = p2
  p3 = p3
  NoTask = NoTask
  Tasks <- MCTasks
  Posts <- MCPosts
  PostIds <- MCPostIds
  Target <- MCTarget
  Concurrency <- MCConcurrency
  MaxControls = 3
  MaxFaults = 2
SPECIFICATION Spec
INVARIANTS
  PartsStay
  RegisteredIsWhole
  AtMostTarget
  CompletedMeansDone
  NoPartLeft
CHECK_DEADLOCK FALSE
