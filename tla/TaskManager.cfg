CONSTANTS
  t1 = t1
  t2 = t2
  Tasks <- MCTasks
  MaxRevision = 5
  MaxCrashes = 1
  ReplayCapacity = 2
SPECIFICATION Spec
INVARIANTS
  StoreMirrorsCache
  ReplayTellsState
  SequenceAboveHistory
PROPERTIES
  CancelSticks
  RestartLeavesNoneExecuting
  LifecycleSpec
SYMMETRY TaskSymmetry
CHECK_DEADLOCK FALSE
