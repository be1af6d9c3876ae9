CONSTANTS
  t1 = t1
  t2 = t2
  Tasks <- MCTasks
  MaxRevision = 5
  MaxCrashes = 1
  ReplayCapacity = 2
SPECIFICATION Spec
INVARIANT RestartKeepsSequencesAboveHistory
SYMMETRY TaskSymmetry
CHECK_DEADLOCK FALSE
