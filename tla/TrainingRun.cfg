CONSTANTS
  Arguments <- MCArguments
  Batches = 4
  MaxSteps = 6
  SaveEvery = 2
  SaveLast = 2
  MaxControls = 3
  MaxFaults = 2
SPECIFICATION Spec
INVARIANTS
  KeepsLast
  DataInOrder
  CompletedIsTrained
PROPERTIES
  PauseLosesNothing
  StopAnswered
CHECK_DEADLOCK FALSE
