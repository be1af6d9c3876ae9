CONSTANTS
  Arguments <- MCArguments
  Batches = 4
  MaxSteps = 6
  SaveEvery = 2
  SaveLast = 2
  MaxControls = 3
  MaxFaults = 0
SPECIFICATION Spec
PROPERTY StopWasAsked
CHECK_DEADLOCK FALSE
