CONSTANTS
  both = both
  left = left
  right = right
  g0 = g0
  g1 = g1
  NoTask = NoTask
  Tasks <- MCTasks
  Gpus <- MCGpus
  Request <- MCRequest
SPECIFICATION Spec
PROPERTY OlderRequestServed
