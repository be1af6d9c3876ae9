CONSTANTS
  t1 = t1
  t2 = t2
  g0 = g0
  g1 = g1
  NoTask = NoTask
  Tasks <- MCTasks
  Gpus <- MCGpus
  Request <- GpuRequest
  Kind <- GpuKinds
  Concurrent = {}
  Seats = {1}
  WorkerSlots = 1
  ClassSlots <- MCClassSlots
  MaxControls = 0
  MaxRestarts = 0
SPECIFICATION Spec
PROPERTY OlderRequestServed
CHECK_DEADLOCK FALSE
