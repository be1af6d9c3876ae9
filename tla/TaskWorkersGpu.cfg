CONSTANTS
  t1 = t1
  t2 = t2
  g0 = g0
  g1 = g1
  NoTask = NoTask
  Tasks <- MCTasks
  Gpus <- MCGpus
  Request <- GpuRequest
  Kind <- GpuKinds
  Concurrent = {}
  Seats = {1, 2}
  WorkerSlots = 1
  ClassSlots <- MCClassSlots
  MaxControls = 3
  MaxRestarts = 1
SPECIFICATION Spec
INVARIANTS
  LeasesMatchWorkers
  SleeperIsBlocked
CHECK_DEADLOCK FALSE
