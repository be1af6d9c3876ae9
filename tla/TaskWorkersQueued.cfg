CONSTANTS
  t1 = t1
  t2 = t2
  g0 = g0
  g1 = g1
  NoTask = NoTask
  Tasks <- MCTasks
  Gpus <- MCGpus
  Request <- NoRequest
  Kind <- FileKinds
  Concurrent <- Downloads
  Seats = {1}
  WorkerSlots = 1
  ClassSlots <- MCClassSlots
  MaxControls = 3
  MaxRestarts = 0
SPECIFICATION Spec
INVARIANT QueuedHasWorker
CHECK_DEADLOCK FALSE
