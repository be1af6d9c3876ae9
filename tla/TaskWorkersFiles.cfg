CONSTANTS
  t1 = t1
  t2 = t2
  g0 = g0
  g1 = g1
  NoTask = NoTask
  Tasks <- MCTasks
  Gpus <- MCGpus
  Request <- NoRequest
  Kind <- FileKinds
  Concurrent <- Downloads
  Seats = {1, 2}
  WorkerSlots = 2
  ClassSlots <- MCClassSlots
  MaxControls = 3
  MaxRestarts = 1
SPECIFICATION Spec
INVARIANTS
  TypeOK
  BodiesExclusive
  ActiveHasOneWorker
  LiveTaskHasWorker
  AppliedWereConfirmed
PROPERTIES
  LifecycleSpec
CHECK_DEADLOCK FALSE
