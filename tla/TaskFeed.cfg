CONSTANTS
  NumTasks = 2
  ReplayCapacity = 1
  ChannelCapacity = 1
  MaxChanges = 3
  MaxFaults = 1
SPECIFICATION Spec
INVARIANTS
  StreamGapless
  PositionCovered
PROPERTIES
  NeverBackwards
  CatchesUp
  Reconnects
CHECK_DEADLOCK FALSE
