CONSTANTS
  NumTasks = 2
  ReplayCapacity = 2
  ChannelCapacity = 1
  MaxChanges = 3
  MaxFaults = 1
SPECIFICATION Spec
PROPERTY ResyncHeard
CHECK_DEADLOCK FALSE
