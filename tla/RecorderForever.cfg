SPECIFICATION Spec
CONSTANTS
  Timed = FALSE
  MaxRecords = 8
  Delay = 2
  MaxDelay = 5
  MaxConnections = 2
INVARIANT RunsUntilStopped
CHECK_DEADLOCK FALSE
