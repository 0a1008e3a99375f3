SPECIFICATION FairCSpec
CONSTANTS
  Timed = TRUE
  MaxRecords = 8
  Delay = 2
  MaxDelay = 5
  MaxConnections = 4
  Length = 5
  Windows = {1, 2, 3}
  MinLead = 2
  AfterEnd = 1
  Grace = 1
  Wait = 1
  MaxListing = 1
  Deadline = 18
  Seconds = 2
INVARIANTS GapBetweenConnections StopsCleanly BackOff ConsecutiveWindows StopIsHeard
PROPERTY EventuallyEnds
CHECK_DEADLOCK FALSE
