CONSTANTS
  LogRoom = 2
  MaxSize = 1
  Keep = 2
  MaxPerMin = 4
  MaxEvents = 3
  MaxMinutes = 0
  MaxKills = 0
  MaxDiskFaults = 0
  Generations = 2
SPECIFICATION LogReportSpec
INVARIANT MostRecentLast
CHECK_DEADLOCK FALSE
