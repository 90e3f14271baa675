CONSTANTS
  Silence = 1
  RatesKept = 4
  RatesNeeded = 3
  RatesRecent = 1
  BusyRate = 1
  Bursts = {1, 7}
  MaxNow = 5
  MaxSettings = 1
  MaxArrivals = 2
  MaxTurns = 4
SPECIFICATION AlarmSpec
INVARIANT RecoveryHeard
CHECK_DEADLOCK FALSE
