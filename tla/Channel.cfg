CONSTANTS
  Sealers = {s1, s2}
  Openers = {o1, o2}
  Intervals = {0, 2}
  MaxSkew = 1
  Transit = 1
  Rate = 3
  Width = 3
  MaxTime = 3
  MaxSeals = 2
  MaxRestarts = 1
  Senders = {n1, n2}
  Modulus = 4
  Starts = {0, 2}
  Formats = {TRUE, FALSE}
  DtlsEpochs = 2
  Replayed = TRUE
  Courtesy = "alone"
  Rekeying = TRUE
  MaxPackets = 5
  MaxRestarted = 1
  MaxEpochs = 1
SYMMETRY Alike
SPECIFICATION SealingSpec
INVARIANTS TypeOK AllHeard CacheIsTrue RepeatsOnlyOnReturn
PROPERTY KeepsChannel
CHECK_DEADLOCK FALSE
