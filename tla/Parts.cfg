CONSTANTS
  LogRoom = 2
  MaxSize = 1
  Keep = 2
  MaxPerMin = 2
  MaxEvents = 7
  MaxMinutes = 2
  MaxKills = 1
  MaxDiskFaults = 1
  Sources = {a, b, c}
  Classes = {x, y}
  MaxSources = 2
  MaxDatagrams = 4
  Workers = {w1, w2}
  TTLs = {1, 2, 3}
  LearnAfter = 2
  RelearnAfter = 3
  MaxChecks = 6
  MaxRoams = 1
  Receivers = {r1, r2}
  RebaseGap = 10
  LossFloor = 1
  MaxSent = 3
  MaxRestarts = 1
  MaxTicks = 2
  Width = 4
  MaxMoved = 5
  MaxFailed = 2
  Sizes = {0, 2, 3}
  MaxMessage = 4
  MaxControl = 2
  MaxFrames = 4
  Hoppers = {h1, h2}
  Configured <- HopList
  FirstEpoch = 0
  RxRoom = 1
  MaxSends = 3
  MaxEpochs = 1
  MaxSteps = 2
  Lengths = {1, 2}
  MaxSegments = 3
  MaxBytes = 4
  SlotSize = 1
  MaxPackets = 4
  Pumps = {p1, p2}
  Rate = 2
  Burst = 3
  MinSleep = 1
  MaxNeed = 5
  MaxTime = 5
  Pools <- IdPools
  All = All
  MaxRuns = 3
  MaxFaults = 4
  Known <- IdLists
  SeenIds = {0, 7, 8, 9}
  HeaderWords = {4, 5, 6}
  PacketLens = {0, 19, 20, 21, 22, 25, 26, 27, 28, 32, 43, 44, 48}
  Silence = 1
  RatesKept = 3
  RatesNeeded = 2
  RatesRecent = 1
  BusyRate = 1
  Bursts = {1, 7}
  MaxNow = 3
  MaxSettings = 1
  MaxArrivals = 2
  MaxTurns = 4
  Seqs <- MCSeqs
  MaxSeq = 10
  Requested = 3
  WordBits = 2
  DefaultSize = 4
SPECIFICATION Spec
INVARIANTS PartsTypeOK
INVARIANTS HistoryKept EveryEventAccounted StrangersCounted LossNotInvented KernelDropsTold
INVARIANTS MessagesIntact FaultsFound AnswersEcho OnSchedule PortsKept DatagramsIntact
INVARIANTS LazyBucketExact RateKept RulesAccounted FilterAgrees
INVARIANTS WindowTypeOK AtMostOnce WindowExact
PROPERTIES BaselineMovesOnARun FindingsEarned KeepsPromise
CHECK_DEADLOCK FALSE
