CONSTANTS
  Senders = {s1, s2}
  Modulus = 4
  Starts = {1}
  Formats = {TRUE}
  DtlsEpochs = 2
  Replayed = FALSE
  Courtesy = "brisk"
  Rekeying = FALSE
  MaxPackets = 6
  MaxRestarted = 0
  MaxEpochs = 0
SPECIFICATION NonceSpec
INVARIANT NonceUnique
CHECK_DEADLOCK FALSE
