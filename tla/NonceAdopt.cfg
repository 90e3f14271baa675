CONSTANTS
  Senders = {s1, s2}
  Modulus = 8
  Starts = {0, 1}
  Formats = {TRUE}
  DtlsEpochs = 2
  Replayed = TRUE
  Courtesy = "none"
  Rekeying = FALSE
  MaxPackets = 4
  MaxRestarted = 1
  MaxEpochs = 0
SPECIFICATION NonceSpec
INVARIANT NonceUnique
CHECK_DEADLOCK FALSE
