CONSTANTS
  Kinds = {FALSE}
  Rotates = TRUE
  MaxConns = 3
  MaxRotations = 1
  MaxFaults = 0
  Prompt = FALSE
  Slots = 2
SPECIFICATION Spec
PROPERTY DropsOnlyWhatFailed
CHECK_DEADLOCK FALSE
