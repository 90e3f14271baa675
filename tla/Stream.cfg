CONSTANTS
  Kinds = {TRUE, FALSE}
  Rotates = TRUE
  MaxConns = 7
  MaxRotations = 1
  MaxFaults = 1
  Prompt = TRUE
  Slots = 2
SPECIFICATION Spec
INVARIANTS DoneClosedOnce NoLostWakeup NoLeakedSocket
PROPERTY Settles
CHECK_DEADLOCK FALSE
