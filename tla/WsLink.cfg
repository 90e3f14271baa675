CONSTANTS
  Window = 1
  MaxConns = 2
  MaxPings = 1
SPECIFICATION Spec
INVARIANT TypeOK
PROPERTY Unwedged
CHECK_DEADLOCK FALSE
