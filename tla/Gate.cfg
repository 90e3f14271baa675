CONSTANTS
  Workers = {w1, w2}
  Addrs = {d1, d2, s1}
  Dialers = {d1, d2}
  Hold = 1
  MaxHellos = 2
  MaxAuth = 2
  MaxTime = 2
SPECIFICATION Spec
INVARIANTS FiledOnce SilentUntilVouched NoneLeftBehind
PROPERTY EveryHelloFiled
CHECK_DEADLOCK FALSE
