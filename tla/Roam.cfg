CONSTANTS
  Readers = {r1}
  MaxSocks = 3
  Gap = 5
  Grace = 6
  Keepalive = 2
  Transit = 1
  MaxLosses = 1
SPECIFICATION Spec
INVARIANTS RotationUnnoticed QuietClose
PROPERTY Follows
