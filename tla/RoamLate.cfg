CONSTANTS
  Readers = {r1}
  MaxSocks = 2
  Gap = 4
  Grace = 4
  Keepalive = 6
  Transit = 1
  MaxLosses = 1
SPECIFICATION Spec
INVARIANT RoamedBeforeClose
