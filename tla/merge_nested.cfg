SPECIFICATION Spec
CONSTANTS
  a = a  b = b  c = c  r = r  x = x
  Devices = {a, b, c}
  Peers = {a, b, c, r, x}
  Ranks = {1, 2, 3}
  Scenarios <- Nested
INVARIANTS AbsorbedCanFollow
CHECK_DEADLOCK FALSE
