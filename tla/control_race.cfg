SPECIFICATION Spec
CONSTANTS
  a = a
  b = b
  c = c
  Devices = {a, b}
  Scenarios <- OwnersToGroup
  Labels = {1}
  Group = Group
  MaxControlAgreements = 4
CHECK_DEADLOCK FALSE
INVARIANT DecisionsFollowSeal
