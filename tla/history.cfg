SPECIFICATION Spec
CONSTANTS
  a = a
  b = b
  c = c
  Devices = {a, b, c}
  Scenarios <- Histories
  Labels = {1}
  Group = Group
  MaxControlAgreements = 4
CHECK_DEADLOCK FALSE
INVARIANTS TypeOK DecisionsFollowSeal HeldVouched RecordsAgreed
PROPERTIES FollowsHistory AgreementsLast
