SPECIFICATION FairSpec
CONSTANTS
  a = a  b = b  c = c  r = r  x = x
  Devices = {a, b, r}
  Peers = {a, b, r, x}
  Ranks = {1, 2}
  Scenarios <- MergeScenarios
INVARIANTS TypeOK LatestChangeStands CheckpointStaysOnChain LeaveOnce
PROPERTIES ChangesKept HeadsMeet MembersCanRead
CHECK_DEADLOCK FALSE
