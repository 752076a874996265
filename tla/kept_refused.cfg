SPECIFICATION Spec
CONSTANTS
  o = o  b = b  c = c  None = None
  Devices <- MCDevices
  Scenarios <- LeavesAlone
  AcknowledgmentLag = 1
  DropSize = 2
  MinCheckpointOperations = 1
  MaxOperations = 9
  MaxConfig = 1
INVARIANT BodyRefuses
CHECK_DEADLOCK FALSE
