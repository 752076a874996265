SPECIFICATION Spec
CONSTANTS
  o = o  b = b  c = c  None = None
  Devices <- MCDevices
  Scenarios <- HandsOver
  AcknowledgmentLag = 1
  DropSize = 2
  MinCheckpointOperations = 1
  MaxOperations = 9
  MaxConfig = 1
INVARIANT SettledAgree
CHECK_DEADLOCK FALSE
