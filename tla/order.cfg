SPECIFICATION FairSpec
CONSTANTS
  o = o  b = b  c = c  None = None
  Devices <- MCDevices
  Scenarios <- OrderScenarios
  AcknowledgmentLag = 1
  DropSize = 2
  MinCheckpointOperations = 1
  MaxOperations = 9
  MaxConfig = 1
INVARIANTS TypeOK CoversWhatItCarries OwnEditsKept NumberedOnce StableAgree AnswersBounded
PROPERTIES StableFinal StepIsReplay EditsSettle
CHECK_DEADLOCK FALSE
