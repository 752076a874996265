SPECIFICATION FairSpec
CONSTANTS
  a = a
  b = b
  c = c
  Voters = {a, b, c}
  VotingWeight <- WeightsLedByA
  MaxVotingWeight = 2
  VoterOrder <- OrderOfThree
  Height = 1
  Faulty = {c}
  FaultyMessages <- ProposesInvalid
  Restarting = {}
  Overlapping = {}
  Values = {1, 2}
  ValidValues = {1}
  Wanted <- WantedOne
  MayDefer = TRUE
  InOrder = TRUE
  MaxControlRounds = 2
  MaxControlEvidence = 2
  MaxRound = 2
  SyncRound = 2
PROPERTIES EveryoneDecides KeepsPromise
CHECK_DEADLOCK FALSE
