SPECIFICATION Spec
CONSTANTS
  a = a
  b = b
  c = c
  Voters = {a, b, c}
  VotingWeight <- WeightsLedByA
  MaxVotingWeight = 2
  VoterOrder <- OrderOfThree
  Height = 2
  Faulty = {c}
  FaultyMessages <- Equivocates
  Restarting = {}
  Overlapping = {a}
  Values = {1, 2}
  ValidValues = {1, 2}
  Wanted <- WantedApart
  MayDefer = FALSE
  InOrder = TRUE
  MaxControlRounds = 1
  MaxControlEvidence = 2
  MaxRound = 3
INVARIANTS OneVotePerSlot ResumesFromHeld BoundedEvidence
PROPERTIES DecisionFinal
CHECK_DEADLOCK FALSE
