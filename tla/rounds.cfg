SPECIFICATION Spec
CONSTANTS
  a = a
  b = b
  c = c
  Voters = {a, b, c}
  VotingWeight <- WeightsLedByA
  MaxVotingWeight = 2
  VoterOrder <- OrderOfThree
  Height = 2
  Faulty = {c}
  FaultyMessages <- SupportsBoth
  Restarting = {a}
  Overlapping = {}
  Values = {1, 2}
  ValidValues = {1, 2}
  Wanted <- WantedApart
  MayDefer = FALSE
  InOrder = TRUE
  MaxControlRounds = 2
  MaxControlEvidence = 2
  MaxRound = 2
INVARIANTS TypeOK VoteLock Agreement CommitsVerify
