------------------------- MODULE ControlRoundsProofs -------------------------
(***************************************************************************)
(* Theorems about ControlRounds, for every group, every weighing, every    *)
(* set of values and messages and every bound.                             *)
(***************************************************************************)
EXTENDS ControlRounds, FiniteSetTheorems, FunctionTheorems, WellFoundedInduction, TLAPS

(* Rounds are numbers: the least and the greatest of a set of them.        *)

\* A nonempty set of naturals has a least element.
LEMMA LeastRound ==
  ASSUME NEW S \in SUBSET Nat, S # {}
  PROVE  \E s \in S : \A t \in S : s <= t
<1> DEFINE upTo == {1..s : s \in S}
<1>1. \A s \in S : 1..s \in FiniteSubsetsOf(Nat)
  BY FS_Interval DEF FiniteSubsetsOf
<1>2. upTo \subseteq FiniteSubsetsOf(Nat) /\ upTo # {}
  BY <1>1
<1>3. PICK X \in upTo : \A Y \in upTo : ~ (<<Y, X>> \in StrictSubsetOrdering(Nat))
  BY <1>2, FS_StrictSubsetOrderingWellFounded, WFMin
<1>4. PICK s \in S : X = 1..s
  OBVIOUS
<1>5. ASSUME NEW t \in S, t < s PROVE FALSE
  <2>1. 1..t \in upTo /\ 1..t # 1..s /\ 1..t \subseteq 1..s
    BY <1>5
  <2>2. <<1..t, 1..s>> \in StrictSubsetOrdering(Nat)
    BY <2>1 DEF StrictSubsetOrdering
  <2> QED BY <1>3, <1>4, <2>1, <2>2
<1> QED BY <1>5

\* Max of a nonempty set of naturals up to n is its greatest element.
LEMMA GreatestRound ==
  ASSUME NEW n \in Nat, NEW S \in SUBSET (0..n), S # {}
  PROVE  Max(S) \in S /\ \A t \in S : t <= Max(S)
<1> DEFINE B == {u \in 0..n : \A t \in S : t <= u}
<1>1. B \in SUBSET Nat /\ n \in B
  OBVIOUS
<1>2. PICK u \in B : \A w \in B : u <= w
  <2> HIDE DEF B
  <2> QED BY <1>1, LeastRound
<1>3. u \in S
  <2>1. SUFFICES ASSUME u \notin S PROVE FALSE
    OBVIOUS
  <2>2. \A t \in S : t <= u - 1
    BY <2>1
  <2>3. PICK t \in S : TRUE
    OBVIOUS
  <2>4. u - 1 \in 0..n
    BY <2>2, <2>3
  <2> QED BY <1>2, <2>2, <2>4
<1>4. \E x \in S : \A y \in S : x >= y
  BY <1>3
<1> HIDE DEF B
<1>5. Max(S) \in S /\ \A y \in S : Max(S) >= y
  BY <1>4 DEF Max
<1> QED BY <1>5

-----------------------------------------------------------------------------
(* Messages.                                                               *)

\* The fields of a message, and that a vote is its type, voter, round and value.
LEMMA MessageFields ==
  ASSUME NEW m \in Messages
  PROVE  /\ m.type \in Steps /\ m.voter \in Voters /\ m.round \in Rounds
         /\ m.value \in Values \cup {Nil} /\ m.validRound \in 0..MaxRound
         /\ m.type = "PROPOSAL" => m.value # Nil /\ m.validRound < m.round
         /\ m = [type |-> m.type, voter |-> m.voter, round |-> m.round,
                 value |-> m.value, validRound |-> m.validRound]
         /\ m.type # "PROPOSAL" => m.validRound = 0
  BY DEF Messages

LEMMA VoteIsItsFields ==
  ASSUME NEW m \in Messages, NEW n \in Messages, m.type # "PROPOSAL",
         m.type = n.type, m.voter = n.voter, m.round = n.round, m.value = n.value
  PROVE  m = n
  BY MessageFields

\* A vote a driver makes is a message.
LEMMA VoteIsMessage ==
  ASSUME NEW v \in Voters, NEW type \in Steps \ {"PROPOSAL"}, NEW r \in Rounds,
         NEW x \in Values \cup {Nil}
  PROVE  /\ vote(v, type, r, x) \in Messages
         /\ vote(v, type, r, x).type = type /\ vote(v, type, r, x).voter = v
         /\ vote(v, type, r, x).round = r /\ vote(v, type, r, x).value = x
  BY BoundsAssumption DEF vote, Messages, Steps

-----------------------------------------------------------------------------
(* The lock and the rounds a state keeps.                                  *)

\* The rounds of a voter's messages are rounds.
LEMMA RoundsOfType ==
  ASSUME NEW M \in SUBSET Messages, NEW p
  PROVE  roundsOf(M, p) \in SUBSET (0..MaxRound) /\ roundsOf(M, p) \subseteq Rounds
  BY MessageFields, BoundsAssumption DEF roundsOf, Rounds

\* A voter with a non-nil precommit has a lock, no lower than that precommit.
LEMMA LockExists ==
  ASSUME NEW M \in SUBSET Messages, NEW p, NEW m \in M,
         m.voter = p, m.type = "PRECOMMIT", m.value # Nil
  PROVE  \E l \in lock(M, p) : m.round <= l.round
<1> DEFINE pre == {n \in M : n.voter = p /\ n.type = "PRECOMMIT" /\ n.value # Nil}
           top == {n \in pre : \A o \in pre : o.round <= n.round}
           S   == {n.round : n \in pre}
<1>1. S \in SUBSET (0..MaxRound) /\ S # {} /\ MaxRound \in Nat
  BY MessageFields, BoundsAssumption DEF Rounds
<1>2. PICK n \in pre : n.round = Max(S)
  <2> HIDE DEF S
  <2>1. Max(S) \in S
    BY <1>1, GreatestRound
  <2> QED BY <2>1 DEF S
<1>3. \A t \in S : t <= Max(S)
  <2> HIDE DEF S
  <2> QED BY <1>1, GreatestRound
<1>4. n \in top
  BY <1>2, <1>3
<1>5. lock(M, p) = {CHOOSE o \in top : TRUE} /\ (CHOOSE o \in top : TRUE) \in top
  BY <1>4 DEF lock
<1> QED BY <1>5

\* The lock is a non-nil precommit of the voter.
LEMMA LockIsPrecommit ==
  ASSUME NEW M, NEW p, NEW l \in lock(M, p)
  PROVE  l \in M /\ l.voter = p /\ l.type = "PRECOMMIT" /\ l.value # Nil
<1> DEFINE pre == {n \in M : n.voter = p /\ n.type = "PRECOMMIT" /\ n.value # Nil}
           top == {n \in pre : \A o \in pre : o.round <= n.round}
<1>1. top # {} /\ l = CHOOSE o \in top : TRUE
  BY DEF lock
<1> QED BY <1>1

\* Dropping rounds keeps a message of the voter's highest round.
LEMMA TrimKeepsTop ==
  ASSUME NEW M \in SUBSET Messages, NEW p, NEW m \in M
  PROVE  \E n \in trimControlRounds(M, p) : n.voter = m.voter /\ m.round <= n.round
                                            /\ (n = m \/ m.round < n.round)
<1>1. CASE m.voter # p
  BY <1>1, MessageFields DEF trimControlRounds, Rounds
<1>2. CASE m.voter = p
  <2> DEFINE R == roundsOf(M, p)
  <2>1. R \in SUBSET (0..MaxRound) /\ R # {} /\ MaxRound \in Nat
    BY <1>2, RoundsOfType, BoundsAssumption DEF roundsOf
  <2>2. Max(R) \in R /\ \A t \in R : t <= Max(R)
    <3> HIDE DEF R
    <3> QED BY <2>1, GreatestRound
  <2>3. {r \in R : r > Max(R)} = {}
    BY <2>1, <2>2
  <2>4. Cardinality({r \in R : r > Max(R)}) < MaxControlRounds
    BY <2>3, FS_EmptySet, BoundsAssumption
  <2>5. ASSUME NEW n \in M, n.voter = p, n.round = Max(R)
        PROVE  n \in trimControlRounds(M, p)
    BY <2>4, <2>5 DEF trimControlRounds
  <2>6. PICK w \in M : w.voter = p /\ w.round = Max(R)
    BY <2>2 DEF roundsOf
  <2>7. m.round \in R
    BY <1>2 DEF roundsOf
  <2>8. CASE m.round = Max(R)
    BY <2>8, <2>5, <1>2, MessageFields DEF Rounds
  <2>9. CASE m.round < Max(R)
    BY <2>9, <2>5, <2>6, <1>2, MessageFields DEF Rounds
  <2> QED BY <2>1, <2>2, <2>7, <2>8, <2>9
<1> QED BY <1>1, <1>2

\* Dropping rounds keeps a voter's lock.
LEMMA TrimKeepsLock ==
  ASSUME NEW M \in SUBSET Messages, NEW p, NEW m \in M,
         m.type = "PRECOMMIT", m.value # Nil
  PROVE  \E n \in trimControlRounds(M, p) :
           n.voter = m.voter /\ n.type = "PRECOMMIT" /\ n.value # Nil /\ m.round <= n.round
<1>1. CASE m.voter # p
  BY <1>1, MessageFields DEF trimControlRounds, Rounds
<1>2. CASE m.voter = p
  <2>1. PICK l \in lock(M, p) : m.round <= l.round
    BY <1>2, LockExists
  <2>2. l \in M /\ l.voter = p /\ l.type = "PRECOMMIT" /\ l.value # Nil
    BY <2>1, LockIsPrecommit
  <2>3. l \in trimControlRounds(M, p)
    BY <2>1, <2>2 DEF trimControlRounds
  <2> QED BY <1>2, <2>1, <2>2, <2>3
<1> QED BY <1>1, <1>2

\* Adding a message adds nothing else, and takes a message only if admitted.
LEMMA AddIsBounded ==
  ASSUME NEW M, NEW m
  PROVE  AddControlMessage(M, m) \subseteq M \cup {m}
  BY DEF AddControlMessage, trimControlRounds

\* What a state held, or admits now, it holds after the addition, or a message
\* of the same voter of a later round.
LEMMA AddKeepsTop ==
  ASSUME NEW M \in SUBSET Messages, NEW m \in Messages,
         NEW n \in M \cup {m}, n \in M \/ admits(M, m)
  PROVE  \E o \in AddControlMessage(M, m) : o.voter = n.voter /\ n.round <= o.round
                                             /\ (o = n \/ n.round < o.round)
<1>1. CASE admits(M, m)
  BY <1>1, TrimKeepsTop, M \cup {m} \in SUBSET Messages DEF AddControlMessage
<1>2. CASE ~ admits(M, m)
  BY <1>2, MessageFields DEF AddControlMessage, Rounds
<1> QED BY <1>1, <1>2

\* So it is with locks.
LEMMA AddKeepsLock ==
  ASSUME NEW M \in SUBSET Messages, NEW m \in Messages,
         NEW n \in M \cup {m}, n \in M \/ admits(M, m),
         n.type = "PRECOMMIT", n.value # Nil
  PROVE  \E l \in AddControlMessage(M, m) :
           l.voter = n.voter /\ l.type = "PRECOMMIT" /\ l.value # Nil /\ n.round <= l.round
<1>1. CASE admits(M, m)
  BY <1>1, TrimKeepsLock, M \cup {m} \in SUBSET Messages DEF AddControlMessage
<1>2. CASE ~ admits(M, m)
  BY <1>2, MessageFields DEF AddControlMessage, Rounds
<1> QED BY <1>1, <1>2

-----------------------------------------------------------------------------
(* Weights.                                                                *)

votes(S) == {w \in S \X (1..MaxVotingWeight) : w[2] <= VotingWeight[w[1]]}

LEMMA WeightType ==
  ASSUME NEW S \in SUBSET Voters
  PROVE  IsFiniteSet(votes(S)) /\ voterWeight(S) = Cardinality(votes(S)) /\ voterWeight(S) \in Nat
<1>1. IsFiniteSet(S)
  BY VotersAssumption, FS_Subset
<1>2. IsFiniteSet(1..MaxVotingWeight)
  BY VotersAssumption, FS_Interval
<1>3. IsFiniteSet(S \X (1..MaxVotingWeight))
  BY <1>1, <1>2, FS_Product
<1>4. votes(S) \in SUBSET (S \X (1..MaxVotingWeight))
  BY DEF votes
<1>5. IsFiniteSet(votes(S))
  BY <1>3, <1>4, FS_Subset
<1> QED BY <1>5, FS_CardinalityType DEF votes, voterWeight

\* More voters weigh no less.
LEMMA WeightMonotone ==
  ASSUME NEW T \in SUBSET Voters, NEW S \in SUBSET T
  PROVE  voterWeight(S) <= voterWeight(T)
<1>1. votes(S) \in SUBSET votes(T)
  BY DEF votes
<1>2. S \in SUBSET Voters
  OBVIOUS
<1>3. Cardinality(votes(S)) <= Cardinality(votes(T))
  BY <1>1, WeightType, FS_Subset
<1> QED BY <1>2, <1>3, WeightType

\* A quorum of more voters is a quorum.
LEMMA QuorumMonotone ==
  ASSUME NEW T \in SUBSET Voters, NEW S \in SUBSET T, HasQuorum(voterWeight(S))
  PROVE  HasQuorum(voterWeight(T))
  BY WeightMonotone, WeightType DEF HasQuorum, TotalVotingWeight

\* While a minority is faulty, two quorums share a correct voter.
LEMMA QuorumsShareCorrect ==
  ASSUME NEW S \in SUBSET Voters, NEW T \in SUBSET Voters, FaultyMinority,
         HasQuorum(voterWeight(S)), HasQuorum(voterWeight(T))
  PROVE  \E v \in Correct : v \in S /\ v \in T
<1>1. SUFFICES ASSUME S \cap T \subseteq Voters \ Correct PROVE FALSE
  OBVIOUS
<1>2. votes(S) \cap votes(T) = votes(S \cap T) /\ votes(S) \cup votes(T) = votes(S \cup T)
  BY DEF votes
<1>3. voterWeight(S \cup T) = voterWeight(S) + voterWeight(T) - voterWeight(S \cap T)
  <2>1. Cardinality(votes(S) \cup votes(T))
          = Cardinality(votes(S)) + Cardinality(votes(T)) - Cardinality(votes(S) \cap votes(T))
    BY WeightType, FS_Union
  <2>2. S \cup T \in SUBSET Voters /\ S \cap T \in SUBSET Voters
    OBVIOUS
  <2> QED BY <1>2, <2>1, <2>2, WeightType
<1>4. voterWeight(S \cup T) <= voterWeight(Voters)
  BY WeightMonotone
<1>5. voterWeight(S \cap T) <= voterWeight(Voters \ Correct)
  BY <1>1, WeightMonotone
<1>6. /\ voterWeight(S) \in Nat /\ voterWeight(T) \in Nat /\ voterWeight(S \cap T) \in Nat
      /\ voterWeight(S \cup T) \in Nat /\ voterWeight(Voters) \in Nat
      /\ voterWeight(Voters \ Correct) \in Nat
  BY WeightType
<1> QED BY <1>3, <1>4, <1>5, <1>6 DEF HasQuorum, FaultyMinority, TotalVotingWeight

\* No voters are no quorum.
LEMMA QuorumNotEmpty ==
  ASSUME NEW S \in SUBSET Voters, HasQuorum(voterWeight(S))
  PROVE  S # {}
<1>1. SUFFICES ASSUME S = {} PROVE FALSE
  OBVIOUS
<1>2. votes(S) = {}
  BY <1>1 DEF votes
<1>3. voterWeight(S) = 0
  BY <1>2, WeightType, FS_EmptySet
<1>4. voterWeight(Voters) \in Nat
  BY WeightType
<1> QED BY <1>3, <1>4 DEF HasQuorum, TotalVotingWeight

\* A quorum among messages is one among more messages.
LEMMA QuorumGrows ==
  ASSUME NEW N \in SUBSET Messages, NEW M \in SUBSET N, NEW type, NEW r, NEW x,
         quorum(M, type, r, x)
  PROVE  quorum(N, type, r, x)
<1>1. signers(votesFor(N, type, r, x)) \in SUBSET Voters
  BY MessageFields DEF signers, votesFor
<1>2. signers(votesFor(M, type, r, x)) \in SUBSET signers(votesFor(N, type, r, x))
  BY DEF signers, votesFor
<1> QED BY <1>1, <1>2, QuorumMonotone DEF quorum

-----------------------------------------------------------------------------
(* Types.                                                                  *)

LEMMA HonestVote ==
  /\ Honest \subseteq Voters /\ Correct \subseteq Honest /\ Overlapping \subseteq Honest
  /\ FaultyMessages \subseteq Messages
  /\ \A m \in FaultyMessages : m.voter \notin Honest
  BY VotersAssumption, ValuesAssumption DEF Honest, Correct

\* The round a step resumes in is a round, no earlier than any the voter knows.
LEMMA CurrentRoundIsGreatest ==
  ASSUME TypeOK, NEW v \in Honest
  PROVE  /\ currentRound(v) \in Rounds
         /\ \A m \in held[v] : m.voter = v => m.round <= currentRound(v)
<1> DEFINE S == {1, round[v]} \cup roundsOf(held[v], v)
<1>1. S \in SUBSET (0..MaxRound) /\ 1 \in S /\ MaxRound \in Nat
  BY RoundsOfType, BoundsAssumption DEF TypeOK
<1>2. Max(S) \in S /\ \A t \in S : t <= Max(S)
  <2> HIDE DEF S
  <2> QED BY <1>1, GreatestRound
<1>3. \A m \in held[v] : m.voter = v => m.round \in S
  BY DEF roundsOf
<1>4. currentRound(v) = Max(S)
  BY DEF currentRound
<1> QED BY <1>1, <1>2, <1>3, <1>4 DEF Rounds

\* The messages a step leaves to sign are the voter's own, of its round.
LEMMA ProposalIsOwn ==
  ASSUME TypeOK, NEW v \in Honest, NEW J, NEW p \in proposals(v, J)
  PROVE  p \in Messages /\ p.voter = v /\ p.type = "PROPOSAL" /\ p.round = currentRound(v)
<1> DEFINE r == currentRound(v)
           won == roundValidValue(held[v], r, J)
           make(x, vr) == [type |-> "PROPOSAL", voter |-> v, round |-> r,
                           value |-> x, validRound |-> vr]
<1>1. r \in Rounds /\ v \in Voters
  BY CurrentRoundIsGreatest, HonestVote
<1>2. CASE won # {}
  <2>1. PICK m \in won : p = make(m.value, m.round)
    BY <1>2 DEF proposals
  <2>2. m \in Messages /\ m.type = "PROPOSAL" /\ m.round < r
    BY <2>1 DEF roundValidValue, TypeOK
  <2>3. m.value \in Values \cup {Nil} /\ m.value # Nil /\ m.round \in 0..MaxRound
    BY <2>2, MessageFields, BoundsAssumption DEF Rounds
  <2> QED BY <1>1, <2>1, <2>2, <2>3 DEF Messages, Steps
<1>3. CASE won = {}
  <2>1. PICK x \in Wanted[v] : p = make(x, 0)
    BY <1>3 DEF proposals
  <2>2. x \in Values /\ x # Nil /\ 0 < r
    BY <1>1, ValuesAssumption, BoundsAssumption DEF Nil, Rounds
  <2>3. 0 \in 0..MaxRound
    BY BoundsAssumption
  <2> QED BY <1>1, <2>1, <2>2, <2>3 DEF Messages, Steps
<1> QED BY <1>2, <1>3

\* What the driver leaves to sign, as one formula over every step that signs.
signs(v, m) ==
  \E J \in Judgments :
    \/ InRound(v) /\ proposes(v) /\ m \in proposals(v, J)
    \/ /\ InPrevote(v, J)
       /\ \E p \in judged(v, J) : \E x \in {p.value, Nil} :
            /\ x = p.value => unlockedFor(v, p) /\ J[p.value] = "valid"
            /\ m = vote(v, "PREVOTE", currentRound(v), x)
    \/ InPrevote(v, J) /\ m = vote(v, "PREVOTE", currentRound(v), Nil)
    \/ /\ InPrecommit(v)
       /\ \E p \in lockable(v, J) : m = vote(v, "PRECOMMIT", currentRound(v), p.value)
    \/ InPrecommit(v) /\ m = vote(v, "PRECOMMIT", currentRound(v), Nil)

LEMMA JudgedIsProposal ==
  ASSUME TypeOK, NEW v \in Honest, NEW J, NEW p \in judged(v, J) \cup lockable(v, J)
  PROVE  p \in held[v] /\ p \in Messages /\ p.type = "PROPOSAL" /\ p.round = currentRound(v)
         /\ p.value \in Values /\ p.value # Nil
<1>1. p \in held[v] /\ p.type = "PROPOSAL" /\ p.round = currentRound(v)
  BY DEF judged, lockable, roundProposal
<1>2. p \in Messages
  BY <1>1 DEF TypeOK
<1> QED BY <1>1, <1>2, MessageFields

LEMMA SignedIsOwn ==
  ASSUME TypeOK, NEW v \in Honest, NEW m, signs(v, m)
  PROVE  m \in Messages /\ m.voter = v /\ m.round = currentRound(v)
<1>1. currentRound(v) \in Rounds /\ v \in Voters
  BY CurrentRoundIsGreatest, HonestVote
<1>2. "PREVOTE" \in Steps \ {"PROPOSAL"} /\ "PRECOMMIT" \in Steps \ {"PROPOSAL"}
  BY DEF Steps
<1>3. PICK J \in Judgments :
        \/ m \in proposals(v, J)
        \/ \E p \in judged(v, J) : \E x \in {p.value, Nil} : m = vote(v, "PREVOTE", currentRound(v), x)
        \/ m = vote(v, "PREVOTE", currentRound(v), Nil)
        \/ \E p \in lockable(v, J) : m = vote(v, "PRECOMMIT", currentRound(v), p.value)
        \/ m = vote(v, "PRECOMMIT", currentRound(v), Nil)
  BY DEF signs
<1>4. CASE m \in proposals(v, J)
  BY <1>4, ProposalIsOwn
<1>5. ASSUME NEW p \in judged(v, J), NEW x \in {p.value, Nil},
             m = vote(v, "PREVOTE", currentRound(v), x)
      PROVE  m \in Messages /\ m.voter = v /\ m.round = currentRound(v)
  <2>1. x \in Values \cup {Nil}
    BY JudgedIsProposal
  <2> QED BY <1>1, <1>2, <1>5, <2>1, VoteIsMessage
<1>6. ASSUME NEW p \in lockable(v, J), m = vote(v, "PRECOMMIT", currentRound(v), p.value)
      PROVE  m \in Messages /\ m.voter = v /\ m.round = currentRound(v)
  <2>1. p.value \in Values \cup {Nil}
    BY JudgedIsProposal
  <2> QED BY <1>1, <1>2, <1>6, <2>1, VoteIsMessage
<1>7. CASE m = vote(v, "PREVOTE", currentRound(v), Nil)
  BY <1>1, <1>2, <1>7, VoteIsMessage
<1>8. CASE m = vote(v, "PRECOMMIT", currentRound(v), Nil)
  BY <1>1, <1>2, <1>8, VoteIsMessage
<1> QED BY <1>3, <1>4, <1>5, <1>6, <1>7, <1>8

\* The steps of a driver: it decides, moves to a round, or signs one message.
LEMMA StepCases ==
  ASSUME NEW v \in Honest, Step(v)
  PROVE  \/ Decide(v)
         \/ \E r \in Rounds \cup {currentRound(v) + 1} :
              enterRound(v, r) /\ (r \in skipTargets(held[v], currentRound(v))
                                   \/ currentRound(v) < MaxRound)
         \/ \E m : signs(v, m) /\ Ready(v) /\ output(v, m)
<1>1. CASE Decide(v)
  BY <1>1
<1>2. CASE SkipRound(v)
  <2>1. skipTargets(held[v], currentRound(v)) \in SUBSET (0..MaxRound) /\ MaxRound \in Nat
    BY BoundsAssumption DEF skipTargets, Rounds
  <2>2. Max(skipTargets(held[v], currentRound(v))) \in skipTargets(held[v], currentRound(v))
    BY <1>2, <2>1, GreatestRound DEF SkipRound
  <2> QED BY <1>2, <2>2 DEF SkipRound, skipTargets
<1>3. CASE EndRound(v)
  BY <1>3 DEF EndRound
<1>4. ASSUME NEW J \in Judgments, Propose(v, J)
      PROVE  \E m : signs(v, m) /\ Ready(v) /\ output(v, m)
  BY <1>4 DEF Propose, signs, InRound, Active
<1>5. ASSUME NEW J \in Judgments, Prevote(v, J)
      PROVE  \E m : signs(v, m) /\ Ready(v) /\ output(v, m)
  <2>1. PICK p \in judged(v, J) :
          LET x == IF J[p.value] = "valid" /\ unlockedFor(v, p) THEN p.value ELSE Nil
          IN output(v, vote(v, "PREVOTE", currentRound(v), x))
    BY <1>5 DEF Prevote
  <2> DEFINE x == IF J[p.value] = "valid" /\ unlockedFor(v, p) THEN p.value ELSE Nil
  <2>2. InPrevote(v, J) /\ Ready(v)
    BY <1>5 DEF Prevote, InPrevote, InRound, Active
  <2>3. CASE J[p.value] = "valid" /\ unlockedFor(v, p)
    BY <2>1, <2>2, <2>3 DEF signs
  <2>4. CASE ~ (J[p.value] = "valid" /\ unlockedFor(v, p))
    BY <2>1, <2>2, <2>4 DEF signs
  <2> QED BY <2>3, <2>4
<1>6. ASSUME NEW J \in Judgments, PrevoteTimeout(v, J)
      PROVE  \E m : signs(v, m) /\ Ready(v) /\ output(v, m)
  BY <1>6 DEF PrevoteTimeout, awaitsProposal, signs, InPrevote, InRound, Active
<1>7. ASSUME NEW J \in Judgments, Precommit(v, J)
      PROVE  \E m : signs(v, m) /\ Ready(v) /\ output(v, m)
  BY <1>7 DEF Precommit, signs, InPrecommit, InRound, Active
<1>8. ASSUME NEW J \in Judgments, PrecommitNil(v, J)
      PROVE  \E m : signs(v, m) /\ Ready(v) /\ output(v, m)
  BY <1>8 DEF PrecommitNil, signs, InPrecommit, InRound, Active
<1> QED BY <1>1, <1>2, <1>3, <1>4, <1>5, <1>6, <1>7, <1>8 DEF Step

\* A voter's messages of a pool that holds it are messages, votes for a value too.
LEMMA PoolType ==
  ASSUME TypeOK
  PROVE  pool \subseteq Messages /\ \A v \in Honest : held[v] \subseteq Messages
  BY HonestVote DEF TypeOK, pool

LEMMA AddOwnType ==
  ASSUME TypeOK, NEW v \in Honest, NEW m \in Messages, m.voter = v, addOwn(v, m)
  PROVE  /\ held' \in [Honest -> SUBSET Messages]
         /\ sent' \subseteq {n \in Messages : n.voter \in Honest}
<1>1. AddControlMessage(held[v], m) \subseteq Messages
  BY AddIsBounded DEF TypeOK
<1> QED BY <1>1 DEF TypeOK, addOwn

LEMMA TypeStep ==
  ASSUME TypeOK, [Next]_vars
  PROVE  TypeOK'
<1>1. CASE UNCHANGED vars
  BY <1>1 DEF TypeOK, vars
<1>2. ASSUME NEW v \in Honest, Step(v) PROVE TypeOK'
  <2>1. CASE Decide(v)
    <3>1. PICK p \in decidable(held[v]) :
            adopt(v, p.value, votesFor(held[v], "PRECOMMIT", p.round, p.value))
      BY <2>1 DEF Decide
    <3>2. p \in Messages /\ votesFor(held[v], "PRECOMMIT", p.round, p.value) \in SUBSET Messages
      BY PoolType DEF decidable, votesFor
    <3>3. p.value \in Values \cup {Nil}
      BY <3>2, MessageFields
    <3>4. 0 \in 0..MaxRound
      BY BoundsAssumption
    <3> QED BY <2>1, <3>1, <3>2, <3>3, <3>4 DEF Decide, adopt, resetDriver, TypeOK
  <2>2. ASSUME NEW r \in Rounds \cup {currentRound(v) + 1}, enterRound(v, r),
               r \in skipTargets(held[v], currentRound(v)) \/ currentRound(v) < MaxRound
        PROVE  TypeOK'
    <3>1. r \in 0..MaxRound
      BY <2>2, CurrentRoundIsGreatest, BoundsAssumption DEF skipTargets, Rounds
    <3> QED BY <2>2, <3>1 DEF enterRound, TypeOK
  <2>3. ASSUME NEW m, signs(v, m), output(v, m) PROVE TypeOK'
    <3>1. m \in Messages /\ m.voter = v
      BY <2>3, SignedIsOwn
    <3> QED BY <2>3, <3>1 DEF output, driver, TypeOK
  <2> QED BY <1>2, <2>1, <2>2, <2>3, StepCases
<1>3. ASSUME NEW v \in Honest, Send(v) PROVE TypeOK'
  <2>1. PICK m \in pending[v] : addOwn(v, m)
    BY <1>3 DEF Send
  <2>2. m \in Messages /\ m.voter = v
    BY DEF TypeOK
  <2> QED BY <1>3, <2>1, <2>2, AddOwnType DEF Send, driver, TypeOK
<1>4. ASSUME NEW v \in Honest, LateSend(v) PROVE TypeOK'
  <2>1. PICK m \in leaving[v] : addOwn(v, m)
    BY <1>4 DEF LateSend
  <2>2. m \in Messages /\ m.voter = v
    BY DEF TypeOK
  <2> QED BY <1>4, <2>1, <2>2, AddOwnType DEF LateSend, driver, TypeOK
<1>5. ASSUME NEW v \in Honest, NEW J \in Judgments, Expire(v, J) PROVE TypeOK'
  <2>1. PICK step \in Steps : expired' = [expired EXCEPT ![v] = @ \cup {<<step, currentRound(v)>>}]
    BY <1>5 DEF Expire, dueTimers
  <2>2. expired[v] \cup {<<step, currentRound(v)>>} \in SUBSET (Steps \X Rounds)
    BY CurrentRoundIsGreatest DEF TypeOK
  <2>3. expired' \in [Honest -> SUBSET (Steps \X Rounds)]
    BY <2>1, <2>2 DEF TypeOK
  <2> QED BY <1>5, <2>3 DEF Expire, TypeOK
<1>6. ASSUME NEW v \in Honest, NEW m \in sent \cup FaultyMessages, Receive(v, m) PROVE TypeOK'
  <2>1. m \in Messages
    BY PoolType DEF pool
  <2>2. AddControlMessage(held[v], m) \subseteq Messages
    BY <2>1, AddIsBounded DEF TypeOK
  <2> QED BY <1>6, <2>2 DEF Receive, driver, TypeOK
<1>7. ASSUME NEW v \in Honest, ImportDecision(v) PROVE TypeOK'
  <2>1. PICK C \in shownCommits, x \in Values : adopt(v, x, C)
    BY <1>7 DEF ImportDecision
  <2>2. C \in SUBSET Messages
    BY PoolType DEF shownCommits, votesFor, pool, TypeOK
  <2>3. 0 \in 0..MaxRound
    BY BoundsAssumption
  <2> QED BY <1>7, <2>1, <2>2, <2>3 DEF ImportDecision, adopt, resetDriver, TypeOK
<1>8. ASSUME NEW v \in Honest, Restart(v) \/ Reattach(v) PROVE TypeOK'
  <2>1. 0 \in 0..MaxRound
    BY BoundsAssumption
  <2>2. CASE Restart(v)
    BY <2>1, <2>2 DEF Restart, resetDriver, TypeOK
  <2>3. CASE Reattach(v)
    BY <2>1, <2>3 DEF Reattach, resetDriver, TypeOK
  <2> QED BY <1>8, <2>2, <2>3
<1> QED BY <1>1, <1>2, <1>3, <1>4, <1>5, <1>6, <1>7, <1>8 DEF Next

LEMMA TypeInit == Init => TypeOK
  BY BoundsAssumption DEF Init, TypeOK

\* The types hold in every state of every group.
THEOREM TypeCorrect == Spec => []TypeOK
  BY TypeInit, TypeStep, PTL DEF Spec

-----------------------------------------------------------------------------
(* The inductive invariant. The properties speak of the messages correct   *)
(* voters sent. They are inductive with what a state still shows of them:  *)
(* each own message, or one of a later round, and the lock, so that what a *)
(* step reads of its own state bounds everything its voter ever sent.      *)

\* States hold only what exists.
HeldInPool == \A v \in Honest : held[v] \subseteq pool

\* Each message of v in M is in N, or one of a later round is, and N holds a
\* non-nil precommit of v no lower than any in M.
keepsOwn(M, N, v) ==
  \A m \in M : m.voter = v =>
    /\ \E n \in N : n.voter = v /\ m.round <= n.round /\ (n = m \/ m.round < n.round)
    /\ m.type = "PRECOMMIT" /\ m.value # Nil =>
         \E l \in N : /\ l.voter = v /\ l.type = "PRECOMMIT" /\ l.value # Nil
                      /\ m.round <= l.round

\* v's state keeps what v sent.
OwnHeld(v) == keepsOwn(sent, held[v], v)

\* The lock of v allows its prevote m.
lockAllows(v, m) ==
  \A l \in sent :
    /\ l.voter = v /\ l.type = "PRECOMMIT" /\ l.value # Nil
    /\ l.round < m.round /\ l.value # m.value
    => \E r \in Rounds : l.round <= r /\ r < m.round /\ polka(r, m.value)

\* v prevoted in round r.
prevoted(v, r) == \E n \in sent : n.voter = v /\ n.type = "PREVOTE" /\ n.round = r

\* The message v is about to add still follows the rules.
PendingFits(v) ==
  \A m \in pending[v] :
    /\ \A n \in sent : n.voter = v => n.round <= m.round
    /\ m.type = "PREVOTE" /\ m.value # Nil => lockAllows(v, m)
    /\ m.type = "PRECOMMIT" => prevoted(v, m.round) /\ (m.value # Nil => polka(m.round, m.value))

\* v sends one message for a step, and precommits only after it prevoted.
OneSlot(v) ==
  \A m \in sent, n \in sent :
    m.voter = v /\ n.voter = v /\ m.type = n.type /\ m.round = n.round => m = n
PrecommitsAfterPrevote(v) ==
  \A m \in sent : m.voter = v /\ m.type = "PRECOMMIT" => prevoted(v, m.round)

\* What is invariant of each correct voter.
VoterInv(v) ==
  /\ leaving[v] = {}
  /\ controlOpen(v) => OwnHeld(v) /\ PendingFits(v)
  /\ OneSlot(v)
  /\ PrecommitsAfterPrevote(v)
  /\ keepsLock(v)

\* Applied commits are verified and made of what exists.
CommitsShown == \A v \in Honest : commit[v] \subseteq pool

IndInv ==
  /\ TypeOK
  /\ HeldInPool
  /\ CommitsShown
  /\ CommitsVerify
  /\ \A v \in Correct : VoterInv(v)

\* More messages keep a polka.
LEMMA PolkaGrows ==
  ASSUME TypeOK, TypeOK', sent \subseteq sent', NEW r, NEW x, polka(r, x)
  PROVE  polka(r, x)'
<1>1. pool \in SUBSET pool' /\ pool' \in SUBSET Messages
  BY HonestVote DEF pool, TypeOK
<1>2. quorum(pool', "PREVOTE", r, x)
  BY <1>1, QuorumGrows DEF polka
<1> QED BY <1>2 DEF polka, quorum, HasQuorum, voterWeight, TotalVotingWeight, signers, votesFor

\* A correct voter's own held messages are ones it sent, so all it sent is of
\* no later round than the one a step resumes in.
LEMMA OwnHeldIsSent ==
  ASSUME TypeOK, HeldInPool, NEW v \in Honest, NEW m \in held[v], m.voter = v
  PROVE  m \in sent
  BY HonestVote DEF HeldInPool, pool

LEMMA SentUpToCurrent ==
  ASSUME TypeOK, NEW v \in Honest, OwnHeld(v), NEW m \in sent, m.voter = v
  PROVE  m.round <= currentRound(v)
<1>1. PICK n \in held[v] : n.voter = v /\ m.round <= n.round
  BY DEF OwnHeld, keepsOwn
<1>2. n.round <= currentRound(v) /\ currentRound(v) \in Rounds
  BY <1>1, CurrentRoundIsGreatest
<1>3. n \in Messages /\ m \in Messages
  BY PoolType DEF pool
<1> QED BY <1>1, <1>2, <1>3, MessageFields DEF Rounds

\* A prevote for a proposal that the held lock lets pass keeps the lock rule
\* against every precommit the voter ever sent.
LEMMA PrevoteKeepsLock ==
  ASSUME IndInv, NEW v \in Correct, controlOpen(v), NEW J, InPrevote(v, J),
         NEW p \in judged(v, J), unlockedFor(v, p), NEW m,
         m.round = currentRound(v), m.value = p.value
  PROVE  lockAllows(v, m)
<1>0. TypeOK /\ HeldInPool /\ VoterInv(v) /\ OwnHeld(v) /\ v \in Honest
  BY HonestVote DEF IndInv, VoterInv
<1>1. p \in Messages /\ p.round = m.round /\ p.value # Nil /\ p.type = "PROPOSAL"
  BY <1>0, JudgedIsProposal
<1> SUFFICES ASSUME NEW l \in sent, l.voter = v, l.type = "PRECOMMIT", l.value # Nil,
                    l.round < m.round, l.value # m.value
             PROVE  \E r \in Rounds : l.round <= r /\ r < m.round /\ polka(r, m.value)
  BY DEF lockAllows
<1>2. PICK k \in held[v] : /\ k.voter = v /\ k.type = "PRECOMMIT" /\ k.value # Nil
                           /\ l.round <= k.round
  BY <1>0 DEF OwnHeld, keepsOwn
<1>3. held[v] \in SUBSET Messages /\ pool \in SUBSET Messages /\ l \in Messages
  BY <1>0, PoolType DEF pool
<1>4. PICK h \in lock(held[v], v) : k.round <= h.round
  BY <1>2, <1>3, LockExists
<1>5. h \in held[v] /\ h.voter = v /\ h.type = "PRECOMMIT" /\ h.value # Nil
  BY <1>4, LockIsPrecommit
<1>6. h \in sent /\ h \in Messages /\ k \in Messages
  BY <1>0, <1>3, <1>5, <1>2, OwnHeldIsSent
<1>7. l.round <= h.round /\ h.round \in Rounds
  BY <1>2, <1>3, <1>4, <1>6, MessageFields DEF Rounds
<1>8. CASE h.round <= p.validRound /\ p.validRound # 0
  <2>1. quorum(held[v], "PREVOTE", p.validRound, p.value)
    BY <1>8, <1>1, MessageFields DEF judged, justified
  <2>2. polka(p.validRound, p.value)
    BY <2>1, <1>0, <1>3, QuorumGrows DEF polka, HeldInPool
  <2>3. p.validRound \in Rounds /\ p.validRound < m.round /\ l.round <= p.validRound
    BY <1>1, <1>3, <1>7, <1>8, MessageFields, BoundsAssumption DEF Rounds
  <2> QED BY <2>2, <2>3
<1>9. CASE h.value = p.value
  <2>1. polka(h.round, h.value)
    BY <1>0, <1>5, <1>6 DEF VoterInv, keepsLock
  <2>2. h.round <= m.round
    BY <1>0, <1>5, CurrentRoundIsGreatest
  <2>3. ASSUME h.round = m.round PROVE FALSE
    <3>1. PICK n \in sent : n.voter = v /\ n.type = "PREVOTE" /\ n.round = m.round
      BY <1>0, <1>5, <1>6, <2>3 DEF VoterInv, PrecommitsAfterPrevote, prevoted
    <3>2. PICK o \in held[v] : o.voter = v /\ (o = n \/ n.round < o.round)
      BY <1>0, <3>1 DEF OwnHeld, keepsOwn
    <3>3. o.round <= m.round /\ m.round \in Rounds /\ o.round \in Rounds
      BY <1>0, <1>3, <3>2, CurrentRoundIsGreatest, MessageFields
    <3>4. o = n
      BY <3>1, <3>2, <3>3 DEF Rounds
    <3> QED BY <3>1, <3>2, <3>4 DEF InPrevote, has
  <2>4. h.round < m.round
    BY <2>2, <2>3, <1>7, <1>0, CurrentRoundIsGreatest DEF Rounds
  <2> QED BY <1>7, <1>9, <2>1, <2>4
<1> QED BY <1>4, <1>8, <1>9 DEF unlockedFor

\* What a step leaves to sign follows the rules.
LEMMA SignedFits ==
  ASSUME IndInv, NEW v \in Correct, controlOpen(v), NEW m, signs(v, m)
  PROVE  /\ \A n \in sent : n.voter = v => n.round <= m.round
         /\ m.type = "PREVOTE" /\ m.value # Nil => lockAllows(v, m)
         /\ m.type = "PRECOMMIT" => prevoted(v, m.round) /\ (m.value # Nil => polka(m.round, m.value))
<1>0. TypeOK /\ HeldInPool /\ OwnHeld(v) /\ v \in Honest /\ v \in Voters
  BY HonestVote DEF IndInv, VoterInv
<1>1. m \in Messages /\ m.voter = v /\ m.round = currentRound(v)
  BY <1>0, SignedIsOwn
<1>2. \A n \in sent : n.voter = v => n.round <= m.round
  BY <1>0, <1>1, SentUpToCurrent
<1>3. currentRound(v) \in Rounds
  BY <1>0, CurrentRoundIsGreatest
<1>4. PICK J \in Judgments :
        \/ m \in proposals(v, J)
        \/ /\ InPrevote(v, J)
           /\ \E p \in judged(v, J) : \E x \in {p.value, Nil} :
                /\ x = p.value => unlockedFor(v, p)
                /\ m = vote(v, "PREVOTE", currentRound(v), x)
        \/ m = vote(v, "PREVOTE", currentRound(v), Nil)
        \/ /\ InPrecommit(v)
           /\ \E p \in lockable(v, J) : m = vote(v, "PRECOMMIT", currentRound(v), p.value)
        \/ InPrecommit(v) /\ m = vote(v, "PRECOMMIT", currentRound(v), Nil)
  BY DEF signs
<1>5. InPrecommit(v) => prevoted(v, currentRound(v))
  BY <1>0, OwnHeldIsSent DEF InPrecommit, has, prevoted
<1>6. CASE m \in proposals(v, J)
  BY <1>0, <1>2, <1>6, ProposalIsOwn
<1>7. ASSUME InPrevote(v, J), NEW p \in judged(v, J), NEW x \in {p.value, Nil},
             x = p.value => unlockedFor(v, p), m = vote(v, "PREVOTE", currentRound(v), x)
      PROVE  m.type = "PREVOTE" /\ (m.value # Nil => lockAllows(v, m))
  <2>1. m.type = "PREVOTE" /\ m.value = x
    BY <1>7 DEF vote
  <2>2. CASE x = p.value
    BY <1>1, <1>7, <2>1, <2>2, PrevoteKeepsLock
  <2> QED BY <2>1, <2>2
<1>8. CASE m = vote(v, "PREVOTE", currentRound(v), Nil)
  BY <1>2, <1>8 DEF vote
<1>9. ASSUME InPrecommit(v), NEW p \in lockable(v, J),
             m = vote(v, "PRECOMMIT", currentRound(v), p.value)
      PROVE  m.type = "PRECOMMIT" /\ prevoted(v, m.round) /\ polka(m.round, m.value)
  <2>1. m.type = "PRECOMMIT" /\ m.value = p.value /\ m.round = currentRound(v)
    BY <1>9 DEF vote
  <2>2. quorum(held[v], "PREVOTE", currentRound(v), p.value)
    BY DEF lockable
  <2>3. polka(currentRound(v), p.value)
    BY <2>2, <1>0, PoolType, QuorumGrows DEF polka, HeldInPool
  <2> QED BY <1>5, <1>9, <2>1, <2>3
<1>10. CASE InPrecommit(v) /\ m = vote(v, "PRECOMMIT", currentRound(v), Nil)
  BY <1>2, <1>5, <1>10 DEF vote
<1> QED BY <1>2, <1>4, <1>6, <1>7, <1>8, <1>9, <1>10

LEMMA KeepsOwnItself ==
  ASSUME NEW M \in SUBSET Messages, NEW v
  PROVE  keepsOwn(M, M, v)
  BY MessageFields DEF keepsOwn, Rounds

LEMMA KeepsOwnTransitive ==
  ASSUME NEW L \in SUBSET Messages, NEW M \in SUBSET Messages, NEW N \in SUBSET Messages,
         NEW v, keepsOwn(L, M, v), keepsOwn(M, N, v)
  PROVE  keepsOwn(L, N, v)
<1> SUFFICES ASSUME NEW m \in L, m.voter = v
             PROVE  /\ \E n \in N : n.voter = v /\ m.round <= n.round /\ (n = m \/ m.round < n.round)
                    /\ m.type = "PRECOMMIT" /\ m.value # Nil =>
                         \E l \in N : /\ l.voter = v /\ l.type = "PRECOMMIT" /\ l.value # Nil
                                      /\ m.round <= l.round
  BY DEF keepsOwn
<1>1. \A n \in L \cup M \cup N : n.round \in Nat
  BY MessageFields DEF Rounds
<1>2. \E n \in N : n.voter = v /\ m.round <= n.round /\ (n = m \/ m.round < n.round)
  <2>1. PICK n \in M : n.voter = v /\ m.round <= n.round /\ (n = m \/ m.round < n.round)
    BY DEF keepsOwn
  <2>2. PICK o \in N : o.voter = v /\ n.round <= o.round /\ (o = n \/ n.round < o.round)
    BY <2>1 DEF keepsOwn
  <2> QED BY <1>1, <2>1, <2>2
<1>3. ASSUME m.type = "PRECOMMIT", m.value # Nil
      PROVE  \E l \in N : /\ l.voter = v /\ l.type = "PRECOMMIT" /\ l.value # Nil
                          /\ m.round <= l.round
  <2>1. PICK k \in M : k.voter = v /\ k.type = "PRECOMMIT" /\ k.value # Nil /\ m.round <= k.round
    BY <1>3 DEF keepsOwn
  <2>2. PICK l \in N : l.voter = v /\ l.type = "PRECOMMIT" /\ l.value # Nil /\ k.round <= l.round
    BY <2>1 DEF keepsOwn
  <2> QED BY <1>1, <2>1, <2>2
<1> QED BY <1>2, <1>3

\* A state that adds a message keeps what it held of each voter, and the added
\* message if it admits it.
LEMMA AddKeepsOwn ==
  ASSUME NEW M \in SUBSET Messages, NEW m \in Messages, NEW v
  PROVE  /\ keepsOwn(M, AddControlMessage(M, m), v)
         /\ admits(M, m) => keepsOwn(M \cup {m}, AddControlMessage(M, m), v)
  BY AddKeepsTop, AddKeepsLock DEF keepsOwn

\* A voter that sends nothing in a step, and keeps what it held, keeps its part
\* of the invariant.
LEMMA SilentKeeps ==
  ASSUME IndInv, TypeOK', NEW w \in Correct, sent \subseteq sent',
         \A m \in sent' : m.voter = w => m \in sent,
         leaving'[w] = {}, pending'[w] \subseteq pending[w],
         controlOpen(w)' => controlOpen(w) /\ keepsOwn(held[w], held'[w], w)
  PROVE  VoterInv(w)'
<1>1. TypeOK /\ VoterInv(w) /\ w \in Honest
  BY HonestVote DEF IndInv
<1>2. \A r, x : polka(r, x) => polka(r, x)'
  BY <1>1, PolkaGrows
<1>3. ASSUME controlOpen(w)' PROVE OwnHeld(w)' /\ PendingFits(w)'
  <2>1. OwnHeld(w) /\ PendingFits(w)
    BY <1>1, <1>3 DEF VoterInv
  <2>2. sent \in SUBSET Messages /\ held[w] \in SUBSET Messages /\ held'[w] \in SUBSET Messages
    BY <1>1 DEF TypeOK
  <2>3. keepsOwn(sent, held'[w], w)
    BY <1>3, <2>1, <2>2, KeepsOwnTransitive DEF OwnHeld
  <2>4. OwnHeld(w)'
    BY <2>3 DEF OwnHeld, keepsOwn
  <2>5. PendingFits(w)'
    BY <1>2, <2>1 DEF PendingFits, lockAllows, prevoted
  <2> QED BY <2>4, <2>5
<1>4. OneSlot(w)' /\ PrecommitsAfterPrevote(w)'
  BY <1>1 DEF VoterInv, OneSlot, PrecommitsAfterPrevote, prevoted
<1>5. keepsLock(w)'
  BY <1>1, <1>2 DEF VoterInv, keepsLock
<1> QED BY <1>3, <1>4, <1>5 DEF VoterInv

\* A correct voter that adds a fitting message keeps its part of the invariant.
LEMMA AddOwnKeeps ==
  ASSUME IndInv, TypeOK', NEW v \in Correct, NEW m \in pending[v], addOwn(v, m),
         pending'[v] = {}, leaving'[v] = {}, decision' = decision
  PROVE  VoterInv(v)'
<1>0. /\ TypeOK /\ HeldInPool /\ VoterInv(v) /\ v \in Honest
      /\ m \in Messages /\ m.voter = v
  BY HonestVote DEF IndInv, TypeOK
<1>1. CASE ~ (controlOpen(v) /\ ~ has(v, m.type, m.round) /\ admits(held[v], m))
  <2>1. held' = held /\ sent' = sent
    BY <1>1 DEF addOwn
  <2>2. keepsOwn(held[v], held'[v], v)
    BY <1>0, <2>1, PoolType, KeepsOwnItself
  <2> QED BY <1>0, <2>1, <2>2, SilentKeeps DEF controlOpen
<1>2. CASE controlOpen(v) /\ ~ has(v, m.type, m.round) /\ admits(held[v], m)
  <2>1. /\ sent' = sent \cup {m}
        /\ held'[v] = AddControlMessage(held[v], m)
        /\ OwnHeld(v) /\ PendingFits(v)
    BY <1>0, <1>2 DEF addOwn, VoterInv, TypeOK
  <2>2. \A r, x : polka(r, x) => polka(r, x)'
    BY <1>0, <2>1, PolkaGrows
  <2>3. \A n \in sent : n.voter = v => n.round <= m.round
    BY <2>1 DEF PendingFits
  <2>4. \A n \in sent' : n.round \in Nat
    BY MessageFields DEF TypeOK, Rounds
  <2>5. ASSUME NEW n \in sent, n.voter = v, n.type = m.type, n.round = m.round PROVE FALSE
    <3>1. PICK o \in held[v] : o.voter = v /\ (o = n \/ n.round < o.round)
      BY <2>1, <2>5 DEF OwnHeld, keepsOwn
    <3>2. o \in sent
      BY <1>0, <3>1, OwnHeldIsSent
    <3>3. ~ (n.round < o.round)
      BY <2>1, <2>3, <2>4, <2>5, <3>1, <3>2
    <3> QED BY <1>2, <2>5, <3>1, <3>3 DEF has
  <2>6. OwnHeld(v)'
    <3>1. sent \in SUBSET Messages /\ held[v] \in SUBSET Messages /\ held'[v] \in SUBSET Messages
      BY <1>0 DEF TypeOK
    <3>2. keepsOwn(held[v] \cup {m}, held'[v], v)
      BY <1>0, <1>2, <2>1, <3>1, AddKeepsOwn
    <3>3. keepsOwn(sent \cup {m}, held[v] \cup {m}, v)
      BY <1>0, <2>1, MessageFields DEF OwnHeld, keepsOwn, Rounds
    <3>4. keepsOwn(sent \cup {m}, held'[v], v)
      BY <1>0, <3>1, <3>2, <3>3, KeepsOwnTransitive
    <3> QED BY <2>1, <3>4 DEF OwnHeld, keepsOwn
  <2>7. OneSlot(v)'
    BY <1>0, <2>1, <2>5 DEF VoterInv, OneSlot
  <2>8. PrecommitsAfterPrevote(v)'
    BY <1>0, <2>1 DEF VoterInv, PendingFits, PrecommitsAfterPrevote, prevoted
  <2>9. keepsLock(v)'
    <3> SUFFICES ASSUME NEW n \in sent', n.voter = v, n.value # Nil
                 PROVE  /\ n.type = "PRECOMMIT" => polka(n.round, n.value)'
                        /\ n.type = "PREVOTE" =>
                             \A l \in sent' :
                               /\ l.voter = v /\ l.type = "PRECOMMIT" /\ l.value # Nil
                               /\ l.round < n.round /\ l.value # n.value
                               => \E r \in Rounds : l.round <= r /\ r < n.round /\ polka(r, n.value)'
      BY DEF keepsLock
    <3>1. CASE n.type = "PRECOMMIT"
      BY <1>0, <2>1, <2>2, <3>1 DEF VoterInv, keepsLock, PendingFits
    <3>2. ASSUME n.type = "PREVOTE",
                 NEW l \in sent', l.voter = v, l.type = "PRECOMMIT", l.value # Nil,
                 l.round < n.round, l.value # n.value
          PROVE  \E r \in Rounds : l.round <= r /\ r < n.round /\ polka(r, n.value)'
      <4>1. CASE n = m
        <5>1. l \in sent
          BY <2>1, <3>2, <4>1
        <5>2. \E r \in Rounds : l.round <= r /\ r < n.round /\ polka(r, n.value)
          BY <2>1, <3>2, <4>1, <5>1 DEF PendingFits, lockAllows
        <5> QED BY <2>2, <5>2
      <4>2. CASE n # m
        <5>1. n \in sent
          BY <2>1, <4>2
        <5>2. n.round <= m.round
          BY <2>3, <5>1
        <5>3. l \in sent
          BY <2>1, <2>4, <3>2, <5>2
        <5>4. \E r \in Rounds : l.round <= r /\ r < n.round /\ polka(r, n.value)
          BY <1>0, <3>2, <5>1, <5>3 DEF VoterInv, keepsLock
        <5> QED BY <2>2, <5>4
      <4> QED BY <4>1, <4>2
    <3> QED BY <3>1, <3>2
  <2>10. PendingFits(v)'
    BY DEF PendingFits
  <2> QED BY <2>6, <2>7, <2>8, <2>9, <2>10 DEF VoterInv
<1> QED BY <1>1, <1>2

\* Where nothing is held, applied or sent anew, the parts about states stay.
LEMMA PoolKeeps ==
  ASSUME IndInv, TypeOK', NEW v \in Honest,
         \A w \in Honest \ {v} : held'[w] = held[w],
         held'[v] \subseteq pool', sent \subseteq sent',
         commit' = commit, decision' = decision
  PROVE  HeldInPool' /\ CommitsShown' /\ CommitsVerify'
<1>1. pool \subseteq pool'
  BY DEF pool
<1>2. HeldInPool' /\ CommitsShown'
  BY <1>1 DEF IndInv, HeldInPool, CommitsShown
<1>3. CommitsVerify'
  BY DEF IndInv, CommitsVerify, VerifyCommit, HasQuorum, TotalVotingWeight, voterWeight, signers
<1> QED BY <1>2, <1>3

\* A voter that applies a value with a commit that verifies, of what exists.
LEMMA AdoptKeeps ==
  ASSUME IndInv, TypeOK', NEW v \in Honest, NEW x, NEW C \in SUBSET pool, x # Nil,
         VerifyCommit(x, C), adopt(v, x, C), UNCHANGED <<sent, pending, leaving>>
  PROVE  IndInv'
<1>0. TypeOK
  BY DEF IndInv
<1>1. /\ decision'[v] = x /\ commit'[v] = C /\ held'[v] = {}
      /\ \A w \in Honest \ {v} : /\ decision'[w] = decision[w] /\ commit'[w] = commit[w]
                                 /\ held'[w] = held[w]
  BY <1>0 DEF adopt, TypeOK
<1>2. pool' = pool
  BY DEF pool
<1>3. HeldInPool' /\ CommitsShown'
  BY <1>1, <1>2 DEF IndInv, HeldInPool, CommitsShown
<1>4. CommitsVerify'
  <2> SUFFICES ASSUME NEW w \in Honest, decision'[w] # Nil
               PROVE  VerifyCommit(decision'[w], commit'[w])
    BY DEF CommitsVerify, VerifyCommit, HasQuorum, TotalVotingWeight, voterWeight, signers
  <2>1. CASE w = v
    BY <1>1, <2>1
  <2>2. CASE w # v
    BY <1>1, <2>2 DEF IndInv, CommitsVerify
  <2> QED BY <2>1, <2>2
<1>5. ASSUME NEW w \in Correct PROVE VoterInv(w)'
  <2>1. w \in Honest /\ leaving'[w] = {}
    BY <1>5, HonestVote DEF IndInv, VoterInv
  <2>2. controlOpen(w)' => w # v /\ controlOpen(w)
    BY <1>1, <2>1 DEF controlOpen
  <2>3. controlOpen(w)' => keepsOwn(held[w], held'[w], w)
    BY <1>0, <1>1, <2>1, <2>2, PoolType, KeepsOwnItself
  <2> QED BY <2>1, <2>2, <2>3, SilentKeeps
<1> QED BY <1>3, <1>4, <1>5 DEF IndInv

\* A step that changes only what drivers remember.
LEMMA DriverKeeps ==
  ASSUME IndInv, TypeOK', UNCHANGED <<held, sent, decision, commit>>,
         \A w \in Correct : leaving'[w] = {} /\ pending'[w] \subseteq pending[w]
  PROVE  IndInv'
<1>1. ASSUME NEW w \in Correct PROVE VoterInv(w)'
  <2>1. keepsOwn(held[w], held'[w], w)
    BY <1>1, PoolType, KeepsOwnItself, HonestVote DEF IndInv
  <2> QED BY <1>1, <2>1, SilentKeeps DEF controlOpen
<1>2. \A v \in Honest : held'[v] \subseteq pool'
  BY DEF IndInv, HeldInPool, pool
<1>3. HeldInPool' /\ CommitsShown' /\ CommitsVerify'
  <2>1. HeldInPool' /\ CommitsShown'
    BY <1>2 DEF IndInv, HeldInPool, CommitsShown, pool
  <2>2. CommitsVerify'
    BY DEF IndInv, CommitsVerify, VerifyCommit, HasQuorum, TotalVotingWeight, voterWeight, signers
  <2> QED BY <2>1, <2>2
<1> QED BY <1>1, <1>3 DEF IndInv

\* A voter that signs an admitted message of its own.
LEMMA OutputKeeps ==
  ASSUME IndInv, TypeOK', NEW v \in Honest, NEW m, signs(v, m), Ready(v), output(v, m)
  PROVE  IndInv'
<1>0. TypeOK
  BY DEF IndInv
<1>1. /\ held' = held /\ sent' = sent /\ decision' = decision /\ commit' = commit
      /\ leaving' = leaving /\ pending'[v] = {m}
      /\ \A w \in Honest \ {v} : pending'[w] = pending[w]
  BY <1>0 DEF output, TypeOK
<1>2. ASSUME NEW w \in Correct PROVE VoterInv(w)'
  <2>0. w \in Honest /\ VoterInv(w) /\ keepsOwn(held[w], held'[w], w)
    BY <1>0, <1>1, <1>2, PoolType, KeepsOwnItself, HonestVote DEF IndInv
  <2>1. CASE w # v
    BY <1>1, <2>0, <2>1, SilentKeeps DEF VoterInv, controlOpen
  <2>2. CASE w = v
    <3>1. /\ \A n \in sent : n.voter = v => n.round <= m.round
          /\ m.type = "PREVOTE" /\ m.value # Nil => lockAllows(v, m)
          /\ m.type = "PRECOMMIT" =>
               prevoted(v, m.round) /\ (m.value # Nil => polka(m.round, m.value))
      BY <1>2, <2>2, SignedFits DEF Ready
    <3>2. \A r, x : polka(r, x) => polka(r, x)'
      BY <1>0, <1>1, PolkaGrows
    <3>3. PendingFits(v)'
      BY <1>1, <3>1, <3>2 DEF PendingFits, lockAllows, prevoted
    <3>4. controlOpen(v)' => OwnHeld(v)'
      BY <1>1, <2>0, <2>2 DEF controlOpen, OwnHeld, keepsOwn, VoterInv
    <3>5. OneSlot(v)' /\ PrecommitsAfterPrevote(v)'
      BY <1>1, <2>0, <2>2 DEF VoterInv, OneSlot, PrecommitsAfterPrevote, prevoted
    <3>6. keepsLock(v)'
      BY <1>1, <2>0, <2>2, <3>2 DEF VoterInv, keepsLock
    <3> QED BY <1>1, <2>0, <2>2, <3>3, <3>4, <3>5, <3>6 DEF VoterInv
  <2> QED BY <2>1, <2>2
<1>3. HeldInPool' /\ CommitsShown' /\ CommitsVerify'
  BY <1>1, PoolKeeps DEF IndInv, HeldInPool, pool
<1> QED BY <1>2, <1>3 DEF IndInv

\* A voter's own message enters its state.
LEMMA SendKeeps ==
  ASSUME IndInv, TypeOK', NEW v \in Honest, NEW m \in pending[v] \cup leaving[v],
         addOwn(v, m), UNCHANGED <<decision, commit>>,
         \A w \in Honest : leaving'[w] \subseteq leaving[w] /\ pending'[w] \subseteq pending[w],
         v \in Correct => m \in pending[v] /\ pending'[v] = {}
  PROVE  IndInv'
<1>0. TypeOK /\ m \in Messages /\ m.voter = v
  BY DEF IndInv, TypeOK
<1>1. /\ sent \subseteq sent' /\ sent' \subseteq sent \cup {m}
      /\ \A w \in Honest \ {v} : held'[w] = held[w]
      /\ held'[v] \subseteq held[v] \cup {m}
      /\ m \in held'[v] => m \in sent' \/ m \in held[v]
  <2>1. CASE controlOpen(v) /\ ~ has(v, m.type, m.round) /\ admits(held[v], m)
    BY <1>0, <2>1, AddIsBounded DEF addOwn, TypeOK
  <2>2. CASE ~ (controlOpen(v) /\ ~ has(v, m.type, m.round) /\ admits(held[v], m))
    BY <1>0, <2>2 DEF addOwn, TypeOK
  <2> QED BY <2>1, <2>2
<1>2. held'[v] \subseteq pool'
  BY <1>1 DEF IndInv, HeldInPool, pool
<1>3. HeldInPool' /\ CommitsShown' /\ CommitsVerify'
  BY <1>1, <1>2, PoolKeeps
<1>4. ASSUME NEW w \in Correct PROVE VoterInv(w)'
  <2>0. w \in Honest /\ leaving[w] = {} /\ leaving'[w] = {} /\ pending'[w] \subseteq pending[w]
    BY <1>4, HonestVote DEF IndInv, VoterInv
  <2>1. CASE w # v
    <3>1. \A n \in sent' : n.voter = w => n \in sent
      BY <1>0, <1>1, <2>1
    <3>2. keepsOwn(held[w], held'[w], w)
      BY <1>0, <1>1, <2>0, <2>1, PoolType, KeepsOwnItself
    <3> QED BY <1>1, <2>0, <3>1, <3>2, SilentKeeps DEF controlOpen
  <2>2. CASE w = v
    BY <1>4, <2>0, <2>2, AddOwnKeeps
  <2> QED BY <2>1, <2>2
<1> QED BY <1>3, <1>4 DEF IndInv

\* A message of another state enters v's.
LEMMA ReceiveKeeps ==
  ASSUME IndInv, TypeOK', NEW v \in Honest, NEW m \in pool, Receive(v, m)
  PROVE  IndInv'
<1>0. TypeOK /\ m \in Messages
  BY PoolType DEF IndInv
<1>1. /\ sent' = sent /\ pending' = pending /\ leaving' = leaving
      /\ decision' = decision /\ commit' = commit
      /\ held'[v] = AddControlMessage(held[v], m)
      /\ \A w \in Honest \ {v} : held'[w] = held[w]
  BY <1>0 DEF Receive, TypeOK
<1>2. held'[v] \subseteq pool'
  BY <1>1, AddIsBounded DEF IndInv, HeldInPool, pool
<1>3. HeldInPool' /\ CommitsShown' /\ CommitsVerify'
  BY <1>1, <1>2, PoolKeeps
<1>4. ASSUME NEW w \in Correct PROVE VoterInv(w)'
  <2>0. w \in Honest /\ leaving'[w] = {} /\ held[w] \in SUBSET Messages
    BY <1>0, <1>1, <1>4, PoolType, HonestVote DEF IndInv, VoterInv
  <2>1. keepsOwn(held[w], held'[w], w)
    BY <1>0, <1>1, <2>0, AddKeepsOwn, KeepsOwnItself
  <2> QED BY <1>1, <2>0, <2>1, SilentKeeps DEF controlOpen
<1> QED BY <1>3, <1>4 DEF IndInv

\* The precommits of one round for one value that hold a quorum are a commit.
LEMMA QuorumIsCommit ==
  ASSUME NEW M \in SUBSET Messages, NEW r, NEW x, quorum(M, "PRECOMMIT", r, x)
  PROVE  VerifyCommit(x, votesFor(M, "PRECOMMIT", r, x))
<1> DEFINE C == votesFor(M, "PRECOMMIT", r, x)
<1>1. signers(C) \in SUBSET Voters /\ HasQuorum(voterWeight(signers(C)))
  BY MessageFields DEF quorum, signers, votesFor
<1>2. signers(C) # {}
  BY <1>1, QuorumNotEmpty
<1>3. C # {}
  BY <1>2 DEF signers
<1>4. \A m \in C : m \in Messages /\ m.type = "PRECOMMIT" /\ m.value = x /\ m.round = r
  BY DEF votesFor
<1>5. \A m, n \in C : m.voter = n.voter => m = n
  BY <1>4, VoteIsItsFields
<1>6. VerifyCommit(x, C)
  <2> HIDE DEF C
  <2> QED BY <1>1, <1>3, <1>4, <1>5 DEF VerifyCommit
<1> QED BY <1>6

LEMMA IndInit == Init => IndInv
<1> SUFFICES ASSUME Init PROVE IndInv
  OBVIOUS
<1>1. TypeOK
  BY TypeInit
<1>2. HeldInPool /\ CommitsShown /\ CommitsVerify
  BY DEF Init, HeldInPool, CommitsShown, CommitsVerify
<1>3. ASSUME NEW v \in Correct PROVE VoterInv(v)
  BY HonestVote DEF Init, VoterInv, OwnHeld, keepsOwn, PendingFits, OneSlot,
     PrecommitsAfterPrevote, keepsLock
<1> QED BY <1>1, <1>2, <1>3 DEF IndInv

LEMMA IndStep ==
  ASSUME IndInv, [Next]_vars
  PROVE  IndInv'
<1>0. TypeOK /\ TypeOK' /\ \A v \in Correct : leaving[v] = {}
  BY TypeStep DEF IndInv, VoterInv
<1>1. CASE UNCHANGED vars
  BY <1>0, <1>1, DriverKeeps DEF vars
<1>2. ASSUME NEW v \in Honest, Step(v) PROVE IndInv'
  <2>1. CASE Decide(v)
    <3>1. PICK p \in decidable(held[v]) :
            adopt(v, p.value, votesFor(held[v], "PRECOMMIT", p.round, p.value))
      BY <2>1 DEF Decide
    <3> DEFINE C == votesFor(held[v], "PRECOMMIT", p.round, p.value)
    <3>2. p \in Messages /\ p.type = "PROPOSAL" /\ quorum(held[v], "PRECOMMIT", p.round, p.value)
      BY <1>0, PoolType DEF decidable
    <3>3. VerifyCommit(p.value, C)
      BY <1>0, <3>2, PoolType, QuorumIsCommit
    <3>4. C \in SUBSET pool
      BY DEF IndInv, HeldInPool, votesFor
    <3>5. p.value # Nil
      BY <3>2, MessageFields
    <3> HIDE DEF C
    <3> QED BY <1>0, <2>1, <3>1, <3>3, <3>4, <3>5, AdoptKeeps DEF Decide, C
  <2>2. ASSUME NEW r, enterRound(v, r) PROVE IndInv'
    BY <1>0, <2>2, DriverKeeps DEF enterRound
  <2>3. ASSUME NEW m, signs(v, m), Ready(v), output(v, m) PROVE IndInv'
    BY <1>0, <2>3, OutputKeeps
  <2> QED BY <1>2, <2>1, <2>2, <2>3, StepCases
<1>3. ASSUME NEW v \in Honest, Send(v) PROVE IndInv'
  <2>1. PICK m \in pending[v] : addOwn(v, m)
    BY <1>3 DEF Send
  <2>2. /\ UNCHANGED <<decision, commit>> /\ leaving' = leaving
        /\ pending'[v] = {} /\ \A w \in Honest : pending'[w] \subseteq pending[w]
    BY <1>0, <1>3 DEF Send, TypeOK
  <2> QED BY <1>0, <2>1, <2>2, SendKeeps
<1>4. ASSUME NEW v \in Honest, LateSend(v) PROVE IndInv'
  <2>1. PICK m \in leaving[v] : addOwn(v, m)
    BY <1>4 DEF LateSend
  <2>2. /\ UNCHANGED <<decision, commit>> /\ pending' = pending
        /\ \A w \in Honest : leaving'[w] \subseteq leaving[w]
    BY <1>0, <1>4 DEF LateSend, TypeOK
  <2>3. v \notin Correct
    BY <1>0, <2>1
  <2> QED BY <1>0, <2>1, <2>2, <2>3, SendKeeps
<1>5. ASSUME NEW v \in Honest, NEW J \in Judgments, Expire(v, J) PROVE IndInv'
  BY <1>0, <1>5, DriverKeeps DEF Expire
<1>6. ASSUME NEW v \in Honest, NEW m \in sent \cup FaultyMessages, Receive(v, m) PROVE IndInv'
  BY <1>0, <1>6, ReceiveKeeps DEF pool
<1>7. ASSUME NEW v \in Honest, ImportDecision(v) PROVE IndInv'
  <2>1. PICK C \in shownCommits, x \in Values : VerifyCommit(x, C) /\ adopt(v, x, C)
    BY <1>7 DEF ImportDecision
  <2>2. C \in SUBSET pool
    BY DEF IndInv, CommitsShown, shownCommits, votesFor, pool
  <2>3. x # Nil
    BY ValuesAssumption DEF Nil
  <2> QED BY <1>0, <1>7, <2>1, <2>2, <2>3, AdoptKeeps DEF ImportDecision
<1>8. ASSUME NEW v \in Honest, Restart(v) PROVE IndInv'
  <2>1. \A w \in Correct : leaving'[w] = {} /\ pending'[w] \subseteq pending[w]
    BY <1>0, <1>8, HonestVote DEF Restart, TypeOK
  <2> QED BY <1>0, <1>8, <2>1, DriverKeeps DEF Restart
<1>9. ASSUME NEW v \in Honest, Reattach(v) PROVE IndInv'
  <2>1. v \notin Correct
    BY <1>9 DEF Reattach, Correct
  <2>2. \A w \in Correct : leaving'[w] = {} /\ pending'[w] \subseteq pending[w]
    BY <1>0, <1>9, <2>1, HonestVote DEF Reattach, TypeOK
  <2> QED BY <1>0, <1>9, <2>2, DriverKeeps DEF Reattach
<1> QED BY <1>1, <1>2, <1>3, <1>4, <1>5, <1>6, <1>7, <1>8, <1>9 DEF Next

THEOREM IndInvariant == Spec => []IndInv
  BY IndInit, IndStep, PTL DEF Spec

-----------------------------------------------------------------------------
(* The properties.                                                         *)

\* Every correct voter keeps the lock rule, in every group.
THEOREM VotesKeepLock == Spec => []VoteLock
<1>1. IndInv => VoteLock
  BY DEF IndInv, VoterInv, VoteLock
<1> QED BY <1>1, IndInvariant, PTL

\* Where every voter runs one driver at a time, no honest voter signs two
\* messages of one type in one round.
THEOREM VotesOncePerSlot == Overlapping = {} => (Spec => []OneVotePerSlot)
<1>1. Overlapping = {} /\ IndInv => OneVotePerSlot
  BY DEF IndInv, TypeOK, VoterInv, OneSlot, OneVotePerSlot, Correct
<1>2. CASE ~ (Overlapping = {})
  BY <1>2
<1>3. CASE Overlapping = {}
  <2>1. IndInv => OneVotePerSlot
    BY <1>1, <1>3
  <2> QED BY <2>1, IndInvariant, PTL
<1> QED BY <1>2, <1>3

\* Whatever a state applied, its commit verifies.
THEOREM CommitsAreVerifiable == Spec => []CommitsVerify
<1>1. IndInv => CommitsVerify
  BY DEF IndInv
<1> QED BY <1>1, IndInvariant, PTL

\* A restart resumes a correct voter from its lock and its highest round.
THEOREM RestartsResume == Spec => []ResumesFromHeld
<1>1. IndInv => ResumesFromHeld
  <2> SUFFICES ASSUME IndInv, NEW v \in Correct, controlOpen(v), NEW m \in sent, m.voter = v
               PROVE  /\ \E n \in held[v] : n.voter = v /\ m.round <= n.round
                      /\ m.type = "PRECOMMIT" /\ m.value # Nil =>
                           \E l \in lock(held[v], v) : m.round <= l.round
    BY DEF ResumesFromHeld
  <2>1. OwnHeld(v) /\ TypeOK /\ v \in Honest
    BY HonestVote DEF IndInv, VoterInv
  <2>2. \E n \in held[v] : n.voter = v /\ m.round <= n.round
    BY <2>1 DEF OwnHeld, keepsOwn
  <2>3. ASSUME m.type = "PRECOMMIT", m.value # Nil
        PROVE  \E l \in lock(held[v], v) : m.round <= l.round
    <3>1. PICK k \in held[v] : /\ k.voter = v /\ k.type = "PRECOMMIT" /\ k.value # Nil
                               /\ m.round <= k.round
      BY <2>1, <2>3 DEF OwnHeld, keepsOwn
    <3>2. PICK l \in lock(held[v], v) : k.round <= l.round
      BY <2>1, <3>1, PoolType, LockExists
    <3>3. l \in held[v]
      BY <3>2, LockIsPrecommit
    <3>4. m \in Messages /\ k \in Messages /\ l \in Messages
      BY <2>1, <3>1, <3>3, PoolType DEF pool
    <3> QED BY <3>1, <3>2, <3>4, MessageFields DEF Rounds
  <2> QED BY <2>2, <2>3
<1> QED BY <1>1, IndInvariant, PTL

-----------------------------------------------------------------------------
(* Agreement. Two quorums share a correct voter. A precommit quorum for x  *)
(* in r leaves no polka for another value in r or later: the first one     *)
(* would need a voter of both, whose lock only an earlier one could lift.  *)

LEMMA QuorumsShareVoter ==
  ASSUME TypeOK, FaultyMinority, NEW a, NEW b, NEW r, NEW s, NEW x, NEW y,
         quorum(pool, a, r, x), quorum(pool, b, s, y)
  PROVE  \E v \in Correct, m \in sent, n \in sent :
           /\ m.voter = v /\ m.type = a /\ m.round = r /\ m.value = x
           /\ n.voter = v /\ n.type = b /\ n.round = s /\ n.value = y
<1>1. /\ signers(votesFor(pool, a, r, x)) \in SUBSET Voters
      /\ signers(votesFor(pool, b, s, y)) \in SUBSET Voters
  BY PoolType, MessageFields DEF signers, votesFor
<1>2. PICK v \in Correct : /\ v \in signers(votesFor(pool, a, r, x))
                           /\ v \in signers(votesFor(pool, b, s, y))
  BY <1>1, QuorumsShareCorrect DEF quorum
<1>3. PICK m \in votesFor(pool, a, r, x), n \in votesFor(pool, b, s, y) : m.voter = v /\ n.voter = v
  BY <1>2 DEF signers
<1>4. m \in sent /\ n \in sent
  BY <1>3, HonestVote DEF votesFor, pool
<1> QED BY <1>3, <1>4 DEF votesFor

\* Where a quorum precommitted x, no other value has a polka.
LEMMA OnePolka ==
  ASSUME IndInv, FaultyMinority, NEW r \in Rounds, NEW x, NEW y, x # Nil, y # Nil, x # y,
         quorum(pool, "PRECOMMIT", r, x)
  PROVE  ~ polka(r, y)
<1> SUFFICES ASSUME polka(r, y) PROVE FALSE
  OBVIOUS
<1>0. TypeOK
  BY DEF IndInv
<1>1. PICK v \in Correct, m \in sent :
        m.voter = v /\ m.type = "PRECOMMIT" /\ m.round = r /\ m.value = x
  BY <1>0, QuorumsShareVoter
<1>2. polka(r, x)
  BY <1>1 DEF IndInv, VoterInv, keepsLock
<1>3. PICK w \in Correct, k \in sent, n \in sent :
        /\ k.voter = w /\ k.type = "PREVOTE" /\ k.round = r /\ k.value = x
        /\ n.voter = w /\ n.type = "PREVOTE" /\ n.round = r /\ n.value = y
  BY <1>0, <1>2, QuorumsShareVoter DEF polka
<1>4. k = n
  BY <1>3 DEF IndInv, VoterInv, OneSlot
<1> QED BY <1>3, <1>4

\* Nor does it in any later round.
LEMMA NoLaterPolka ==
  ASSUME IndInv, FaultyMinority, NEW r \in Rounds, NEW x, x # Nil,
         quorum(pool, "PRECOMMIT", r, x)
  PROVE  \A t \in Rounds, y \in Values : r <= t /\ y # x => ~ polka(t, y)
<1> DEFINE against == {t \in Rounds : r <= t /\ \E y \in Values : y # x /\ polka(t, y)}
<1> SUFFICES ASSUME against # {} PROVE FALSE
  OBVIOUS
<1>0. TypeOK /\ r \in Nat /\ \A y \in Values : y # Nil
  BY ValuesAssumption DEF IndInv, Rounds, Nil
<1>1. against \in SUBSET Nat
  BY BoundsAssumption DEF Rounds
<1>2. PICK t \in against : \A u \in against : t <= u
  <2> HIDE DEF against
  <2> QED BY <1>1, LeastRound
<1>3. PICK y \in Values : y # x /\ polka(t, y)
  BY <1>2
<1>4. t \in Rounds /\ t \in Nat /\ r < t
  <2>1. t \in Rounds /\ t \in Nat /\ r <= t
    BY <1>1, <1>2
  <2>2. t # r
    BY <1>0, <1>3, OnePolka
  <2> QED BY <1>0, <2>1, <2>2
<1>5. PICK v \in Correct, l \in sent, m \in sent :
        /\ l.voter = v /\ l.type = "PRECOMMIT" /\ l.round = r /\ l.value = x
        /\ m.voter = v /\ m.type = "PREVOTE" /\ m.round = t /\ m.value = y
  BY <1>0, <1>3, QuorumsShareVoter DEF polka
<1>6. keepsLock(v) /\ y # Nil
  BY <1>0 DEF IndInv, VoterInv
<1>7. PICK u \in Rounds : r <= u /\ u < t /\ polka(u, y)
  BY <1>3, <1>4, <1>5, <1>6 DEF keepsLock
<1>8. u \in against /\ u \in Nat
  BY <1>3, <1>7 DEF Rounds
<1> QED BY <1>2, <1>4, <1>7, <1>8

\* So at most one value is precommitted by a quorum, in whatever rounds.
LEMMA OneDecision ==
  ASSUME IndInv, FaultyMinority, NEW r \in Rounds, NEW s \in Rounds,
         NEW x \in Values, NEW y \in Values,
         quorum(pool, "PRECOMMIT", r, x), quorum(pool, "PRECOMMIT", s, y)
  PROVE  x = y
<1>0. TypeOK /\ r \in Nat /\ s \in Nat /\ x # Nil /\ y # Nil
  BY ValuesAssumption DEF IndInv, Rounds, Nil
<1>1. polka(r, x) /\ polka(s, y)
  <2>1. PICK v \in Correct, m \in sent, n \in sent :
          /\ m.voter = v /\ m.type = "PRECOMMIT" /\ m.round = r /\ m.value = x
          /\ n.voter = v /\ n.type = "PRECOMMIT" /\ n.round = s /\ n.value = y
    BY <1>0, QuorumsShareVoter
  <2> QED BY <1>0, <2>1 DEF IndInv, VoterInv, keepsLock
<1>2. CASE r <= s
  BY <1>0, <1>1, <1>2, NoLaterPolka
<1>3. CASE s <= r
  BY <1>0, <1>1, <1>3, NoLaterPolka
<1> QED BY <1>0, <1>2, <1>3

\* A commit that verifies, of what exists, is a quorum of one round.
LEMMA CommitIsQuorum ==
  ASSUME TypeOK, NEW C \in SUBSET pool, NEW x, VerifyCommit(x, C)
  PROVE  \E r \in Rounds : quorum(pool, "PRECOMMIT", r, x)
<1>0. pool \in SUBSET Messages /\ C \in SUBSET Messages
  BY PoolType
<1>1. PICK c \in C : c.round \in Rounds /\ \A m \in C : m.round = c.round
  BY <1>0, MessageFields DEF VerifyCommit
<1>2. C \subseteq votesFor(C, "PRECOMMIT", c.round, x)
  BY <1>1 DEF VerifyCommit, votesFor
<1>3. signers(C) = signers(votesFor(C, "PRECOMMIT", c.round, x))
  BY <1>2 DEF signers, votesFor
<1>4. quorum(C, "PRECOMMIT", c.round, x)
  BY <1>3 DEF quorum, VerifyCommit
<1> QED BY <1>0, <1>1, <1>4, QuorumGrows

\* Two commits that verify, of what exists, decide the same value.
LEMMA CommitsAgree ==
  ASSUME IndInv, FaultyMinority, NEW C \in SUBSET pool, NEW D \in SUBSET pool,
         NEW x \in Values, NEW y \in Values, VerifyCommit(x, C), VerifyCommit(y, D)
  PROVE  x = y
<1>0. TypeOK
  BY DEF IndInv
<1> QED BY <1>0, CommitIsQuorum, OneDecision

\* No two honest voters apply different values, in every group whose voters
\* that break the rules, or run two drivers, hold at most a third of the weight.
THEOREM AgreementHolds == FaultyMinority => (Spec => []Agreement)
<1>1. FaultyMinority /\ IndInv => Agreement
  <2> SUFFICES ASSUME FaultyMinority, IndInv, NEW v \in Honest, NEW w \in Honest,
                      decision[v] # Nil, decision[w] # Nil
               PROVE  decision[v] = decision[w]
    BY DEF Agreement
  <2>1. decision[v] \in Values /\ decision[w] \in Values
    BY DEF IndInv, TypeOK
  <2>2. VerifyCommit(decision[v], commit[v]) /\ VerifyCommit(decision[w], commit[w])
    BY DEF IndInv, CommitsVerify
  <2>3. commit[v] \in SUBSET pool /\ commit[w] \in SUBSET pool
    BY DEF IndInv, CommitsShown
  <2> QED BY <2>1, <2>2, <2>3, CommitsAgree
<1>2. CASE ~ FaultyMinority
  BY <1>2
<1>3. CASE FaultyMinority
  <2>1. IndInv => Agreement
    BY <1>1, <1>3
  <2> QED BY <2>1, IndInvariant, PTL
<1> QED BY <1>2, <1>3

-----------------------------------------------------------------------------
(* What a group decision is for the rest of the program: it is final, and  *)
(* the rounds implement GroupDecision.                                     *)

\* The message prevotes nil or an acceptable value, or is no prevote.
acceptable(m) == m.type = "PREVOTE" /\ m.value # Nil => m.value \in ValidValues

\* A state that applied a decision holds none of its messages, and no honest
\* voter signed a prevote for a value it does not accept.
ClosedHoldsNothing == \A v \in Honest : decision[v] # Nil => held[v] = {}
PrevotesAcceptable ==
  /\ \A m \in sent : acceptable(m)
  /\ \A v \in Honest : \A m \in pending[v] \cup leaving[v] : acceptable(m)

DecisionInv == TypeOK /\ ClosedHoldsNothing /\ PrevotesAcceptable

LEMMA SignedIsAcceptable ==
  ASSUME TypeOK, NEW v \in Honest, NEW m, signs(v, m)
  PROVE  acceptable(m)
<1>1. PICK J \in Judgments :
        \/ m \in proposals(v, J)
        \/ \E p \in judged(v, J) : \E x \in {p.value, Nil} :
             /\ x = p.value => J[p.value] = "valid"
             /\ m = vote(v, "PREVOTE", currentRound(v), x)
        \/ m = vote(v, "PREVOTE", currentRound(v), Nil)
        \/ \E p \in lockable(v, J) : m = vote(v, "PRECOMMIT", currentRound(v), p.value)
        \/ m = vote(v, "PRECOMMIT", currentRound(v), Nil)
  BY DEF signs
<1>2. CASE m \in proposals(v, J)
  BY <1>2, ProposalIsOwn DEF acceptable
<1>3. ASSUME NEW p \in judged(v, J), NEW x \in {p.value, Nil}, x = p.value => J[p.value] = "valid",
             m = vote(v, "PREVOTE", currentRound(v), x)
      PROVE  acceptable(m)
  <2>1. p.value \in Values
    BY JudgedIsProposal
  <2>2. J[p.value] = "valid" => p.value \in ValidValues
    BY <2>1 DEF Judgments
  <2> QED BY <1>3, <2>2 DEF vote, acceptable
<1>4. CASE m = vote(v, "PREVOTE", currentRound(v), Nil)
  BY <1>4 DEF vote, acceptable
<1>5. ASSUME NEW p, m = vote(v, "PRECOMMIT", currentRound(v), p.value) PROVE acceptable(m)
  BY <1>5 DEF vote, acceptable
<1>6. CASE m = vote(v, "PRECOMMIT", currentRound(v), Nil)
  BY <1>6 DEF vote, acceptable
<1> QED BY <1>1, <1>2, <1>3, <1>4, <1>5, <1>6

\* Adding a message under the lock keeps both parts.
LEMMA AddOwnKeepsDecision ==
  ASSUME DecisionInv, NEW v \in Honest, NEW m, acceptable(m), addOwn(v, m),
         decision' = decision,
         \A w \in Honest : pending'[w] \cup leaving'[w] \subseteq pending[w] \cup leaving[w]
  PROVE  ClosedHoldsNothing' /\ PrevotesAcceptable'
<1>1. sent' \subseteq sent \cup {m} /\ \A w \in Honest : decision[w] # Nil => held'[w] = held[w]
  <2>1. CASE controlOpen(v) /\ ~ has(v, m.type, m.round) /\ admits(held[v], m)
    BY <2>1 DEF addOwn, controlOpen, DecisionInv, TypeOK
  <2>2. CASE ~ (controlOpen(v) /\ ~ has(v, m.type, m.round) /\ admits(held[v], m))
    BY <2>2 DEF addOwn
  <2> QED BY <2>1, <2>2
<1> QED BY <1>1 DEF DecisionInv, ClosedHoldsNothing, PrevotesAcceptable, acceptable

\* A step either leaves every decision or adopts one where none was.
LEMMA DecisionCases ==
  ASSUME IndInv, [Next]_vars
  PROVE  \/ decision' = decision
         \/ \E v \in Honest, x \in Values, C \in SUBSET pool :
              VerifyCommit(x, C) /\ controlOpen(v) /\ adopt(v, x, C)
<1>0. TypeOK /\ HeldInPool /\ pool \subseteq Messages
  BY PoolType DEF IndInv
<1>1. ASSUME NEW v \in Honest, Decide(v)
      PROVE  \E x \in Values, C \in SUBSET pool :
               VerifyCommit(x, C) /\ controlOpen(v) /\ adopt(v, x, C)
  <2>1. PICK p \in decidable(held[v]) :
          adopt(v, p.value, votesFor(held[v], "PRECOMMIT", p.round, p.value))
    BY <1>1 DEF Decide
  <2> DEFINE C == votesFor(held[v], "PRECOMMIT", p.round, p.value)
  <2>2. /\ p \in Messages /\ p.type = "PROPOSAL" /\ held[v] \in SUBSET Messages
        /\ quorum(held[v], "PRECOMMIT", p.round, p.value)
    BY <1>0, PoolType DEF decidable
  <2>3. VerifyCommit(p.value, C)
    BY <2>2, QuorumIsCommit
  <2>4. C \in SUBSET pool
    BY <1>0 DEF HeldInPool, votesFor
  <2>5. p.value \in Values
    BY <2>2, MessageFields
  <2>6. adopt(v, p.value, C) /\ controlOpen(v)
    BY <1>1, <2>1 DEF Decide, Ready
  <2> HIDE DEF C
  <2> QED BY <2>3, <2>4, <2>5, <2>6
<1>2. ASSUME NEW v \in Honest, ImportDecision(v)
      PROVE  \E x \in Values, C \in SUBSET pool :
               VerifyCommit(x, C) /\ controlOpen(v) /\ adopt(v, x, C)
  <2>1. PICK C \in shownCommits, x \in Values : VerifyCommit(x, C) /\ adopt(v, x, C)
    BY <1>2 DEF ImportDecision
  <2>2. C \in SUBSET pool
    BY DEF IndInv, CommitsShown, shownCommits, votesFor, pool
  <2> QED BY <1>2, <2>1, <2>2 DEF ImportDecision
<1>3. ASSUME NEW v \in Honest, Step(v)
      PROVE  decision' = decision \/ Decide(v)
  BY <1>3, StepCases DEF enterRound, output
<1> QED BY <1>1, <1>2, <1>3 DEF Next, vars, Send, LateSend, Expire, Receive, Restart, Reattach

LEMMA DecisionInit == Init => DecisionInv
  BY TypeInit DEF Init, DecisionInv, ClosedHoldsNothing, PrevotesAcceptable

LEMMA DecisionStep ==
  ASSUME DecisionInv, [Next]_vars
  PROVE  DecisionInv'
<1>0. TypeOK /\ TypeOK' /\ ClosedHoldsNothing /\ PrevotesAcceptable
  BY TypeStep DEF DecisionInv
<1> SUFFICES ClosedHoldsNothing' /\ PrevotesAcceptable'
  BY <1>0 DEF DecisionInv
<1>1. CASE UNCHANGED vars
  BY <1>0, <1>1 DEF vars, ClosedHoldsNothing, PrevotesAcceptable
<1>2. ASSUME NEW v \in Honest, Step(v) PROVE ClosedHoldsNothing' /\ PrevotesAcceptable'
  <2>1. CASE Decide(v)
    BY <1>0, <2>1 DEF Decide, adopt, TypeOK, ClosedHoldsNothing, PrevotesAcceptable
  <2>2. ASSUME NEW r, enterRound(v, r) PROVE ClosedHoldsNothing' /\ PrevotesAcceptable'
    BY <1>0, <2>2 DEF enterRound, ClosedHoldsNothing, PrevotesAcceptable
  <2>3. ASSUME NEW m, signs(v, m), output(v, m) PROVE ClosedHoldsNothing' /\ PrevotesAcceptable'
    <3>1. acceptable(m)
      BY <1>0, <2>3, SignedIsAcceptable
    <3> QED BY <1>0, <2>3, <3>1 DEF output, TypeOK, ClosedHoldsNothing, PrevotesAcceptable
  <2> QED BY <1>2, <2>1, <2>2, <2>3, StepCases
<1>3. ASSUME NEW v \in Honest, Send(v) PROVE ClosedHoldsNothing' /\ PrevotesAcceptable'
  <2>1. PICK m \in pending[v] : addOwn(v, m)
    BY <1>3 DEF Send
  <2>2. \A w \in Honest : pending'[w] \cup leaving'[w] \subseteq pending[w] \cup leaving[w]
    BY <1>0, <1>3 DEF Send, TypeOK
  <2> QED BY <1>0, <1>3, <2>1, <2>2, AddOwnKeepsDecision DEF Send, PrevotesAcceptable
<1>4. ASSUME NEW v \in Honest, LateSend(v) PROVE ClosedHoldsNothing' /\ PrevotesAcceptable'
  <2>1. PICK m \in leaving[v] : addOwn(v, m)
    BY <1>4 DEF LateSend
  <2>2. \A w \in Honest : pending'[w] \cup leaving'[w] \subseteq pending[w] \cup leaving[w]
    BY <1>0, <1>4 DEF LateSend, TypeOK
  <2> QED BY <1>0, <1>4, <2>1, <2>2, AddOwnKeepsDecision DEF LateSend, PrevotesAcceptable
<1>5. ASSUME NEW v \in Honest, NEW J \in Judgments, Expire(v, J)
      PROVE  ClosedHoldsNothing' /\ PrevotesAcceptable'
  BY <1>0, <1>5 DEF Expire, ClosedHoldsNothing, PrevotesAcceptable
<1>6. ASSUME NEW v \in Honest, NEW m \in sent \cup FaultyMessages, Receive(v, m)
      PROVE  ClosedHoldsNothing' /\ PrevotesAcceptable'
  BY <1>0, <1>6 DEF Receive, controlOpen, TypeOK, ClosedHoldsNothing, PrevotesAcceptable
<1>7. ASSUME NEW v \in Honest, ImportDecision(v) PROVE ClosedHoldsNothing' /\ PrevotesAcceptable'
  BY <1>0, <1>7 DEF ImportDecision, adopt, TypeOK, ClosedHoldsNothing, PrevotesAcceptable
<1>8. ASSUME NEW v \in Honest, Restart(v) \/ Reattach(v)
      PROVE  ClosedHoldsNothing' /\ PrevotesAcceptable'
  <2>1. CASE Restart(v)
    BY <1>0, <2>1 DEF Restart, TypeOK, ClosedHoldsNothing, PrevotesAcceptable
  <2>2. CASE Reattach(v)
    BY <1>0, <2>2 DEF Reattach, TypeOK, ClosedHoldsNothing, PrevotesAcceptable
  <2> QED BY <1>8, <2>1, <2>2
<1> QED BY <1>1, <1>2, <1>3, <1>4, <1>5, <1>6, <1>7, <1>8 DEF Next

\* In every state of every group, a closed decision holds no messages, and
\* honest voters prevote acceptable values only.
THEOREM DecisionInvariant == Spec => []DecisionInv
  BY DecisionInit, DecisionStep, PTL DEF Spec

\* A value with a commit that verifies was prevoted by a correct voter.
LEMMA CommittedIsAcceptable ==
  ASSUME IndInv, DecisionInv, FaultyMinority, NEW C \in SUBSET pool, NEW x \in Values,
         VerifyCommit(x, C)
  PROVE  x \in ValidValues
<1>0. TypeOK /\ x # Nil
  BY ValuesAssumption DEF IndInv, Nil
<1>1. PICK r \in Rounds : quorum(pool, "PRECOMMIT", r, x)
  BY <1>0, CommitIsQuorum
<1>2. PICK v \in Correct, m \in sent :
        m.voter = v /\ m.type = "PRECOMMIT" /\ m.round = r /\ m.value = x
  BY <1>0, <1>1, QuorumsShareVoter
<1>3. polka(r, x)
  BY <1>0, <1>2 DEF IndInv, VoterInv, keepsLock
<1>4. PICK n \in sent : n.type = "PREVOTE" /\ n.value = x
  BY <1>0, <1>3, QuorumsShareVoter DEF polka
<1> QED BY <1>0, <1>4 DEF DecisionInv, PrevotesAcceptable, acceptable

\* A decision is final: no message and no commit that comes later reaches a
\* state that applied it.
THEOREM DecisionStaysFinal == Spec => DecisionFinal
<1>1. ASSUME IndInv, DecisionInv, DecisionInv', [Next]_vars, NEW v \in Honest, decision[v] # Nil
      PROVE  decision'[v] = decision[v] /\ held'[v] = {}
  <2>1. decision'[v] = decision[v]
    <3>1. CASE decision' = decision
      BY <3>1
    <3>2. ASSUME NEW w \in Honest, NEW x, NEW C, controlOpen(w), adopt(w, x, C)
          PROVE  decision'[v] = decision[v]
      BY <1>1, <3>2 DEF adopt, controlOpen, DecisionInv, TypeOK
    <3> QED BY <1>1, <3>1, <3>2, DecisionCases
  <2> QED BY <1>1, <2>1 DEF DecisionInv, ClosedHoldsNothing
<1>2. IndInv /\ DecisionInv /\ DecisionInv' /\ [Next]_vars
        => [\A v \in Honest : decision[v] # Nil => decision'[v] = decision[v] /\ held'[v] = {}]_vars
  BY <1>1
<1> QED BY <1>2, IndInvariant, DecisionInvariant, PTL DEF Spec, DecisionFinal

\* The rounds implement the promise of a group decision: each honest voter
\* applies at most one value, an acceptable one, and no two differ.
THEOREM RoundsKeepPromise == FaultyMinority => (Spec => KeepsPromise)
<1>1. Init => Promise!Init
  BY DEF Init, Promise!Init
<1>2. ASSUME FaultyMinority, IndInv, DecisionInv, [Next]_vars
      PROVE  [Promise!Next]_decision
  <2>1. CASE decision' = decision
    BY <2>1
  <2>2. ASSUME NEW v \in Honest, NEW x \in Values, NEW C \in SUBSET pool,
               VerifyCommit(x, C), controlOpen(v), adopt(v, x, C)
        PROVE  Promise!Next
    <3>1. x \in ValidValues
      BY <1>2, <2>2, CommittedIsAcceptable
    <3>2. ASSUME NEW w \in Honest, decision[w] # Nil PROVE decision[w] = x
      <4>1. VerifyCommit(decision[w], commit[w]) /\ commit[w] \in SUBSET pool
            /\ decision[w] \in Values
        BY <1>2, <3>2 DEF IndInv, CommitsVerify, CommitsShown, TypeOK
      <4> QED BY <1>2, <2>2, <4>1, CommitsAgree
    <3>3. Promise!Decide(v, x)
      BY <2>2, <3>2 DEF Promise!Decide, controlOpen, adopt
    <3> QED BY <3>1, <3>3 DEF Promise!Next
  <2> QED BY <1>2, <2>1, <2>2, DecisionCases
<1>3. CASE ~ FaultyMinority
  BY <1>3
<1>4. CASE FaultyMinority
  <2>1. IndInv /\ DecisionInv /\ [Next]_vars => [Promise!Next]_decision
    BY <1>2, <1>4
  <2> QED BY <1>1, <2>1, IndInvariant, DecisionInvariant, PTL DEF Spec, KeepsPromise, Promise!Spec
<1> QED BY <1>3, <1>4

-----------------------------------------------------------------------------
(* Evidence. What a state keeps of one voter is bounded, for every         *)
(* evidence of faulty voters and every bound.                              *)

(* A record that trimControlRounds leaves alone has few rounds.            *)

\* What M holds of p, and of p's messages of one type in one round.
recordOf(M, p) == {m \in M : m.voter = p}
slotOf(M, p, t, r) == {m \in M : m.voter = p /\ m.type = t /\ m.round = r}

\* Rounds of p above r.
above(M, p, r) == {s \in roundsOf(M, p) : s > r}

\* M is trimmed for p, and no step of p has too many messages.
Trimmed(M, p) == \A m \in M : m.voter = p => Cardinality(above(M, p, m.round)) < MaxControlRounds
                                             \/ m \in lock(M, p)
SlotsBounded(M, p) == \A t \in Steps, r \in Rounds :
                        Cardinality(slotOf(M, p, t, r)) <= MaxControlEvidence

\* Rounds are a finite set, and so is each part of a finite set of messages.
LEMMA RoundsFinite ==
  ASSUME NEW M \in SUBSET Messages, NEW p, NEW r
  PROVE  /\ IsFiniteSet(roundsOf(M, p)) /\ IsFiniteSet(above(M, p, r))
         /\ Cardinality(above(M, p, r)) \in Nat
<1>1. IsFiniteSet(0..MaxRound)
  BY FS_Interval, BoundsAssumption
<1>2. roundsOf(M, p) \subseteq 0..MaxRound
  BY RoundsOfType
<1>3. above(M, p, r) \subseteq 0..MaxRound
  BY <1>2 DEF above
<1>4. IsFiniteSet(roundsOf(M, p)) /\ IsFiniteSet(above(M, p, r))
  BY <1>1, <1>2, <1>3, FS_Subset
<1> QED BY <1>4, FS_CardinalityType

\* A smaller state has no more rounds above one.
LEMMA FewerAbove ==
  ASSUME NEW M \in SUBSET Messages, NEW N \in SUBSET M, NEW p, NEW r
  PROVE  Cardinality(above(N, p, r)) <= Cardinality(above(M, p, r))
<1>1. above(N, p, r) \subseteq above(M, p, r)
  BY DEF above, roundsOf
<1> QED BY <1>1, RoundsFinite, FS_Subset

\* A set of rounds, each with fewer than n of them above it, has at most n.
LEMMA RoundsFromLeast ==
  ASSUME NEW S \in SUBSET (0..MaxRound), NEW n \in Nat \ {0},
         \A s \in S : Cardinality({t \in S : t > s}) < n
  PROVE  IsFiniteSet(S) /\ Cardinality(S) <= n
<1>1. IsFiniteSet(S)
  <2>1. IsFiniteSet(0..MaxRound)
    BY FS_Interval, BoundsAssumption
  <2> QED BY <2>1, FS_Subset
<1>2. CASE S = {}
  BY <1>1, <1>2, FS_EmptySet
<1>3. CASE S # {}
  <2>1. S \in SUBSET Nat
    BY BoundsAssumption
  <2>2. PICK s \in S : \A t \in S : s <= t
    BY <1>3, <2>1, LeastRound
  <2> DEFINE T == {t \in S : t > s}
  <2>3. S = T \cup {s}
    <3>1. \A t \in S : t = s \/ t > s
      BY <2>1, <2>2
    <3> QED BY <3>1
  <2>4. IsFiniteSet(T) /\ s \notin T
    BY <1>1, <2>1, FS_Subset
  <2>5. Cardinality(S) = Cardinality(T) + 1
    <3> HIDE DEF T
    <3> QED BY <2>3, <2>4, FS_AddElement
  <2>6. Cardinality(T) \in Nat /\ Cardinality(T) < n
    BY <2>2, <2>4, FS_CardinalityType
  <2> QED BY <1>1, <2>5, <2>6
<1> QED BY <1>2, <1>3

\* Beside its lock, a trimmed record has at most MaxControlRounds rounds.
LEMMA TrimmedRounds ==
  ASSUME NEW M \in SUBSET Messages, NEW p, Trimmed(M, p)
  PROVE  LET S == roundsOf(recordOf(M, p) \ lock(M, p), p)
         IN IsFiniteSet(S) /\ Cardinality(S) <= MaxControlRounds
<1> DEFINE S == roundsOf(recordOf(M, p) \ lock(M, p), p)
<1>1. S \subseteq roundsOf(M, p) /\ S \in SUBSET (0..MaxRound)
  BY RoundsOfType DEF roundsOf, recordOf
<1>2. ASSUME NEW s \in S PROVE Cardinality({t \in S : t > s}) < MaxControlRounds
  <2>1. PICK m \in M : m.voter = p /\ m.round = s /\ m \notin lock(M, p)
    BY DEF roundsOf, recordOf
  <2>2. Cardinality(above(M, p, s)) < MaxControlRounds
    BY <2>1 DEF Trimmed
  <2>3. {t \in S : t > s} \subseteq above(M, p, s)
    BY <1>1 DEF above
  <2>4. IsFiniteSet(above(M, p, s)) /\ Cardinality(above(M, p, s)) \in Nat
    BY RoundsFinite
  <2>5. /\ Cardinality({t \in S : t > s}) <= Cardinality(above(M, p, s))
        /\ IsFiniteSet({t \in S : t > s})
    BY <2>3, <2>4, FS_Subset
  <2>6. Cardinality({t \in S : t > s}) \in Nat
    BY <2>5, FS_CardinalityType
  <2> QED BY <2>2, <2>4, <2>5, <2>6, BoundsAssumption
<1> HIDE DEF S
<1>3. IsFiniteSet(S) /\ Cardinality(S) <= MaxControlRounds
  BY <1>1, <1>2, RoundsFromLeast, BoundsAssumption
<1> QED BY <1>3 DEF S

-----------------------------------------------------------------------------
(* A trimmed record has few messages.                                      *)

\* A larger factor makes a larger product.
LEMMA LargerProduct ==
  ASSUME NEW a \in Nat, NEW b \in Nat, NEW c \in Nat, a <= b
  PROVE  a * c \in Nat /\ a * c <= b * c
<1>1. PICK d \in Nat : b = a + d
  <2>1. b - a \in Nat /\ b = a + (b - a)
    OBVIOUS
  <2> QED BY <2>1
<1>2. b * c = a * c + d * c /\ a * c \in Nat /\ d * c \in Nat
  BY <1>1
<1> QED BY <1>2

\* The messages of a step of p can be numbered up to MaxControlEvidence.
LEMMA SlotNumbered ==
  ASSUME NEW M, IsFiniteSet(M), NEW p, SlotsBounded(M, p), NEW t \in Steps, NEW r \in Rounds
  PROVE  \E g : g \in Injection(slotOf(M, p, t, r), 1..MaxControlEvidence)
<1> DEFINE S == slotOf(M, p, t, r)
<1>1. S \in SUBSET M
  BY DEF slotOf
<1>2. IsFiniteSet(S)
  BY <1>1, FS_Subset
<1>3. Cardinality(S) \in Nat /\ Cardinality(S) <= MaxControlEvidence
  BY <1>2, FS_CardinalityType DEF SlotsBounded
<1> HIDE DEF S
<1>4. ExistsBijection(1..Cardinality(S), S)
  BY <1>2, FS_CardinalityType
<1>5. ExistsBijection(S, 1..Cardinality(S))
  BY <1>4, Fun_ExistsBijSymmetric
<1>6. PICK g : g \in Bijection(S, 1..Cardinality(S))
  BY <1>5 DEF ExistsBijection
<1>7. 1..Cardinality(S) \subseteq 1..MaxControlEvidence
  BY <1>3, BoundsAssumption
<1>8. g \in Injection(S, 1..MaxControlEvidence)
  BY <1>6, <1>7 DEF Bijection, Injection
<1> QED BY <1>8 DEF S

\* Beside its lock, a trimmed record has at most MaxControlEvidence messages for
\* each step of MaxControlRounds rounds.
LEMMA TrimmedMessages ==
  ASSUME NEW M \in SUBSET Messages, IsFiniteSet(M), NEW p, Trimmed(M, p), SlotsBounded(M, p)
  PROVE  LET X == recordOf(M, p) \ lock(M, p)
         IN /\ IsFiniteSet(X)
            /\ Cardinality(X) <= MaxControlRounds * Cardinality(Steps) * MaxControlEvidence
<1> DEFINE X == recordOf(M, p) \ lock(M, p)
           S == roundsOf(X, p)
           place(t, r) == CHOOSE g : g \in Injection(slotOf(M, p, t, r), 1..MaxControlEvidence)
           T == (S \X Steps) \X (1..MaxControlEvidence)
           f == [m \in X |-> <<<<m.round, m.type>>, place(m.type, m.round)[m]>>]
<1>1. IsFiniteSet(S) /\ Cardinality(S) <= MaxControlRounds
  BY TrimmedRounds
<1>2. ASSUME NEW m \in X
      PROVE  /\ m \in slotOf(M, p, m.type, m.round) /\ m.type \in Steps
             /\ m.round \in S
             /\ place(m.type, m.round) \in Injection(slotOf(M, p, m.type, m.round), 1..MaxControlEvidence)
  <2>1. m \in M /\ m.voter = p /\ m.type \in Steps /\ m.round \in Rounds
    BY MessageFields DEF recordOf
  <2>2. m \in slotOf(M, p, m.type, m.round) /\ m.round \in S
    BY <2>1 DEF slotOf, roundsOf
  <2>3. \E g : g \in Injection(slotOf(M, p, m.type, m.round), 1..MaxControlEvidence)
    BY <2>1, SlotNumbered
  <2> QED BY <2>1, <2>2, <2>3
<1> HIDE DEF place, S
<1>3. f \in [X -> T]
  <2>1. ASSUME NEW m \in X PROVE place(m.type, m.round)[m] \in 1..MaxControlEvidence
    BY <1>2 DEF Injection
  <2> QED BY <1>2, <2>1
<1>4. ASSUME NEW m \in X, NEW n \in X, f[m] = f[n] PROVE m = n
  <2>1. m.type = n.type /\ m.round = n.round /\ place(m.type, m.round)[m] = place(n.type, n.round)[n]
    BY <1>4
  <2>2. n \in slotOf(M, p, m.type, m.round)
    BY <1>2, <2>1
  <2> QED BY <1>2, <2>1, <2>2 DEF Injection, IsInjective
<1>5. f \in Injection(X, T)
  <2> HIDE DEF f, X, T
  <2> QED BY <1>3, <1>4 DEF Injection, IsInjective
<1>6. IsFiniteSet(Steps) /\ Cardinality(Steps) \in Nat
  <2>1. Steps = ({"PROPOSAL"} \cup {"PREVOTE"}) \cup {"PRECOMMIT"}
    BY DEF Steps
  <2>2. IsFiniteSet({"PROPOSAL"})
    BY FS_Singleton
  <2>3. IsFiniteSet({"PROPOSAL"} \cup {"PREVOTE"})
    BY <2>2, FS_AddElement
  <2>4. IsFiniteSet(Steps)
    BY <2>1, <2>3, FS_AddElement
  <2> QED BY <2>4, FS_CardinalityType
<1>7. IsFiniteSet(1..MaxControlEvidence) /\ Cardinality(1..MaxControlEvidence) = MaxControlEvidence
  BY FS_Interval, BoundsAssumption
<1>8. /\ IsFiniteSet(S \X Steps) /\ Cardinality(S \X Steps) = Cardinality(S) * Cardinality(Steps)
      /\ Cardinality(S) \in Nat
  BY <1>1, <1>6, FS_Product, FS_CardinalityType
<1>9. IsFiniteSet(T) /\ Cardinality(T) = (Cardinality(S) * Cardinality(Steps)) * MaxControlEvidence
  <2> DEFINE Q == S \X Steps
  <2>1. IsFiniteSet(Q) /\ Cardinality(Q) = Cardinality(S) * Cardinality(Steps)
    BY <1>8
  <2> HIDE DEF Q
  <2>2. /\ IsFiniteSet(Q \X (1..MaxControlEvidence))
        /\ Cardinality(Q \X (1..MaxControlEvidence)) = Cardinality(Q) * Cardinality(1..MaxControlEvidence)
    BY <1>7, <2>1, FS_Product
  <2> USE DEF Q
  <2> QED BY <1>7, <2>1, <2>2
<1>10. IsFiniteSet(X) /\ Cardinality(X) <= Cardinality(T)
  <2> HIDE DEF f, X, T
  <2> QED BY <1>5, <1>9, FS_Injection
<1> DEFINE few == Cardinality(S) * Cardinality(Steps)
           many == MaxControlRounds * Cardinality(Steps)
<1>11. few \in Nat /\ many \in Nat /\ few <= many
  BY <1>1, <1>6, <1>8, LargerProduct, BoundsAssumption
<1>12. few * MaxControlEvidence \in Nat /\ few * MaxControlEvidence <= many * MaxControlEvidence
  <2> HIDE DEF few, many
  <2> QED BY <1>11, LargerProduct, BoundsAssumption
<1>13. Cardinality(X) \in Nat
  BY <1>10, FS_CardinalityType
<1>14. Cardinality(X) <= many * MaxControlEvidence
  <2>1. Cardinality(T) = few * MaxControlEvidence /\ many * MaxControlEvidence \in Nat
    BY <1>9, <1>11, BoundsAssumption
  <2> HIDE DEF few, many, X, T
  <2> QED BY <1>10, <1>12, <1>13, <2>1
<1> QED BY <1>10, <1>14

-----------------------------------------------------------------------------
(* Adding a message keeps records trimmed.                                 *)

\* The lock of a voter is the lock of its record, so records that are alike are
\* trimmed alike.
LEMMA LockOfRecord ==
  ASSUME NEW M, NEW p
  PROVE  lock(recordOf(M, p), p) = lock(M, p)
<1>1. {m \in recordOf(M, p) : m.voter = p /\ m.type = "PRECOMMIT" /\ m.value # Nil}
        = {m \in M : m.voter = p /\ m.type = "PRECOMMIT" /\ m.value # Nil}
  BY DEF recordOf
<1> QED BY <1>1 DEF lock

LEMMA AlikeTrimmed ==
  ASSUME NEW M, NEW N, NEW p, recordOf(N, p) = recordOf(M, p), Trimmed(M, p)
  PROVE  Trimmed(N, p)
<1>1. lock(N, p) = lock(M, p)
  BY LockOfRecord
<1>2. roundsOf(N, p) = roundsOf(M, p)
  <2>1. roundsOf(N, p) = {m.round : m \in recordOf(N, p)}
    BY DEF roundsOf, recordOf
  <2>2. roundsOf(M, p) = {m.round : m \in recordOf(M, p)}
    BY DEF roundsOf, recordOf
  <2> QED BY <2>1, <2>2
<1>3. ASSUME NEW m \in N, m.voter = p PROVE m \in M
  BY <1>3 DEF recordOf
<1> QED BY <1>1, <1>2, <1>3 DEF Trimmed, above

\* trimControlRounds trims.
LEMMA TrimTrims ==
  ASSUME NEW M \in SUBSET Messages, NEW p
  PROVE  Trimmed(trimControlRounds(M, p), p)
<1> DEFINE N == trimControlRounds(M, p)
           pre(X) == {n \in X : n.voter = p /\ n.type = "PRECOMMIT" /\ n.value # Nil}
           top(X) == {n \in pre(X) : \A o \in pre(X) : o.round <= n.round}
           many(n) == ~ (Cardinality(above(M, p, n.round)) < MaxControlRounds)
<1>1. N \in SUBSET M
  BY DEF trimControlRounds
<1>2. ASSUME NEW n \in N, n.voter = p, many(n) PROVE n \in lock(M, p)
  BY <1>2 DEF trimControlRounds, above
<1>3. SUFFICES ASSUME NEW m \in N, m.voter = p, many(m)
               PROVE  m \in lock(N, p)
  <2>1. ASSUME NEW m \in N, m.voter = p, ~ many(m)
        PROVE  Cardinality(above(N, p, m.round)) < MaxControlRounds
    <3>1. Cardinality(above(N, p, m.round)) <= Cardinality(above(M, p, m.round))
      BY <1>1, FewerAbove
    <3>2. Cardinality(above(N, p, m.round)) \in Nat /\ Cardinality(above(M, p, m.round)) \in Nat
      BY <1>1, RoundsFinite
    <3> QED BY <2>1, <3>1, <3>2, BoundsAssumption
  <2> QED BY <2>1 DEF Trimmed
<1>4. m \in lock(M, p)
  BY <1>2, <1>3
<1>5. lock(M, p) = {CHOOSE o \in top(M) : TRUE} /\ top(M) # {}
  BY <1>4 DEF lock
<1>6. m \in top(M)
  BY <1>4, <1>5
<1>7. m \in top(N)
  BY <1>1, <1>6
<1>8. ASSUME NEW n \in top(N) PROVE n = m
  <2>1. n.round = m.round
    <3>1. n.round <= m.round /\ m.round <= n.round
      BY <1>1, <1>6, <1>7, <1>8
    <3>2. n \in Messages /\ m \in Messages
      BY <1>1, <1>8
    <3> QED BY <3>1, <3>2, MessageFields DEF Rounds
  <2>2. n \in lock(M, p)
    BY <1>2, <1>3, <2>1
  <2> QED BY <1>4, <1>5, <2>2
<1>9. top(N) = {m}
  BY <1>7, <1>8
<1>10. lock(N, p) = {CHOOSE o \in top(N) : TRUE}
  BY <1>9 DEF lock
<1> QED BY <1>9, <1>10

\* What an addition keeps of the evidence M.
Bounded(M) == IsFiniteSet(M) /\ \A p \in Voters : Trimmed(M, p) /\ SlotsBounded(M, p)

LEMMA AddKeepsBounds ==
  ASSUME NEW M \in SUBSET Messages, Bounded(M), NEW m \in Messages
  PROVE  Bounded(AddControlMessage(M, m))
<1>1. CASE ~ admits(M, m)
  BY <1>1 DEF AddControlMessage
<1>2. CASE admits(M, m)
  <2> DEFINE L == M \cup {m}
             N == trimControlRounds(L, m.voter)
  <2>1. AddControlMessage(M, m) = N /\ N \in SUBSET L /\ L \in SUBSET Messages
    BY <1>2 DEF AddControlMessage, trimControlRounds
  <2>2. IsFiniteSet(L) /\ IsFiniteSet(N)
    <3>1. IsFiniteSet(L)
      BY FS_AddElement DEF Bounded
    <3> QED BY <2>1, <3>1, FS_Subset
  <2>3. ASSUME NEW p \in Voters PROVE Trimmed(N, p)
    <3>1. CASE p = m.voter
      BY <2>1, <3>1, TrimTrims
    <3>2. CASE p # m.voter
      <4>1. recordOf(N, p) = recordOf(M, p)
        BY <3>2 DEF recordOf, trimControlRounds
      <4> QED BY <4>1, AlikeTrimmed DEF Bounded
    <3> QED BY <3>1, <3>2
  <2>4. ASSUME NEW p \in Voters, NEW t \in Steps, NEW r \in Rounds
        PROVE  Cardinality(slotOf(N, p, t, r)) <= MaxControlEvidence
    <3> DEFINE S == slotOf(M, p, t, r)
    <3>1. IsFiniteSet(S) /\ Cardinality(S) \in Nat /\ Cardinality(S) <= MaxControlEvidence
      <4>1. S \in SUBSET M
        BY DEF slotOf
      <4>2. IsFiniteSet(S)
        BY <4>1, FS_Subset DEF Bounded
      <4> QED BY <4>2, FS_CardinalityType DEF Bounded, SlotsBounded
    <3>2. slotOf(N, p, t, r) \in SUBSET (S \cup {m})
      BY <2>1 DEF slotOf
    <3>3. CASE m.voter = p /\ m.type = t /\ m.round = r
      <4>1. Cardinality(S) < MaxControlEvidence
        BY <1>2, <3>3 DEF admits, slotOf
      <4> HIDE DEF S, N
      <4>2. IsFiniteSet(S \cup {m}) /\ Cardinality(S \cup {m}) <= Cardinality(S) + 1
        <5>1. /\ IsFiniteSet(S \cup {m})
              /\ Cardinality(S \cup {m}) = IF m \in S THEN Cardinality(S) ELSE Cardinality(S) + 1
          BY <3>1, FS_AddElement
        <5> QED BY <3>1, <5>1
      <4>3. /\ Cardinality(slotOf(N, p, t, r)) <= Cardinality(S \cup {m})
            /\ IsFiniteSet(slotOf(N, p, t, r))
        BY <3>2, <4>2, FS_Subset
      <4>4. Cardinality(slotOf(N, p, t, r)) \in Nat /\ Cardinality(S \cup {m}) \in Nat
        BY <4>2, <4>3, FS_CardinalityType
      <4> QED BY <3>1, <4>1, <4>2, <4>3, <4>4, BoundsAssumption
    <3>4. CASE ~ (m.voter = p /\ m.type = t /\ m.round = r)
      <4>1. slotOf(N, p, t, r) \in SUBSET S
        BY <2>1, <3>4 DEF slotOf
      <4> HIDE DEF S, N
      <4>2. /\ Cardinality(slotOf(N, p, t, r)) <= Cardinality(S)
            /\ IsFiniteSet(slotOf(N, p, t, r))
        BY <3>1, <4>1, FS_Subset
      <4>3. Cardinality(slotOf(N, p, t, r)) \in Nat
        BY <4>2, FS_CardinalityType
      <4> QED BY <3>1, <4>2, <4>3, BoundsAssumption
    <3> QED BY <3>3, <3>4
  <2> QED BY <2>1, <2>2, <2>3, <2>4 DEF Bounded, SlotsBounded
<1> QED BY <1>1, <1>2

-----------------------------------------------------------------------------
(* The theorem.                                                            *)

\* Every state's evidence stays within the bounds.
EvidenceInv == \A v \in Honest : Bounded(held[v])

\* A step leaves a state's messages alone, drops them, or adds one.
LEMMA HeldCases ==
  ASSUME TypeOK, [Next]_vars, NEW v \in Honest
  PROVE  \/ held'[v] = held[v]
         \/ held'[v] = {}
         \/ \E m \in Messages : held'[v] = AddControlMessage(held[v], m)
<1>1. CASE UNCHANGED vars
  BY <1>1 DEF vars
<1> DEFINE outcome == \/ held'[v] = held[v]
                      \/ held'[v] = {}
                      \/ \E m \in Messages : held'[v] = AddControlMessage(held[v], m)
<1>2. ASSUME NEW w \in Honest, Step(w) PROVE outcome
  <2>1. CASE Decide(w)
    <3>1. PICK p \in decidable(held[w]) :
            adopt(w, p.value, votesFor(held[w], "PRECOMMIT", p.round, p.value))
      BY <2>1 DEF Decide
    <3> QED BY <3>1 DEF adopt, TypeOK
  <2>2. ASSUME NEW r, enterRound(w, r) PROVE outcome
    BY <2>2 DEF enterRound
  <2>3. ASSUME NEW m, output(w, m) PROVE outcome
    BY <2>3 DEF output
  <2> QED BY <1>2, <2>1, <2>2, <2>3, StepCases
<1>3. ASSUME NEW w \in Honest, NEW m \in Messages, addOwn(w, m) PROVE outcome
  BY <1>3 DEF addOwn, TypeOK
<1>4. ASSUME NEW w \in Honest, Send(w) \/ LateSend(w) PROVE outcome
  <2>1. PICK m \in pending[w] \cup leaving[w] : addOwn(w, m)
    BY <1>4 DEF Send, LateSend
  <2> QED BY <1>3, <2>1 DEF TypeOK
<1>5. ASSUME NEW w \in Honest, NEW m \in sent \cup FaultyMessages, Receive(w, m) PROVE outcome
  <2>1. m \in Messages
    BY PoolType DEF pool
  <2> QED BY <1>5, <2>1 DEF Receive, TypeOK
<1>6. ASSUME NEW w \in Honest, ImportDecision(w) PROVE outcome
  BY <1>6 DEF ImportDecision, adopt, TypeOK
<1>7. ASSUME NEW w \in Honest, NEW J \in Judgments, Expire(w, J) PROVE outcome
  BY <1>7 DEF Expire
<1>8. ASSUME NEW w \in Honest, Restart(w) \/ Reattach(w) PROVE outcome
  BY <1>8 DEF Restart, Reattach
<1> QED BY <1>1, <1>2, <1>4, <1>5, <1>6, <1>7, <1>8 DEF Next

LEMMA EmptyBounded == Bounded({})
<1>1. \A p, t, r : slotOf({}, p, t, r) = {}
  BY DEF slotOf
<1> QED BY <1>1, FS_EmptySet, BoundsAssumption DEF Bounded, Trimmed, SlotsBounded

LEMMA EvidenceStep ==
  ASSUME TypeOK, EvidenceInv, [Next]_vars
  PROVE  EvidenceInv'
<1> SUFFICES ASSUME NEW v \in Honest PROVE Bounded(held'[v])
  BY DEF EvidenceInv
<1>1. held[v] \in SUBSET Messages /\ Bounded(held[v])
  BY DEF TypeOK, EvidenceInv
<1> QED BY <1>1, HeldCases, EmptyBounded, AddKeepsBounds

LEMMA EvidenceWithinBounds ==
  ASSUME TypeOK, EvidenceInv
  PROVE  BoundedEvidence
<1> SUFFICES ASSUME NEW v \in Honest, NEW p \in Voters
             PROVE  LET record == {m \in held[v] : m.voter = p}
                    IN /\ Cardinality(record)
                            <= MaxControlRounds * Cardinality(Steps) * MaxControlEvidence + 1
                       /\ Cardinality(roundsOf(record \ lock(record, p), p)) <= MaxControlRounds
  BY DEF BoundedEvidence
<1> DEFINE record == recordOf(held[v], p)
           rest == record \ lock(held[v], p)
           bound == MaxControlRounds * Cardinality(Steps) * MaxControlEvidence
<1>1. held[v] \in SUBSET Messages /\ IsFiniteSet(held[v])
      /\ Trimmed(held[v], p) /\ SlotsBounded(held[v], p)
  BY DEF TypeOK, EvidenceInv, Bounded
<1>2. record = {m \in held[v] : m.voter = p} /\ lock(record, p) = lock(held[v], p)
  BY LockOfRecord DEF recordOf
<1>3. Cardinality(roundsOf(rest, p)) <= MaxControlRounds
  BY <1>1, TrimmedRounds
<1>4. IsFiniteSet(rest) /\ Cardinality(rest) <= bound /\ Cardinality(rest) \in Nat
  BY <1>1, TrimmedMessages, FS_CardinalityType
<1>5. record \in SUBSET rest \/ \E l : record \in SUBSET (rest \cup {l})
  BY DEF lock
<1>6. \E X : IsFiniteSet(X) /\ record \in SUBSET X /\ Cardinality(X) <= Cardinality(rest) + 1
  <2> HIDE DEF record, rest
  <2>1. CASE record \in SUBSET rest
    BY <1>4, <2>1
  <2>2. ASSUME NEW l, record \in SUBSET (rest \cup {l})
        PROVE  \E X : IsFiniteSet(X) /\ record \in SUBSET X /\ Cardinality(X) <= Cardinality(rest) + 1
    <3>1. IsFiniteSet(rest \cup {l}) /\ Cardinality(rest \cup {l}) <= Cardinality(rest) + 1
      BY <1>4, FS_AddElement
    <3> QED BY <2>2, <3>1
  <2> QED BY <1>5, <2>1, <2>2
<1>7. Cardinality(record) <= Cardinality(rest) + 1
  <2> HIDE DEF record, rest
  <2>1. PICK X : IsFiniteSet(X) /\ record \in SUBSET X /\ Cardinality(X) <= Cardinality(rest) + 1
    BY <1>6
  <2>2. IsFiniteSet(record) /\ Cardinality(record) <= Cardinality(X)
    BY <2>1, FS_Subset
  <2>3. Cardinality(record) \in Nat /\ Cardinality(X) \in Nat
    BY <2>1, <2>2, FS_CardinalityType
  <2> QED BY <1>4, <2>1, <2>2, <2>3
<1>8. Cardinality(record) \in Nat
  <2>1. record \in SUBSET held[v]
    BY DEF recordOf
  <2>2. IsFiniteSet(record)
    BY <1>1, <2>1, FS_Subset
  <2> QED BY <2>2, FS_CardinalityType
<1>9. Cardinality(record) <= bound + 1
  <2>1. Cardinality(Steps) \in Nat
    <3>1. Steps = ({"PROPOSAL"} \cup {"PREVOTE"}) \cup {"PRECOMMIT"}
      BY DEF Steps
    <3>2. IsFiniteSet({"PROPOSAL"} \cup {"PREVOTE"})
      BY FS_Singleton, FS_AddElement
    <3>3. IsFiniteSet(Steps)
      BY <3>1, <3>2, FS_AddElement
    <3> QED BY <3>3, FS_CardinalityType
  <2>2. bound \in Nat
    BY <2>1, BoundsAssumption
  <2> HIDE DEF record, rest, bound
  <2> QED BY <1>4, <1>7, <1>8, <2>2
<1> QED BY <1>2, <1>3, <1>9

\* A state never outgrows what the validation of a state accepts: whatever a
\* faulty voter signs and in whatever order it arrives, a voter's record is at
\* most its lock and MaxControlEvidence messages for each step of
\* MaxControlRounds rounds.
THEOREM EvidenceStaysBounded == Spec => []BoundedEvidence
<1>1. Init => EvidenceInv
  BY EmptyBounded DEF Init, EvidenceInv
<1>2. Spec => []EvidenceInv
  BY <1>1, EvidenceStep, TypeCorrect, PTL DEF Spec
<1> QED BY <1>2, TypeCorrect, EvidenceWithinBounds, PTL

=============================================================================
