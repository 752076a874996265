---------------------------- MODULE ControlRounds ----------------------------
(***************************************************************************)
(* One decision of a group that controls a shared object: the voters of a  *)
(* config agree on the next control record or the next checkpoint, by the  *)
(* Tendermint rounds of core/sobject/rounds.go, driven by the Control of   *)
(* core/sobject/control-driver.go over the messages each device's state    *)
(* holds (core/sobject/control-state.go).                                  *)
(*                                                                         *)
(* A decision is named by a height and a config, which are fixed here.     *)
(* Each honest voter keeps, in its own persisted state, the messages it    *)
(* holds; its round and timers are in memory and a restart loses them.     *)
(* A step computes a message from a snapshot of the state and adds it      *)
(* later under the host lock, so computing and adding are two actions.     *)
(* Applying a decision checks its commit again under the lock, so a step   *)
(* that decides is one action.                                             *)
(* Messages travel between states late, in any order, any number of times, *)
(* or never.                                                               *)
(***************************************************************************)
EXTENDS Naturals, Sequences, FiniteSets, FiniteSetsExt

CONSTANTS
  Voters,            \* the voters of the held config
  VotingWeight,      \* VotingWeight[v]: weight of voter v
  MaxVotingWeight,   \* the largest weight a config may give a voter
  VoterOrder,        \* the voters, sorted, as the rounds take turns
  Height,            \* the height of the decision
  Faulty,            \* voters that sign anything
  FaultyMessages,    \* what the faulty voters sign
  Restarting,        \* honest voters that may stop and start again
  Overlapping,       \* honest voters whose body is attached again while the
                     \* driver of the previous body still adds a message
  Values,            \* hashes of the proposed values, as numbers
  ValidValues,       \* values a voter's judgment accepts
  Wanted,            \* Wanted[v]: values v's state proposes
  MayDefer,          \* whether a judgment or a proposal may be late
  InOrder,           \* whether a signer's messages arrive in signing order
  MaxControlRounds,  \* rounds of one voter a state keeps
  MaxControlEvidence,\* messages of one voter a state keeps for one step
  MaxRound           \* bound: the last round considered

Nil == 0             \* the empty hash of a nil vote
Rounds == 1..MaxRound
Steps == {"PROPOSAL", "PREVOTE", "PRECOMMIT"}
Honest == Voters \ Faulty

\* The control messages of the decision that pass Validate: a proposal names a
\* value and a valid round before its own, a vote names neither.
Messages ==
  {m \in [type : Steps, voter : Voters, round : Rounds,
          value : Values \cup {Nil}, validRound : 0..MaxRound] :
     IF m.type = "PROPOSAL" THEN m.value # Nil /\ m.validRound < m.round
                            ELSE m.validRound = 0}

ASSUME VotersAssumption ==
  /\ IsFiniteSet(Voters)
  /\ MaxVotingWeight \in Nat
  /\ VotingWeight \in [Voters -> 1..MaxVotingWeight]
  /\ VoterOrder \in Seq(Voters)
  /\ Len(VoterOrder) > 0
  /\ Height \in Nat
  /\ Faulty \subseteq Voters
  /\ Restarting \subseteq Honest
  /\ Overlapping \subseteq Honest

ASSUME ValuesAssumption ==
  /\ Values \subseteq Nat \ {0}
  /\ ValidValues \subseteq Values
  /\ Wanted \in [Honest -> SUBSET ValidValues]
  /\ FaultyMessages \subseteq {m \in Messages : m.voter \in Faulty}

ASSUME BoundsAssumption ==
  /\ MayDefer \in BOOLEAN
  /\ InOrder \in BOOLEAN
  /\ MaxControlRounds \in Nat \ {0}
  /\ MaxControlEvidence \in Nat \ {0}
  /\ MaxRound \in Nat \ {0}

VARIABLES
  held,      \* held[v]: messages of the decision v's persisted state holds
  sent,      \* every message an honest voter ever added to its own state
  round,     \* round[v]: the round v's driver moved to in memory, or 0
  expired,   \* expired[v]: the driver's timers that ran out, as <<step, round>>
  pending,   \* pending[v]: the signed message waiting for the host lock, if any
  leaving,   \* leaving[v]: a message whose addition, under the host lock, outlives
             \* the body of the driver that signed it, if any
  decision,  \* decision[v]: the value v applied, or Nil while undecided
  commit     \* commit[v]: the precommits that v applied it with

vars == <<held, sent, round, expired, pending, leaving, decision, commit>>
driver == <<round, expired>>

-----------------------------------------------------------------------------
(* Weights and tallies.                                                    *)

\* The weight of a set of voters, as the number of votes its members cast.
voterWeight(S) == Cardinality({vote \in S \X (1..MaxVotingWeight) :
                                 vote[2] <= VotingWeight[vote[1]]})
TotalVotingWeight == voterWeight(Voters)

HasQuorum(weight) == TotalVotingWeight # 0 /\ weight * 3 > TotalVotingWeight * 2
exceedsFaultyWeight(weight) == weight * 3 > TotalVotingWeight

\* Mutated form of votesFor: the votes of every round count.
votesForInAnyRound(M, type, r, x) == {m \in M : m.type = type /\ m.value = x}

votesFor(M, type, r, x) ==
  {m \in M : m.type = type /\ m.round = r /\ m.value = x}
signers(M) == {m.voter : m \in M}

\* A quorum of distinct voters cast type for x in r, or for anything in r.
quorum(M, type, r, x) == HasQuorum(voterWeight(signers(votesFor(M, type, r, x))))
quorumAny(M, type, r) ==
  HasQuorum(voterWeight(signers({m \in M : m.type = type /\ m.round = r})))

roundProposer(r) == VoterOrder[((Height + r) % Len(VoterOrder)) + 1]

-----------------------------------------------------------------------------
(* The messages a state keeps.                                             *)

roundsOf(M, p) == {m.round : m \in {n \in M : n.voter = p}}

\* The highest non-nil precommit of p in M, as a set of at most one message.
lock(M, p) ==
  LET precommits == {m \in M : m.voter = p /\ m.type = "PRECOMMIT" /\ m.value # Nil}
      highest    == {m \in precommits : \A n \in precommits : n.round <= m.round}
  IN IF highest = {} THEN {} ELSE {CHOOSE m \in highest : TRUE}

\* Mutated form of trimControlRounds: the lock goes with its round.
trimWithLock(M, p) ==
  {m \in M : \/ m.voter # p
             \/ Cardinality({r \in roundsOf(M, p) : r > m.round}) < MaxControlRounds}

\* Mutated form of trimControlRounds: one round too many stays.
trimOneLess(M, p) ==
  {m \in M : \/ m.voter # p
             \/ Cardinality({r \in roundsOf(M, p) : r > m.round}) <= MaxControlRounds
             \/ m \in lock(M, p)}

\* Keep the newest MaxControlRounds rounds of p, and its lock.
trimControlRounds(M, p) ==
  {m \in M : \/ m.voter # p
             \/ Cardinality({r \in roundsOf(M, p) : r > m.round}) < MaxControlRounds
             \/ m \in lock(M, p)}

\* Whether AddControlMessage takes a new message m into M: proposals come from
\* the round's proposer, and a voter has at most MaxControlEvidence messages
\* for one step of one round.
admits(M, m) ==
  /\ m \notin M
  /\ m.type = "PROPOSAL" => m.voter = roundProposer(m.round)
  /\ Cardinality({n \in M : n.voter = m.voter /\ n.type = m.type /\ n.round = m.round})
       < MaxControlEvidence

AddControlMessage(M, m) ==
  IF admits(M, m) THEN trimControlRounds(M \cup {m}, m.voter) ELSE M

-----------------------------------------------------------------------------
(* What one step of a voter reads.                                         *)

controlOpen(v) == decision[v] = Nil

\* The round a step resumes in.
currentRound(v) == Max({1, round[v]} \cup roundsOf(held[v], v))

\* Whether v's state holds v's own message of the step type of round r.
has(v, type, r) ==
  \E m \in held[v] : m.voter = v /\ m.type = type /\ m.round = r

\* Mutated form of Judgments: a value the voter cannot judge yet passes.
JudgmentsTrusting ==
  {J \in [Values -> {"valid", "invalid"}] : \A x \in ValidValues : J[x] = "valid"}

\* How a voter may judge each value, within one step.
Judgments ==
  {J \in [Values -> {"unknown", "valid", "invalid"}] :
     \A x \in Values :
       \/ J[x] = (IF x \in ValidValues THEN "valid" ELSE "invalid")
       \/ MayDefer /\ J[x] = "unknown"}

\* Proposals that a quorum of precommits decides.
decidable(M) ==
  {m \in M : m.type = "PROPOSAL" /\ quorum(M, "PRECOMMIT", m.round, m.value)}

\* Rounds after r that more than a third of the weight reached.
skipTargets(M, r) ==
  {s \in Rounds : s > r /\ exceedsFaultyWeight(voterWeight(signers({m \in M : m.round = s})))}

\* The proposals with the smallest hash among those r's proposer sent.
roundProposal(M, r) ==
  LET sentBy == {m \in M : m.type = "PROPOSAL" /\ m.round = r /\ m.voter = roundProposer(r)}
  IN {m \in sentBy : \A n \in sentBy : m.value <= n.value}

\* The latest proposals of rounds before r that won a polka.
roundValidValue(M, r, J) ==
  LET won == {m \in M : /\ m.type = "PROPOSAL" /\ m.round < r
                        /\ m.voter = roundProposer(m.round)
                        /\ quorum(M, "PREVOTE", m.round, m.value)
                        /\ J[m.value] = "valid"}
  IN {m \in won : \A n \in won : n.round <= m.round}

justified(M, p) ==
  p.validRound = 0 \/ quorum(M, "PREVOTE", p.validRound, p.value)

\* Mutated form of unlockedFor: a fresh proposal passes any lock.
unlockedForFresh(v, p) ==
  \A l \in lock(held[v], v) :
    l.round <= p.validRound \/ p.validRound = 0 \/ l.value = p.value

\* A lock holds a prevote back unless a polka for the value came after it.
unlockedFor(v, p) ==
  \A l \in lock(held[v], v) :
    (l.round <= p.validRound /\ p.validRound # 0) \/ l.value = p.value

vote(v, type, r, x) ==
  [type |-> type, voter |-> v, round |-> r, value |-> x, validRound |-> 0]

isExpired(v, step) == <<step, currentRound(v)>> \in expired[v]

-----------------------------------------------------------------------------
Init ==
  /\ held = [v \in Honest |-> {}]
  /\ sent = {}
  /\ round = [v \in Honest |-> 0]
  /\ expired = [v \in Honest |-> {}]
  /\ pending = [v \in Honest |-> {}]
  /\ leaving = [v \in Honest |-> {}]
  /\ decision = [v \in Honest |-> Nil]
  /\ commit = [v \in Honest |-> {}]

(* The driver's steps. Each is one outcome of stepRound, in its order.     *)

\* The driver is between steps of an open decision.
Ready(v) == pending[v] = {} /\ controlOpen(v)

\* No write of v's state is under way.
unlocked(v) == leaving[v] = {}

\* The driver forgets the decision's round and timers.
resetDriver(v) ==
  /\ round' = [round EXCEPT ![v] = 0]
  /\ expired' = [expired EXCEPT ![v] = {}]

\* The driver moves to round r, and no timer of an earlier round matters.
enterRound(v, r) ==
  /\ round' = [round EXCEPT ![v] = r]
  /\ expired' = [expired EXCEPT ![v] = {}]
  /\ UNCHANGED <<held, sent, pending, leaving, decision, commit>>

\* The state takes the decision x with its commit C and drops its messages.
adopt(v, x, C) ==
  /\ decision' = [decision EXCEPT ![v] = x]
  /\ commit' = [commit EXCEPT ![v] = C]
  /\ held' = [held EXCEPT ![v] = {}]

\* The state holds a decided proposal: apply it with the precommits.
Decide(v) ==
  /\ Ready(v)
  /\ unlocked(v)
  /\ \E p \in decidable(held[v]) :
       adopt(v, p.value, votesFor(held[v], "PRECOMMIT", p.round, p.value))
  /\ resetDriver(v)
  /\ UNCHANGED <<sent, pending, leaving>>

\* Past the decision check, while a value or a round message exists.
Active(v) ==
  /\ Ready(v)
  /\ decidable(held[v]) = {}
  /\ held[v] # {} \/ Wanted[v] # {}

\* Join the highest later round that more than a third of the weight reached.
SkipRound(v) ==
  /\ Active(v)
  /\ skipTargets(held[v], currentRound(v)) # {}
  /\ enterRound(v, Max(skipTargets(held[v], currentRound(v))))

\* The precommit timeout ends the round. Bound: the last round does not end.
EndRound(v) ==
  /\ Active(v)
  /\ skipTargets(held[v], currentRound(v)) = {}
  /\ isExpired(v, "PRECOMMIT")
  /\ currentRound(v) < MaxRound
  /\ enterRound(v, currentRound(v) + 1)

InRound(v) ==
  /\ Active(v)
  /\ skipTargets(held[v], currentRound(v)) = {}
  /\ ~ isExpired(v, "PRECOMMIT")

\* The step leaves the message m to sign and add.
output(v, m) ==
  /\ pending' = [pending EXCEPT ![v] = {m}]
  /\ UNCHANGED <<held, sent, driver, leaving, decision, commit>>

\* Mutated form of proposals: a justified value claims its own round's polka.
proposalsOfThisRound(v, J) ==
  LET r     == currentRound(v)
      won   == roundValidValue(held[v], r, J)
      make(x, vr) == [type |-> "PROPOSAL", voter |-> v, round |-> r, value |-> x, validRound |-> vr]
  IN IF won # {} THEN {make(m.value, r) : m \in won}
                 ELSE {make(x, 0) : x \in Wanted[v]}

\* The values v proposes in its round: the one a polka justified, else its own.
proposals(v, J) ==
  LET r     == currentRound(v)
      won   == roundValidValue(held[v], r, J)
      make(x, vr) == [type |-> "PROPOSAL", voter |-> v, round |-> r, value |-> x, validRound |-> vr]
  IN IF won # {} THEN {make(m.value, m.round) : m \in won}
                 ELSE {make(x, 0) : x \in Wanted[v]}

\* It is v's turn and v sent neither a proposal nor a prevote in the round.
proposes(v) ==
  LET r == currentRound(v)
  IN roundProposer(r) = v /\ ~ has(v, "PROPOSAL", r) /\ ~ has(v, "PREVOTE", r)

Propose(v, J) ==
  /\ InRound(v)
  /\ proposes(v)
  /\ \E p \in proposals(v, J) : output(v, p)

\* The step goes on past proposing: no turn, or nothing to propose yet.
pastProposing(v, J) ==
  proposes(v) => roundValidValue(held[v], currentRound(v), J) = {} /\ (Wanted[v] = {} \/ MayDefer)

\* No prevote of the round is sent yet.
InPrevote(v, J) ==
  /\ InRound(v)
  /\ pastProposing(v, J)
  /\ ~ has(v, "PREVOTE", currentRound(v))

\* Proposals of the round the voter can judge: justified, and not deferred.
judged(v, J) ==
  {p \in roundProposal(held[v], currentRound(v)) :
     justified(held[v], p) /\ J[p.value] # "unknown"}

Prevote(v, J) ==
  /\ InPrevote(v, J)
  /\ \E p \in judged(v, J) :
       LET x == IF J[p.value] = "valid" /\ unlockedFor(v, p) THEN p.value ELSE Nil
       IN output(v, vote(v, "PREVOTE", currentRound(v), x))

\* The step waits for a proposal it can judge.
awaitsProposal(v, J) == InPrevote(v, J) /\ judged(v, J) = {}

PrevoteTimeout(v, J) ==
  /\ awaitsProposal(v, J)
  /\ isExpired(v, "PROPOSAL")
  /\ output(v, vote(v, "PREVOTE", currentRound(v), Nil))

\* The round's prevote is sent and its precommit is not.
InPrecommit(v) ==
  /\ InRound(v)
  /\ has(v, "PREVOTE", currentRound(v))
  /\ ~ has(v, "PRECOMMIT", currentRound(v))

\* Valid proposals of the round with a polka.
lockable(v, J) ==
  {p \in roundProposal(held[v], currentRound(v)) :
     /\ quorum(held[v], "PREVOTE", currentRound(v), p.value)
     /\ J[p.value] = "valid"}

Precommit(v, J) ==
  /\ InPrecommit(v)
  /\ \E p \in lockable(v, J) :
       output(v, vote(v, "PRECOMMIT", currentRound(v), p.value))

PrecommitNil(v, J) ==
  /\ InPrecommit(v)
  /\ lockable(v, J) = {}
  /\ quorum(held[v], "PREVOTE", currentRound(v), Nil) \/ isExpired(v, "PREVOTE")
  /\ output(v, vote(v, "PRECOMMIT", currentRound(v), Nil))

\* Mutated form of dueTimers: a round waits for its precommits forever.
dueTimersOfVotes(v, J) ==
  {step \in {"PROPOSAL", "PREVOTE"} :
     \/ step = "PROPOSAL" /\ awaitsProposal(v, J)
     \/ /\ step = "PREVOTE"
        /\ InPrecommit(v)
        /\ lockable(v, J) = {}
        /\ quorumAny(held[v], "PREVOTE", currentRound(v))}

\* The timeouts a step arms, in the round it stops in.
dueTimers(v, J) ==
  {step \in Steps :
     \/ step = "PRECOMMIT" /\ quorumAny(held[v], "PRECOMMIT", currentRound(v))
     \/ step = "PROPOSAL" /\ awaitsProposal(v, J)
     \/ /\ step = "PREVOTE"
        /\ InPrecommit(v)
        /\ lockable(v, J) = {}
        /\ quorumAny(held[v], "PREVOTE", currentRound(v))}

\* A timeout that a step of the round armed passes.
Expire(v, J) ==
  /\ InRound(v)
  /\ \E step \in dueTimers(v, J) :
       /\ ~ isExpired(v, step)
       /\ expired' = [expired EXCEPT ![v] = @ \cup {<<step, currentRound(v)>>}]
  /\ UNCHANGED <<held, sent, round, pending, leaving, decision, commit>>

Step(v) ==
  \/ Decide(v)
  \/ SkipRound(v)
  \/ EndRound(v)
  \/ \E J \in Judgments :
       \/ Propose(v, J)
       \/ Prevote(v, J)
       \/ PrevoteTimeout(v, J)
       \/ Precommit(v, J)
       \/ PrecommitNil(v, J)

-----------------------------------------------------------------------------
(* What happens under the host lock, and around the driver.                *)

\* Mutated form of addOwn: the state is not asked for an earlier message.
addOwnTwice(v, m) ==
  IF controlOpen(v) /\ admits(held[v], m)
    THEN /\ held' = [held EXCEPT ![v] = AddControlMessage(@, m)]
         /\ sent' = sent \cup {m}
    ELSE UNCHANGED <<held, sent>>

\* Mutated form of addOwn: the state is not asked whether the decision closed.
addOwnLate(v, m) ==
  IF ~ has(v, m.type, m.round) /\ admits(held[v], m)
    THEN /\ held' = [held EXCEPT ![v] = AddControlMessage(@, m)]
         /\ sent' = sent \cup {m}
    ELSE UNCHANGED <<held, sent>>

\* A voter's own message enters its state, unless the decision closed, or the
\* state holds the voter's message of that step already.
addOwn(v, m) ==
  IF controlOpen(v) /\ ~ has(v, m.type, m.round) /\ admits(held[v], m)
    THEN /\ held' = [held EXCEPT ![v] = AddControlMessage(@, m)]
         /\ sent' = sent \cup {m}
    ELSE UNCHANGED <<held, sent>>

Send(v) ==
  /\ unlocked(v)
  /\ \E m \in pending[v] : addOwn(v, m)
  /\ pending' = [pending EXCEPT ![v] = {}]
  /\ UNCHANGED <<driver, leaving, decision, commit>>

\* The addition that outlived its driver's body completes.
LateSend(v) ==
  /\ \E m \in leaving[v] : addOwn(v, m)
  /\ leaving' = [leaving EXCEPT ![v] = {}]
  /\ UNCHANGED <<driver, pending, decision, commit>>

\* Signing order of one voter's messages.
precedes(m, n) ==
  LET rank == [PROPOSAL |-> 0, PREVOTE |-> 1, PRECOMMIT |-> 2]
  IN m.round < n.round \/ (m.round = n.round /\ rank[m.type] < rank[n.type])

\* A message of another state reaches v's.
Receive(v, m) ==
  /\ controlOpen(v)
  /\ unlocked(v)
  /\ m \in (sent \cup FaultyMessages) \ held[v]
  /\ InOrder => \A n \in sent : n.voter = m.voter /\ precedes(n, m)
                  => n \in held[v] \/ n \notin AddControlMessage(held[v], n)
  /\ held' = [held EXCEPT ![v] = AddControlMessage(@, m)]
  /\ UNCHANGED <<sent, driver, pending, leaving, decision, commit>>

\* C decides x: precommits of one round for x, from distinct voters that
\* together hold a quorum.
VerifyCommit(x, C) ==
  /\ C # {}
  /\ \A m \in C : m.type = "PRECOMMIT" /\ m.value = x
  /\ \A m, n \in C : m.round = n.round /\ (m.voter = n.voter => m = n)
  /\ HasQuorum(voterWeight(signers(C)))

\* The commits peers show: those honest voters applied, and any that faulty
\* voters put together from what exists.
shownCommits ==
  {commit[w] : w \in Honest} \cup
  (IF Faulty = {} THEN {}
   ELSE {votesFor(sent \cup FaultyMessages, "PRECOMMIT", r, x) : r \in Rounds, x \in Values})

\* A peer's state shows a decided value with its commit. The driver may hold a
\* message it computed before.
ImportDecision(v) ==
  /\ controlOpen(v)
  /\ unlocked(v)
  /\ \E C \in shownCommits, x \in Values : VerifyCommit(x, C) /\ adopt(v, x, C)
  /\ resetDriver(v)
  /\ UNCHANGED <<sent, pending, leaving>>

\* The process stops, or the body is released while its driver is idle, and
\* the next driver starts from the persisted state.
Restart(v) ==
  /\ v \in Restarting
  /\ resetDriver(v)
  /\ pending' = [pending EXCEPT ![v] = {}]
  /\ leaving' = [leaving EXCEPT ![v] = {}]
  /\ UNCHANGED <<held, sent, decision, commit>>

\* The body is released and another attached while the driver of the first
\* holds the host lock to add a message. Nothing waits for that driver, so the
\* next one starts from the state before the addition.
Reattach(v) ==
  /\ v \in Overlapping
  /\ unlocked(v)
  /\ pending[v] # {}
  /\ leaving' = [leaving EXCEPT ![v] = pending[v]]
  /\ pending' = [pending EXCEPT ![v] = {}]
  /\ resetDriver(v)
  /\ UNCHANGED <<held, sent, decision, commit>>

Next ==
  \E v \in Honest :
    \/ Step(v)
    \/ Send(v)
    \/ LateSend(v)
    \/ \E J \in Judgments : Expire(v, J)
    \/ \E m \in sent \cup FaultyMessages : Receive(v, m)
    \/ ImportDecision(v)
    \/ Restart(v)
    \/ Reattach(v)

Spec == Init /\ [][Next]_vars

-----------------------------------------------------------------------------
(* Properties.                                                             *)

\* Every message that can be shown to anyone.
pool == sent \cup FaultyMessages

\* The voters that sign by the rules and run one driver at a time.
Correct == Honest \ Overlapping

\* The voters that do not, hold at most a third of the weight.
FaultyMinority == voterWeight(Voters \ Correct) * 3 <= TotalVotingWeight

\* The types of the state. An honest voter's state holds well-formed messages
\* only, its driver signs as itself, and at most one message awaits the lock.
TypeOK ==
  /\ held \in [Honest -> SUBSET Messages]
  /\ sent \subseteq {m \in Messages : m.voter \in Honest}
  /\ round \in [Honest -> 0..MaxRound]
  /\ expired \in [Honest -> SUBSET (Steps \X Rounds)]
  /\ pending \in [Honest -> SUBSET Messages]
  /\ leaving \in [Honest -> SUBSET Messages]
  /\ \A v \in Honest :
       /\ \A m \in pending[v] \cup leaving[v] : m.voter = v
       /\ \A m, n \in pending[v] : m = n
       /\ \A m, n \in leaving[v] : m = n
  /\ decision \in [Honest -> Values \cup {Nil}]
  /\ commit \in [Honest -> SUBSET Messages]

\* An honest voter never signs two messages of one type in one round, whatever
\* it forgets in a restart and however many drivers it runs ("it never sends a
\* second message of one type in one round", stepRound).
OneVotePerSlot ==
  \A m, n \in sent :
    m.voter = n.voter /\ m.type = n.type /\ m.round = n.round => m = n

\* A polka for x in round r exists somewhere.
polka(r, x) == quorum(pool, "PREVOTE", r, x)

\* v precommits a value only on a polka for it in that round, and once it did,
\* prevotes another value only on a polka for the other from that round or
\* later, and before its own round.
keepsLock(v) ==
  \A m \in sent :
    m.voter = v /\ m.value # Nil =>
      /\ m.type = "PRECOMMIT" => polka(m.round, m.value)
      /\ m.type = "PREVOTE" =>
           \A l \in sent :
             /\ l.voter = v /\ l.type = "PRECOMMIT" /\ l.value # Nil
             /\ l.round < m.round /\ l.value # m.value
             => \E r \in Rounds : l.round <= r /\ r < m.round /\ polka(r, m.value)

\* Every voter that runs one driver at a time keeps the lock rule, across
\* restarts, dropped rounds and messages that arrive while it signs.
VoteLock == \A v \in Correct : keepsLock(v)

\* Every honest voter keeps the lock rule, as lean/Spacewave/SObject/Rounds.lean
\* states it of an honest voter and rounds_test.go checks it of stepRound.
EveryoneKeepsLock == \A v \in Honest : keepsLock(v)

\* No two honest voters apply different values at one height under one config.
Agreement ==
  \A v, w \in Honest :
    decision[v] # Nil /\ decision[w] # Nil => decision[v] = decision[w]

\* A voter applies a value with a commit every other state will verify: one
\* round's precommits, whatever rounds and duplicates its state held.
CommitsVerify ==
  \A v \in Honest : decision[v] # Nil => VerifyCommit(decision[v], commit[v])

\* What a restart resumes from is complete: while the decision is open, a voter
\* holds its own highest non-nil precommit, and a message of its highest round,
\* however many rounds its state dropped.
ResumesFromHeld ==
  \A v \in Correct : controlOpen(v) =>
    \A m \in sent : m.voter = v =>
      /\ \E n \in held[v] : n.voter = v /\ m.round <= n.round
      /\ m.type = "PRECOMMIT" /\ m.value # Nil =>
           \E l \in lock(held[v], v) : m.round <= l.round

\* A state keeps a bounded record of each voter, the lock beside its newest
\* rounds, so it never outgrows what the validation of a state accepts.
BoundedEvidence ==
  \A v \in Honest, p \in Voters :
    LET record == {m \in held[v] : m.voter = p}
    IN /\ Cardinality(record) <= MaxControlRounds * Cardinality(Steps) * MaxControlEvidence + 1
       /\ Cardinality(roundsOf(record \ lock(record, p), p)) <= MaxControlRounds

\* A decision is final: no message computed before it, and no later commit,
\* reaches a state that applied it.
DecisionFinal ==
  [][\A v \in Honest : decision[v] # Nil =>
       decision'[v] = decision[v] /\ held'[v] = {}]_vars

\* The rounds implement the promise of a group decision.
Promise == INSTANCE GroupDecision WITH
             Deciders <- Honest, Acceptable <- ValidValues, Undecided <- Nil,
             decided <- decision
KeepsPromise == Promise!Spec
=============================================================================
