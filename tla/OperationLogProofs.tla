-------------------------- MODULE OperationLogProofs --------------------------
(***************************************************************************)
(* Theorems about OperationLog, for any devices, configurations and bounds: *)
(* which operations a replica holds, that it loses none, the types of what *)
(* replicas hold, and that a number names one operation.                   *)
(***************************************************************************)
EXTENDS OperationLog, SequenceTheorems, DataInduction, TLAPS

(* What the operations on a state make of the operations it holds.         *)

Fields == {"config", "checkpoint", "ops", "sequence"}

\* The operations s holds are of W, and above its checkpoint.
Above(s, W) == \A op \in s.ops : op \in W /\ ~ Covers(s.checkpoint, position(op))

\* t holds the operations that s holds, but for those its checkpoint covers.
Keeps(s, t) == \A op \in s.ops : op \in t.ops \/ Covers(t.checkpoint, position(op))

\* t is a state that follows s.
Follows(s, t, W) == DOMAIN t = Fields /\ Above(t, W) /\ Keeps(s, t)

\* Placing operations, or changing the config, leaves them alone.
LEMMA SameOperations ==
  ASSUME NEW s, NEW t, NEW W, Above(s, W), DOMAIN t = Fields,
         t.ops = s.ops, t.checkpoint = s.checkpoint
  PROVE  Follows(s, t, W)
  BY DEF Follows, Above, Keeps

LEMMA SequencedFollows ==
  ASSUME NEW s, NEW W, NEW d, DOMAIN s = Fields, Above(s, W)
  PROVE  Follows(s, sequenceOperations(s, d), W)
<1> DEFINE t == sequenceOperations(s, d)
<1>1. t = s \/ \E q : t = [s EXCEPT !.sequence = q]
  BY DEF sequenceOperations
<1>2. DOMAIN t = Fields /\ t.ops = s.ops /\ t.checkpoint = s.checkpoint
  BY <1>1 DEF Fields
<1> HIDE DEF t
<1>3. Follows(s, t, W)
  BY <1>2, SameOperations
<1> QED BY <1>3 DEF t

\* Writing adds the operation, placed or not, unless the checkpoint covers it.
LEMMA WroteFollows ==
  ASSUME NEW s, NEW W, NEW d, NEW op \in W, DOMAIN s = Fields, Above(s, W)
  PROVE  Follows(s, wrote(s, d, op), W)
<1> DEFINE t == AddOperation(s, op)
<1>1. Follows(s, t, W)
  <2>1. CASE Covers(s.checkpoint, position(op))
    BY <2>1, SameOperations DEF AddOperation
  <2>2. CASE ~ Covers(s.checkpoint, position(op))
    <3>1. t = [s EXCEPT !.ops = s.ops \cup {op}]
      BY <2>2 DEF AddOperation
    <3>2. DOMAIN t = Fields /\ t.ops = s.ops \cup {op} /\ t.checkpoint = s.checkpoint
      BY <3>1 DEF Fields
    <3> HIDE DEF t
    <3> QED BY <2>2, <3>2 DEF Follows, Above, Keeps
  <2> QED BY <2>1, <2>2
<1> HIDE DEF t
<1>2. Follows(t, sequenceOperations(t, d), W)
  BY <1>1, SequencedFollows DEF Follows
<1>3. sequenceOperations(t, d).checkpoint = t.checkpoint
  BY <1>1 DEF sequenceOperations, Follows, Fields
<1>4. Follows(s, sequenceOperations(t, d), W)
  BY <1>1, <1>2, <1>3 DEF Follows, Keeps
<1> QED BY <1>4 DEF wrote, t

\* A checkpoint drops what it covers, whoever signed it.
LEMMA AdoptedFollows ==
  ASSUME NEW s, NEW W, NEW next, DOMAIN s = Fields, Above(s, W)
  PROVE  Follows(s, adoptCheckpoint(s, next), W)
<1>1. CASE next.height <= s.checkpoint.height
  BY <1>1, SameOperations DEF adoptCheckpoint
<1>2. CASE ~ (next.height <= s.checkpoint.height)
  <2> DEFINE t == adoptCheckpoint(s, next)
  <2>1. /\ DOMAIN t = Fields /\ t.checkpoint = next
        /\ t.ops = {op \in s.ops : ~ Covers(next, position(op))}
    BY <1>2 DEF adoptCheckpoint, Fields
  <2> HIDE DEF t
  <2>2. Follows(s, t, W)
    BY <2>1 DEF Follows, Above, Keeps
  <2> QED BY <2>2 DEF t
<1> QED BY <1>1, <1>2

\* A merge adds what the other holds above the checkpoint that results.
LEMMA MergedFollows ==
  ASSUME NEW s, NEW c, NEW W, DOMAIN s = Fields, Above(s, W), c.ops \subseteq W
  PROVE  /\ Follows(s, mergeSnapshot(s, c), W) /\ Keeps(c, mergeSnapshot(s, c))
         /\ mergeSnapshot(s, c).config = c.config
<1> DEFINE r == [s EXCEPT !.config = c.config]
           a == adoptCheckpoint(r, c.checkpoint)
           t == mergeSnapshot(s, c)
<1>1. DOMAIN r = Fields /\ r.ops = s.ops /\ r.checkpoint = s.checkpoint /\ r.config = c.config
  BY DEF Fields
<1>2. Follows(s, r, W)
  <2> HIDE DEF r
  <2> QED BY <1>1, SameOperations
<1>3. Follows(r, a, W) /\ a.config = c.config
  <2> HIDE DEF r
  <2>1. a.config = r.config
    BY <1>1 DEF adoptCheckpoint, Fields
  <2> QED BY <1>1, <1>2, <2>1, AdoptedFollows DEF Follows
<1>4. /\ DOMAIN t = Fields /\ t.checkpoint = a.checkpoint /\ t.config = c.config
      /\ t.ops = a.ops \cup {op \in c.ops : ~ Covers(a.checkpoint, position(op))}
  <2>1. DOMAIN a = Fields
    BY <1>3 DEF Follows
  <2>2. \E q : t = [a EXCEPT !.ops = a.ops \cup
                              {op \in c.ops : ~ Covers(a.checkpoint, position(op))},
                            !.sequence = q]
    BY DEF mergeSnapshot
  <2> HIDE DEF a, t
  <2> QED BY <1>3, <2>1, <2>2 DEF Fields
<1>5. Follows(s, t, W)
  <2> HIDE DEF a, r, t
  <2> QED BY <1>1, <1>2, <1>3, <1>4 DEF Follows, Above, Keeps
<1>6. Keeps(c, t)
  <2> HIDE DEF a, t
  <2> QED BY <1>4 DEF Keeps
<1> QED BY <1>4, <1>5, <1>6

-----------------------------------------------------------------------------
(* The step.                                                               *)

\* What is invariant of the states, and of those on disk.
WellKept(states) ==
  /\ DOMAIN states = Devices
  /\ \A d \in Devices : DOMAIN states[d] = Fields /\ Above(states[d], written)

States == WellKept(state) /\ WellKept(durable)

\* How the state of d moves: it follows what d held, loses the operations as d
\* leaves or starts over, or is what was on the disk when d lost power.
stateMoves(d) ==
  \/ Follows(state[d], state'[d], written')
  \/ /\ DOMAIN state'[d] = Fields /\ state'[d].ops = {}
     /\ d \in restored' \ restored \/ d \notin Writers(state'[d].config)
  \/ LosePower(d)

\* What a peer receives, durable or not, is well kept.
LEMMA ShownAbove ==
  ASSUME States, NEW d \in Devices
  PROVE  Above(shown(d), written)
  BY DEF States, WellKept, shown

LEMMA StatesStep ==
  ASSUME States, [Next]_vars
  PROVE  DOMAIN state' = Devices /\ \A d \in Devices : stateMoves(d)
<1> DEFINE moves == DOMAIN state' = Devices /\ \A d \in Devices : stateMoves(d)
<1> USE DEF States, WellKept
<1>1. ASSUME UNCHANGED <<state, written>> PROVE moves
  BY <1>1, SameOperations DEF stateMoves
<1>2. ASSUME NEW d \in Devices, NEW t, state' = [state EXCEPT ![d] = t], written \subseteq written',
             \/ Follows(state[d], t, written')
             \/ /\ DOMAIN t = Fields /\ t.ops = {}
                /\ d \in restored' \ restored \/ d \notin Writers(t.config)
      PROVE  moves
  <2>1. ASSUME NEW e \in Devices PROVE stateMoves(e)
    <3>1. CASE e = d
      BY <1>2, <3>1 DEF stateMoves
    <3>2. CASE e # d
      <4>1. state'[e] = state[e] /\ Above(state[e], written')
        BY <1>2, <3>2 DEF Above
      <4> QED BY <4>1, SameOperations DEF stateMoves
    <3> QED BY <3>1, <3>2
  <2> QED BY <1>2, <2>1
<1>3. ASSUME NEW d \in Devices, NEW ack, AddLocalOperation(d, ack) PROVE moves
  <2>1. PICK op : /\ written' = written \cup {op}
                  /\ state' = [state EXCEPT ![d] = wrote(state[d], d, op)]
    BY <1>3 DEF AddLocalOperation
  <2>2. Above(state[d], written') /\ op \in written' /\ written \subseteq written'
    BY <2>1 DEF Above
  <2> QED BY <1>2, <2>1, <2>2, WroteFollows
<1>4. ASSUME NEW d \in Devices, SequenceOperations(d) PROVE moves
  <2>1. state' = [state EXCEPT ![d] = sequenceOperations(state[d], d)] /\ UNCHANGED written
    BY <1>4 DEF SequenceOperations
  <2> QED BY <1>2, <2>1, SequencedFollows
<1>5. ASSUME NEW d \in Devices, NEW from \in Devices, ImportPeerSnapshot(d, from) PROVE moves
  <2>1. state' = [state EXCEPT ![d] = mergeSnapshot(state[d], shown(from))] /\ UNCHANGED written
    BY <1>5 DEF ImportPeerSnapshot
  <2>2. shown(from).ops \subseteq written
    BY ShownAbove DEF Above
  <2> QED BY <1>2, <2>1, <2>2, MergedFollows
<1>6. ASSUME NEW d \in Devices, NEW from \in Devices, ImportRemoval(d, from) PROVE moves
  <2> DEFINE t == [[state[d] EXCEPT !.config = shown(from).config] EXCEPT !.ops = {}]
  <2>1. state' = [state EXCEPT ![d] = t] /\ UNCHANGED written
    BY <1>6 DEF ImportRemoval
  <2>2. DOMAIN t = Fields /\ t.ops = {} /\ t.config = shown(from).config
    BY DEF Fields
  <2>3. d \notin Writers(shown(from).config)
    BY <1>6 DEF ImportRemoval
  <2> HIDE DEF t
  <2> QED BY <1>2, <2>1, <2>2, <2>3
<1>7. ASSUME NEW d \in Devices, ApplyConfigChange(d) PROVE moves
  <2>1. UNCHANGED written
    BY <1>7 DEF ApplyConfigChange
  <2>2. CASE state' = state
    BY <1>1, <2>1, <2>2
  <2>3. CASE state' = [state EXCEPT ![d].config = intent[d]]
    <3> DEFINE t == [state[d] EXCEPT !.config = intent[d]]
    <3>1. state' = [state EXCEPT ![d] = t]
      BY <2>3
    <3>2. DOMAIN t = Fields /\ t.ops = state[d].ops /\ t.checkpoint = state[d].checkpoint
      BY DEF Fields
    <3> HIDE DEF t
    <3> QED BY <1>2, <2>1, <3>1, <3>2, SameOperations
  <2> QED BY <1>7, <2>2, <2>3 DEF ApplyConfigChange
<1>8. ASSUME NEW d \in Devices, AdoptCheckpoint(d) PROVE moves
  <2>1. UNCHANGED written
    BY <1>8 DEF AdoptCheckpoint
  <2>2. \/ UNCHANGED state
        \/ state' = [state EXCEPT
             ![d] = adoptCheckpoint(state[d], stableCheckpoint(state[d], storing[d]))]
    BY <1>8 DEF AdoptCheckpoint
  <2> QED BY <1>1, <1>2, <2>1, <2>2, AdoptedFollows
<1>9. ASSUME NEW d \in Devices, Restore(d) PROVE moves
  <2> DEFINE t == GenesisState(scenario.config)
  <2>1. state' = [state EXCEPT ![d] = t] /\ UNCHANGED written /\ d \in restored' \ restored
    BY <1>9 DEF Restore
  <2>2. DOMAIN t = Fields /\ t.ops = {}
    BY DEF GenesisState, Fields
  <2> HIDE DEF t
  <2> QED BY <1>2, <2>1, <2>2
<1>10. ASSUME NEW d \in Devices, SetSOSequencer(d) \/ MaintainRoster(d)
                                  \/ RemoveSOParticipant(d) \/ AddSOParticipant(d)
       PROVE  UNCHANGED <<state, written>>
  BY <1>10 DEF SetSOSequencer, MaintainRoster, RemoveSOParticipant, AddSOParticipant, Prepare
<1>11. ASSUME NEW d \in Devices, Step(d) \/ Restart(d) \/ Flush(d)
       PROVE  UNCHANGED <<state, written>>
  BY <1>11 DEF Step, Restart, Flush, log
<1>12. CASE UNCHANGED vars
  BY <1>1, <1>12 DEF vars, log
<1>13. ASSUME NEW d \in Devices, LosePower(d) PROVE moves
  <2>1. state' = [state EXCEPT ![d] = durable[d]] /\ UNCHANGED written
    BY <1>13 DEF LosePower
  <2>2. ASSUME NEW e \in Devices PROVE stateMoves(e)
    <3>1. CASE e = d
      BY <1>13, <3>1 DEF stateMoves
    <3>2. CASE e # d
      <4>1. state'[e] = state[e] /\ Above(state[e], written')
        BY <2>1, <3>2
      <4> QED BY <4>1, SameOperations DEF stateMoves
    <3> QED BY <3>1, <3>2
  <2> QED BY <2>1, <2>2
<1> QED BY <1>1, <1>3, <1>4, <1>5, <1>6, <1>7, <1>8, <1>9, <1>10, <1>11, <1>12, <1>13
        DEF Next, Write, Acknowledge

\* The disk holds what it held, or what the state is.
LEMMA DurableStep ==
  ASSUME States, [Next]_vars
  PROVE  /\ written \subseteq written'
         /\ \/ UNCHANGED durable
            \/ \E d \in Devices : durable' = [durable EXCEPT ![d] = state'[d]]
<1> DEFINE moves == /\ written \subseteq written'
                    /\ \/ UNCHANGED durable
                       \/ \E d \in Devices : durable' = [durable EXCEPT ![d] = state'[d]]
<1>1. ASSUME NEW d \in Devices, Flush(d) \/ Restore(d) PROVE moves
  BY <1>1 DEF Flush, Restore, log
<1>2. ASSUME NEW d \in Devices, NEW ack, AddLocalOperation(d, ack) PROVE moves
  BY <1>2 DEF AddLocalOperation, environment
<1>3. ASSUME NEW d \in Devices,
             SetSOSequencer(d) \/ MaintainRoster(d) \/ RemoveSOParticipant(d) \/ AddSOParticipant(d)
      PROVE  moves
  BY <1>3 DEF SetSOSequencer, MaintainRoster, RemoveSOParticipant, AddSOParticipant, Prepare,
              environment
<1>4. ASSUME NEW d \in Devices, SequenceOperations(d) \/ ApplyConfigChange(d) \/ Step(d)
                                 \/ AdoptCheckpoint(d) \/ Restart(d) \/ LosePower(d)
      PROVE  moves
  BY <1>4 DEF SequenceOperations, ApplyConfigChange, Step, AdoptCheckpoint, Restart, LosePower,
              environment
<1>5. ASSUME NEW d \in Devices, NEW from \in Devices,
             ImportPeerSnapshot(d, from) \/ ImportRemoval(d, from)
      PROVE  moves
  BY <1>5 DEF ImportPeerSnapshot, ImportRemoval, environment
<1>6. CASE UNCHANGED vars
  BY <1>6 DEF vars, log, environment
<1> QED BY <1>1, <1>2, <1>3, <1>4, <1>5, <1>6 DEF Next, Write, Acknowledge

LEMMA StatesKept ==
  ASSUME States, [Next]_vars
  PROVE  States'
<1>1. DOMAIN state' = Devices /\ \A d \in Devices : stateMoves(d)
  BY StatesStep
<1>2. written \subseteq written'
  BY DurableStep
<1>3. ASSUME NEW d \in Devices PROVE DOMAIN state'[d] = Fields /\ Above(state'[d], written')
  <2>1. CASE LosePower(d)
    <3>1. state'[d] = durable[d] /\ written' = written
      BY <2>1 DEF LosePower, States, WellKept
    <3> QED BY <3>1 DEF States, WellKept
  <2>2. CASE ~ LosePower(d)
    BY <1>1, <2>2 DEF stateMoves, Follows, Above
  <2> QED BY <2>1, <2>2
<1>4. WellKept(state)'
  BY <1>1, <1>3 DEF WellKept
<1>5. WellKept(durable)'
  <2>1. CASE UNCHANGED durable
    BY <1>2, <2>1 DEF States, WellKept, Above
  <2>2. CASE \E d \in Devices : durable' = [durable EXCEPT ![d] = state'[d]]
    BY <1>2, <1>3, <2>2 DEF States, WellKept, Above
  <2> QED BY <2>1, <2>2, DurableStep
<1> QED BY <1>4, <1>5 DEF States

LEMMA StatesInit == Init => States
  BY DEF Init, States, WellKept, GenesisState, Fields, Above

THEOREM StatesInvariant == Spec => []States
  BY StatesInit, StatesKept, PTL DEF Spec

-----------------------------------------------------------------------------
(* The theorems.                                                           *)

\* What a replica holds as operations was signed by their authors, and is above
\* its checkpoint: replay from the checkpoint applies nothing a second time.
HeldAboveCheckpoint ==
  \A d \in Devices : \A op \in state[d].ops :
    op \in written /\ ~ Covers(state[d].checkpoint, position(op))

\* Whatever a replica imports, places or adopts, and whatever checkpoint it meets.
THEOREM OperationsAboveCheckpoint == Spec => []HeldAboveCheckpoint
<1>1. States => HeldAboveCheckpoint
  BY DEF States, WellKept, Above, HeldAboveCheckpoint
<1> QED BY <1>1, StatesInvariant, PTL

\* A replica that holds an operation holds it until a checkpoint covers it, or the
\* device is removed, restored or loses power.
KeptUntilCovered ==
  [][\A d \in Devices : \A op \in state[d].ops :
       \/ op \in state'[d].ops \/ Covers(state'[d].checkpoint, position(op))
       \/ d \in restored' \ restored \/ d \notin Writers(state'[d].config)
       \/ LosePower(d)]_vars

\* No import, however old the peer's state, no config change and no placing by a
\* sequencer drops an operation that others may lack.
THEOREM OperationsKept == Spec => KeptUntilCovered
<1>1. States /\ [Next]_vars =>
        [\A d \in Devices : \A op \in state[d].ops :
           \/ op \in state'[d].ops \/ Covers(state'[d].checkpoint, position(op))
           \/ d \in restored' \ restored \/ d \notin Writers(state'[d].config)
           \/ LosePower(d)]_vars
  BY StatesStep DEF stateMoves, Follows, Keeps
<1> QED BY <1>1, StatesInvariant, PTL DEF Spec, KeptUntilCovered

-----------------------------------------------------------------------------
(* The order. Its definitions recurse over sequences of what a state holds. *)

\* A state to order: what it holds is finite, and comparable.
Placeable(s) ==
  /\ IsFiniteSet(s.ops) /\ \A op \in s.ops : op.hash \in Int
  /\ IsFiniteSet(s.sequence) /\ \A r \in s.sequence : r.height \in Int
  /\ base(s).height \in Int

LEMMA SequenceFacts ==
  ASSUME NEW S, NEW q \in Seq(S), NEW x \in S
  PROVE  /\ Len(q) \in Nat /\ DOMAIN q = 1..Len(q)
         /\ \A i \in 1..Len(q) : q[i] \in S
         /\ Append(q, x) \in Seq(S) /\ Last(Append(q, x)) = x
         /\ Append(q, x) # <<>>
         /\ q # <<>> => Last(q) \in S
         /\ Range(Append(q, x)) = Range(q) \cup {x}
         /\ Range(q) \subseteq S
<1>1. /\ Len(q) \in Nat /\ DOMAIN q = 1..Len(q) /\ \A i \in 1..Len(q) : q[i] \in S
  OBVIOUS
<1>2. /\ Append(q, x) \in Seq(S) /\ Len(Append(q, x)) = Len(q) + 1
      /\ Append(q, x)[Len(q) + 1] = x /\ \A i \in 1..Len(q) : Append(q, x)[i] = q[i]
  OBVIOUS
<1>3. Append(q, x) # <<>> /\ Last(Append(q, x)) = x
  BY <1>1, <1>2 DEF Last
<1>4. q # <<>> => Last(q) \in S
  BY <1>1, EmptySeq DEF Last
<1>5. DOMAIN Append(q, x) = 1..Len(q) + 1
  BY <1>2
<1>6. Range(Append(q, x)) = Range(q) \cup {x}
  <2>1. \A i \in 1..Len(q) + 1 : i \in 1..Len(q) \/ i = Len(q) + 1
    BY <1>1
  <2>2. \A i \in 1..Len(q) : i \in 1..Len(q) + 1
    BY <1>1
  <2>3. Len(q) + 1 \in 1..Len(q) + 1
    BY <1>1
  <2> QED BY <1>1, <1>2, <1>5, <2>1, <2>2, <2>3, Zenon DEF Range
<1>7. Range(q) \subseteq S
  BY <1>1 DEF Range
<1> QED BY <1>1, <1>2, <1>3, <1>4, <1>6, <1>7

\* The positions that may follow those below.
candidates(s, below) == nextPositions(s, IF below = <<>> THEN base(s) ELSE Last(below))

LEMMA NextPositionsHeld ==
  ASSUME NEW s, NEW prev
  PROVE  /\ nextPositions(s, prev) \subseteq s.sequence
         /\ \A r \in nextPositions(s, prev) : r.height = prev.height + 1
<1>1. startPath(s) \subseteq s.sequence
  <2> DEFINE down == CHOOSE f : f = [k \in 0..start(s).height |->
                                       IF k = 0 THEN start(s) ELSE f[k - 1].prev]
  <2>1. startPath(s) = {down[k] : k \in {i \in 0..(start(s).height - 1) :
                                           \A j \in 0..i : down[j] \in s.sequence}}
    BY Zenon DEF startPath
  <2> HIDE DEF down
  <2>2. \A i \in 0..(start(s).height - 1) : i \in 0..i
    OBVIOUS
  <2> QED BY <2>1, <2>2
<1> QED BY <1>1 DEF nextPositions

\* The records that resolveSequence may still reach.
reachable(s, below) == {r \in s.sequence : below = <<>> \/ r.height > Last(below).height}

\* The recursion of resolveSequence.
IsWalk(walk, s) ==
  walk = [below \in Seq(s.sequence) |->
            LET next == nextPositions(s, IF below = <<>> THEN base(s) ELSE Last(below))
            IN IF Cardinality(next) = 1
               THEN walk[Append(below, CHOOSE r \in next : TRUE)]
               ELSE below]

LEMMA ReachDeclines ==
  ASSUME NEW s, Placeable(s), NEW below \in Seq(s.sequence),
         Cardinality(candidates(s, below)) = 1
  PROVE  LET r == CHOOSE x \in candidates(s, below) : TRUE
         IN /\ r \in s.sequence
            /\ Cardinality(reachable(s, Append(below, r))) < Cardinality(reachable(s, below))
<1> DEFINE r == CHOOSE x \in candidates(s, below) : TRUE
<1>1. candidates(s, below) \subseteq s.sequence
  BY NextPositionsHeld DEF candidates
<1>2. candidates(s, below) # {}
  <2>1. IsFiniteSet(candidates(s, below))
    BY <1>1, FS_Subset DEF Placeable
  <2>2. \E x : candidates(s, below) = {x}
    BY <2>1, FS_Singleton
  <2> QED BY <2>2
<1>3. r \in candidates(s, below)
  BY <1>2
<1> HIDE DEF r
<1>4. r \in s.sequence /\ r.height \in Int
  BY <1>1, <1>3 DEF Placeable
<1>5. below # <<>> => Last(below) \in s.sequence /\ r.height = Last(below).height + 1
  BY <1>3, <1>4, NextPositionsHeld, SequenceFacts DEF candidates
<1>6. reachable(s, Append(below, r)) = {x \in s.sequence : x.height > r.height}
  BY <1>4, SequenceFacts DEF reachable
<1>7. r \in reachable(s, below) /\ r \notin reachable(s, Append(below, r))
  BY <1>4, <1>5, <1>6 DEF reachable, Placeable
<1>8. reachable(s, Append(below, r)) \subseteq reachable(s, below)
  BY <1>4, <1>5, <1>6 DEF reachable, Placeable
<1>9. IsFiniteSet(reachable(s, below))
  BY FS_Subset DEF reachable, Placeable
<1>10. /\ Cardinality(reachable(s, Append(below, r))) <= Cardinality(reachable(s, below))
       /\ Cardinality(reachable(s, Append(below, r))) # Cardinality(reachable(s, below))
       /\ Cardinality(reachable(s, Append(below, r))) \in Nat /\ Cardinality(reachable(s, below)) \in Nat
  BY <1>7, <1>8, <1>9, FS_Subset, FS_CardinalityType
<1> QED BY <1>4, <1>10 DEF r

\* Each position follows the one below it.
Climbs(s, p) ==
  \A i \in 1..Len(p) : p[i] \in nextPositions(s, IF i = 1 THEN base(s) ELSE p[i - 1])

LEMMA ClimbsOnward ==
  ASSUME NEW s, NEW p \in Seq(s.sequence), Climbs(s, p), Cardinality(candidates(s, p)) = 1
  PROVE  LET q == Append(p, CHOOSE r \in candidates(s, p) : TRUE)
         IN q \in Seq(s.sequence) /\ Climbs(s, q)
<1> DEFINE r == CHOOSE x \in candidates(s, p) : TRUE
           q == Append(p, r)
<1>1. r \in candidates(s, p)
  <2>1. candidates(s, p) # {}
    <3> SUFFICES ASSUME candidates(s, p) = {} PROVE FALSE
      OBVIOUS
    <3>1. Cardinality(candidates(s, p)) = Cardinality({})
      BY Zenon
    <3>2. Cardinality({}) = 0
      BY FS_EmptySet
    <3> HIDE DEF candidates
    <3>3. Cardinality(candidates(s, p)) = 1
      OBVIOUS
    <3> QED BY <3>1, <3>2, <3>3
  <2> QED BY <2>1
<1> HIDE DEF r
<1>2. r \in s.sequence
  BY <1>1, NextPositionsHeld DEF candidates
<1>3. /\ Len(p) \in Nat /\ q \in Seq(s.sequence) /\ Len(q) = Len(p) + 1 /\ q[Len(p) + 1] = r
      /\ \A i \in 1..Len(p) : q[i] = p[i]
      /\ p = <<>> <=> Len(p) = 0
      /\ p # <<>> => Last(p) = p[Len(p)]
  BY <1>2 DEF Last
<1> HIDE DEF q
<1>4. ASSUME NEW i \in 1..Len(q)
      PROVE  q[i] \in nextPositions(s, IF i = 1 THEN base(s) ELSE q[i - 1])
  <2>1. CASE i \in 1..Len(p)
    <3>1. i # 1 => i - 1 \in 1..Len(p)
      BY <1>3, <2>1
    <3>2. q[i] = p[i] /\ (i # 1 => q[i - 1] = p[i - 1])
      BY <1>3, <2>1, <3>1
    <3> QED BY <2>1, <3>2 DEF Climbs
  <2>2. CASE i = Len(p) + 1 /\ Len(p) = 0
    BY <1>1, <1>3, <2>2 DEF candidates
  <2>3. CASE i = Len(p) + 1 /\ Len(p) # 0
    <3>1. i # 1 /\ i - 1 = Len(p) /\ Len(p) \in 1..Len(p)
      BY <1>3, <2>3
    <3>2. q[i] = r /\ q[i - 1] = p[Len(p)]
      BY <1>3, <2>3, <3>1
    <3> QED BY <1>1, <1>3, <2>3, <3>1, <3>2 DEF candidates
  <2> QED BY <1>3, <2>1, <2>2, <2>3
<1> QED BY <1>3, <1>4 DEF Climbs, q, r

LEMMA Resolved ==
  ASSUME NEW s, Placeable(s)
  PROVE  /\ resolveSequence(s) \in Seq(s.sequence) /\ Climbs(s, resolveSequence(s))
         /\ Cardinality(candidates(s, resolveSequence(s))) # 1
<1> DEFINE S == Seq(s.sequence)
           stop == {p \in S : Cardinality(candidates(s, p)) # 1}
           next == [p \in S |-> Append(p, CHOOSE r \in candidates(s, p) : TRUE)]
           out == [p \in S |-> p]
           rank == [p \in S |-> Cardinality(reachable(s, p))]
<1>1. <<>> \in S
  OBVIOUS
<1>2. rank \in [S -> Nat] /\ out \in [S -> S]
  <2>1. \A p \in S : Cardinality(reachable(s, p)) \in Nat
    BY FS_Subset, FS_CardinalityType DEF reachable, Placeable
  <2> HIDE DEF S
  <2> QED BY <2>1
<1>3. Declines(S, stop, next, rank)
  <2>1. ASSUME NEW p \in S, Cardinality(candidates(s, p)) = 1
        PROVE  next[p] \in S /\ rank[next[p]] < rank[p]
    <3> DEFINE r == CHOOSE x \in candidates(s, p) : TRUE
    <3>1. /\ r \in s.sequence
          /\ Cardinality(reachable(s, Append(p, r))) < Cardinality(reachable(s, p))
      BY <2>1, ReachDeclines
    <3>2. Append(p, r) \in S /\ next[p] = Append(p, r)
      BY <3>1
    <3> HIDE DEF S, r, next
    <3> QED BY <3>1, <3>2
  <2> HIDE DEF S, next, rank
  <2> QED BY <2>1 DEF Declines
<1>4. PICK f \in [S -> S] : Iterates(S, stop, next, out, f)
  <2>1. S # {}
    BY <1>1
  <2> HIDE DEF S, stop, next, out, rank
  <2> QED BY <1>2, <1>3, <2>1, Iteration
<1>5. IsWalk(f, s)
  <2>1. \A p \in S : f[p] = IF Cardinality(candidates(s, p)) = 1
                            THEN f[Append(p, CHOOSE r \in candidates(s, p) : TRUE)] ELSE p
    <3> HIDE DEF S
    <3> QED BY <1>4 DEF Iterates
  <2>2. f = [p \in S |-> f[p]]
    <3> HIDE DEF S
    <3> QED BY <1>4
  <2>3. f = [p \in S |-> IF Cardinality(candidates(s, p)) = 1
                         THEN f[Append(p, CHOOSE r \in candidates(s, p) : TRUE)] ELSE p]
    <3> HIDE DEF S
    <3> QED BY <2>1, <2>2
  <2> QED BY <2>3 DEF IsWalk, candidates, S
<1> DEFINE walk == CHOOSE w : IsWalk(w, s)
<1>6. IsWalk(walk, s)
  BY <1>5, Zenon
<1>7. resolveSequence(s) = walk[<<>>]
  BY Zenon DEF resolveSequence, IsWalk
<1> HIDE DEF walk
<1>8. Iterates(S, stop, next, out, walk)
  <2>1. \A p \in S : walk[p] = IF Cardinality(candidates(s, p)) = 1
                               THEN walk[Append(p, CHOOSE r \in candidates(s, p) : TRUE)] ELSE p
    BY <1>6 DEF IsWalk, candidates, S
  <2> HIDE DEF S
  <2> QED BY <2>1 DEF Iterates
<1> DEFINE T == {p \in S : Climbs(s, p)}
<1>9. \A p \in T : \E q \in T \cap stop : walk[p] = out[q]
  <2>1. ASSUME NEW p \in T \ stop PROVE next[p] \in T
    <3>1. p \in S /\ Climbs(s, p) /\ Cardinality(candidates(s, p)) = 1
      OBVIOUS
    <3> QED BY <3>1, ClimbsOnward
  <2>2. T \in SUBSET S
    OBVIOUS
  <2> HIDE DEF S, stop, next, out, rank, T
  <2> QED BY <1>2, <1>3, <1>8, <2>1, <2>2, IterationEnds
<1>10. walk[<<>>] \in T \cap stop
  <2>1. <<>> \in T
    BY <1>1 DEF Climbs
  <2>2. \A q \in T : out[q] = q
    OBVIOUS
  <2> HIDE DEF S, T, stop, out
  <2> QED BY <1>9, <2>1, <2>2
<1> QED BY <1>7, <1>10

\* The recursion of sequenced: how many positions it took, and the order so far.
Consumed(s) == [taken : 0..Len(resolveSequence(s)), order : Seq(s.ops)]
nextPosition(s, at) == resolveSequence(s)[at.taken + 1].op
isKnown(s, at) ==
  Covers(s.checkpoint, nextPosition(s, at)) \/ \E o \in Range(at.order) : position(o) = nextPosition(s, at)
toPlace(s, at) == {o \in s.ops : position(o) = nextPosition(s, at) /\ placedLinks(s, o, at.order)}
placedAt(s, at) ==
  [order |-> at.order,
   tail |-> IF at.taken = 0 THEN base(s) ELSE resolveSequence(s)[at.taken],
   complete |-> at.taken = Len(resolveSequence(s))]
Sequenced(s) == [order : Seq(s.ops), tail : {base(s)} \cup s.sequence, complete : BOOLEAN]

IsConsume(consume, s) ==
  LET resolved == resolveSequence(s)
  IN consume = [at \in [taken : 0..Len(resolved), order : Seq(s.ops)] |->
        LET pos == resolved[at.taken + 1].op
            known == Covers(s.checkpoint, pos) \/ \E o \in Range(at.order) : position(o) = pos
            placeable == {o \in s.ops : position(o) = pos /\ placedLinks(s, o, at.order)}
        IN IF at.taken < Len(resolved) /\ known
           THEN consume[[at EXCEPT !.taken = @ + 1]]
           ELSE IF at.taken < Len(resolved) /\ placeable # {}
           THEN consume[[taken |-> at.taken + 1,
                         order |-> Append(at.order, CHOOSE o \in placeable : TRUE)]]
           ELSE [order |-> at.order,
                 tail |-> IF at.taken = 0 THEN base(s) ELSE resolved[at.taken],
                 complete |-> at.taken = Len(resolved)]]

\* Each operation has its place once, after those it links to.
Linked(s, q) ==
  /\ \A i, j \in 1..Len(q) : q[i] = q[j] => i = j
  /\ \A i \in 1..Len(q) : \A l \in openLinks(s, q[i]) : \E j \in 1..(i - 1) : position(q[j]) = l

LEMMA LinkedOnward ==
  ASSUME NEW s, NEW q \in Seq(s.ops), Linked(s, q), NEW x \in s.ops, x \notin Range(q),
         placedLinks(s, x, q)
  PROVE  Linked(s, Append(q, x))
<1> DEFINE p == Append(q, x)
<1>1. /\ Len(q) \in Nat /\ Len(p) = Len(q) + 1 /\ p[Len(q) + 1] = x
      /\ \A i \in 1..Len(q) : p[i] = q[i] /\ q[i] # x
  <2>1. \A i \in 1..Len(q) : q[i] \in Range(q)
    BY DEF Range
  <2> QED BY <2>1
<1> HIDE DEF p
<1>2. \A i \in 1..Len(p) : i \in 1..Len(q) \/ i = Len(q) + 1
  BY <1>1
<1>3. \A i, j \in 1..Len(p) : p[i] = p[j] => i = j
  BY <1>1, <1>2 DEF Linked
<1>4. ASSUME NEW i \in 1..Len(p), NEW l \in openLinks(s, p[i])
      PROVE  \E j \in 1..(i - 1) : position(p[j]) = l
  <2>1. CASE i \in 1..Len(q)
    <3>1. PICK j \in 1..(i - 1) : position(q[j]) = l
      BY <1>1, <1>4, <2>1 DEF Linked
    <3>2. j \in 1..Len(q)
      BY <1>1, <2>1
    <3> QED BY <1>1, <3>1, <3>2
  <2>2. CASE i = Len(q) + 1
    <3>1. l \in {position(o) : o \in Range(q)}
      BY <1>1, <1>4, <2>2 DEF placedLinks
    <3>2. PICK o \in Range(q) : l = position(o)
      BY <3>1
    <3>3. PICK j \in DOMAIN q : q[j] = o
      BY <3>2 DEF Range
    <3>4. j \in 1..Len(q) /\ j \in 1..(i - 1)
      BY <1>1, <2>2, <3>3
    <3> QED BY <1>1, <3>2, <3>3, <3>4
  <2> QED BY <1>2, <2>1, <2>2
<1> QED BY <1>3, <1>4 DEF Linked, p

\* The positions are of operations above the checkpoint, each once; they are placed in turn.
Fresh(s) ==
  \A i \in 1..Len(resolveSequence(s)) :
    /\ ~ Covers(s.checkpoint, resolveSequence(s)[i].op)
    /\ \A j \in 1..Len(resolveSequence(s)) : resolveSequence(s)[i].op = resolveSequence(s)[j].op => i = j
InTurn(s, n, order) == Len(order) = n /\ \A i \in 1..n : position(order[i]) = resolveSequence(s)[i].op

LEMMA TurnOnward ==
  ASSUME NEW s, Fresh(s), NEW n \in Nat, n < Len(resolveSequence(s)), Len(resolveSequence(s)) \in Nat,
         NEW order \in Seq(s.ops), InTurn(s, n, order)
  PROVE  /\ ~ isKnown(s, [taken |-> n, order |-> order])
         /\ \A x \in toPlace(s, [taken |-> n, order |-> order]) : InTurn(s, n + 1, Append(order, x))
<1> DEFINE at == [taken |-> n, order |-> order]
<1>1. n + 1 \in 1..Len(resolveSequence(s)) /\ nextPosition(s, at) = resolveSequence(s)[n + 1].op
  BY DEF nextPosition
<1>2. ~ isKnown(s, at)
  <2> SUFFICES ASSUME NEW o \in Range(order), position(o) = resolveSequence(s)[n + 1].op PROVE FALSE
    BY <1>1 DEF isKnown, Fresh
  <2>1. PICK i \in 1..n : o = order[i]
    BY DEF Range, InTurn
  <2>2. i \in 1..Len(resolveSequence(s)) /\ resolveSequence(s)[i].op = resolveSequence(s)[n + 1].op
    BY <2>1 DEF InTurn
  <2>3. i = n + 1
    BY <1>1, <2>2 DEF Fresh
  <2> QED BY <2>3
<1>3. ASSUME NEW x \in toPlace(s, at) PROVE InTurn(s, n + 1, Append(order, x))
  <2>1. x \in s.ops /\ position(x) = resolveSequence(s)[n + 1].op
    BY <1>1 DEF toPlace
  <2>2. /\ Len(Append(order, x)) = n + 1 /\ Append(order, x)[n + 1] = x
        /\ \A i \in 1..n : Append(order, x)[i] = order[i]
    BY <2>1 DEF InTurn
  <2>3. \A i \in 1..n + 1 : i \in 1..n \/ i = n + 1
    OBVIOUS
  <2> QED BY <2>1, <2>2, <2>3 DEF InTurn
<1> QED BY <1>2, <1>3

LEMMA SequencedType ==
  ASSUME NEW s, Placeable(s)
  PROVE  /\ sequenced(s) \in Sequenced(s) /\ Linked(s, sequenced(s).order)
         /\ Fresh(s) => \E n \in 0..Len(resolveSequence(s)) :
              /\ sequenced(s) = placedAt(s, [taken |-> n, order |-> sequenced(s).order])
              /\ InTurn(s, n, sequenced(s).order)
              /\ n < Len(resolveSequence(s)) =>
                   toPlace(s, [taken |-> n, order |-> sequenced(s).order]) = {}
<1> DEFINE n == Len(resolveSequence(s))
           S == Consumed(s)
           V == Sequenced(s)
           more(at) == at.taken < n /\ (isKnown(s, at) \/ toPlace(s, at) # {})
           stop == {at \in S : ~ more(at)}
           onward(at) == [taken |-> at.taken + 1,
                          order |-> IF isKnown(s, at) THEN at.order
                                    ELSE Append(at.order, CHOOSE o \in toPlace(s, at) : TRUE)]
           next == [at \in S |-> onward(at)]
           out == [at \in S |-> placedAt(s, at)]
           rank == [at \in S |-> n - at.taken]
<1>0. /\ n \in Nat /\ \A i \in 1..n : resolveSequence(s)[i] \in s.sequence
  BY Resolved, SequenceFacts
<1>1. /\ \A at \in S : at.taken \in 0..n /\ at.order \in Seq(s.ops)
      /\ [taken |-> 0, order |-> <<>>] \in S
  BY <1>0 DEF Consumed
<1>2. rank \in [S -> Nat] /\ out \in [S -> V]
  <2>1. ASSUME NEW at \in S PROVE placedAt(s, at) \in V
    <3>1. at.taken # 0 => at.taken \in 1..n
      BY <1>0, <1>1
    <3>2. (IF at.taken = 0 THEN base(s) ELSE resolveSequence(s)[at.taken]) \in {base(s)} \cup s.sequence
      BY <1>0, <3>1
    <3>3. at.order \in Seq(s.ops) /\ (at.taken = n) \in BOOLEAN
      BY <1>1
    <3> QED BY <3>2, <3>3 DEF placedAt, Sequenced
  <2>2. \A at \in S : n - at.taken \in Nat
    BY <1>0, <1>1
  <2> HIDE DEF S, V, n
  <2> QED BY <2>1, <2>2
<1>3. Declines(S, stop, next, rank)
  <2>1. ASSUME NEW at \in S, more(at)
        PROVE  onward(at) \in S /\ n - onward(at).taken < n - at.taken
    <3>1. at.taken + 1 \in 0..n /\ at.taken \in Nat
      BY <1>0, <1>1, <2>1
    <3>2. (IF isKnown(s, at) THEN at.order
           ELSE Append(at.order, CHOOSE o \in toPlace(s, at) : TRUE)) \in Seq(s.ops)
      <4>1. CASE isKnown(s, at)
        BY <1>1, <4>1
      <4>2. CASE ~ isKnown(s, at)
        <5>1. (CHOOSE o \in toPlace(s, at) : TRUE) \in s.ops
          BY <2>1, <4>2 DEF toPlace
        <5> QED BY <1>1, <4>2, <5>1, SequenceFacts
      <4> QED BY <4>1, <4>2
    <3> QED BY <1>0, <3>1, <3>2 DEF Consumed
  <2> HIDE DEF more, onward, S, n
  <2>2. \A at \in S \ stop : next[at] = onward(at) /\ rank[at] = n - at.taken /\ more(at)
    OBVIOUS
  <2>3. \A at \in S \ stop : next[at] \in S /\ rank[next[at]] = n - next[at].taken
    BY <2>1, <2>2
  <2> HIDE DEF next, rank, stop
  <2> QED BY <2>1, <2>2, <2>3 DEF Declines
<1>4. V # {}
  <2>1. out[[taken |-> 0, order |-> <<>>]] \in V
    <3> HIDE DEF S, V, out
    <3> QED BY <1>1, <1>2
  <2> QED BY <2>1
<1>5. PICK f \in [S -> V] : Iterates(S, stop, next, out, f)
  <2> HIDE DEF S, V, stop, next, out, rank
  <2> QED BY <1>2, <1>3, <1>4, Iteration
<1>6. ASSUME NEW at \in S
      PROVE  /\ [at EXCEPT !.taken = at.taken + 1] = [taken |-> at.taken + 1, order |-> at.order]
             /\ [at EXCEPT !.taken = at.taken + 1].taken = at.taken + 1
  BY DEF Consumed
<1> DEFINE equation(g, at) ==
             g[at] = IF at.taken < n /\ isKnown(s, at)
                     THEN g[[at EXCEPT !.taken = @ + 1]]
                     ELSE IF at.taken < n /\ toPlace(s, at) # {}
                     THEN g[[taken |-> at.taken + 1,
                             order |-> Append(at.order, CHOOSE o \in toPlace(s, at) : TRUE)]]
                     ELSE placedAt(s, at)
<1>7. ASSUME NEW g
      PROVE  Iterates(S, stop, next, out, g) <=> \A at \in S : equation(g, at)
  <2>1. ASSUME NEW at \in S
        PROVE  (g[at] = IF at \in stop THEN out[at] ELSE g[next[at]]) <=> equation(g, at)
    <3>1. at \in stop <=> ~ more(at)
      OBVIOUS
    <3>2. out[at] = placedAt(s, at) /\ next[at] = onward(at)
      OBVIOUS
    <3>3. isKnown(s, at) => onward(at) = [at EXCEPT !.taken = @ + 1]
      BY <1>6
    <3>4. ~ isKnown(s, at) =>
            onward(at) = [taken |-> at.taken + 1,
                          order |-> Append(at.order, CHOOSE o \in toPlace(s, at) : TRUE)]
      OBVIOUS
    <3> HIDE DEF onward, stop, out, next, S, n
    <3> QED BY <3>1, <3>2, <3>3, <3>4
  <2> HIDE DEF stop, out, next, S, equation
  <2> QED BY <2>1 DEF Iterates
<1>8. IsConsume(f, s)
  <2>1. f = [at \in S |-> f[at]]
    <3> HIDE DEF S
    <3> QED BY <1>5
  <2>2. \A at \in S : equation(f, at)
    BY <1>5, <1>7
  <2>3. f = [at \in S |-> IF at.taken < n /\ isKnown(s, at)
                     THEN f[[at EXCEPT !.taken = @ + 1]]
                     ELSE IF at.taken < n /\ toPlace(s, at) # {}
                     THEN f[[taken |-> at.taken + 1,
                             order |-> Append(at.order, CHOOSE o \in toPlace(s, at) : TRUE)]]
                     ELSE placedAt(s, at)]
    <3> HIDE DEF S, n
    <3> QED BY <2>1, <2>2
  <2> QED BY <2>3, Zenon DEF IsConsume, isKnown, toPlace, placedAt, nextPosition, Consumed
<1> DEFINE consume == CHOOSE c : IsConsume(c, s)
<1>9. IsConsume(consume, s)
  BY <1>8, Zenon
<1>10. sequenced(s) = consume[[taken |-> 0, order |-> <<>>]]
  BY Zenon DEF sequenced, IsConsume
<1> HIDE DEF consume
<1>11. Iterates(S, stop, next, out, consume)
  <2>1. \A at \in S : equation(consume, at)
    BY <1>9 DEF IsConsume, isKnown, toPlace, placedAt, nextPosition, Consumed
  <2> QED BY <1>7, <2>1
<1> DEFINE T == {at \in S : Linked(s, at.order) /\ (Fresh(s) => InTurn(s, at.taken, at.order))}
<1>12. \A at \in T : \E y \in T \cap stop : consume[at] = out[y]
  <2>1. ASSUME NEW at \in T, more(at)
        PROVE  Linked(s, onward(at).order) /\ (Fresh(s) => InTurn(s, onward(at).taken, onward(at).order))
    <3>0. /\ at = [taken |-> at.taken, order |-> at.order] /\ at.taken \in Nat /\ at.order \in Seq(s.ops)
          /\ at.taken < n /\ (Fresh(s) => InTurn(s, at.taken, at.order))
      BY <1>1, <2>1 DEF Consumed
    <3>3. Fresh(s) => /\ ~ isKnown(s, at)
                      /\ \A x \in toPlace(s, at) : InTurn(s, at.taken + 1, Append(at.order, x))
      <4> SUFFICES ASSUME Fresh(s) PROVE /\ ~ isKnown(s, at)
                      /\ \A x \in toPlace(s, at) : InTurn(s, at.taken + 1, Append(at.order, x))
        OBVIOUS
      <4> DEFINE k == at.taken
                 q == at.order
      <4> HIDE DEF S, T, more, onward, k, q
      <4>1. /\ ~ isKnown(s, [taken |-> k, order |-> q])
            /\ \A x \in toPlace(s, [taken |-> k, order |-> q]) : InTurn(s, k + 1, Append(q, x))
        BY <1>0, <3>0, TurnOnward DEF k, q
      <4> QED BY <3>0, <4>1 DEF k, q
    <3>1. CASE isKnown(s, at)
      BY <3>1, <3>3
    <3>2. CASE ~ isKnown(s, at)
      <4> DEFINE o == CHOOSE x \in toPlace(s, at) : TRUE
      <4>1. o \in toPlace(s, at)
        BY <2>1, <3>2
      <4> HIDE DEF o
      <4>2. o \in s.ops /\ placedLinks(s, o, at.order) /\ o \notin Range(at.order)
        BY <3>2, <4>1 DEF toPlace, isKnown
      <4>3. onward(at).order = Append(at.order, o) /\ onward(at).taken = at.taken + 1
        BY <3>2 DEF o
      <4>4. at.order \in Seq(s.ops) /\ Linked(s, at.order)
        BY <1>1
      <4> HIDE DEF onward, S, n
      <4>5. Linked(s, onward(at).order)
        BY <4>2, <4>3, <4>4, LinkedOnward
      <4> QED BY <3>3, <4>1, <4>3, <4>5
    <3> QED BY <3>1, <3>2
  <2>2. \A at \in S \ stop : next[at] \in S /\ next[at] = onward(at) /\ more(at)
    BY <1>3 DEF Declines
  <2> HIDE DEF S, stop, next, out, rank, onward, more
  <2>3. \A at \in T \ stop : next[at] \in T
    BY <2>1, <2>2
  <2>4. T \in SUBSET S
    OBVIOUS
  <2> HIDE DEF T
  <2> QED BY <1>2, <1>3, <1>11, <2>3, <2>4, IterationEnds
<1>13. [taken |-> 0, order |-> <<>>] \in T
  BY <1>1 DEF Linked, InTurn
<1>14. ASSUME NEW y \in T \cap stop
       PROVE  /\ out[y] \in V /\ Linked(s, out[y].order)
              /\ Fresh(s) => \E k \in 0..n :
                   /\ out[y] = placedAt(s, [taken |-> k, order |-> out[y].order])
                   /\ InTurn(s, k, out[y].order)
                   /\ k < n => toPlace(s, [taken |-> k, order |-> out[y].order]) = {}
  <2>1. y \in S /\ Linked(s, y.order) /\ (Fresh(s) => InTurn(s, y.taken, y.order))
    OBVIOUS
  <2>2. out[y] = placedAt(s, y)
    BY <2>1
  <2>3. y.taken \in 0..n /\ y = [taken |-> y.taken, order |-> y.order]
    BY <2>1 DEF Consumed
  <2>6. y.taken < n => toPlace(s, y) = {}
    OBVIOUS
  <2> HIDE DEF S, V, out, T, stop, n
  <2>4. out[y].order = y.order
    BY <2>2 DEF placedAt
  <2>5. out[y] = placedAt(s, [taken |-> y.taken, order |-> out[y].order])
    BY <2>2, <2>3, <2>4
  <2>7. y.taken < n => toPlace(s, [taken |-> y.taken, order |-> out[y].order]) = {}
    BY <2>3, <2>4, <2>6
  <2> QED BY <1>2, <2>1, <2>3, <2>4, <2>5, <2>7
<1> DEFINE result == consume[[taken |-> 0, order |-> <<>>]]
<1>15. /\ result \in V /\ Linked(s, result.order)
       /\ Fresh(s) => \E k \in 0..n :
            /\ result = placedAt(s, [taken |-> k, order |-> result.order])
            /\ InTurn(s, k, result.order)
            /\ k < n => toPlace(s, [taken |-> k, order |-> result.order]) = {}
  <2> HIDE DEF S, V, out, stop, T
  <2>1. PICK y \in T \cap stop : consume[[taken |-> 0, order |-> <<>>]] = out[y]
    BY <1>12, <1>13
  <2>2. result = out[y]
    BY <2>1
  <2> HIDE DEF result
  <2> QED BY <1>14, <2>2
<1> QED BY <1>10, <1>15

\* The recursion of Order.
ready(s, placed) == {op \in s.ops \ Range(placed) : placedLinks(s, op, placed)}
lowest(s, placed) == CHOOSE op \in ready(s, placed) : \A o \in ready(s, placed) : op.hash <= o.hash
IsExtend(extend, s) ==
  extend = [placed \in Seq(s.ops) |->
              LET able == {op \in s.ops \ Range(placed) : placedLinks(s, op, placed)}
              IN IF able = {} THEN placed
                 ELSE extend[Append(placed, CHOOSE op \in able : \A o \in able : op.hash <= o.hash)]]

LEMMA LowestReady ==
  ASSUME NEW s, Placeable(s), NEW placed, ready(s, placed) # {}
  PROVE  /\ lowest(s, placed) \in ready(s, placed)
         /\ \A o \in ready(s, placed) : lowest(s, placed).hash <= o.hash
<1> DEFINE value == [op \in ready(s, placed) |-> op.hash]
<1>1. IsFiniteSet(ready(s, placed)) /\ value \in [ready(s, placed) -> Int]
  BY FS_Subset DEF ready, Placeable
<1>2. \E x \in ready(s, placed) : \A y \in ready(s, placed) : value[x] <= value[y]
  <2> HIDE DEF value
  <2> QED BY <1>1, LowestElement
<1>3. \E x \in ready(s, placed) : \A y \in ready(s, placed) : x.hash <= y.hash
  BY <1>2
<1> QED BY <1>3, Zenon DEF lowest

\* q is the beginning of p.
Begins(q, p) == Len(q) <= Len(p) /\ \A i \in 1..Len(q) : q[i] = p[i]

\* What may be placed after the operations of C, and the operations placed so, the lowest
\* hash first, after the first n.
mayFollow(s, C) == {op \in s.ops \ C : \A l \in openLinks(s, op) : \E x \in C : position(x) = l}
preceding(q, i) == {q[j] : j \in 1..(i - 1)}
Lowest(s, n, q) ==
  \A i \in n + 1..Len(q) :
    q[i] \in mayFollow(s, preceding(q, i)) /\ \A o \in mayFollow(s, preceding(q, i)) : q[i].hash <= o.hash

LEMMA LowestOnward ==
  ASSUME NEW s, Placeable(s), NEW n \in Nat, NEW q \in Seq(s.ops), Lowest(s, n, q), n <= Len(q),
         ready(s, q) # {}
  PROVE  Lowest(s, n, Append(q, lowest(s, q)))
<1> DEFINE x == lowest(s, q)
           p == Append(q, x)
<1>1. ready(s, q) = mayFollow(s, Range(q))
  BY DEF ready, mayFollow, placedLinks
<1>2. x \in mayFollow(s, Range(q)) /\ \A o \in mayFollow(s, Range(q)) : x.hash <= o.hash
  BY <1>1, LowestReady
<1>3. x \in s.ops
  BY <1>2 DEF mayFollow
<1> HIDE DEF x
<1>4. /\ Len(q) \in Nat /\ Len(p) = Len(q) + 1 /\ p[Len(q) + 1] = x
      /\ \A i \in 1..Len(q) : p[i] = q[i]
      /\ Range(q) = {q[j] : j \in 1..Len(q)}
  BY <1>3 DEF Range
<1> HIDE DEF p
<1>5. ASSUME NEW i \in n + 1..Len(p)
      PROVE  p[i] \in mayFollow(s, preceding(p, i)) /\ \A o \in mayFollow(s, preceding(p, i)) : p[i].hash <= o.hash
  <2>1. CASE i <= Len(q)
    <3>1. i \in n + 1..Len(q) /\ i \in 1..Len(q) /\ \A j \in 1..(i - 1) : j \in 1..Len(q)
      BY <1>4, <2>1
    <3>2. preceding(p, i) = preceding(q, i) /\ p[i] = q[i]
      BY <1>4, <3>1 DEF preceding
    <3> QED BY <3>1, <3>2 DEF Lowest
  <2>2. CASE i = Len(q) + 1
    <3>1. i - 1 = Len(q)
      BY <1>4, <2>2
    <3>2. preceding(p, i) = Range(q)
      BY <1>4, <3>1 DEF preceding
    <3> QED BY <1>2, <1>4, <2>2, <3>2
  <2> QED BY <1>4, <2>1, <2>2
<1> QED BY <1>5 DEF Lowest, p, x

LEMMA OrderType ==
  ASSUME NEW s, Placeable(s)
  PROVE  /\ Order(s) \in Seq(s.ops) /\ Linked(s, Order(s))
         /\ Begins(sequenced(s).order, Order(s))
         /\ Lowest(s, Len(sequenced(s).order), Order(s)) /\ mayFollow(s, Range(Order(s))) = {}
<1> DEFINE S == Seq(s.ops)
           stop == {p \in S : ready(s, p) = {}}
           next == [p \in S |-> Append(p, lowest(s, p))]
           out == [p \in S |-> p]
           rank == [p \in S |-> Cardinality(s.ops \ Range(p))]
           placed == sequenced(s).order
<1>1. placed \in S /\ Linked(s, placed)
  BY SequencedType DEF Sequenced
<1>2. rank \in [S -> Nat] /\ out \in [S -> S]
  <2>1. \A p \in S : Cardinality(s.ops \ Range(p)) \in Nat
    BY FS_Difference, FS_CardinalityType DEF Placeable
  <2> HIDE DEF S
  <2> QED BY <2>1
<1>3. Declines(S, stop, next, rank)
  <2>1. ASSUME NEW p \in S, ready(s, p) # {}
        PROVE  next[p] \in S /\ rank[next[p]] < rank[p]
    <3> DEFINE op == lowest(s, p)
    <3>1. op \in s.ops \ Range(p)
      BY <2>1, LowestReady DEF ready
    <3>2. Append(p, op) \in S /\ Range(Append(p, op)) = Range(p) \cup {op}
      BY <3>1, SequenceFacts
    <3>6. next[p] = Append(p, op)
      OBVIOUS
    <3> HIDE DEF S, op, next
    <3>3. s.ops \ Range(Append(p, op)) = (s.ops \ Range(p)) \ {op}
      BY <3>2
    <3>4. IsFiniteSet(s.ops \ Range(p))
      BY FS_Difference DEF Placeable
    <3>5. Cardinality((s.ops \ Range(p)) \ {op}) = Cardinality(s.ops \ Range(p)) - 1
      BY <3>1, <3>4, FS_RemoveElement
    <3>7. Cardinality(s.ops \ Range(p)) \in Nat
      BY <3>4, FS_CardinalityType
    <3>8. Cardinality(s.ops \ Range(next[p])) < Cardinality(s.ops \ Range(p))
      <4>1. Cardinality(s.ops \ Range(next[p])) = Cardinality((s.ops \ Range(p)) \ {op})
        BY <3>3, <3>6, Zenon
      <4> QED BY <3>5, <3>7, <4>1
    <3>9. next[p] \in S
      BY <3>2, <3>6
    <3> QED BY <3>8, <3>9
  <2> HIDE DEF S, next, rank
  <2> QED BY <2>1 DEF Declines
<1>4. PICK f \in [S -> S] : Iterates(S, stop, next, out, f)
  <2>1. S # {}
    BY <1>1
  <2> HIDE DEF S, stop, next, out, rank
  <2> QED BY <1>2, <1>3, <2>1, Iteration
<1>5. IsExtend(f, s)
  <2>1. \A p \in S : f[p] = IF ready(s, p) = {} THEN p ELSE f[Append(p, lowest(s, p))]
    <3> HIDE DEF S
    <3> QED BY <1>4 DEF Iterates
  <2>2. f = [p \in S |-> f[p]]
    <3> HIDE DEF S
    <3> QED BY <1>4
  <2>3. f = [p \in S |-> IF ready(s, p) = {} THEN p ELSE f[Append(p, lowest(s, p))]]
    <3> HIDE DEF S
    <3> QED BY <2>1, <2>2
  <2> QED BY <2>3, Zenon DEF IsExtend, ready, lowest
<1> DEFINE extend == CHOOSE e : IsExtend(e, s)
<1>6. IsExtend(extend, s)
  BY <1>5, Zenon
<1>7. Order(s) = extend[sequenced(s).order]
  BY Zenon DEF Order, IsExtend
<1> HIDE DEF extend
<1>8. Iterates(S, stop, next, out, extend)
  <2>1. \A p \in S : extend[p] = IF ready(s, p) = {} THEN p ELSE extend[Append(p, lowest(s, p))]
    BY <1>6 DEF IsExtend, ready, lowest
  <2> HIDE DEF S
  <2> QED BY <2>1 DEF Iterates
<1> HIDE DEF placed
<1> DEFINE T == {p \in S : Linked(s, p) /\ Begins(placed, p) /\ Lowest(s, Len(placed), p)}
<1>9. \A p \in T : \E q \in T \cap stop : extend[p] = out[q]
  <2>1. ASSUME NEW p \in T, ready(s, p) # {}
        PROVE  /\ Linked(s, Append(p, lowest(s, p))) /\ Begins(placed, Append(p, lowest(s, p)))
               /\ Lowest(s, Len(placed), Append(p, lowest(s, p)))
    <3> DEFINE op == lowest(s, p)
    <3>1. op \in s.ops /\ op \notin Range(p) /\ placedLinks(s, op, p)
      BY <2>1, LowestReady DEF ready
    <3> HIDE DEF op
    <3>2. p \in Seq(s.ops) /\ Linked(s, p) /\ Begins(placed, p) /\ Lowest(s, Len(placed), p)
      OBVIOUS
    <3>3. Linked(s, Append(p, op))
      BY <3>1, <3>2, LinkedOnward
    <3>4. Begins(placed, Append(p, op))
      <4>1. /\ Len(p) \in Nat /\ Len(Append(p, op)) = Len(p) + 1 /\ Len(placed) \in Nat
            /\ \A i \in 1..Len(p) : Append(p, op)[i] = p[i]
        BY <1>1, <3>1, <3>2
      <4>2. Len(placed) <= Len(p) /\ \A i \in 1..Len(placed) : i \in 1..Len(p) /\ placed[i] = p[i]
        BY <3>2, <4>1 DEF Begins
      <4> QED BY <4>1, <4>2 DEF Begins
    <3>5. Lowest(s, Len(placed), Append(p, op))
      <4>1. Len(placed) \in Nat /\ Len(placed) <= Len(p)
        BY <1>1, <3>2 DEF Begins
      <4> QED BY <2>1, <3>2, <4>1, LowestOnward DEF op
    <3> QED BY <3>3, <3>4, <3>5 DEF op
  <2>2. \A p \in S \ stop : next[p] \in S /\ next[p] = Append(p, lowest(s, p)) /\ ready(s, p) # {}
    BY <1>3 DEF Declines
  <2> HIDE DEF S, stop, next, out, rank
  <2>3. \A p \in T \ stop : next[p] \in T
    BY <2>1, <2>2
  <2>4. T \in SUBSET S
    OBVIOUS
  <2> HIDE DEF T
  <2> QED BY <1>2, <1>3, <1>8, <2>3, <2>4, IterationEnds
<1>10. placed \in T
  <2>1. Len(placed) \in Nat
    BY <1>1
  <2>2. Begins(placed, placed) /\ Lowest(s, Len(placed), placed)
    BY <2>1 DEF Begins, Lowest
  <2> QED BY <1>1, <2>2
<1>11. \A q \in T : out[q] = q
  OBVIOUS
<1>12. extend[placed] \in T \cap stop
  <2> HIDE DEF T, S, stop, out
  <2> QED BY <1>9, <1>10, <1>11
<1>13. /\ extend[placed] \in S /\ Linked(s, extend[placed]) /\ Begins(placed, extend[placed])
       /\ Lowest(s, Len(placed), extend[placed]) /\ ready(s, extend[placed]) = {}
  <2> HIDE DEF S
  <2> QED BY <1>12
<1>14. mayFollow(s, Range(extend[placed])) = {}
  BY <1>13 DEF ready, mayFollow, placedLinks
<1> QED BY <1>7, <1>13, <1>14 DEF placed

\* Min and Max of some of the first numbers.
LEMMA Extremes ==
  ASSUME NEW n \in Nat, NEW S \in SUBSET (0..n), S # {}
  PROVE  /\ Min(S) \in S /\ \A x \in S : Min(S) <= x
         /\ Max(S) \in S /\ \A x \in S : x <= Max(S)
<1>1. S \in SUBSET Int
  OBVIOUS
<1>2. IsFiniteSet(S)
  <2>1. IsFiniteSet(0..n)
    BY FS_Interval
  <2> QED BY <2>1, FS_Subset
<1>3. (\E x \in S : \A y \in S : x <= y) /\ (\E x \in S : \A y \in S : y <= x)
  BY <1>1, <1>2, LeastAndGreatest
<1>4. Min(S) \in S /\ \A x \in S : Min(S) <= x
  BY <1>3, Zenon DEF Min
<1>5. \A x, y \in S : x <= y <=> y >= x
  OBVIOUS
<1>6. Max(S) \in S /\ \A x \in S : x <= Max(S)
  <2>1. \E x \in S : \A y \in S : x >= y
    BY <1>3, <1>5
  <2>2. Max(S) \in S /\ \A y \in S : Max(S) >= y
    BY <2>1, Zenon DEF Max
  <2> QED BY <1>5, <2>2
<1> QED BY <1>4, <1>6

LEMMA PartOfSequence ==
  ASSUME NEW S, NEW q \in Seq(S), NEW m \in Int, NEW n \in Int, m >= 1, n <= Len(q)
  PROVE  SubSeq(q, m, n) \in Seq(S)
<1>1. \A i \in m..n : i \in 1..Len(q)
  OBVIOUS
<1> QED BY <1>1, SubSeqProperties

\* What is stable is a part of the order.
LEMMA StableType ==
  ASSUME NEW s, Placeable(s)
  PROVE  StablePoint(s, Order(s)) \in Seq(s.ops) /\ Begins(StablePoint(s, Order(s)), Order(s))
<1> DEFINE order == Order(s)
           built == {builtOn(s, order, d) : d \in OnRoster(s.config)}
           unstable == {i \in DOMAIN order : \E b \in built : order[i] \notin b}
<1>1. order \in Seq(s.ops) /\ Len(order) \in Nat /\ DOMAIN order = 1..Len(order)
  BY OrderType
<1>2. sequenced(s).order \in Seq(s.ops) /\ Begins(sequenced(s).order, order)
  BY SequencedType, OrderType DEF Sequenced
<1>3. StablePoint(s, order) \in {sequenced(s).order, order, SubSeq(order, 1, Min(unstable) - 1)}
      /\ (unstable = {} => StablePoint(s, order) \in {sequenced(s).order, order})
  <2> HIDE DEF order
  <2> QED BY Zenon DEF StablePoint
<1> HIDE DEF order
<1>4. unstable \in SUBSET (0..Len(order))
  BY <1>1
<1> HIDE DEF unstable
<1>5. ASSUME unstable # {}
      PROVE  /\ SubSeq(order, 1, Min(unstable) - 1) \in Seq(s.ops)
             /\ Begins(SubSeq(order, 1, Min(unstable) - 1), order)
  <2>1. Min(unstable) \in 0..Len(order)
    BY <1>1, <1>4, <1>5, Extremes
  <2> DEFINE n == Min(unstable) - 1
  <2>2. n \in Int /\ n <= Len(order)
    BY <1>1, <2>1
  <2>3. 1 \in Int /\ 1 >= 1
    OBVIOUS
  <2> HIDE DEF n
  <2>4. SubSeq(order, 1, n) \in Seq(s.ops)
    BY <1>1, <2>2, <2>3, PartOfSequence, Zenon
  <2>5. Begins(SubSeq(order, 1, n), order)
    <3>1. n \in 0..Len(order)
      <4>1. 0 \notin unstable
        BY <1>1 DEF unstable
      <4>2. Min(unstable) \in unstable
        BY <1>1, <1>4, <1>5, Extremes
      <4>3. Min(unstable) # 0
        BY <4>1, <4>2
      <4> QED BY <1>1, <2>1, <4>3 DEF n
    <3>2. Len(SubSeq(order, 1, n)) = n /\ \A i \in 1..n : SubSeq(order, 1, n)[i] = order[i]
      BY <1>1, <3>1
    <3> QED BY <3>1, <3>2 DEF Begins
  <2> QED BY <2>4, <2>5 DEF n
<1>6. StablePoint(s, order) \in Seq(s.ops) /\ Begins(StablePoint(s, order), order)
  <2>1. Begins(order, order)
    BY <1>1 DEF Begins
  <2> QED BY <1>1, <1>2, <1>3, <1>5, <2>1
<1> QED BY <1>6 DEF order

\* The position a checkpoint ends at is that of its predecessor or one above it.
LEMMA SequenceHeadType ==
  ASSUME NEW s, Placeable(s), NEW prefix
  PROVE  SequenceHead(s, prefix) \in {base(s)} \cup s.sequence
<1> DEFINE resolved == resolveSequence(s)
           open == {i \in DOMAIN resolved :
                      /\ ~ Covers(s.checkpoint, resolved[i].op)
                      /\ resolved[i].op \notin {position(op) : op \in Range(prefix)}}
           last == IF open = {} THEN Len(resolved) ELSE Min(open) - 1
<1>1. /\ Len(resolved) \in Nat /\ DOMAIN resolved = 1..Len(resolved)
      /\ \A i \in 1..Len(resolved) : resolved[i] \in s.sequence
  BY Resolved
<1>2. SequenceHead(s, prefix) = IF last = 0 THEN base(s) ELSE resolved[last]
  BY Zenon DEF SequenceHead
<1> HIDE DEF resolved
<1>3. open \in SUBSET (0..Len(resolved)) /\ 0 \notin open
  BY <1>1
<1> HIDE DEF open
<1>4. last \in 0..Len(resolved)
  <2>1. CASE open = {}
    BY <1>1, <2>1
  <2>2. CASE open # {}
    <3>1. Min(open) \in open
      BY <1>1, <1>3, <2>2, Extremes
    <3>2. Min(open) \in 0..Len(resolved) /\ Min(open) # 0
      BY <1>3, <3>1
    <3>3. last = Min(open) - 1
      BY <2>2
    <3> HIDE DEF last
    <3> QED BY <1>1, <3>2, <3>3
  <2> QED BY <2>1, <2>2
<1>5. last = 0 \/ last \in 1..Len(resolved)
  <2> HIDE DEF last
  <2> QED BY <1>1, <1>4
<1> HIDE DEF last
<1> QED BY <1>1, <1>2, <1>5

\* The operations of a sequence are finitely many.
LEMMA RangeFinite ==
  ASSUME NEW S, NEW q \in Seq(S)
  PROVE  IsFiniteSet(Range(q))
<1>1. Len(q) \in Nat /\ DOMAIN q = 1..Len(q) /\ q = [i \in 1..Len(q) |-> q[i]]
  OBVIOUS
<1>2. IsFiniteSet(1..Len(q))
  <2>1. 1 \in Int /\ Len(q) \in Int
    BY <1>1
  <2> QED BY <2>1, FS_Interval
<1>3. q \in [1..Len(q) -> Range(q)]
  BY <1>1 DEF Range
<1>4. q \in Surjection(1..Len(q), Range(q))
  BY <1>1, <1>3 DEF Surjection, Range
<1> QED BY <1>2, <1>4, FS_Surjection

\* A checkpoint names for each author its last operation of the prefix, or what the
\* checkpoint before named.
LEMMA CoverHead ==
  ASSUME NEW s, NEW W, NEW prefix \in Seq(W), \A op \in W : op.nonce \in Nat,
         NEW d \in Devices
  PROVE  \/ /\ \A op \in Range(prefix) : op.author # d
            /\ cover(s, prefix)[d] = s.checkpoint.authors[d]
         \/ \E op \in Range(prefix) :
              /\ op.author = d /\ cover(s, prefix)[d] = position(op)
              /\ \A o \in Range(prefix) : o.author = d => o.nonce <= op.nonce
<1> DEFINE own == {op \in Range(prefix) : op.author = d}
           top == CHOOSE op \in own : \A o \in own : o.nonce <= op.nonce
           value == [op \in own |-> -op.nonce]
<1>1. cover(s, prefix)[d] = IF own = {} THEN s.checkpoint.authors[d] ELSE position(top)
  BY DEF cover
<1>2. CASE own = {}
  BY <1>1, <1>2
<1>3. CASE own # {}
  <2>1. IsFiniteSet(own)
    BY RangeFinite, FS_Subset
  <2>2. Range(prefix) \subseteq W
    BY DEF Range
  <2>3. value \in [own -> Int]
    BY <2>2
  <2>4. \E x \in own : \A y \in own : value[x] <= value[y]
    <3> HIDE DEF own, value
    <3> QED BY <1>3, <2>1, <2>3, LowestElement
  <2>5. \E x \in own : \A y \in own : y.nonce <= x.nonce
    <3>1. \A x \in own : value[x] = -x.nonce /\ x.nonce \in Nat
      BY <2>2
    <3> HIDE DEF own, value
    <3>2. PICK x \in own : \A y \in own : value[x] <= value[y]
      BY <2>4
    <3>3. ASSUME NEW y \in own PROVE y.nonce <= x.nonce
      <4>1. -x.nonce <= -y.nonce /\ x.nonce \in Int /\ y.nonce \in Int
        BY <3>1, <3>2
      <4> QED BY <4>1
    <3> QED BY <3>3
  <2>6. top \in own /\ \A y \in own : y.nonce <= top.nonce
    BY <2>5, Zenon
  <2> HIDE DEF top
  <2> QED BY <1>1, <1>3, <2>6
<1> QED BY <1>2, <1>3

\* What the order places after what is sequenced, and the positions d signs for that.
unplaced(s) == SubSeq(Order(s), Len(sequenced(s).order) + 1, Len(Order(s)))
SignedOn(f, s, d) ==
  /\ f[0] = sequenced(s).tail
  /\ \A i \in 1..Len(unplaced(s)) :
       f[i] = [signer |-> d, height |-> sequenced(s).tail.height + i,
               prev |-> f[i - 1], op |-> position(unplaced(s)[i])]

LEMMA SequenceOperationsSigns ==
  ASSUME NEW s, Placeable(s), NEW d
  PROVE  /\ unplaced(s) \in Seq(s.ops)
         /\ \/ sequenceOperations(s, d) = s
            \/ /\ extends(s, d)
               /\ \E f : /\ SignedOn(f, s, d)
                         /\ sequenceOperations(s, d) =
                              [s EXCEPT !.sequence = @ \cup {f[i] : i \in 1..Len(unplaced(s))}]
<1> DEFINE placed == sequenced(s)
           order == Order(s)
           rest == SubSeq(order, Len(placed.order) + 1, Len(order))
           sign(f, i) == IF i = 0 THEN placed.tail
                         ELSE [signer |-> d, height |-> placed.tail.height + i,
                               prev |-> f[i - 1], op |-> position(rest[i])]
           IsSigned(f, n) == f = [i \in 0..n |-> sign(f, i)]
           signed == CHOOSE f : IsSigned(f, Len(rest))
           added == {signed[i] : i \in 1..Len(rest)}
<1>1. sequenceOperations(s, d) = IF extends(s, d) THEN [s EXCEPT !.sequence = @ \cup added] ELSE s
  BY Zenon DEF sequenceOperations
<1>2. order \in Seq(s.ops) /\ placed.order \in Seq(s.ops)
  BY SequencedType, OrderType DEF Sequenced
<1>9. rest = unplaced(s)
  BY DEF unplaced
<1> HIDE DEF placed, order
<1>3. rest \in Seq(s.ops)
  <2>1. Len(placed.order) + 1 \in Int /\ Len(placed.order) + 1 >= 1 /\ Len(order) \in Int
    BY <1>2
  <2>2. Len(order) <= Len(order)
    BY <2>1
  <2> QED BY <1>2, <2>1, <2>2, PartOfSequence, Zenon
<1> HIDE DEF rest
<1>4. \A n \in Nat : \E f : IsSigned(f, n)
  <2> DEFINE T == {n \in Nat : \E f : IsSigned(f, n)}
  <2>1. 0 \in T
    <3>1. IsSigned([i \in 0..0 |-> placed.tail], 0)
      OBVIOUS
    <3> QED BY <3>1
  <2>2. ASSUME NEW n \in T PROVE n + 1 \in T
    <3>1. PICK f : IsSigned(f, n)
      OBVIOUS
    <3> DEFINE g == [i \in 0..n + 1 |-> IF i <= n THEN f[i] ELSE sign(f, i)]
    <3>2. \A i \in 0..n : f[i] = sign(f, i)
      <4> HIDE DEF sign
      <4> QED BY <3>1
    <3>3. \A i \in 0..n + 1 : i = 0 \/ i - 1 \in 0..n
      OBVIOUS
    <3>4. \A i \in 0..n + 1 : i - 1 \in 0..n => g[i - 1] = f[i - 1]
      OBVIOUS
    <3>5. \A i \in 0..n + 1 : sign(g, i) = sign(f, i)
      BY <3>3, <3>4
    <3>6. \A i \in 0..n + 1 : g[i] = sign(f, i)
      <4>1. \A i \in 0..n + 1 : i <= n => i \in 0..n
        OBVIOUS
      <4> HIDE DEF sign
      <4> QED BY <3>2, <4>1
    <3>7. IsSigned(g, n + 1)
      <4> HIDE DEF sign
      <4> QED BY <3>5, <3>6
    <3>8. n + 1 \in Nat
      OBVIOUS
    <3> HIDE DEF IsSigned, g
    <3> QED BY <3>7, <3>8
  <2>3. T \in SUBSET Nat
    OBVIOUS
  <2> HIDE DEF T
  <2>4. T = Nat
    BY <2>1, <2>2, <2>3, NumberInduction
  <2> QED BY <2>4 DEF T
<1>5. Len(rest) \in Nat
  BY <1>3
<1>6. IsSigned(signed, Len(rest))
  <2> HIDE DEF IsSigned
  <2> QED BY <1>4, <1>5, Zenon
<1> HIDE DEF signed
<1>7. SignedOn(signed, s, d)
  <2>1. \A i \in 0..Len(rest) : signed[i] = sign(signed, i)
    <3> HIDE DEF sign
    <3> QED BY <1>6
  <2>2. signed[0] = placed.tail
    <3>1. 0 \in 0..Len(rest)
      BY <1>5
    <3> QED BY <2>1, <3>1
  <2>3. ASSUME NEW i \in 1..Len(rest)
        PROVE  signed[i] = [signer |-> d, height |-> placed.tail.height + i,
                            prev |-> signed[i - 1], op |-> position(rest[i])]
    <3>1. i \in 0..Len(rest) /\ i # 0
      BY <1>5
    <3> QED BY <2>1, <3>1
  <2> HIDE DEF sign
  <2> QED BY <1>9, <2>2, <2>3 DEF SignedOn, placed
<1>8. added = {signed[i] : i \in 1..Len(unplaced(s))}
  BY <1>9
<1> HIDE DEF added
<1>10. CASE ~extends(s, d)
  <2>1. sequenceOperations(s, d) = s
    BY <1>1, <1>10, Zenon
  <2> QED BY <1>3, <1>9, <2>1
<1>11. CASE extends(s, d)
  <2>1. sequenceOperations(s, d) =
          [s EXCEPT !.sequence = @ \cup {signed[i] : i \in 1..Len(unplaced(s))}]
    BY <1>1, <1>8, <1>11
  <2>2. \E f : /\ SignedOn(f, s, d)
               /\ sequenceOperations(s, d) =
                    [s EXCEPT !.sequence = @ \cup {f[i] : i \in 1..Len(unplaced(s))}]
    BY <1>7, <2>1, Zenon
  <2> QED BY <1>3, <1>9, <1>11, <2>2, Zenon
<1> QED BY <1>10, <1>11

\* Positions the sequencer signs: above the last, for operations of the rest.
LEMMA SequenceOperationsAdds ==
  ASSUME NEW s, Placeable(s), NEW d
  PROVE  \/ sequenceOperations(s, d) = s
         \/ \E added : /\ sequenceOperations(s, d) = [s EXCEPT !.sequence = @ \cup added]
                       /\ IsFiniteSet(added)
                       /\ \A r \in added :
                            /\ r.height \in Int /\ r.height > sequenced(s).tail.height
                            /\ \E op \in s.ops : r.op = position(op)
<1> DEFINE rest == unplaced(s)
           tail == sequenced(s).tail
<1> SUFFICES ASSUME sequenceOperations(s, d) # s
             PROVE  \E added : /\ sequenceOperations(s, d) = [s EXCEPT !.sequence = @ \cup added]
                               /\ IsFiniteSet(added)
                               /\ \A r \in added :
                                    /\ r.height \in Int /\ r.height > tail.height
                                    /\ \E op \in s.ops : r.op = position(op)
  OBVIOUS
<1>1. PICK f : /\ SignedOn(f, s, d)
               /\ sequenceOperations(s, d) = [s EXCEPT !.sequence = @ \cup {f[i] : i \in 1..Len(rest)}]
  BY SequenceOperationsSigns
<1>2. tail.height \in Int
  BY SequencedType DEF Sequenced, Placeable
<1>3. Len(rest) \in Nat /\ \A i \in 1..Len(rest) : rest[i] \in s.ops
  <2>1. rest \in Seq(s.ops)
    BY SequenceOperationsSigns
  <2> HIDE DEF rest
  <2> QED BY <2>1
<1> HIDE DEF rest, tail
<1>4. \A i \in 1..Len(rest) : f[i].height = tail.height + i /\ f[i].op = position(rest[i])
  <2> SUFFICES ASSUME NEW i \in 1..Len(rest)
               PROVE  f[i].height = tail.height + i /\ f[i].op = position(rest[i])
    OBVIOUS
  <2>1. f[i] = [signer |-> d, height |-> tail.height + i, prev |-> f[i - 1], op |-> position(rest[i])]
    BY <1>1 DEF SignedOn, rest, tail
  <2> QED BY <2>1
<1> DEFINE added == {f[i] : i \in 1..Len(rest)}
<1>5. IsFiniteSet(added)
  <2> DEFINE g == [i \in 1..Len(rest) |-> f[i]]
  <2>1. g \in Surjection(1..Len(rest), added)
    BY DEF Surjection
  <2>2. IsFiniteSet(1..Len(rest))
    BY <1>3, FS_Interval
  <2> HIDE DEF g, added
  <2> QED BY <2>1, <2>2, FS_Surjection
<1>6. \A r \in added : /\ r.height \in Int /\ r.height > tail.height
                      /\ \E op \in s.ops : r.op = position(op)
  BY <1>2, <1>3, <1>4
<1> HIDE DEF added
<1>7. sequenceOperations(s, d) = [s EXCEPT !.sequence = @ \cup added]
  BY <1>1 DEF added, rest
<1> QED BY <1>5, <1>6, <1>7

-----------------------------------------------------------------------------
(* Types, over the operations W ever written.                              *)

ConfigFields == {"seqno", "writers", "owners", "dropped", "sequencer", "start", "removed"}

GoodOperations(W) ==
  /\ IsFiniteSet(W)
  /\ \A op \in W : /\ op.author \in Devices /\ op.nonce \in Nat \ {0} /\ op.hash \in Int
                   /\ op.prev \in Position /\ op.parents \subseteq Position

GoodConfig(c) ==
  DOMAIN c = ConfigFields /\ c.seqno \in Nat /\ c.writers \in Seq(Devices)

headsOf(a, W) == {NoOperation(a)} \cup {position(op) : op \in {w \in W : w.author = a}}
GoodCheckpoint(k, W) ==
  /\ k.height \in Nat /\ k.sequence.height \in Nat
  /\ DOMAIN k.authors = Devices /\ \A a \in Devices : k.authors[a] \in headsOf(a, W)

GoodState(s, W) ==
  /\ DOMAIN s = Fields /\ Above(s, W)
  /\ IsFiniteSet(s.ops) /\ IsFiniteSet(s.sequence)
  /\ \A r \in s.sequence : /\ r.height \in Nat /\ r.height > base(s).height
                           /\ r.op \in {position(op) : op \in W}
  /\ GoodCheckpoint(s.checkpoint, W) /\ GoodConfig(s.config)

LEMMA GoodIsPlaceable ==
  ASSUME NEW W, GoodOperations(W), NEW s, GoodState(s, W)
  PROVE  Placeable(s)
  BY DEF GoodOperations, GoodState, Placeable, GoodCheckpoint, base, Above

LEMMA GoodStateGrows ==
  ASSUME NEW V, NEW W, V \subseteq W, NEW s, GoodState(s, V)
  PROVE  GoodState(s, W)
<1>1. Above(s, W)
  BY DEF GoodState, Above
<1>2. \A r \in s.sequence : r.op \in {position(op) : op \in W}
  BY DEF GoodState
<1>3. GoodCheckpoint(s.checkpoint, W)
  BY DEF GoodState, GoodCheckpoint, headsOf
<1> QED BY <1>1, <1>2, <1>3 DEF GoodState

LEMMA AddedGood ==
  ASSUME NEW W, NEW s, GoodState(s, W), NEW op \in W
  PROVE  GoodState(AddOperation(s, op), W)
<1>1. CASE Covers(s.checkpoint, position(op))
  BY <1>1 DEF AddOperation
<1>2. CASE ~ Covers(s.checkpoint, position(op))
  <2> DEFINE t == AddOperation(s, op)
  <2>1. /\ DOMAIN t = Fields /\ t.ops = s.ops \cup {op} /\ t.checkpoint = s.checkpoint
        /\ t.sequence = s.sequence /\ t.config = s.config
    BY <1>2 DEF AddOperation, GoodState, Fields
  <2> HIDE DEF t
  <2>2. IsFiniteSet(t.ops)
    BY <2>1, FS_AddElement DEF GoodState
  <2>3. Above(t, W)
    BY <1>2, <2>1 DEF Above, GoodState
  <2> QED BY <2>1, <2>2, <2>3 DEF GoodState, base, t
<1> QED BY <1>1, <1>2

LEMMA SequencedGood ==
  ASSUME NEW W, GoodOperations(W), NEW s, GoodState(s, W), NEW d
  PROVE  /\ GoodState(sequenceOperations(s, d), W)
         /\ sequenceOperations(s, d).config = s.config
         /\ sequenceOperations(s, d).ops = s.ops
         /\ sequenceOperations(s, d).checkpoint = s.checkpoint
<1>1. Placeable(s)
  BY GoodIsPlaceable
<1>2. CASE sequenceOperations(s, d) = s
  BY <1>2
<1>3. ASSUME NEW added, sequenceOperations(s, d) = [s EXCEPT !.sequence = @ \cup added],
             IsFiniteSet(added),
             \A r \in added : /\ r.height \in Int /\ r.height > sequenced(s).tail.height
                              /\ \E op \in s.ops : r.op = position(op)
      PROVE  /\ GoodState(sequenceOperations(s, d), W)
             /\ sequenceOperations(s, d).config = s.config
             /\ sequenceOperations(s, d).ops = s.ops
             /\ sequenceOperations(s, d).checkpoint = s.checkpoint
  <2> DEFINE t == sequenceOperations(s, d)
  <2>1. /\ DOMAIN t = Fields /\ t.ops = s.ops /\ t.checkpoint = s.checkpoint
        /\ t.sequence = s.sequence \cup added /\ t.config = s.config
    BY <1>3 DEF GoodState, Fields
  <2> HIDE DEF t
  <2>2. IsFiniteSet(t.sequence)
    <3>1. IsFiniteSet(s.sequence) /\ IsFiniteSet(added)
      BY <1>3 DEF GoodState
    <3>2. IsFiniteSet(s.sequence \cup added)
      BY <3>1, FS_Union
    <3> QED BY <2>1, <3>2
  <2>3. sequenced(s).tail \in {base(s)} \cup s.sequence
    BY <1>1, SequencedType DEF Sequenced
  <2>4. base(s).height \in Nat /\ base(t) = base(s)
    BY <2>1 DEF GoodState, GoodCheckpoint, base
  <2>5. sequenced(s).tail.height \in Nat /\ sequenced(s).tail.height >= base(s).height
    BY <2>3, <2>4 DEF GoodState
  <2>6. \A r \in added : /\ r.height \in Nat /\ r.height > base(s).height
                         /\ r.op \in {position(op) : op \in W}
    BY <1>3, <2>4, <2>5 DEF GoodState, Above
  <2>7. \A r \in t.sequence : /\ r.height \in Nat /\ r.height > base(t).height
                              /\ r.op \in {position(op) : op \in W}
    BY <2>1, <2>4, <2>6 DEF GoodState
  <2>8. Above(t, W)
    BY <2>1 DEF GoodState, Above
  <2>9. GoodState(t, W)
    BY <2>1, <2>2, <2>7, <2>8 DEF GoodState
  <2> QED BY <2>1, <2>9 DEF t
<1> QED BY <1>1, <1>2, <1>3, SequenceOperationsAdds

LEMMA AdoptedGood ==
  ASSUME NEW W, NEW s, GoodState(s, W), NEW next, GoodCheckpoint(next, W)
  PROVE  /\ GoodState(adoptCheckpoint(s, next), W)
         /\ adoptCheckpoint(s, next).config = s.config
         /\ adoptCheckpoint(s, next).ops \subseteq s.ops
         /\ adoptCheckpoint(s, next).sequence \subseteq s.sequence
<1>1. CASE next.height <= s.checkpoint.height
  BY <1>1 DEF adoptCheckpoint
<1>2. CASE ~ (next.height <= s.checkpoint.height)
  <2> DEFINE t == adoptCheckpoint(s, next)
  <2>1. /\ DOMAIN t = Fields /\ t.checkpoint = next /\ t.config = s.config
        /\ t.ops = {op \in s.ops : ~ Covers(next, position(op))}
        /\ t.sequence \subseteq s.sequence
        /\ \A r \in t.sequence : r.height > next.sequence.height
    BY <1>2 DEF adoptCheckpoint, accounted, GoodState, Fields
  <2> HIDE DEF t
  <2>2. IsFiniteSet(t.ops) /\ IsFiniteSet(t.sequence)
    BY <2>1, FS_Subset DEF GoodState
  <2>3. Above(t, W)
    BY <2>1 DEF GoodState, Above
  <2>4. \A r \in t.sequence : /\ r.height \in Nat /\ r.height > base(t).height
                              /\ r.op \in {position(op) : op \in W}
    BY <2>1 DEF GoodState, base
  <2>5. GoodState(t, W)
    BY <2>1, <2>2, <2>3, <2>4 DEF GoodState
  <2>6. t.ops \subseteq s.ops
    BY <2>1
  <2> QED BY <2>1, <2>5, <2>6 DEF t
<1> QED BY <1>1, <1>2

LEMMA ConfiguredGood ==
  ASSUME NEW W, NEW s, GoodState(s, W), NEW c, GoodConfig(c)
  PROVE  /\ GoodState([s EXCEPT !.config = c], W)
         /\ [s EXCEPT !.config = c].config = c
         /\ [s EXCEPT !.config = c].ops = s.ops /\ [s EXCEPT !.config = c].sequence = s.sequence
         /\ [s EXCEPT !.config = c].checkpoint = s.checkpoint
<1> DEFINE t == [s EXCEPT !.config = c]
<1>1. /\ DOMAIN t = Fields /\ t.ops = s.ops /\ t.checkpoint = s.checkpoint
      /\ t.sequence = s.sequence /\ t.config = c
  BY DEF GoodState, Fields
<1> HIDE DEF t
<1>2. Above(t, W) /\ base(t) = base(s)
  BY <1>1 DEF GoodState, Above, base
<1>3. GoodState(t, W)
  BY <1>1, <1>2 DEF GoodState
<1> QED BY <1>1, <1>3 DEF t

LEMMA MergedGood ==
  ASSUME NEW W, NEW s, GoodState(s, W), NEW c, GoodState(c, W)
  PROVE  /\ GoodState(mergeSnapshot(s, c), W)
         /\ mergeSnapshot(s, c).config = c.config
<1> DEFINE r == [s EXCEPT !.config = c.config]
           a == adoptCheckpoint(r, c.checkpoint)
           ops == {op \in c.ops : ~ Covers(a.checkpoint, position(op))}
           sequence == {x \in c.sequence : accounted(a, x)}
           t == mergeSnapshot(s, c)
<1>1. GoodState(r, W) /\ r.config = c.config
  BY ConfiguredGood DEF GoodState
<1> HIDE DEF r
<1>2. GoodState(a, W) /\ a.config = c.config
  BY <1>1, AdoptedGood DEF GoodState
<1>3. t = [a EXCEPT !.ops = @ \cup ops, !.sequence = @ \cup sequence]
  BY DEF mergeSnapshot, r
<1> HIDE DEF a
<1>4. /\ DOMAIN t = Fields /\ t.ops = a.ops \cup ops /\ t.sequence = a.sequence \cup sequence
      /\ t.checkpoint = a.checkpoint /\ t.config = c.config
  <2> HIDE DEF ops, sequence, t
  <2> QED BY <1>2, <1>3 DEF GoodState, Fields
<1> HIDE DEF t
<1>5. IsFiniteSet(ops) /\ IsFiniteSet(sequence)
  BY FS_Subset DEF GoodState
<1>6. IsFiniteSet(t.ops) /\ IsFiniteSet(t.sequence)
  <2> HIDE DEF ops, sequence
  <2>1. IsFiniteSet(a.ops) /\ IsFiniteSet(a.sequence)
    BY <1>2 DEF GoodState
  <2>2. IsFiniteSet(a.ops \cup ops) /\ IsFiniteSet(a.sequence \cup sequence)
    BY <1>5, <2>1, FS_Union
  <2> QED BY <1>4, <2>2
<1>7. Above(t, W)
  BY <1>2, <1>4 DEF GoodState, Above
<1>8. \A x \in t.sequence : /\ x.height \in Nat /\ x.height > base(t).height
                            /\ x.op \in {position(op) : op \in W}
  BY <1>2, <1>4 DEF GoodState, base, accounted
<1>9. GoodState(t, W)
  BY <1>2, <1>4, <1>6, <1>7, <1>8 DEF GoodState
<1> QED BY <1>4, <1>9 DEF t

-----------------------------------------------------------------------------
(* Bodies.                                                                 *)

Applied(W) == [op : W, refused : BOOLEAN]
GoodBody(x, W) ==
  DOMAIN x = {"installed", "set", "positions"} /\ x.positions \in Seq(Applied(W))

LEMMA GoodBodyGrows ==
  ASSUME NEW V, NEW W, V \subseteq W, NEW x, GoodBody(x, V)
  PROVE  GoodBody(x, W)
<1>1. Applied(V) \subseteq Applied(W)
  BY DEF Applied
<1>2. x.positions \in Seq(Applied(W))
  BY <1>1, SeqMonotonic DEF GoodBody
<1> QED BY <1>2 DEF GoodBody

\* A number that CoveredPrefix yields.
LEMMA CoveredPrefixType ==
  ASSUME NEW s, NEW n \in Nat, NEW order, Len(order) = n, NEW next
  PROVE  CoveredPrefix(s, order, next) \in -1..n
<1> DEFINE covered(i) == Covers(next, position(order[i]))
           fit(k) == (\A i \in 1..k : covered(i)) /\ (k = n \/ ~ covered(k + 1))
           K == {k \in 0..n : k = n \/ ~ covered(k + 1)}
           c == CHOOSE k \in 0..n : fit(k)
<1>1. \E k \in 0..n : fit(k)
  <2>1. K \in SUBSET (0..n) /\ n \in K
    OBVIOUS
  <2>2. Min(K) \in K /\ \A k \in K : Min(K) <= k
    <3> HIDE DEF K
    <3> QED BY <2>1, Extremes
  <2> DEFINE m == Min(K)
  <2>3. m \in K /\ \A k \in K : m <= k
    BY <2>2
  <2> HIDE DEF m
  <2>4. ASSUME NEW i \in 1..m PROVE covered(i)
    <3>1. i - 1 \in 0..n /\ ~ (m <= i - 1)
      BY <2>3
    <3>2. i - 1 \notin K
      BY <2>3, <3>1
    <3>3. (i - 1) + 1 = i
      OBVIOUS
    <3>4. covered((i - 1) + 1)
      BY <3>1, <3>2
    <3> QED BY <3>3, <3>4
  <2> HIDE DEF covered
  <2> QED BY <2>3, <2>4
<1>2. c \in 0..n
  <2> HIDE DEF fit
  <2> QED BY <1>1
<1>3. CoveredPrefix(s, order, next) \in {-1, c}
  BY Zenon DEF CoveredPrefix
<1> HIDE DEF c
<1> QED BY <1>2, <1>3

\* Installing a checkpoint keeps some of the last positions, or none.
LEMMA InstalledBody ==
  ASSUME NEW W, NEW x, GoodBody(x, W), NEW next
  PROVE  GoodBody(install(x, next), W)
<1>1. CASE x.installed = next
  BY <1>1 DEF install
<1>2. CASE x.installed # next
  <2> DEFINE n == CoveredPrefix([checkpoint |-> x.set], hashes(x), next)
             left == IF kept(x, next) = {} THEN <<>>
                     ELSE SubSeq(x.positions, Max(kept(x, next)) + 1, Len(x.positions))
             t == install(x, next)
  <2>1. DOMAIN t = {"installed", "set", "positions"} /\ t.positions = left
    BY <1>2 DEF install, GoodBody
  <2>2. Len(x.positions) \in Nat /\ DOMAIN x.positions = 1..Len(x.positions)
    BY DEF GoodBody
  <2>3. Len(hashes(x)) = Len(x.positions)
    BY <2>2 DEF hashes
  <2>4. n \in -1..Len(x.positions)
    BY <2>2, <2>3, CoveredPrefixType
  <2>5. kept(x, next) \subseteq {m \in {n} : m >= 0}
    BY DEF kept
  <2> HIDE DEF n
  <2>6. left \in Seq(Applied(W))
    <3>1. CASE kept(x, next) = {}
      BY <3>1
    <3>2. CASE kept(x, next) # {}
      <4>1. kept(x, next) \in SUBSET (0..Len(x.positions))
        BY <2>2, <2>4, <2>5
      <4>2. Max(kept(x, next)) \in 0..Len(x.positions)
        BY <2>2, <3>2, <4>1, Extremes
      <4> DEFINE m == Max(kept(x, next)) + 1
                 l == Len(x.positions)
      <4>3. m \in Int /\ m >= 1 /\ l \in Int /\ l <= Len(x.positions)
        BY <2>2, <4>2
      <4> HIDE DEF m, l
      <4>4. SubSeq(x.positions, m, l) \in Seq(Applied(W))
        BY <4>3, PartOfSequence, Zenon DEF GoodBody
      <4> QED BY <3>2, <4>4 DEF m, l
    <3> QED BY <3>1, <3>2
  <2> HIDE DEF left, t
  <2>7. GoodBody(t, W)
    BY <2>1, <2>6 DEF GoodBody
  <2> QED BY <2>7 DEF t
<1> QED BY <1>1, <1>2

LEMMA SharedPrefixType ==
  ASSUME NEW x, NEW order, Len(order) \in Nat, Len(x.positions) \in Nat
  PROVE  /\ sharedPrefix(x, order) \in 0..Len(order)
         /\ sharedPrefix(x, order) <= Len(x.positions)
         /\ \A i \in 1..sharedPrefix(x, order) : x.positions[i].op = order[i]
<1> DEFINE n == IF Len(order) < Len(x.positions) THEN Len(order) ELSE Len(x.positions)
           same == {m \in 0..n : \A i \in 1..m : x.positions[i].op = order[i]}
<1>1. sharedPrefix(x, order) = Max(same)
  BY Zenon DEF sharedPrefix
<1>2. n \in Nat /\ n <= Len(order) /\ n <= Len(x.positions)
  OBVIOUS
<1> HIDE DEF n
<1>3. same \in SUBSET (0..n) /\ 0 \in same
  BY <1>2
<1>4. Max(same) \in same
  <2> HIDE DEF same
  <2> QED BY <1>2, <1>3, Extremes
<1>5. Max(same) \in 0..n
  BY <1>3, <1>4
<1>6. \A i \in 1..Max(same) : x.positions[i].op = order[i]
  BY <1>4
<1> HIDE DEF same
<1> QED BY <1>1, <1>2, <1>5, <1>6

\* Replaying applies operations of the order after those it keeps.
LEMMA ReplayedBody ==
  ASSUME NEW W, NEW x, GoodBody(x, W), NEW s, NEW order \in Seq(W),
         NEW n \in sharedPrefix(x, order)..Len(order)
  PROVE  GoodBody(replaying(x, s, order, sharedPrefix(x, order), n), W)
<1> DEFINE keep == sharedPrefix(x, order)
           played == [i \in 1..n |-> IF i <= keep THEN x.positions[i] ELSE apply(s, order[i])]
           t == replaying(x, s, order, keep, n)
<1>1. /\ Len(order) \in Nat /\ Len(x.positions) \in Nat
      /\ \A i \in 1..Len(order) : order[i] \in W
      /\ \A i \in 1..Len(x.positions) : x.positions[i] \in Applied(W)
  BY DEF GoodBody
<1>2. keep \in 0..Len(order) /\ keep <= Len(x.positions)
  BY <1>1, SharedPrefixType
<1>3. t.positions = played /\ DOMAIN t = {"installed", "set", "positions"}
  BY DEF replaying, GoodBody
<1> HIDE DEF keep, t
<1>4. n \in Nat /\ n <= Len(order)
  BY <1>1, <1>2 DEF keep
<1>5. ASSUME NEW i \in 1..n
      PROVE  (IF i <= keep THEN x.positions[i] ELSE apply(s, order[i])) \in Applied(W)
  <2>1. CASE i <= keep
    <3>1. i \in 1..Len(x.positions)
      BY <1>1, <1>2, <2>1
    <3> QED BY <1>1, <2>1, <3>1
  <2>2. CASE ~ (i <= keep)
    <3>1. order[i] \in W
      BY <1>1, <1>4
    <3>2. apply(s, order[i]) \in Applied(W)
      <4>1. (Equivocated(s, order[i]) \/ ~ AdmitsOperation(s.config, order[i])) \in BOOLEAN
        BY DEF Equivocated, AdmitsOperation
      <4> QED BY <3>1, <4>1 DEF apply, Applied
    <3> QED BY <2>2, <3>2
  <2> QED BY <2>1, <2>2
<1>6. played \in Seq(Applied(W))
  <2> DEFINE R == Applied(W)
             at(i) == IF i <= keep THEN x.positions[i] ELSE apply(s, order[i])
  <2>1. \A i \in 1..n : at(i) \in R
    BY <1>5
  <2>2. played = [i \in 1..n |-> at(i)]
    OBVIOUS
  <2> HIDE DEF R, at
  <2>3. [i \in 1..n |-> at(i)] \in Seq(R)
    BY <1>4, <2>1
  <2> QED BY <2>2, <2>3 DEF R
<1> HIDE DEF played
<1>7. GoodBody(t, W)
  BY <1>3, <1>6 DEF GoodBody
<1> QED BY <1>7 DEF t, keep

-----------------------------------------------------------------------------
(* The invariant of types.                                                 *)

StatesTyped(states) ==
  /\ DOMAIN states = Devices
  /\ \A d \in Devices : GoodState(states[d], written) /\ fits(states[d])

BodiesTyped == DOMAIN body = Devices /\ \A d \in Devices : GoodBody(body[d], written)

StoringTyped ==
  /\ DOMAIN storing = Devices
  /\ \A d \in Devices : storing[d] = Nothing \/ storing[d].prefix \in Seq(written)

IntentTyped ==
  /\ DOMAIN intent = Devices
  /\ \A d \in Devices :
       intent[d] = Nothing \/ (GoodConfig(intent[d]) /\ intent[d].seqno <= MaxConfig)

EnvironmentTyped == scenario \in Scenarios /\ restored \subseteq scenario.restored

Types ==
  /\ GoodOperations(written) /\ StatesTyped(state) /\ StatesTyped(durable)
  /\ BodiesTyped /\ StoringTyped /\ IntentTyped /\ EnvironmentTyped

LEMMA TypesStates == Types => States
  BY DEF Types, StatesTyped, GoodState, States, WellKept

LEMMA GenesisGood ==
  ASSUME NEW c \in Scenarios, NEW W
  PROVE  GoodState(GenesisState(c.config), W) /\ fits(GenesisState(c.config))
<1> DEFINE s == GenesisState(c.config)
<1>1. /\ DOMAIN s = Fields /\ s.ops = {} /\ s.sequence = {} /\ s.checkpoint = GenesisCheckpoint
      /\ s.config = c.config
  BY DEF GenesisState, Fields
<1> HIDE DEF s
<1>2. GoodConfig(c.config)
  BY LogAssumption DEF ScenarioOK, GenesisConfig, GoodConfig, ConfigFields
<1>3. GoodCheckpoint(GenesisCheckpoint, W)
  BY DEF GoodCheckpoint, GenesisCheckpoint, NoPosition, headsOf
<1>4. IsFiniteSet({}) /\ Cardinality({}) = 0
  BY FS_EmptySet
<1>5. GoodState(s, W)
  BY <1>1, <1>2, <1>3, <1>4 DEF GoodState, Above
<1>6. fits(s)
  BY <1>1, <1>4, LogAssumption DEF fits
<1> QED BY <1>5, <1>6 DEF s

LEMMA DetachedGood ==
  ASSUME NEW W PROVE GoodBody(Detached, W)
  BY DEF GoodBody, Detached

LEMMA TypesInit == Init => Types
<1> SUFFICES ASSUME Init PROVE Types
  OBVIOUS
<1>1. scenario \in Scenarios /\ written = {} /\ restored = {}
  BY DEF Init
<1>2. GoodOperations(written)
  BY <1>1, FS_EmptySet DEF GoodOperations
<1>3. StatesTyped(state) /\ StatesTyped(durable)
  BY <1>1, GenesisGood DEF StatesTyped, Init
<1>4. BodiesTyped
  BY DetachedGood DEF Init, BodiesTyped
<1>5. StoringTyped /\ IntentTyped
  BY DEF Init, StoringTyped, IntentTyped
<1>6. EnvironmentTyped
  BY <1>1, LogAssumption DEF EnvironmentTyped, ScenarioOK
<1> QED BY <1>2, <1>3, <1>4, <1>5, <1>6 DEF Types

\* The hashes that a new operation may have are integers, and new.
LEMMA NewHashes ==
  ASSUME GoodOperations(written)
  PROVE  newHashes \subseteq Int /\ \A hash \in newHashes : \A w \in written : w.hash # hash
<1> DEFINE used == {op.hash : op \in written}
           value == [op \in written |-> op.hash]
           opposite == [op \in written |-> -op.hash]
<1>1. \A op \in written : op.hash \in Int
  BY DEF GoodOperations
<1>2. CASE written = {}
  BY <1>2 DEF newHashes
<1>3. CASE written # {}
  <2>1. value \in [written -> Int] /\ opposite \in [written -> Int]
    BY <1>1
  <2>2. \E x \in written : \A y \in written : value[x] <= value[y]
    <3> HIDE DEF value
    <3> QED BY <1>3, <2>1, LowestElement DEF GoodOperations
  <2>3. \E x \in written : \A y \in written : opposite[x] <= opposite[y]
    <3> HIDE DEF opposite
    <3> QED BY <1>3, <2>1, LowestElement DEF GoodOperations
  <2>4. \E h \in used : \A k \in used : h <= k
    BY <2>2
  <2>5. \E h \in used : \A k \in used : h >= k
    <3>1. PICK x \in written : \A y \in written : opposite[x] <= opposite[y]
      BY <2>3
    <3>2. \A y \in written : x.hash >= y.hash
      <4>1. ASSUME NEW y \in written PROVE x.hash >= y.hash
        <5>1. -x.hash <= -y.hash /\ x.hash \in Int /\ y.hash \in Int
          BY <1>1, <3>1
        <5> QED BY <5>1
      <4> QED BY <4>1
    <3> QED BY <3>2
  <2>6. Min(used) \in used /\ Max(used) \in used
    BY <2>4, <2>5, Zenon DEF Min, Max
  <2>7. used \subseteq Int
    BY <1>1
  <2>8. newHashes \subseteq {Min(used) - 1, Max(used) + 1}
    <3>1. used # {}
      BY <1>3
    <3> QED BY <3>1, Zenon DEF newHashes
  <2>9. \A k \in used : Min(used) <= k /\ Max(used) >= k
    BY <2>4, <2>5, Zenon DEF Min, Max
  <2>10. \A w \in written : w.hash \in used
    OBVIOUS
  <2> HIDE DEF used
  <2>11. Min(used) \in Int /\ Max(used) \in Int
    BY <2>6, <2>7, Zenon
  <2>12. \A k \in used : k # Min(used) - 1 /\ k # Max(used) + 1
    BY <2>7, <2>9, <2>11
  <2> QED BY <2>8, <2>10, <2>11, <2>12
<1> QED BY <1>2, <1>3

\* What an operation of d that is written next builds on, and what it is.
LEMMA HeadsTyped ==
  ASSUME NEW W, GoodOperations(W), NEW s, GoodState(s, W), NEW d \in Devices
  PROVE  /\ AuthorHeads(s, d) \subseteq headsOf(d, W)
         /\ headsOf(d, W) \subseteq Position
         /\ \A h \in headsOf(d, W) : h.author = d
         /\ Heads(s) \subseteq Position
<1>1. \A op \in W : position(op) \in Position /\ position(op).author = op.author
  BY DEF GoodOperations, position, Position
<1>2. NoOperation(d) \in Position /\ NoOperation(d).author = d
  BY DEF NoOperation, Position
<1>3. headsOf(d, W) \subseteq Position /\ \A h \in headsOf(d, W) : h.author = d
  BY <1>1, <1>2 DEF headsOf
<1>4. \A a \in Devices : headsOf(a, W) \subseteq Position
  <2>1. \A a \in Devices : NoOperation(a) \in Position
    BY DEF NoOperation, Position
  <2> QED BY <1>1, <2>1 DEF headsOf
<1>5. AuthorHeads(s, d) \subseteq headsOf(d, W)
  <2>1. s.ops \subseteq W
    BY DEF GoodState, Above
  <2>2. s.checkpoint.authors[d] \in headsOf(d, W)
    BY DEF GoodState, GoodCheckpoint
  <2> QED BY <2>1, <2>2 DEF AuthorHeads, headsOf
<1>6. Heads(s) \subseteq Position
  <2>1. \A op \in s.ops : position(op) \in Position
    BY <1>1 DEF GoodState, Above
  <2>2. \A a \in Devices : s.checkpoint.authors[a] \in Position
    BY <1>4 DEF GoodState, GoodCheckpoint
  <2> QED BY <2>1, <2>2 DEF Heads
<1> QED BY <1>3, <1>5, <1>6

\* What AddLocalOperation adds.
LEMMA OperationAdded ==
  ASSUME GoodOperations(written), StatesTyped(state), NEW d \in Devices, NEW ack,
         AddLocalOperation(d, ack)
  PROVE  \E prev, op :
           /\ prev \in AuthorHeads(state[d], d)
           /\ written' = written \cup {op} /\ GoodOperations(written')
           /\ op.author = d /\ op.nonce = prev.nonce + 1 /\ op.prev = prev
           /\ prev \in headsOf(d, written) /\ \A w \in written : w.hash # op.hash
           /\ state' = [state EXCEPT ![d] = wrote(state[d], d, op)]
           /\ fits(state'[d])
           /\ UNCHANGED <<body, storing, intent, environment>>
<1>1. GoodState(state[d], written)
  BY DEF StatesTyped
<1>2. PICK prev \in AuthorHeads(state[d], d), hash \in newHashes :
        \E op \in {[author |-> d, nonce |-> prev.nonce + 1, hash |-> hash, prev |-> prev,
                    parents |-> Heads(state[d]) \ {prev}, ack |-> ack]} :
          /\ written' = written \cup {op}
          /\ state' = [state EXCEPT ![d] = wrote(state[d], d, op)]
          /\ fits(state'[d])
  BY DEF AddLocalOperation
<1> DEFINE op == [author |-> d, nonce |-> prev.nonce + 1, hash |-> hash, prev |-> prev,
                  parents |-> Heads(state[d]) \ {prev}, ack |-> ack]
<1>3. /\ written' = written \cup {op}
      /\ state' = [state EXCEPT ![d] = wrote(state[d], d, op)] /\ fits(state'[d])
  BY <1>2
<1>4. /\ op.author = d /\ op.nonce = prev.nonce + 1 /\ op.hash = hash /\ op.prev = prev
      /\ op.parents \subseteq Heads(state[d])
  OBVIOUS
<1> HIDE DEF op
<1>5. /\ prev \in headsOf(d, written) /\ prev \in Position /\ Heads(state[d]) \subseteq Position
  BY <1>1, HeadsTyped
<1>6. prev.nonce \in Nat
  BY <1>5 DEF Position
<1>7. op.nonce \in Nat \ {0} /\ op.hash \in Int /\ op.prev \in Position /\ op.parents \subseteq Position
      /\ \A w \in written : w.hash # op.hash
  BY <1>4, <1>5, <1>6, NewHashes
<1>8. IsFiniteSet(written \cup {op})
  BY FS_AddElement DEF GoodOperations
<1>9. GoodOperations(written')
  BY <1>3, <1>4, <1>7, <1>8 DEF GoodOperations
<1> QED BY <1>3, <1>4, <1>5, <1>7, <1>9 DEF AddLocalOperation

\* What every step does to what was written, and to what may happen.
LEMMA WrittenStep ==
  ASSUME Types, [Next]_vars
  PROVE  GoodOperations(written') /\ written \subseteq written'
<1>1. written \subseteq written'
  BY TypesStates, DurableStep
<1>2. ASSUME NEW d \in Devices, NEW ack, AddLocalOperation(d, ack) PROVE GoodOperations(written')
  BY <1>2, OperationAdded DEF Types
<1>3. CASE UNCHANGED written
  BY <1>3 DEF Types
<1>4. ASSUME NEW d \in Devices, SetSOSequencer(d) \/ MaintainRoster(d)
                                 \/ RemoveSOParticipant(d) \/ AddSOParticipant(d)
      PROVE  UNCHANGED written
  BY <1>4 DEF SetSOSequencer, MaintainRoster, RemoveSOParticipant, AddSOParticipant, Prepare
<1>5. ASSUME NEW d \in Devices, SequenceOperations(d) \/ ApplyConfigChange(d) \/ Step(d)
                                 \/ AdoptCheckpoint(d) \/ Restart(d) \/ LosePower(d)
                                 \/ Flush(d) \/ Restore(d)
      PROVE  UNCHANGED written
  BY <1>5 DEF SequenceOperations, ApplyConfigChange, Step, AdoptCheckpoint, Restart, LosePower,
              Flush, Restore, log
<1>6. ASSUME NEW d \in Devices, NEW from \in Devices,
             ImportPeerSnapshot(d, from) \/ ImportRemoval(d, from)
      PROVE  UNCHANGED written
  BY <1>6 DEF ImportPeerSnapshot, ImportRemoval
<1>7. CASE UNCHANGED vars
  BY <1>7 DEF vars, log, Types
<1> QED BY <1>1, <1>2, <1>3, <1>4, <1>5, <1>6, <1>7 DEF Next, Write, Acknowledge

LEMMA EnvironmentStep ==
  ASSUME Types, [Next]_vars
  PROVE  EnvironmentTyped' /\ scenario' = scenario /\ restored \subseteq restored'
<1> DEFINE moves == /\ scenario' = scenario /\ restored \subseteq restored'
                    /\ restored' \subseteq restored \cup scenario.restored
<1>1. ASSUME NEW d \in Devices, NEW ack, AddLocalOperation(d, ack) PROVE moves
  BY <1>1 DEF AddLocalOperation, environment
<1>2. ASSUME NEW d \in Devices,
             SetSOSequencer(d) \/ MaintainRoster(d) \/ RemoveSOParticipant(d) \/ AddSOParticipant(d)
      PROVE  moves
  BY <1>2 DEF SetSOSequencer, MaintainRoster, RemoveSOParticipant, AddSOParticipant, Prepare,
              environment
<1>3. ASSUME NEW d \in Devices, SequenceOperations(d) \/ ApplyConfigChange(d) \/ Step(d)
                                 \/ AdoptCheckpoint(d) \/ Restart(d) \/ LosePower(d)
                                 \/ Flush(d) \/ Restore(d)
      PROVE  moves
  BY <1>3 DEF SequenceOperations, ApplyConfigChange, Step, AdoptCheckpoint, Restart, LosePower,
              Flush, Restore, environment
<1>4. ASSUME NEW d \in Devices, NEW from \in Devices,
             ImportPeerSnapshot(d, from) \/ ImportRemoval(d, from)
      PROVE  moves
  BY <1>4 DEF ImportPeerSnapshot, ImportRemoval, environment
<1>5. ASSUME UNCHANGED vars PROVE moves
  <2>1. scenario' = scenario /\ restored' = restored
    BY <1>5 DEF vars, environment
  <2> QED BY <2>1
<1>6. moves
  <2> HIDE DEF moves
  <2> QED BY <1>1, <1>2, <1>3, <1>4, <1>5 DEF Next, Write, Acknowledge
<1> QED BY <1>6 DEF Types, EnvironmentTyped

\* One device's state moves, to one that is well typed.
LEMMA OneTyped ==
  ASSUME NEW states, StatesTyped(states), NEW W, written \subseteq W,
         NEW d \in Devices, NEW t, GoodState(t, W), fits(t)
  PROVE  LET next == [states EXCEPT ![d] = t]
         IN /\ DOMAIN next = Devices
            /\ \A e \in Devices : GoodState(next[e], W) /\ fits(next[e])
<1> DEFINE next == [states EXCEPT ![d] = t]
<1>1. DOMAIN next = Devices
  BY DEF StatesTyped
<1>2. ASSUME NEW e \in Devices PROVE GoodState(next[e], W) /\ fits(next[e])
  <2>1. CASE e = d
    BY <2>1 DEF StatesTyped
  <2>2. CASE e # d
    <3>1. next[e] = states[e] /\ GoodState(states[e], written) /\ fits(states[e])
      BY <2>2 DEF StatesTyped
    <3> QED BY <3>1, GoodStateGrows
  <2> QED BY <2>1, <2>2
<1> QED BY <1>1, <1>2

\* A state with no more operations and positions than one that fits does fit.
LEMMA FewerFit ==
  ASSUME NEW W, NEW s, GoodState(s, W), fits(s), NEW t, GoodState(t, W),
         t.ops \subseteq s.ops, t.sequence \subseteq s.sequence
  PROVE  fits(t)
<1>1. IsFiniteSet(s.ops) /\ IsFiniteSet(s.sequence)
  BY DEF GoodState
<1>2. Cardinality(t.ops) <= Cardinality(s.ops) /\ Cardinality(t.sequence) <= Cardinality(s.sequence)
  BY <1>1, FS_Subset
<1>3. /\ Cardinality(t.ops) \in Nat /\ Cardinality(s.ops) \in Nat
      /\ Cardinality(t.sequence) \in Nat /\ Cardinality(s.sequence) \in Nat
  BY <1>1, FS_CardinalityType, FS_Subset
<1> QED BY <1>2, <1>3, LogAssumption DEF fits

\* A new checkpoint, over a prefix of signed operations.
LEMMA StableCheckpointGood ==
  ASSUME NEW W, GoodOperations(W), NEW s, GoodState(s, W), NEW c, c.prefix \in Seq(W),
         c.height = s.checkpoint.height
  PROVE  GoodCheckpoint(stableCheckpoint(s, c), W)
<1> DEFINE k == stableCheckpoint(s, c)
<1>1. /\ k.height = c.height + 1 /\ k.authors = cover(s, c.prefix)
      /\ k.sequence = SequenceHead(s, c.prefix)
  BY DEF stableCheckpoint
<1>2. k.height \in Nat
  BY <1>1 DEF GoodState, GoodCheckpoint
<1>3. k.sequence.height \in Nat
  BY <1>1, GoodIsPlaceable, SequenceHeadType DEF GoodState, GoodCheckpoint, base
<1>4. ASSUME NEW a \in Devices PROVE k.authors[a] \in headsOf(a, W)
  <2>1. \A op \in W : op.nonce \in Nat
    BY DEF GoodOperations
  <2>2. Range(c.prefix) \subseteq W
    BY DEF Range
  <2>3. CASE cover(s, c.prefix)[a] = s.checkpoint.authors[a]
    BY <1>1, <2>3 DEF GoodState, GoodCheckpoint
  <2>4. CASE \E op \in Range(c.prefix) : op.author = a /\ cover(s, c.prefix)[a] = position(op)
    BY <1>1, <2>2, <2>4 DEF headsOf
  <2> QED BY <2>1, <2>3, <2>4, CoverHead
<1>5. DOMAIN k.authors = Devices
  BY <1>1 DEF cover
<1> HIDE DEF k
<1>6. GoodCheckpoint(k, W)
  BY <1>2, <1>3, <1>4, <1>5 DEF GoodCheckpoint
<1> QED BY <1>6 DEF k

LEMMA StateTypesStep ==
  ASSUME Types, [Next]_vars
  PROVE  StatesTyped(state)'
<1> DEFINE typed == /\ DOMAIN state' = Devices
                    /\ \A e \in Devices : GoodState(state'[e], written') /\ fits(state'[e])
<1>0. GoodOperations(written') /\ written \subseteq written'
  BY WrittenStep
<1>1. ASSUME UNCHANGED state PROVE typed
  BY <1>0, <1>1, GoodStateGrows DEF Types, StatesTyped
<1>2. ASSUME NEW d \in Devices, NEW t, state' = [state EXCEPT ![d] = t],
             GoodState(t, written'), fits(t)
      PROVE  typed
  BY <1>0, <1>2, OneTyped DEF Types
<1>3. \A d \in Devices : /\ GoodState(state[d], written) /\ GoodState(state[d], written')
                         /\ GoodState(shown(d), written) /\ GoodState(shown(d), written')
  BY <1>0, GoodStateGrows DEF Types, StatesTyped, shown
<1>4. ASSUME NEW d \in Devices, NEW ack, AddLocalOperation(d, ack) PROVE typed
  <2>1. PICK op : /\ written' = written \cup {op}
                  /\ state' = [state EXCEPT ![d] = wrote(state[d], d, op)]
                  /\ fits(state'[d])
    BY <1>4 DEF AddLocalOperation
  <2>2. GoodState(AddOperation(state[d], op), written')
    BY <1>3, <2>1, AddedGood
  <2>3. GoodState(wrote(state[d], d, op), written')
    BY <1>0, <2>2, SequencedGood DEF wrote
  <2>4. state'[d] = wrote(state[d], d, op)
    BY <2>1 DEF Types, StatesTyped
  <2> QED BY <1>2, <2>1, <2>3, <2>4
<1>5. ASSUME NEW d \in Devices, SequenceOperations(d) PROVE typed
  <2> DEFINE t == sequenceOperations(state[d], d)
  <2>1. state' = [state EXCEPT ![d] = t] /\ fits(t)
    BY <1>5 DEF SequenceOperations
  <2>2. GoodState(t, written')
    BY <1>0, <1>3, SequencedGood
  <2> HIDE DEF t
  <2> QED BY <1>2, <2>1, <2>2
<1>6. ASSUME NEW d \in Devices, NEW from \in Devices, ImportPeerSnapshot(d, from) PROVE typed
  <2> DEFINE t == mergeSnapshot(state[d], shown(from))
  <2>1. state' = [state EXCEPT ![d] = t] /\ fits(t)
    BY <1>6 DEF ImportPeerSnapshot
  <2>2. GoodState(t, written')
    BY <1>3, MergedGood
  <2> HIDE DEF t
  <2> QED BY <1>2, <2>1, <2>2
<1>7. ASSUME NEW d \in Devices, NEW from \in Devices, ImportRemoval(d, from) PROVE typed
  <2> DEFINE s == [state[d] EXCEPT !.config = shown(from).config]
             t == [s EXCEPT !.ops = {}]
  <2>1. state' = [state EXCEPT ![d] = t]
    BY <1>7 DEF ImportRemoval
  <2>2. GoodState(s, written') /\ s.sequence = state[d].sequence
    BY <1>3, ConfiguredGood DEF GoodState
  <2> HIDE DEF s
  <2>3. /\ DOMAIN t = Fields /\ t.ops = {} /\ t.checkpoint = s.checkpoint
        /\ t.sequence = s.sequence /\ t.config = s.config
    BY <2>2 DEF GoodState, Fields
  <2> HIDE DEF t
  <2>4. GoodState(t, written')
    BY <2>2, <2>3, FS_EmptySet DEF GoodState, Above, base
  <2>5. fits(t)
    BY <1>3, <2>2, <2>3, <2>4, FewerFit DEF Types, StatesTyped
  <2> QED BY <1>2, <2>1, <2>4, <2>5
<1>8. ASSUME NEW d \in Devices, ApplyConfigChange(d) PROVE typed
  <2>1. CASE state' = state
    BY <1>1, <2>1
  <2>2. CASE state' = [state EXCEPT ![d].config = intent[d]]
    <3> DEFINE t == [state[d] EXCEPT !.config = intent[d]]
    <3>1. state' = [state EXCEPT ![d] = t]
      BY <2>2
    <3>2. GoodConfig(intent[d])
      BY <1>8 DEF Types, IntentTyped, ApplyConfigChange
    <3>3. GoodState(t, written') /\ t.ops = state[d].ops /\ t.sequence = state[d].sequence
      BY <1>3, <3>2, ConfiguredGood
    <3> HIDE DEF t
    <3>4. fits(t)
      BY <3>3 DEF fits, Types, StatesTyped
    <3> QED BY <1>2, <3>1, <3>3, <3>4
  <2> QED BY <1>8, <2>1, <2>2 DEF ApplyConfigChange
<1>9. ASSUME NEW d \in Devices, AdoptCheckpoint(d) PROVE typed
  <2>1. CASE UNCHANGED state
    BY <1>1, <2>1
  <2>2. CASE ~ UNCHANGED state
    <3> DEFINE k == stableCheckpoint(state[d], storing[d])
               t == adoptCheckpoint(state[d], k)
    <3>1. PICK order \in {Order(state[d])} : \E stable \in {StablePoint(state[d], order)} :
            IF current(state[d], stable, storing[d]) /\ isOwnerPeer(state[d].config, d)
            THEN state' = [state EXCEPT ![d] = t]
            ELSE UNCHANGED state
      BY <1>9 DEF AdoptCheckpoint
    <3>2. state' = [state EXCEPT ![d] = t] /\ storing[d].height = state[d].checkpoint.height
      BY <2>2, <3>1 DEF current
    <3>3. storing[d].prefix \in Seq(written')
      <4>1. storing[d].prefix \in Seq(written)
        BY <1>9 DEF Types, StoringTyped, AdoptCheckpoint
      <4> QED BY <1>0, <4>1, SeqMonotonic
    <3>4. GoodCheckpoint(k, written')
      BY <1>0, <1>3, <3>2, <3>3, StableCheckpointGood
    <3> HIDE DEF k
    <3>5. GoodState(t, written') /\ t.ops \subseteq state[d].ops /\ t.sequence \subseteq state[d].sequence
      BY <1>3, <3>4, AdoptedGood
    <3> HIDE DEF t
    <3>6. fits(t)
      BY <1>3, <3>5, FewerFit DEF Types, StatesTyped
    <3> QED BY <1>2, <3>2, <3>5, <3>6
  <2> QED BY <2>1, <2>2
<1>10. ASSUME NEW d \in Devices, Restore(d) PROVE typed
  <2> DEFINE t == GenesisState(scenario.config)
  <2>1. state' = [state EXCEPT ![d] = t]
    BY <1>10 DEF Restore
  <2>2. GoodState(t, written') /\ fits(t)
    BY GenesisGood DEF Types, EnvironmentTyped
  <2> HIDE DEF t
  <2> QED BY <1>2, <2>1, <2>2
<1>11. ASSUME NEW d \in Devices, LosePower(d) PROVE typed
  <2>1. state' = [state EXCEPT ![d] = durable[d]] /\ UNCHANGED written
    BY <1>11 DEF LosePower
  <2>2. GoodState(durable[d], written') /\ fits(durable[d])
    BY <2>1 DEF Types, StatesTyped
  <2> QED BY <1>2, <2>1, <2>2
<1>12. ASSUME NEW d \in Devices, SetSOSequencer(d) \/ MaintainRoster(d)
                                  \/ RemoveSOParticipant(d) \/ AddSOParticipant(d)
                                  \/ Step(d) \/ Restart(d) \/ Flush(d)
       PROVE  UNCHANGED state
  BY <1>12 DEF SetSOSequencer, MaintainRoster, RemoveSOParticipant, AddSOParticipant, Prepare,
               Step, Restart, Flush, log
<1>13. ASSUME UNCHANGED vars PROVE typed
  <2>1. UNCHANGED state
    BY <1>13 DEF vars, log
  <2> QED BY <1>1, <2>1
<1>14. typed
  <2> HIDE DEF typed
  <2> QED BY <1>1, <1>4, <1>5, <1>6, <1>7, <1>8, <1>9, <1>10, <1>11, <1>12, <1>13
           DEF Next, Write, Acknowledge
<1> QED BY <1>14 DEF StatesTyped

LEMMA DurableTypesStep ==
  ASSUME Types, [Next]_vars
  PROVE  StatesTyped(durable)'
<1>1. /\ DOMAIN state' = Devices
      /\ \A e \in Devices : GoodState(state'[e], written') /\ fits(state'[e])
  BY StateTypesStep DEF StatesTyped
<1>2. written \subseteq written'
  BY WrittenStep
<1>3. CASE UNCHANGED durable
  BY <1>2, <1>3, GoodStateGrows DEF Types, StatesTyped
<1>4. ASSUME NEW d \in Devices, durable' = [durable EXCEPT ![d] = state'[d]]
      PROVE  StatesTyped(durable)'
  BY <1>1, <1>2, <1>4, OneTyped DEF Types, StatesTyped
<1> QED BY <1>3, <1>4, TypesStates, DurableStep

\* What a step leaves of a body, and of the checkpoint that is owed over it.
LEMMA StepTyped ==
  ASSUME Types, NEW d \in Devices, Step(d)
  PROVE  /\ \E x : body' = [body EXCEPT ![d] = x] /\ GoodBody(x, written)
         /\ \/ UNCHANGED storing
            \/ \E c : /\ storing' = [storing EXCEPT ![d] = c]
                      /\ c = storing[d] \/ c.prefix \in Seq(written)
<1> DEFINE s == state[d]
<1>1. GoodState(s, written) /\ Placeable(s) /\ s.ops \subseteq written
  BY GoodIsPlaceable DEF Types, StatesTyped, GoodState, Above
<1> DEFINE x == install(body[d], s.checkpoint)
<1>2. GoodBody(x, written)
  BY InstalledBody DEF Types, BodiesTyped
<1> DEFINE order == Order(s)
<1>3. order \in Seq(written) /\ StablePoint(s, order) \in Seq(written)
  BY <1>1, OrderType, StableType, SeqMonotonic
<1>4. \/ body' = [body EXCEPT ![d] = following(x)] /\ UNCHANGED storing
      \/ \E keep \in {sharedPrefix(x, order)} : \E n \in keep..Len(order) :
         \E next \in {replaying(x, s, order, keep, n)}, stable \in {StablePoint(s, order)} :
           /\ body' = [body EXCEPT ![d] = next]
           /\ storing' = IF n < Len(order) THEN storing
                         ELSE [storing EXCEPT ![d] = checkpoint(s, stable, d, next)]
  BY DEF Step
<1> HIDE DEF x, order, s
<1>5. CASE body' = [body EXCEPT ![d] = following(x)] /\ UNCHANGED storing
  <2>1. GoodBody(following(x), written)
    <3>1. /\ DOMAIN following(x) = {"installed", "set", "positions"}
          /\ following(x).positions = <<>>
      BY <1>2 DEF following, GoodBody
    <3> QED BY <3>1 DEF GoodBody
  <2> QED BY <1>5, <2>1
<1>6. ASSUME NEW n \in sharedPrefix(x, order)..Len(order), NEW next, NEW stable,
             next = replaying(x, s, order, sharedPrefix(x, order), n),
             stable = StablePoint(s, order),
             body' = [body EXCEPT ![d] = next],
             storing' = IF n < Len(order) THEN storing
                        ELSE [storing EXCEPT ![d] = checkpoint(s, stable, d, next)]
      PROVE  /\ \E y : body' = [body EXCEPT ![d] = y] /\ GoodBody(y, written)
             /\ \/ UNCHANGED storing
                \/ \E c : /\ storing' = [storing EXCEPT ![d] = c]
                          /\ c = storing[d] \/ c.prefix \in Seq(written)
  <2>1. GoodBody(next, written)
    BY <1>2, <1>3, <1>6, ReplayedBody
  <2>2. \/ checkpoint(s, stable, d, next) = storing[d]
        \/ checkpoint(s, stable, d, next).prefix = stable
    BY DEF checkpoint
  <2>3. checkpoint(s, stable, d, next) = storing[d]
        \/ checkpoint(s, stable, d, next).prefix \in Seq(written)
    BY <1>3, <1>6, <2>2
  <2> QED BY <1>6, <2>1, <2>3
<1> QED BY <1>4, <1>5, <1>6

\* Every other step leaves the body, or starts it anew.
LEMMA BodyStep ==
  ASSUME Types, [Next]_vars, \A d \in Devices : ~ Step(d)
  PROVE  /\ \/ UNCHANGED body
            \/ \E d \in Devices : body' = [body EXCEPT ![d] = Detached]
         /\ \/ UNCHANGED storing
            \/ \E d \in Devices : storing' = [storing EXCEPT ![d] = Nothing]
<1> DEFINE moves == /\ \/ UNCHANGED body
                       \/ \E d \in Devices : body' = [body EXCEPT ![d] = Detached]
                    /\ \/ UNCHANGED storing
                       \/ \E d \in Devices : storing' = [storing EXCEPT ![d] = Nothing]
<1>1. ASSUME NEW d \in Devices, NEW ack, AddLocalOperation(d, ack) PROVE moves
  BY <1>1 DEF AddLocalOperation
<1>2. ASSUME NEW d \in Devices,
             SetSOSequencer(d) \/ MaintainRoster(d) \/ RemoveSOParticipant(d) \/ AddSOParticipant(d)
      PROVE  moves
  BY <1>2 DEF SetSOSequencer, MaintainRoster, RemoveSOParticipant, AddSOParticipant, Prepare
<1>3. ASSUME NEW d \in Devices, SequenceOperations(d) \/ ApplyConfigChange(d)
                                 \/ AdoptCheckpoint(d) \/ Flush(d)
      PROVE  moves
  BY <1>3 DEF SequenceOperations, ApplyConfigChange, AdoptCheckpoint, Flush, log
<1>4. ASSUME NEW d \in Devices, Restart(d) \/ LosePower(d) \/ Restore(d) PROVE moves
  BY <1>4 DEF Restart, LosePower, Restore
<1>5. ASSUME NEW d \in Devices, NEW from \in Devices,
             ImportPeerSnapshot(d, from) \/ ImportRemoval(d, from)
      PROVE  moves
  BY <1>5 DEF ImportPeerSnapshot, ImportRemoval
<1>6. ASSUME UNCHANGED vars PROVE moves
  <2>1. UNCHANGED body /\ UNCHANGED storing
    BY <1>6 DEF vars, log
  <2> QED BY <2>1
<1>7. moves
  <2> HIDE DEF moves
  <2> QED BY <1>1, <1>2, <1>3, <1>4, <1>5, <1>6 DEF Next, Write, Acknowledge
<1> QED BY <1>7

LEMMA BodiesStep ==
  ASSUME Types, [Next]_vars
  PROVE  BodiesTyped' /\ StoringTyped'
<1>1. written \subseteq written' /\ Seq(written) \subseteq Seq(written')
  BY WrittenStep, SeqMonotonic
<1>2. ASSUME NEW d \in Devices, NEW x, body' = [body EXCEPT ![d] = x], GoodBody(x, written)
      PROVE  BodiesTyped'
  BY <1>1, <1>2, GoodBodyGrows DEF Types, BodiesTyped
<1>3. ASSUME UNCHANGED body PROVE BodiesTyped'
  BY <1>1, <1>3, GoodBodyGrows DEF Types, BodiesTyped
<1>4. ASSUME NEW d \in Devices, NEW c, storing' = [storing EXCEPT ![d] = c],
             c \in {Nothing, storing[d]} \/ c.prefix \in Seq(written)
      PROVE  StoringTyped'
  BY <1>1, <1>4 DEF Types, StoringTyped
<1>5. ASSUME UNCHANGED storing PROVE StoringTyped'
  BY <1>1, <1>5 DEF Types, StoringTyped
<1> QED BY <1>2, <1>3, <1>4, <1>5, StepTyped, BodyStep, DetachedGood

\* A change is prepared from a config that the device holds.
LEMMA PreparedTyped ==
  ASSUME Types, NEW d \in Devices, NEW next, DOMAIN next = ConfigFields,
         next.seqno = state[d].config.seqno, next.writers \in Seq(Devices), Prepare(d, next)
  PROVE  \E c : /\ intent' = [intent EXCEPT ![d] = c]
                /\ GoodConfig(c) /\ c.seqno <= MaxConfig
                /\ c.seqno = state[d].config.seqno + 1
                /\ c.writers = next.writers /\ c.owners = next.owners
<1> DEFINE c == [next EXCEPT !.seqno = @ + 1]
<1>1. intent' = [intent EXCEPT ![d] = c] /\ state[d].config.seqno < MaxConfig
  BY DEF Prepare
<1>2. /\ DOMAIN c = ConfigFields /\ c.seqno = next.seqno + 1 /\ c.writers = next.writers
      /\ c.owners = next.owners
  BY DEF ConfigFields
<1> HIDE DEF c
<1>3. state[d].config.seqno \in Nat
  BY DEF Types, StatesTyped, GoodState, GoodConfig
<1>4. c.seqno \in Nat /\ c.seqno <= MaxConfig
  BY <1>1, <1>2, <1>3, LogAssumption
<1> QED BY <1>1, <1>2, <1>4 DEF GoodConfig

LEMMA ShorterWriters ==
  ASSUME NEW q \in Seq(Devices), NEW i \in DOMAIN q
  PROVE  /\ RemoveAt(q, i) \in Seq(Devices)
         /\ Range(RemoveAt(q, i)) \subseteq Range(q)
<1>1. Len(q) \in Nat /\ DOMAIN q = 1..Len(q) /\ i \in 1..Len(q)
  OBVIOUS
<1> DEFINE l == SubSeq(q, 1, i - 1)
           r == SubSeq(q, i + 1, Len(q))
<1>2. /\ l \in Seq(Devices) /\ Len(l) = i - 1 /\ \A j \in 1..Len(l) : l[j] = q[j]
  BY <1>1
<1>3. /\ r \in Seq(Devices) /\ Len(r) = Len(q) - i /\ \A j \in 1..Len(r) : r[j] = q[i + j]
  BY <1>1
<1>4. RemoveAt(q, i) = l \o r
  BY DEF RemoveAt
<1> HIDE DEF l, r
<1>5. l \o r \in Seq(Devices)
  BY <1>2, <1>3
<1>6. Range(l \o r) = Range(l) \cup Range(r)
  BY <1>2, <1>3, RangeConcatenation
<1>7. Range(l) \subseteq Range(q) /\ Range(r) \subseteq Range(q)
  <2>1. DOMAIN l = 1..Len(l) /\ DOMAIN r = 1..Len(r)
    BY <1>2, <1>3
  <2>2. \A j \in 1..Len(l) : j \in DOMAIN q
    BY <1>1, <1>2
  <2>3. \A j \in 1..Len(r) : i + j \in DOMAIN q
    BY <1>1, <1>3
  <2> QED BY <1>2, <1>3, <2>1, <2>2, <2>3 DEF Range
<1> QED BY <1>4, <1>5, <1>6, <1>7

\* What an owner may prepare: a config that keeps the owners, and the writers but for
\* the change it makes.
LEMMA PreparedChange ==
  ASSUME Types, NEW d \in Devices,
         SetSOSequencer(d) \/ MaintainRoster(d) \/ RemoveSOParticipant(d) \/ AddSOParticipant(d)
  PROVE  \E c : /\ intent' = [intent EXCEPT ![d] = c]
                /\ GoodConfig(c) /\ c.seqno <= MaxConfig
                /\ c.seqno = state[d].config.seqno + 1
                /\ c.owners = state[d].config.owners
                /\ Writers(c) \subseteq Writers(state[d].config) \/ "add" \in scenario.changes
                /\ Writers(state[d].config) \subseteq Writers(c) \/ "remove" \in scenario.changes
                /\ scenario.changes # {}
<1> DEFINE cfg == state[d].config
           prepared(c) == /\ intent' = [intent EXCEPT ![d] = c]
                          /\ GoodConfig(c) /\ c.seqno <= MaxConfig
                          /\ c.seqno = cfg.seqno + 1
                          /\ c.owners = cfg.owners
                          /\ Writers(c) \subseteq Writers(cfg) \/ "add" \in scenario.changes
                          /\ Writers(cfg) \subseteq Writers(c) \/ "remove" \in scenario.changes
                          /\ scenario.changes # {}
<1>1. DOMAIN cfg = ConfigFields /\ cfg.writers \in Seq(Devices)
  BY DEF Types, StatesTyped, GoodState, GoodConfig
<1>2. ASSUME NEW next, DOMAIN next = ConfigFields, next.seqno = cfg.seqno,
             next.writers \in Seq(Devices), next.owners = cfg.owners, Prepare(d, next),
             Writers(next) \subseteq Writers(cfg) \/ "add" \in scenario.changes,
             Writers(cfg) \subseteq Writers(next) \/ "remove" \in scenario.changes,
             scenario.changes # {}
      PROVE  \E c : prepared(c)
  BY <1>2, PreparedTyped DEF Writers
<1> HIDE DEF prepared
<1>3. ASSUME SetSOSequencer(d) PROVE \E c : prepared(c)
  <2>1. PICK p : Prepare(d, [cfg EXCEPT !.sequencer = p, !.start = SequenceTail(state[d])])
    BY <1>3 DEF SetSOSequencer
  <2> DEFINE next == [cfg EXCEPT !.sequencer = p, !.start = SequenceTail(state[d])]
  <2>2. /\ DOMAIN next = ConfigFields /\ next.seqno = cfg.seqno /\ next.writers = cfg.writers
        /\ next.owners = cfg.owners
    BY <1>1 DEF ConfigFields
  <2>3. scenario.changes # {}
    BY <1>3 DEF SetSOSequencer
  <2> HIDE DEF next, cfg
  <2>4. Prepare(d, next)
    BY <2>1 DEF next, cfg
  <2> QED BY <1>1, <1>2, <2>2, <2>3, <2>4 DEF Writers
<1>4. ASSUME MaintainRoster(d) PROVE \E c : prepared(c)
  <2>1. PICK dropped : Prepare(d, [cfg EXCEPT !.dropped = dropped])
    BY <1>4 DEF MaintainRoster
  <2> DEFINE next == [cfg EXCEPT !.dropped = dropped]
  <2>2. /\ DOMAIN next = ConfigFields /\ next.seqno = cfg.seqno /\ next.writers = cfg.writers
        /\ next.owners = cfg.owners
    BY <1>1 DEF ConfigFields
  <2>3. scenario.changes # {}
    BY <1>4 DEF MaintainRoster
  <2> HIDE DEF next, cfg
  <2>4. Prepare(d, next)
    BY <2>1 DEF next, cfg
  <2> QED BY <1>1, <1>2, <2>2, <2>3, <2>4 DEF Writers
<1>5. ASSUME RemoveSOParticipant(d) PROVE \E c : prepared(c)
  <2>1. PICK i \in DOMAIN cfg.writers : \E w \in {cfg.writers[i]} :
          Prepare(d, [cfg EXCEPT !.writers = RemoveAt(@, i), !.dropped = @ \ {w},
                                 !.removed = [@ EXCEPT ![w] = pin(state[d], w)]])
    BY <1>5 DEF RemoveSOParticipant
  <2> DEFINE w == cfg.writers[i]
  <2> DEFINE next == [cfg EXCEPT !.writers = RemoveAt(@, i), !.dropped = @ \ {w},
                                 !.removed = [@ EXCEPT ![w] = pin(state[d], w)]]
  <2>2. /\ DOMAIN next = ConfigFields /\ next.seqno = cfg.seqno
        /\ next.writers = RemoveAt(cfg.writers, i) /\ next.owners = cfg.owners
    BY <1>1 DEF ConfigFields
  <2>3. "remove" \in scenario.changes
    BY <1>5 DEF RemoveSOParticipant
  <2>4. next.writers \in Seq(Devices) /\ Range(next.writers) \subseteq Range(cfg.writers)
    BY <1>1, <2>2, ShorterWriters
  <2> HIDE DEF next, cfg
  <2>5. Prepare(d, next)
    BY <2>1 DEF next, cfg
  <2> QED BY <1>2, <2>2, <2>3, <2>4, <2>5 DEF Writers
<1>6. ASSUME AddSOParticipant(d) PROVE \E c : prepared(c)
  <2>1. PICK w \in Devices : Prepare(d, [cfg EXCEPT !.writers = Append(@, w)])
    BY <1>6 DEF AddSOParticipant
  <2> DEFINE next == [cfg EXCEPT !.writers = Append(@, w)]
  <2>2. /\ DOMAIN next = ConfigFields /\ next.seqno = cfg.seqno
        /\ next.writers = Append(cfg.writers, w) /\ next.owners = cfg.owners
    BY <1>1 DEF ConfigFields
  <2>3. "add" \in scenario.changes
    BY <1>6 DEF AddSOParticipant
  <2>4. next.writers \in Seq(Devices) /\ Range(cfg.writers) \subseteq Range(next.writers)
    BY <1>1, <2>2, SequenceFacts
  <2> HIDE DEF next, cfg
  <2>5. Prepare(d, next)
    BY <2>1 DEF next, cfg
  <2> QED BY <1>2, <2>2, <2>3, <2>4, <2>5 DEF Writers
<1> QED BY <1>3, <1>4, <1>5, <1>6 DEF prepared

\* Otherwise an intent stays, or is dropped.
LEMMA IntentMoves ==
  ASSUME Types, [Next]_vars,
         \A d \in Devices : ~ (SetSOSequencer(d) \/ MaintainRoster(d)
                                 \/ RemoveSOParticipant(d) \/ AddSOParticipant(d))
  PROVE  UNCHANGED intent \/ \E d \in Devices : intent' = [intent EXCEPT ![d] = Nothing]
<1> DEFINE moves == UNCHANGED intent \/ \E d \in Devices : intent' = [intent EXCEPT ![d] = Nothing]
<1>1. ASSUME NEW d \in Devices, NEW ack, AddLocalOperation(d, ack) PROVE moves
  BY <1>1 DEF AddLocalOperation
<1>2. ASSUME NEW d \in Devices, SequenceOperations(d) \/ ApplyConfigChange(d) \/ Step(d)
                                 \/ AdoptCheckpoint(d) \/ Restart(d) \/ LosePower(d)
                                 \/ Flush(d) \/ Restore(d)
      PROVE  moves
  BY <1>2 DEF SequenceOperations, ApplyConfigChange, Step, AdoptCheckpoint, Restart, LosePower,
              Flush, Restore, log
<1>3. ASSUME NEW d \in Devices, NEW from \in Devices,
             ImportPeerSnapshot(d, from) \/ ImportRemoval(d, from)
      PROVE  moves
  BY <1>3 DEF ImportPeerSnapshot, ImportRemoval
<1>4. ASSUME UNCHANGED vars PROVE moves
  <2>1. UNCHANGED intent
    BY <1>4 DEF vars, log
  <2> QED BY <2>1
<1>5. moves
  <2> HIDE DEF moves
  <2> QED BY <1>1, <1>2, <1>3, <1>4 DEF Next, Write, Acknowledge
<1> QED BY <1>5

LEMMA IntentStep ==
  ASSUME Types, [Next]_vars
  PROVE  IntentTyped'
<1>1. ASSUME NEW d \in Devices, NEW c, intent' = [intent EXCEPT ![d] = c],
             c = Nothing \/ (GoodConfig(c) /\ c.seqno <= MaxConfig)
      PROVE  IntentTyped'
  BY <1>1 DEF Types, IntentTyped
<1>2. CASE UNCHANGED intent
  BY <1>2 DEF Types, IntentTyped
<1> QED BY <1>1, <1>2, PreparedChange, IntentMoves

LEMMA TypesStep == Types /\ [Next]_vars => Types'
  BY WrittenStep, EnvironmentStep, StateTypesStep, DurableTypesStep, BodiesStep, IntentStep
     DEF Types

\* Every reachable state is typed.
LEMMA TypesInvariant == Spec => []Types
  BY TypesInit, TypesStep, PTL DEF Spec

LEMMA TypesSuffice == Types => TypeOK
<1> SUFFICES ASSUME Types PROVE TypeOK
  OBVIOUS
<1>1. ASSUME NEW d \in Devices
      PROVE  LET s == state[d] IN
             /\ s.ops \subseteq {op \in written : ~ Covers(s.checkpoint, position(op))}
             /\ \A r \in s.sequence : /\ r.height > s.checkpoint.sequence.height
                                      /\ r.op \in {position(op) : op \in written}
             /\ \A a \in Devices : s.checkpoint.authors[a] \in
                  {NoOperation(a)} \cup {position(op) : op \in {w \in written : w.author = a}}
             /\ fits(s)
             /\ intent[d] = Nothing \/ intent[d].seqno <= MaxConfig
  BY DEF Types, StatesTyped, GoodState, Above, base, GoodCheckpoint, headsOf, IntentTyped
<1>2. ASSUME NEW d \in Devices
      PROVE  /\ \A i \in DOMAIN body[d].positions : body[d].positions[i].op \in written
             /\ storing[d] = Nothing \/ Range(storing[d].prefix) \subseteq written
             /\ durable[d].ops \subseteq written
  <2>1. body[d].positions \in Seq(Applied(written))
    BY DEF Types, BodiesTyped, GoodBody
  <2>2. \A i \in DOMAIN body[d].positions : body[d].positions[i] \in Applied(written)
    BY <2>1
  <2>3. storing[d] = Nothing \/ Range(storing[d].prefix) \subseteq written
    BY DEF Types, StoringTyped, Range
  <2>4. durable[d].ops \subseteq written
    BY DEF Types, StatesTyped, GoodState, Above
  <2> QED BY <2>2, <2>3, <2>4 DEF Applied
<1>3. \A op \in written : op.parents \cup {op.prev} \subseteq Position
  BY DEF Types, GoodOperations
<1> QED BY <1>1, <1>2, <1>3 DEF TypeOK, Types, EnvironmentTyped

\* What devices hold, replay, store and prepare is what was signed and is above
\* their checkpoints, whatever they import, order, restart or lose.
THEOREM LogTypeCorrect == Spec => []TypeOK
  BY TypesInvariant, TypesSuffice, PTL

-----------------------------------------------------------------------------
(* Numbers. What authors signed, wherever it is held, they still reach.    *)

\* s has an operation of a numbered n or higher, or a checkpoint over one.
reaches(s, a, n) ==
  \/ n <= s.checkpoint.authors[a].nonce
  \/ \E op \in s.ops : op.author = a /\ n <= op.nonce

\* t reaches as far as s does.
within(s, t, a) == \A n \in Nat : reaches(s, a, n) => reaches(t, a, n)

\* The positions that s names.
named(s) == {position(op) : op \in s.ops} \cup {s.checkpoint.authors[a] : a \in Devices}

LEMMA NamedReached ==
  ASSUME NEW W, GoodOperations(W), NEW s, GoodState(s, W), NEW p \in named(s)
  PROVE  /\ p.author \in Devices /\ p.nonce \in Nat
         /\ p \in headsOf(p.author, W) /\ reaches(s, p.author, p.nonce)
<1>1. CASE \E op \in s.ops : p = position(op)
  <2>1. PICK op \in s.ops : p = position(op)
    BY <1>1
  <2>2. op \in W /\ p.author = op.author /\ p.nonce = op.nonce
    BY <2>1 DEF position, GoodState, Above
  <2>3. op.author \in Devices /\ op.nonce \in Nat
    BY <2>2 DEF GoodOperations
  <2> QED BY <2>1, <2>2, <2>3 DEF headsOf, reaches
<1>2. CASE \E a \in Devices : p = s.checkpoint.authors[a]
  <2>1. PICK a \in Devices : p = s.checkpoint.authors[a]
    BY <1>2
  <2>2. p \in headsOf(a, W)
    BY <2>1 DEF GoodState, GoodCheckpoint
  <2>3. p.author = a /\ p.nonce \in Nat
    BY <2>2 DEF headsOf, NoOperation, position, GoodOperations
  <2> QED BY <2>1, <2>2, <2>3 DEF reaches
<1> QED BY <1>1, <1>2 DEF named

\* Only nothing has the number 0.
LEMMA HeadsNumbered ==
  ASSUME NEW W, GoodOperations(W), NEW a \in Devices, NEW p \in headsOf(a, W), NEW q \in headsOf(a, W),
         p.nonce = 0, q.nonce = 0
  PROVE  p = q
  BY DEF headsOf, GoodOperations, NoOperation, position

LEMMA NumbersAreNatural ==
  ASSUME NEW W, GoodOperations(W), NEW s, GoodState(s, W)
  PROVE  /\ \A a \in Devices : s.checkpoint.authors[a].nonce \in Nat
         /\ \A op \in s.ops : op.author \in Devices /\ op.nonce \in Nat \ {0} /\ op \in W
         /\ s.checkpoint.height \in Nat
<1>1. \A a \in Devices : \A h \in headsOf(a, W) : h.nonce \in Nat
  BY DEF headsOf, GoodOperations, NoOperation, position
<1> QED BY <1>1 DEF GoodState, GoodCheckpoint, GoodOperations, Above

\* A state that keeps what another holds, under a checkpoint that covers no less, reaches
\* as far.
LEMMA KeptReaches ==
  ASSUME NEW W, GoodOperations(W), NEW s, GoodState(s, W), NEW t, GoodState(t, W),
         Keeps(s, t), NEW a \in Devices,
         s.checkpoint.authors[a].nonce <= t.checkpoint.authors[a].nonce
  PROVE  within(s, t, a)
<1> SUFFICES ASSUME NEW n \in Nat, reaches(s, a, n)
             PROVE  reaches(t, a, n)
  BY DEF within
<1>1. s.checkpoint.authors[a].nonce \in Nat /\ t.checkpoint.authors[a].nonce \in Nat
  BY NumbersAreNatural
<1>2. CASE n <= s.checkpoint.authors[a].nonce
  BY <1>1, <1>2 DEF reaches
<1>3. ASSUME NEW op \in s.ops, op.author = a, n <= op.nonce
      PROVE  reaches(t, a, n)
  <2>1. op.nonce \in Nat
    BY NumbersAreNatural
  <2>2. op \in t.ops \/ op.nonce <= t.checkpoint.authors[a].nonce
    BY <1>3 DEF Keeps, Covers, position
  <2> QED BY <1>1, <1>3, <2>1, <2>2 DEF reaches
<1> QED BY <1>2, <1>3 DEF reaches

\* The next number of an author is above all that its state reaches.
LEMMA NextNumber ==
  ASSUME NEW W, GoodOperations(W), NEW s, GoodState(s, W), NEW d \in Devices,
         NEW prev \in AuthorHeads(s, d)
  PROVE  prev.nonce \in Nat /\ ~ reaches(s, d, prev.nonce + 1)
<1> DEFINE own == {op \in s.ops : op.author = d}
<1>1. /\ s.checkpoint.authors[d].nonce \in Nat
      /\ \A op \in own : op.nonce \in Nat /\ ~ (op.nonce <= s.checkpoint.authors[d].nonce)
  <2>1. \A op \in own : ~ (op.nonce <= s.checkpoint.authors[d].nonce)
    BY DEF GoodState, Above, Covers, position
  <2> QED BY <2>1, NumbersAreNatural
<1>2. CASE own = {}
  <2>1. prev = s.checkpoint.authors[d]
    BY <1>2 DEF AuthorHeads
  <2> QED BY <1>1, <1>2, <2>1 DEF reaches
<1>3. CASE own # {}
  <2>1. PICK op \in own : (\A other \in own : other.nonce <= op.nonce) /\ prev = position(op)
    BY <1>3 DEF AuthorHeads
  <2>2. prev.nonce = op.nonce
    BY <2>1 DEF position
  <2> QED BY <1>1, <2>1, <2>2 DEF reaches
<1> QED BY <1>2, <1>3

-----------------------------------------------------------------------------
(* How a step moves what one device d holds and has on its disk.           *)

\* Positions, a config and the like leave operations and checkpoint alone.
stays(d) ==
  /\ state'[d].ops = state[d].ops /\ state'[d].checkpoint = state[d].checkpoint
  /\ durable'[d] = durable[d] /\ written' = written

\* d writes an operation that follows its own.
adds(d) ==
  \E prev, op :
    /\ prev \in AuthorHeads(state[d], d) /\ prev \in headsOf(d, written)
    /\ d \in Writers(state[d].config)
    /\ op.author = d /\ op.nonce = prev.nonce + 1 /\ op.prev = prev
    /\ written' = written \cup {op} /\ \A w \in written : w.hash # op.hash
    /\ state'[d].checkpoint = state[d].checkpoint /\ state'[d].config = state[d].config
    /\ state[d].ops \subseteq state'[d].ops /\ state'[d].ops \subseteq state[d].ops \cup {op}
    /\ op \in state'[d].ops \/ Covers(state'[d].checkpoint, position(op))
    /\ durable'[d] = durable[d]

\* d imports what a peer sent.
merges(d) ==
  \E from \in Devices :
    /\ state'[d].ops \subseteq state[d].ops \cup shown(from).ops
    /\ state'[d].checkpoint = IF shown(from).checkpoint.height <= state[d].checkpoint.height
                              THEN state[d].checkpoint ELSE shown(from).checkpoint
    /\ state'[d].config = shown(from).config
    /\ shown(from).config.seqno >= state[d].config.seqno
    /\ Keeps(state[d], state'[d]) /\ Keeps(shown(from), state'[d])
    /\ durable'[d] = durable[d] /\ written' = written

\* d learns that it was removed.
leaves(d) ==
  /\ state'[d].ops = {} /\ state'[d].checkpoint = state[d].checkpoint
  /\ \E from \in Devices : /\ shown(from).config.seqno > state[d].config.seqno
                           /\ d \notin Writers(shown(from).config)
                           /\ state'[d].config = shown(from).config
  /\ durable'[d] = durable[d] /\ written' = written

\* d, an owner, signs the checkpoint after the one it holds.
signs(d) ==
  /\ isOwnerPeer(state[d].config, d)
  /\ state'[d] = adoptCheckpoint(state[d], stableCheckpoint(state[d], storing[d]))
  /\ storing[d] # Nothing
  /\ current(state[d], StablePoint(state[d], Order(state[d])), storing[d])
  /\ state'[d].checkpoint.height = state[d].checkpoint.height + 1
  /\ \A a \in Devices :
       /\ state[d].checkpoint.authors[a].nonce <= state'[d].checkpoint.authors[a].nonce
       /\ state'[d].checkpoint.authors[a] \in named(state[d])
  /\ state'[d].ops \subseteq state[d].ops /\ Keeps(state[d], state'[d])
  /\ durable'[d] = durable[d] /\ written' = written

startsOver(d) ==
  /\ d \in restored' /\ written' = written
  /\ state'[d] = GenesisState(scenario.config) /\ durable'[d] = state'[d]
  /\ storing'[d] = Nothing

losesPower(d) ==
  /\ d \in scenario.losing /\ written' = written
  /\ state'[d] = durable[d] /\ durable'[d] = durable[d]
  /\ storing'[d] = Nothing

flushes(d) ==
  /\ d \in scenario.losing /\ written' = written
  /\ state'[d] = state[d] /\ durable'[d] = state[d]

alone(d) ==
  \A e \in Devices \ {d} : state'[e] = state[e] /\ durable'[e] = durable[e]

heldMoves(d) ==
  /\ alone(d)
  /\ \/ stays(d) \/ adds(d) \/ merges(d) \/ leaves(d) \/ signs(d)
     \/ startsOver(d) \/ losesPower(d) \/ flushes(d)

LEMMA AddedHeld ==
  ASSUME NEW s, NEW op, DOMAIN s = Fields
  PROVE  /\ AddOperation(s, op).checkpoint = s.checkpoint
         /\ s.ops \subseteq AddOperation(s, op).ops
         /\ AddOperation(s, op).ops \subseteq s.ops \cup {op}
         /\ AddOperation(s, op).config = s.config
         /\ op \in AddOperation(s, op).ops \/ Covers(s.checkpoint, position(op))
<1>1. CASE Covers(s.checkpoint, position(op))
  BY <1>1 DEF AddOperation
<1>2. CASE ~ Covers(s.checkpoint, position(op))
  <2> DEFINE t == AddOperation(s, op)
  <2>1. t.checkpoint = s.checkpoint /\ t.ops = s.ops \cup {op} /\ t.config = s.config
    BY <1>2 DEF AddOperation, Fields
  <2> HIDE DEF t
  <2>2. s.ops \subseteq t.ops /\ t.ops \subseteq s.ops \cup {op}
    BY <2>1
  <2> QED BY <2>1, <2>2 DEF t
<1> QED BY <1>1, <1>2

\* What a merge is made of.
LEMMA MergedHeld ==
  ASSUME NEW s, NEW c, DOMAIN s = Fields
  PROVE  /\ mergeSnapshot(s, c).ops \subseteq s.ops \cup c.ops
         /\ mergeSnapshot(s, c).checkpoint =
              IF c.checkpoint.height <= s.checkpoint.height THEN s.checkpoint ELSE c.checkpoint
         /\ mergeSnapshot(s, c).config = c.config
<1> DEFINE r == [s EXCEPT !.config = c.config]
           a == adoptCheckpoint(r, c.checkpoint)
           t == mergeSnapshot(s, c)
           ops == {op \in c.ops : ~ Covers(a.checkpoint, position(op))}
           sequence == {x \in c.sequence : accounted(a, x)}
<1>1. DOMAIN r = Fields /\ r.ops = s.ops /\ r.checkpoint = s.checkpoint /\ r.config = c.config
  BY DEF Fields
<1> HIDE DEF r
<1>2. /\ DOMAIN a = Fields /\ a.ops \subseteq s.ops /\ a.config = c.config
      /\ a.checkpoint = IF c.checkpoint.height <= s.checkpoint.height
                        THEN s.checkpoint ELSE c.checkpoint
  BY <1>1 DEF adoptCheckpoint, Fields
<1>3. t = [a EXCEPT !.ops = @ \cup ops, !.sequence = @ \cup sequence]
  BY DEF mergeSnapshot, r
<1>4. ops \subseteq c.ops
  OBVIOUS
<1> HIDE DEF a, ops, sequence, t
<1>5. t.ops = a.ops \cup ops /\ t.checkpoint = a.checkpoint /\ t.config = a.config
  BY <1>2, <1>3 DEF Fields
<1> QED BY <1>2, <1>4, <1>5 DEF t

\* A checkpoint over operations that are held covers as much as the one before, and names
\* what was held.
LEMMA SignedHeld ==
  ASSUME NEW W, GoodOperations(W), NEW s, GoodState(s, W), NEW c,
         Range(c.prefix) \subseteq s.ops, c.prefix \in Seq(W), c.height = s.checkpoint.height
  PROVE  LET t == adoptCheckpoint(s, stableCheckpoint(s, c))
         IN /\ t.checkpoint.height = s.checkpoint.height + 1
            /\ t.ops \subseteq s.ops /\ Keeps(s, t)
            /\ \A a \in Devices :
                 /\ s.checkpoint.authors[a].nonce <= t.checkpoint.authors[a].nonce
                 /\ t.checkpoint.authors[a] \in named(s)
<1> DEFINE k == stableCheckpoint(s, c)
           t == adoptCheckpoint(s, k)
<1>1. s.checkpoint.height \in Nat
  BY NumbersAreNatural
<1>2. k.height = s.checkpoint.height + 1 /\ k.authors = cover(s, c.prefix)
  BY DEF stableCheckpoint
<1> HIDE DEF k
<1>3. ~ (k.height <= s.checkpoint.height)
  BY <1>1, <1>2
<1>4. t.checkpoint = k /\ t.ops = {op \in s.ops : ~ Covers(k, position(op))}
  BY <1>3 DEF adoptCheckpoint, GoodState, Fields
<1> HIDE DEF t
<1>5. ASSUME NEW a \in Devices
      PROVE  /\ s.checkpoint.authors[a].nonce <= k.authors[a].nonce
             /\ k.authors[a] \in named(s)
  <2>0. s.checkpoint.authors[a].nonce \in Nat
    BY NumbersAreNatural
  <2>1. CASE cover(s, c.prefix)[a] = s.checkpoint.authors[a]
    BY <1>2, <2>0, <2>1 DEF named
  <2>2. ASSUME NEW op \in Range(c.prefix), op.author = a, cover(s, c.prefix)[a] = position(op)
        PROVE  /\ s.checkpoint.authors[a].nonce <= k.authors[a].nonce
               /\ k.authors[a] \in named(s)
    <3>1. op \in s.ops /\ op.nonce \in Nat
      BY <2>2, NumbersAreNatural
    <3>2. ~ (op.nonce <= s.checkpoint.authors[a].nonce)
      BY <2>2, <3>1 DEF GoodState, Above, Covers, position
    <3>3. k.authors[a] = position(op) /\ k.authors[a].nonce = op.nonce
      BY <1>2, <2>2 DEF position
    <3> QED BY <2>0, <3>1, <3>2, <3>3 DEF named
  <2>3. \A op \in W : op.nonce \in Nat
    BY DEF GoodOperations
  <2> QED BY <2>1, <2>2, <2>3, CoverHead
<1>6. t.checkpoint.height = s.checkpoint.height + 1 /\ t.ops \subseteq s.ops /\ Keeps(s, t)
  BY <1>2, <1>4 DEF Keeps
<1> QED BY <1>4, <1>5, <1>6 DEF t, k

LEMMA PrefixHeld ==
  ASSUME NEW S, NEW V, NEW q \in Seq(S), NEW p \in Seq(V), IsPrefix(p, q)
  PROVE  Range(p) \subseteq S /\ Begins(p, q)
<1>1. /\ Len(p) \in Nat /\ Len(q) \in Nat /\ Len(p) <= Len(q)
      /\ \A i \in 1..Len(q) : q[i] \in S
      /\ DOMAIN p = 1..Len(p)
  BY DEF IsPrefix
<1>2. SubSeq(p, 1, Len(p)) = SubSeq(q, 1, Len(p))
  BY DEF IsPrefix
<1>3. ASSUME NEW i \in 1..Len(p) PROVE p[i] = q[i]
  <2>1. SubSeq(p, 1, Len(p))[i] = p[i] /\ SubSeq(q, 1, Len(p))[i] = q[i]
    BY <1>1
  <2> QED BY <1>2, <2>1
<1>4. \A i \in 1..Len(p) : p[i] \in S
  BY <1>1, <1>3
<1> QED BY <1>1, <1>3, <1>4 DEF Range, Begins

\* Whatever a device sends is typed.
LEMMA ShownGood ==
  ASSUME Types, NEW d \in Devices
  PROVE  GoodState(shown(d), written) /\ fits(shown(d))
  BY DEF Types, StatesTyped, shown

LEMMA HeldStep ==
  ASSUME Types, [Next]_vars
  PROVE  \/ UNCHANGED <<state, durable, written>>
         \/ \E d \in Devices : heldMoves(d)
<1> DEFINE moves == UNCHANGED <<state, durable, written>> \/ \E d \in Devices : heldMoves(d)
<1>0. /\ DOMAIN state = Devices /\ DOMAIN durable = Devices
      /\ \A d \in Devices : /\ GoodState(state[d], written) /\ DOMAIN state[d] = Fields
                            /\ Above(state[d], written)
  BY DEF Types, StatesTyped, GoodState
<1>1. ASSUME NEW d \in Devices, NEW t, state' = [state EXCEPT ![d] = t], durable' = durable
      PROVE  alone(d) /\ state'[d] = t /\ durable'[d] = durable[d]
  BY <1>0, <1>1 DEF alone
<1>2. ASSUME NEW d \in Devices, NEW t, state' = [state EXCEPT ![d] = t], durable' = durable,
             written' = written, t.ops = state[d].ops, t.checkpoint = state[d].checkpoint
      PROVE  moves
  <2>1. stays(d)
    BY <1>1, <1>2 DEF stays
  <2> QED BY <1>1, <1>2, <2>1 DEF heldMoves
<1>3. ASSUME NEW d \in Devices, NEW ack, AddLocalOperation(d, ack) PROVE moves
  <2>1. PICK prev, op :
           /\ prev \in AuthorHeads(state[d], d)
           /\ written' = written \cup {op} /\ GoodOperations(written')
           /\ op.author = d /\ op.nonce = prev.nonce + 1 /\ op.prev = prev
           /\ prev \in headsOf(d, written) /\ \A w \in written : w.hash # op.hash
           /\ state' = [state EXCEPT ![d] = wrote(state[d], d, op)]
           /\ fits(state'[d])
           /\ UNCHANGED <<body, storing, intent, environment>>
    BY <1>3, OperationAdded DEF Types
  <2>2. d \in Writers(state[d].config) /\ durable' = durable
    BY <1>3 DEF AddLocalOperation, environment
  <2> DEFINE s == AddOperation(state[d], op)
             t == wrote(state[d], d, op)
  <2>3. /\ s.checkpoint = state[d].checkpoint
        /\ state[d].ops \subseteq s.ops /\ s.ops \subseteq state[d].ops \cup {op}
        /\ s.config = state[d].config
        /\ op \in s.ops \/ Covers(state[d].checkpoint, position(op))
    BY <1>0, AddedHeld
  <2>4. GoodState(s, written')
    <3>1. written \subseteq written' /\ op \in written'
      BY <2>1
    <3> QED BY <1>0, <3>1, AddedGood, GoodStateGrows
  <2>5. t.ops = s.ops /\ t.checkpoint = s.checkpoint /\ t.config = s.config
    BY <2>1, <2>4, SequencedGood DEF wrote
  <2> HIDE DEF s, t
  <2>6. alone(d) /\ state'[d] = t /\ durable'[d] = durable[d]
    BY <1>1, <2>1, <2>2 DEF t
  <2>7. adds(d)
    BY <2>1, <2>2, <2>3, <2>5, <2>6 DEF adds
  <2> QED BY <2>6, <2>7 DEF heldMoves
<1>4. ASSUME NEW d \in Devices, SequenceOperations(d) PROVE moves
  <2>1. /\ state' = [state EXCEPT ![d] = sequenceOperations(state[d], d)]
        /\ durable' = durable /\ written' = written
    BY <1>4 DEF SequenceOperations, environment
  <2>2. /\ sequenceOperations(state[d], d).ops = state[d].ops
        /\ sequenceOperations(state[d], d).checkpoint = state[d].checkpoint
    BY <1>0, SequencedGood DEF Types
  <2> QED BY <1>2, <2>1, <2>2
<1>5. ASSUME NEW d \in Devices, NEW from \in Devices, ImportPeerSnapshot(d, from) PROVE moves
  <2> DEFINE t == mergeSnapshot(state[d], shown(from))
  <2>1. state' = [state EXCEPT ![d] = t] /\ durable' = durable /\ written' = written
    BY <1>5 DEF ImportPeerSnapshot, environment
  <2>2. /\ t.ops \subseteq state[d].ops \cup shown(from).ops
        /\ t.checkpoint = IF shown(from).checkpoint.height <= state[d].checkpoint.height
                          THEN state[d].checkpoint ELSE shown(from).checkpoint
        /\ t.config = shown(from).config
    BY <1>0, MergedHeld
  <2>3. Keeps(state[d], t) /\ Keeps(shown(from), t)
    <3>1. shown(from).ops \subseteq written
      BY ShownGood DEF GoodState, Above
    <3> QED BY <1>0, <3>1, MergedFollows DEF Follows
  <2>4. shown(from).config.seqno >= state[d].config.seqno
    BY <1>5 DEF ImportPeerSnapshot
  <2> HIDE DEF t
  <2>5. alone(d) /\ state'[d] = t /\ durable'[d] = durable[d]
    BY <1>1, <2>1
  <2>6. merges(d)
    BY <2>1, <2>2, <2>3, <2>4, <2>5 DEF merges
  <2> QED BY <2>5, <2>6 DEF heldMoves
<1>6. ASSUME NEW d \in Devices, NEW from \in Devices, ImportRemoval(d, from) PROVE moves
  <2> DEFINE t == [[state[d] EXCEPT !.config = shown(from).config] EXCEPT !.ops = {}]
  <2>1. state' = [state EXCEPT ![d] = t] /\ durable' = durable /\ written' = written
    BY <1>6 DEF ImportRemoval, environment
  <2>2. t.ops = {} /\ t.checkpoint = state[d].checkpoint /\ t.config = shown(from).config
    BY <1>0 DEF Fields
  <2>3. shown(from).config.seqno > state[d].config.seqno /\ d \notin Writers(shown(from).config)
    BY <1>6 DEF ImportRemoval
  <2> HIDE DEF t
  <2>4. alone(d) /\ state'[d] = t /\ durable'[d] = durable[d]
    BY <1>1, <2>1
  <2>5. leaves(d)
    BY <2>1, <2>2, <2>3, <2>4 DEF leaves
  <2> QED BY <2>4, <2>5 DEF heldMoves
<1>7. ASSUME NEW d \in Devices, ApplyConfigChange(d) PROVE moves
  <2>1. durable' = durable /\ written' = written
    BY <1>7 DEF ApplyConfigChange, environment
  <2>2. CASE state' = state
    BY <2>1, <2>2
  <2>3. CASE state' = [state EXCEPT ![d].config = intent[d]]
    <3> DEFINE t == [state[d] EXCEPT !.config = intent[d]]
    <3>1. state' = [state EXCEPT ![d] = t]
      BY <2>3
    <3>2. t.ops = state[d].ops /\ t.checkpoint = state[d].checkpoint
      BY <1>0 DEF Fields
    <3> HIDE DEF t
    <3> QED BY <1>2, <2>1, <3>1, <3>2
  <2> QED BY <1>7, <2>2, <2>3 DEF ApplyConfigChange
<1>8. ASSUME NEW d \in Devices, AdoptCheckpoint(d) PROVE moves
  <2>1. durable' = durable /\ written' = written
    BY <1>8 DEF AdoptCheckpoint, environment
  <2>2. CASE UNCHANGED state
    BY <2>1, <2>2
  <2>3. CASE ~ UNCHANGED state
    <3> DEFINE t == adoptCheckpoint(state[d], stableCheckpoint(state[d], storing[d]))
    <3>1. PICK order \in {Order(state[d])} : \E stable \in {StablePoint(state[d], order)} :
            IF current(state[d], stable, storing[d]) /\ isOwnerPeer(state[d].config, d)
            THEN state' = [state EXCEPT ![d] = t]
            ELSE UNCHANGED state
      BY <1>8 DEF AdoptCheckpoint
    <3>2. /\ state' = [state EXCEPT ![d] = t] /\ isOwnerPeer(state[d].config, d)
          /\ current(state[d], StablePoint(state[d], Order(state[d])), storing[d])
          /\ storing[d].height = state[d].checkpoint.height
          /\ IsPrefix(storing[d].prefix, StablePoint(state[d], Order(state[d])))
      BY <2>3, <3>1 DEF current
    <3>3. storing[d].prefix \in Seq(written) /\ storing[d] # Nothing
      BY <1>8 DEF Types, StoringTyped, AdoptCheckpoint
    <3>4. StablePoint(state[d], Order(state[d])) \in Seq(state[d].ops)
      BY <1>0, GoodIsPlaceable, StableType DEF Types
    <3>5. Range(storing[d].prefix) \subseteq state[d].ops
      BY <3>2, <3>3, <3>4, PrefixHeld
    <3>6. /\ t.checkpoint.height = state[d].checkpoint.height + 1
          /\ t.ops \subseteq state[d].ops /\ Keeps(state[d], t)
          /\ \A a \in Devices :
               /\ state[d].checkpoint.authors[a].nonce <= t.checkpoint.authors[a].nonce
               /\ t.checkpoint.authors[a] \in named(state[d])
      BY <1>0, <3>2, <3>3, <3>5, SignedHeld DEF Types
    <3>7. alone(d) /\ state'[d] = t /\ durable'[d] = durable[d]
      <4> HIDE DEF t
      <4> QED BY <1>1, <2>1, <3>2
    <3>8. state'[d] = adoptCheckpoint(state[d], stableCheckpoint(state[d], storing[d]))
      BY <3>7
    <3> HIDE DEF t
    <3>9. signs(d)
      BY <2>1, <3>2, <3>3, <3>6, <3>7, <3>8 DEF signs
    <3> QED BY <3>7, <3>9 DEF heldMoves
  <2> QED BY <2>2, <2>3
<1>9. ASSUME NEW d \in Devices, Restore(d) PROVE moves
  <2>1. /\ state' = [state EXCEPT ![d] = GenesisState(scenario.config)]
        /\ durable' = [durable EXCEPT ![d] = state'[d]] /\ written' = written /\ d \in restored'
        /\ storing'[d] = Nothing
    BY <1>9 DEF Restore, Types, StoringTyped
  <2>2. alone(d) /\ state'[d] = GenesisState(scenario.config) /\ durable'[d] = state'[d]
    BY <1>0, <2>1 DEF alone
  <2> QED BY <2>1, <2>2 DEF heldMoves, startsOver
<1>10. ASSUME NEW d \in Devices, LosePower(d) PROVE moves
  <2>1. /\ state' = [state EXCEPT ![d] = durable[d]] /\ durable' = durable /\ written' = written
        /\ d \in scenario.losing /\ storing'[d] = Nothing
    BY <1>10 DEF LosePower, Types, StoringTyped
  <2>2. alone(d) /\ state'[d] = durable[d] /\ durable'[d] = durable[d]
    BY <1>1, <2>1
  <2> QED BY <2>1, <2>2 DEF heldMoves, losesPower
<1>11. ASSUME NEW d \in Devices, Flush(d) PROVE moves
  <2>1. /\ durable' = [durable EXCEPT ![d] = state[d]] /\ state' = state /\ written' = written
        /\ d \in scenario.losing
    BY <1>11 DEF Flush, log
  <2>2. alone(d) /\ state'[d] = state[d] /\ durable'[d] = state[d]
    BY <1>0, <2>1 DEF alone
  <2> QED BY <2>1, <2>2 DEF heldMoves, flushes
<1>12. ASSUME NEW d \in Devices, SetSOSequencer(d) \/ MaintainRoster(d)
                                  \/ RemoveSOParticipant(d) \/ AddSOParticipant(d)
                                  \/ Step(d) \/ Restart(d)
       PROVE  UNCHANGED <<state, durable, written>>
  BY <1>12 DEF SetSOSequencer, MaintainRoster, RemoveSOParticipant, AddSOParticipant, Prepare,
               Step, Restart, environment
<1>13. ASSUME UNCHANGED vars PROVE UNCHANGED <<state, durable, written>>
  BY <1>13 DEF vars, log, environment
<1>14. moves
  <2> HIDE DEF moves
  <2>1. ASSUME UNCHANGED <<state, durable, written>> PROVE moves
    BY <2>1 DEF moves
  <2> QED BY <2>1, <1>3, <1>4, <1>5, <1>6, <1>7, <1>8, <1>9, <1>10, <1>11, <1>12, <1>13
           DEF Next, Write, Acknowledge
<1> QED BY <1>14

-----------------------------------------------------------------------------
(* Configs: one line, along which writers change as the scenario says.     *)

\* From c to n, writers change by these kinds of changes only.
narrows(kinds, c, n) ==
  /\ "add" \in kinds \/ Writers(n) \subseteq Writers(c)
  /\ "remove" \in kinds \/ Writers(c) \subseteq Writers(n)

heldConfigs == {scenario.config} \cup {state[d].config : d \in Devices}

\* The configs that devices hold are one line, and an intent is its next one at most.
ConfigsInLine ==
  /\ \A c, n \in heldConfigs : c.seqno <= n.seqno => narrows(scenario.changes, c, n)
  /\ \A c \in heldConfigs : c.owners = scenario.config.owners
  /\ \A d \in Devices : intent[d] # Nothing =>
       /\ intent[d].owners = scenario.config.owners
       /\ intent[d].seqno <= state[d].config.seqno + 1
       /\ intent[d].seqno = state[d].config.seqno + 1 =>
            narrows(scenario.changes, state[d].config, intent[d])
  /\ \A d \in Devices : durable[d].config = scenario.config
  /\ scenario.changes = {} =>
       \A d \in Devices : state[d].config = scenario.config /\ intent[d] = Nothing

\* How a step moves the config of d.
importsConfig(d) ==
  /\ \E from \in Devices : /\ shown(from).config.seqno >= state[d].config.seqno
                           /\ state'[d].config = shown(from).config
  /\ intent' = intent
appliesConfig(d) ==
  /\ intent[d] # Nothing /\ intent' = [intent EXCEPT ![d] = Nothing]
  /\ intent[d].seqno = state[d].config.seqno + 1
  /\ \A e \in Devices : state[e].config.seqno <= state[d].config.seqno
  /\ state'[d].config = intent[d]
forgetsConfig(d) ==
  /\ d \in restored' /\ state'[d].config = scenario.config
  /\ state'[d] = GenesisState(scenario.config)
  /\ body'[d] = Detached /\ storing'[d] = Nothing
  /\ intent' = [intent EXCEPT ![d] = Nothing]
losesConfig(d) ==
  /\ d \in scenario.losing /\ state'[d].config = durable[d].config
  /\ intent' = intent
preparesConfig(d) ==
  \E c : /\ intent' = [intent EXCEPT ![d] = c]
         /\ c.seqno = state[d].config.seqno + 1
         /\ c.owners = state[d].config.owners
         /\ narrows(scenario.changes, state[d].config, c)
         /\ scenario.changes # {}

configMoves(d) ==
  /\ \A e \in Devices \ {d} : state'[e].config = state[e].config
  /\ importsConfig(d) \/ appliesConfig(d) \/ forgetsConfig(d) \/ losesConfig(d)
sameConfigs ==
  /\ \A e \in Devices : state'[e].config = state[e].config
  /\ \/ intent' = intent
     \/ \E d \in Devices : intent' = [intent EXCEPT ![d] = Nothing]
     \/ \E d \in Devices : preparesConfig(d)

LEMMA ConfigStep ==
  ASSUME Types, [Next]_vars
  PROVE  sameConfigs \/ \E d \in Devices : configMoves(d)
<1> DEFINE moves == sameConfigs \/ \E d \in Devices : configMoves(d)
<1>0. /\ DOMAIN state = Devices
      /\ \A d \in Devices : GoodState(state[d], written) /\ DOMAIN state[d] = Fields
  BY DEF Types, StatesTyped, GoodState
<1>1. ASSUME NEW d \in Devices, NEW t, state' = [state EXCEPT ![d] = t], t.config = state[d].config,
             intent' = intent
      PROVE  moves
  <2>1. \A e \in Devices : state'[e].config = state[e].config
    BY <1>0, <1>1
  <2> QED BY <1>1, <2>1 DEF sameConfigs
<1>2. ASSUME NEW d \in Devices, NEW t, state' = [state EXCEPT ![d] = t]
      PROVE  (\A e \in Devices \ {d} : state'[e].config = state[e].config) /\ state'[d] = t
  BY <1>0, <1>2
<1>3. ASSUME NEW d \in Devices, NEW ack, AddLocalOperation(d, ack) PROVE moves
  <2>1. PICK prev, op :
           /\ prev \in AuthorHeads(state[d], d)
           /\ written' = written \cup {op} /\ GoodOperations(written')
           /\ op.author = d /\ op.nonce = prev.nonce + 1 /\ op.prev = prev
           /\ prev \in headsOf(d, written)
           /\ state' = [state EXCEPT ![d] = wrote(state[d], d, op)]
           /\ fits(state'[d])
           /\ UNCHANGED <<body, storing, intent, environment>>
    BY <1>3, OperationAdded DEF Types
  <2> DEFINE s == AddOperation(state[d], op)
  <2>2. s.config = state[d].config
    BY <1>0, AddedHeld
  <2>3. GoodState(s, written')
    <3>1. written \subseteq written' /\ op \in written'
      BY <2>1
    <3> QED BY <1>0, <3>1, AddedGood, GoodStateGrows
  <2>4. wrote(state[d], d, op).config = state[d].config
    BY <2>1, <2>2, <2>3, SequencedGood DEF wrote
  <2> QED BY <1>1, <2>1, <2>4
<1>4. ASSUME NEW d \in Devices, SequenceOperations(d) PROVE moves
  <2>1. state' = [state EXCEPT ![d] = sequenceOperations(state[d], d)] /\ intent' = intent
    BY <1>4 DEF SequenceOperations
  <2>2. sequenceOperations(state[d], d).config = state[d].config
    BY <1>0, SequencedGood DEF Types
  <2> QED BY <1>1, <2>1, <2>2
<1>5. ASSUME NEW d \in Devices, NEW from \in Devices, ImportPeerSnapshot(d, from) PROVE moves
  <2>1. /\ state' = [state EXCEPT ![d] = mergeSnapshot(state[d], shown(from))] /\ intent' = intent
        /\ shown(from).config.seqno >= state[d].config.seqno
    BY <1>5 DEF ImportPeerSnapshot
  <2>2. mergeSnapshot(state[d], shown(from)).config = shown(from).config
    BY <1>0, ShownGood, MergedGood
  <2>3. importsConfig(d)
    BY <1>2, <2>1, <2>2 DEF importsConfig
  <2> QED BY <1>2, <2>1, <2>3 DEF configMoves
<1>6. ASSUME NEW d \in Devices, NEW from \in Devices, ImportRemoval(d, from) PROVE moves
  <2> DEFINE t == [[state[d] EXCEPT !.config = shown(from).config] EXCEPT !.ops = {}]
  <2>1. /\ state' = [state EXCEPT ![d] = t] /\ intent' = intent
        /\ shown(from).config.seqno > state[d].config.seqno
    BY <1>6 DEF ImportRemoval
  <2>2. t.config = shown(from).config
    BY <1>0 DEF Fields
  <2> HIDE DEF t
  <2>3. shown(from).config.seqno \in Nat /\ state[d].config.seqno \in Nat
    BY <1>0, ShownGood DEF GoodState, GoodConfig
  <2>4. shown(from).config.seqno >= state[d].config.seqno
    BY <2>1, <2>3
  <2>5. state'[d].config = shown(from).config
    BY <1>2, <2>1, <2>2
  <2>6. importsConfig(d)
    BY <2>1, <2>4, <2>5 DEF importsConfig
  <2> QED BY <1>2, <2>1, <2>6 DEF configMoves
<1>7. ASSUME NEW d \in Devices, ApplyConfigChange(d) PROVE moves
  <2>1. intent[d] # Nothing /\ intent' = [intent EXCEPT ![d] = Nothing]
    BY <1>7 DEF ApplyConfigChange
  <2>2. CASE intent[d].seqno # state[d].config.seqno + 1
    BY <1>7, <2>1, <2>2 DEF ApplyConfigChange, sameConfigs
  <2>3. CASE intent[d].seqno = state[d].config.seqno + 1
    <3>1. /\ \A e \in Devices : state[e].config.seqno <= state[d].config.seqno
          /\ state' = [state EXCEPT ![d].config = intent[d]]
      BY <1>7, <2>3 DEF ApplyConfigChange
    <3> DEFINE t == [state[d] EXCEPT !.config = intent[d]]
    <3>2. state' = [state EXCEPT ![d] = t]
      BY <3>1
    <3>3. t.config = intent[d]
      BY <1>0 DEF Fields
    <3> HIDE DEF t
    <3>4. appliesConfig(d)
      BY <1>2, <2>1, <2>3, <3>1, <3>2, <3>3 DEF appliesConfig
    <3> QED BY <1>2, <3>2, <3>4 DEF configMoves
  <2> QED BY <2>2, <2>3
<1>8. ASSUME NEW d \in Devices, AdoptCheckpoint(d) PROVE moves
  <2>1. intent' = intent
    BY <1>8 DEF AdoptCheckpoint
  <2>2. CASE UNCHANGED state
    BY <2>1, <2>2 DEF sameConfigs
  <2>3. CASE ~ UNCHANGED state
    <3>1. state' = [state EXCEPT
             ![d] = adoptCheckpoint(state[d], stableCheckpoint(state[d], storing[d]))]
      BY <1>8, <2>3 DEF AdoptCheckpoint
    <3>2. \A k : adoptCheckpoint(state[d], k).config = state[d].config
      BY <1>0 DEF adoptCheckpoint, Fields
    <3> QED BY <1>1, <2>1, <3>1, <3>2
  <2> QED BY <2>2, <2>3
<1>9. ASSUME NEW d \in Devices, Restore(d) PROVE moves
  <2>1. /\ state' = [state EXCEPT ![d] = GenesisState(scenario.config)] /\ d \in restored'
        /\ intent' = [intent EXCEPT ![d] = Nothing]
        /\ body'[d] = Detached /\ storing'[d] = Nothing
    BY <1>9 DEF Restore, Types, BodiesTyped, StoringTyped
  <2>2. GenesisState(scenario.config).config = scenario.config
    BY DEF GenesisState
  <2>3. forgetsConfig(d)
    BY <1>2, <2>1, <2>2 DEF forgetsConfig
  <2> QED BY <1>2, <2>1, <2>3 DEF configMoves
<1>10. ASSUME NEW d \in Devices, LosePower(d) PROVE moves
  <2>1. /\ state' = [state EXCEPT ![d] = durable[d]] /\ intent' = intent /\ d \in scenario.losing
    BY <1>10 DEF LosePower
  <2>2. losesConfig(d)
    BY <1>2, <2>1 DEF losesConfig
  <2> QED BY <1>2, <2>1, <2>2 DEF configMoves
<1>11. ASSUME NEW d \in Devices, Step(d) \/ Restart(d) \/ Flush(d) PROVE moves
  <2>1. state' = state /\ intent' = intent
    BY <1>11 DEF Step, Restart, Flush, log
  <2> QED BY <2>1 DEF sameConfigs
<1>12. ASSUME NEW d \in Devices, SetSOSequencer(d) \/ MaintainRoster(d)
                                  \/ RemoveSOParticipant(d) \/ AddSOParticipant(d)
       PROVE  moves
  <2>1. state' = state
    BY <1>12 DEF SetSOSequencer, MaintainRoster, RemoveSOParticipant, AddSOParticipant, Prepare
  <2>2. preparesConfig(d)
    BY <1>12, PreparedChange DEF preparesConfig, narrows
  <2> QED BY <2>1, <2>2 DEF sameConfigs
<1>13. ASSUME UNCHANGED vars PROVE moves
  <2>1. state' = state /\ intent' = intent
    BY <1>13 DEF vars, log
  <2> QED BY <2>1 DEF sameConfigs
<1>14. moves
  <2> HIDE DEF moves
  <2> QED BY <1>3, <1>4, <1>5, <1>6, <1>7, <1>8, <1>9, <1>10, <1>11, <1>12, <1>13
           DEF Next, Write, Acknowledge
<1> QED BY <1>14

LEMMA NarrowsOnward ==
  ASSUME NEW kinds, NEW c, NEW n, NEW m, narrows(kinds, c, n), narrows(kinds, n, m)
  PROVE  narrows(kinds, c, m)
  BY DEF narrows

LEMMA NarrowsItself ==
  ASSUME NEW kinds, NEW c
  PROVE  narrows(kinds, c, c)
  BY DEF narrows

LEMMA ConfigsNumbered ==
  ASSUME Types
  PROVE  /\ \A c \in heldConfigs : c.seqno \in Nat
         /\ \A d \in Devices : state[d].config \in heldConfigs /\ state[d].config.seqno \in Nat
         /\ \A d \in Devices : intent[d] # Nothing => intent[d].seqno \in Nat
         /\ scenario.config \in heldConfigs
         /\ scenario.losing # {} => scenario.changes = {}
<1>1. scenario.config.seqno \in Nat /\ (scenario.losing # {} => scenario.changes = {})
  BY LogAssumption DEF Types, EnvironmentTyped, ScenarioOK, GenesisConfig
<1>2. \A d \in Devices : state[d].config.seqno \in Nat
  BY DEF Types, StatesTyped, GoodState, GoodConfig
<1>3. \A d \in Devices : intent[d] # Nothing => intent[d].seqno \in Nat
  BY DEF Types, IntentTyped, GoodConfig
<1> QED BY <1>1, <1>2, <1>3 DEF heldConfigs

\* What a device sends has a config of the line.
LEMMA ShownConfig ==
  ASSUME ConfigsInLine, NEW d \in Devices
  PROVE  /\ shown(d).config \in heldConfigs
         /\ scenario.changes = {} => shown(d).config = scenario.config
  BY DEF ConfigsInLine, shown, heldConfigs

LEMMA ConfigsInit == Init => ConfigsInLine
  BY NarrowsItself DEF Init, GenesisState, ConfigsInLine, heldConfigs

LEMMA DurableConfigs ==
  ASSUME Types, ConfigsInLine, [Next]_vars
  PROVE  \A d \in Devices : durable'[d].config = scenario.config
<1> SUFFICES ASSUME NEW e \in Devices PROVE durable'[e].config = scenario.config
  OBVIOUS
<1>1. durable[e].config = scenario.config
  BY DEF ConfigsInLine
<1>2. CASE UNCHANGED durable
  BY <1>1, <1>2
<1>3. ASSUME NEW d \in Devices, heldMoves(d) PROVE durable'[e].config = scenario.config
  <2>1. CASE e # d
    BY <1>1, <1>3, <2>1 DEF heldMoves, alone
  <2>2. CASE e = d /\ durable'[d] = durable[d]
    BY <1>1, <2>2
  <2>3. CASE e = d /\ flushes(d)
    BY <2>3, ConfigsNumbered DEF flushes, ConfigsInLine
  <2>4. CASE e = d /\ startsOver(d)
    BY <2>4 DEF startsOver, GenesisState
  <2>5. durable'[d] = durable[d] \/ flushes(d) \/ startsOver(d)
    BY <1>3 DEF heldMoves, stays, adds, merges, leaves, signs, losesPower
  <2> QED BY <2>1, <2>2, <2>3, <2>4, <2>5
<1> QED BY <1>2, <1>3, HeldStep

\* A device adopts configs that it holds or that its peers hold, or makes the next one.
LEMMA LineStep ==
  ASSUME Types, ConfigsInLine, [Next]_vars
  PROVE  /\ \A c, n \in heldConfigs' : c.seqno <= n.seqno => narrows(scenario.changes, c, n)
         /\ \A c \in heldConfigs' : c.owners = scenario.config.owners
<1>0. scenario' = scenario
  BY EnvironmentStep
<1>1. CASE heldConfigs' \subseteq heldConfigs
  BY <1>1 DEF ConfigsInLine
<1>2. CASE sameConfigs
  BY <1>0, <1>1, <1>2 DEF sameConfigs, heldConfigs
<1>3. ASSUME NEW d \in Devices, configMoves(d), state'[d].config \in heldConfigs
      PROVE  heldConfigs' \subseteq heldConfigs
  BY <1>0, <1>3 DEF configMoves, heldConfigs
<1>4. ASSUME NEW d \in Devices, configMoves(d), importsConfig(d) \/ forgetsConfig(d) \/ losesConfig(d)
      PROVE  state'[d].config \in heldConfigs
  <2>1. durable[d].config = scenario.config
    BY DEF ConfigsInLine
  <2> QED BY <1>4, <2>1, ShownConfig, ConfigsNumbered DEF importsConfig, forgetsConfig, losesConfig
<1>5. ASSUME NEW d \in Devices, configMoves(d), appliesConfig(d)
      PROVE  /\ \A c, n \in heldConfigs' : c.seqno <= n.seqno => narrows(scenario.changes, c, n)
             /\ \A c \in heldConfigs' : c.owners = scenario.config.owners
  <2> DEFINE own == state[d].config
             new == intent[d]
  <2>1. heldConfigs' \subseteq heldConfigs \cup {new}
    BY <1>0, <1>5 DEF configMoves, appliesConfig, heldConfigs
  <2>2. /\ new.owners = scenario.config.owners /\ new.seqno = own.seqno + 1
        /\ narrows(scenario.changes, own, new) /\ own \in heldConfigs
        /\ own.seqno \in Nat /\ \A c \in heldConfigs : c.seqno \in Nat
    BY <1>5, ConfigsNumbered DEF ConfigsInLine, appliesConfig
  <2>3. scenario.config.seqno <= own.seqno
    <3>1. scenario.config.seqno = 0
      BY LogAssumption DEF Types, EnvironmentTyped, ScenarioOK, GenesisConfig
    <3> QED BY <2>2, <3>1
  <2>4. \A c \in heldConfigs : c.seqno <= own.seqno
    BY <1>5, <2>3 DEF heldConfigs, appliesConfig
  <2> HIDE DEF own, new
  <2>5. ASSUME NEW c \in heldConfigs PROVE narrows(scenario.changes, c, new) /\ ~ (new.seqno <= c.seqno)
    <3>1. narrows(scenario.changes, c, own)
      BY <2>2, <2>4 DEF ConfigsInLine
    <3>2. narrows(scenario.changes, c, new)
      BY <2>2, <3>1, NarrowsOnward
    <3>3. ~ (new.seqno <= c.seqno)
      BY <2>2, <2>4
    <3> QED BY <3>2, <3>3
  <2>6. ASSUME NEW c \in heldConfigs', NEW n \in heldConfigs', c.seqno <= n.seqno
        PROVE  narrows(scenario.changes, c, n)
    <3>1. CASE n = new
      BY <2>1, <2>5, <3>1, NarrowsItself
    <3>2. CASE n # new
      BY <2>1, <2>5, <2>6, <3>2 DEF ConfigsInLine
    <3> QED BY <3>1, <3>2
  <2>7. \A c \in heldConfigs' : c.owners = scenario.config.owners
    BY <2>1, <2>2 DEF ConfigsInLine
  <2> QED BY <2>6, <2>7
<1> QED BY <1>1, <1>2, <1>3, <1>4, <1>5, ConfigStep DEF configMoves

\* An intent that is the next config of its device narrows the one it holds.
LEMMA IntentInLine ==
  ASSUME Types, ConfigsInLine, [Next]_vars, NEW d \in Devices, intent'[d] # Nothing
  PROVE  /\ intent'[d].owners = scenario.config.owners
         /\ intent'[d].seqno <= state'[d].config.seqno + 1
         /\ intent'[d].seqno = state'[d].config.seqno + 1 =>
              narrows(scenario.changes, state'[d].config, intent'[d])
         /\ scenario.changes # {}
<1> DEFINE fine == /\ intent'[d].owners = scenario.config.owners
                   /\ intent'[d].seqno <= state'[d].config.seqno + 1
                   /\ intent'[d].seqno = state'[d].config.seqno + 1 =>
                        narrows(scenario.changes, state'[d].config, intent'[d])
                   /\ scenario.changes # {}
<1>0. DOMAIN intent = Devices /\ (\A e \in Devices : state[e].config.seqno \in Nat)
  BY ConfigsNumbered DEF Types, IntentTyped
<1>1. ASSUME intent'[d] = intent[d], state'[d].config = state[d].config PROVE fine
  BY <1>1 DEF ConfigsInLine
<1>2. ASSUME sameConfigs PROVE fine
  <2>1. state'[d].config = state[d].config
    BY <1>2 DEF sameConfigs
  <2>2. ASSUME NEW e \in Devices, preparesConfig(e), e = d PROVE fine
    <3>1. PICK c : /\ intent' = [intent EXCEPT ![d] = c]
                   /\ c.seqno = state[d].config.seqno + 1
                   /\ c.owners = state[d].config.owners
                   /\ narrows(scenario.changes, state[d].config, c)
                   /\ scenario.changes # {}
      BY <2>2 DEF preparesConfig
    <3>2. intent'[d] = c
      BY <1>0, <3>1
    <3>3. c.owners = scenario.config.owners
      BY <3>1, ConfigsNumbered DEF ConfigsInLine
    <3>4. c.seqno <= state[d].config.seqno + 1
      BY <1>0, <3>1
    <3> QED BY <2>1, <3>1, <3>2, <3>3, <3>4
  <2>3. ASSUME NEW e \in Devices, preparesConfig(e), e # d PROVE intent'[d] = intent[d]
    BY <1>0, <2>3 DEF preparesConfig
  <2>4. ASSUME NEW e \in Devices, intent' = [intent EXCEPT ![e] = Nothing] PROVE intent'[d] = intent[d]
    BY <1>0, <2>4
  <2>5. \/ intent'[d] = intent[d]
        \/ \E e \in Devices : preparesConfig(e) /\ e = d
    BY <1>2, <2>3, <2>4 DEF sameConfigs
  <2> HIDE DEF fine
  <2> QED BY <1>1, <2>1, <2>2, <2>5
<1>3. ASSUME NEW e \in Devices, configMoves(e), e # d PROVE fine
  <2>1. state'[d].config = state[d].config
    BY <1>3 DEF configMoves
  <2>2. intent'[d] = intent[d]
    BY <1>0, <1>3 DEF configMoves, importsConfig, appliesConfig, forgetsConfig, losesConfig
  <2> QED BY <1>1, <2>1, <2>2
<1>4. ASSUME configMoves(d) PROVE fine
  <2>1. CASE appliesConfig(d) \/ forgetsConfig(d)
    BY <1>0, <2>1 DEF appliesConfig, forgetsConfig
  <2>2. CASE losesConfig(d)
    BY <2>2, ConfigsNumbered DEF losesConfig, ConfigsInLine
  <2>3. CASE importsConfig(d)
    <3>1. PICK from \in Devices : /\ shown(from).config.seqno >= state[d].config.seqno
                                  /\ state'[d].config = shown(from).config
      BY <2>3 DEF importsConfig
    <3> DEFINE old == state[d].config
               new == shown(from).config
    <3>2. intent'[d] = intent[d] /\ intent[d] # Nothing
      BY <2>3 DEF importsConfig
    <3>3. /\ intent[d].owners = scenario.config.owners
          /\ intent[d].seqno <= old.seqno + 1
          /\ intent[d].seqno = old.seqno + 1 => narrows(scenario.changes, old, intent[d])
          /\ scenario.changes # {} /\ intent[d].seqno \in Nat
      BY <3>2, ConfigsNumbered DEF ConfigsInLine
    <3>4. /\ old \in heldConfigs /\ new \in heldConfigs /\ old.seqno \in Nat /\ new.seqno \in Nat
          /\ new.seqno >= old.seqno
      BY <3>1, ConfigsNumbered, ShownConfig
    <3> HIDE DEF old, new
    <3>5. intent[d].seqno <= new.seqno + 1
      BY <3>3, <3>4
    <3>6. ASSUME intent[d].seqno = new.seqno + 1 PROVE narrows(scenario.changes, new, intent[d])
      <4>1. new.seqno <= old.seqno /\ intent[d].seqno = old.seqno + 1
        BY <3>3, <3>4, <3>6
      <4>2. narrows(scenario.changes, new, old)
        BY <3>4, <4>1 DEF ConfigsInLine
      <4> QED BY <3>3, <4>1, <4>2, NarrowsOnward
    <3> QED BY <3>1, <3>2, <3>3, <3>5, <3>6 DEF new
  <2> QED BY <1>4, <2>1, <2>2, <2>3 DEF configMoves
<1> QED BY <1>2, <1>3, <1>4, ConfigStep

LEMMA ConfigsStep ==
  ASSUME Types, ConfigsInLine, [Next]_vars
  PROVE  ConfigsInLine'
<1>1. scenario' = scenario
  BY EnvironmentStep
<1>2. ASSUME scenario.changes = {}, NEW d \in Devices
      PROVE  state'[d].config = scenario.config /\ intent'[d] = Nothing
  <2>1. intent'[d] = Nothing
    BY <1>2, IntentInLine
  <2>2. state[d].config = scenario.config
    BY <1>2 DEF ConfigsInLine
  <2>3. ASSUME NEW e \in Devices, configMoves(e) PROVE state'[d].config = scenario.config
    BY <1>2, <2>2, <2>3, ShownConfig
       DEF configMoves, importsConfig, appliesConfig, forgetsConfig, losesConfig, ConfigsInLine
  <2> QED BY <2>1, <2>2, <2>3, ConfigStep DEF sameConfigs
<1> QED BY <1>1, <1>2, LineStep, IntentInLine, DurableConfigs DEF ConfigsInLine

-----------------------------------------------------------------------------
(* Checkpoints: one line, which its one signer is at the end of.           *)

\* The devices that may sign checkpoints: where the config stays, the checkpointer.
signers ==
  IF scenario.changes = {} THEN {Checkpointer(scenario.config)} ELSE scenario.config.owners

\* One device signs the checkpoints, and remembers what it signed.
OneSigner == (\A m, n \in signers : m = n) /\ restored \cap signers = {}

SignersStore ==
  scenario.changes = {} => \A d \in Devices : storing[d] # Nothing => d \in signers

LEMMA SignersStoreStep ==
  ASSUME Types, ConfigsInLine, SignersStore, [Next]_vars
  PROVE  SignersStore'
<1>1. scenario' = scenario /\ DOMAIN storing = Devices
  BY EnvironmentStep DEF Types, StoringTyped
<1>2. CASE \A d \in Devices : ~ Step(d)
  BY <1>1, <1>2, BodyStep DEF SignersStore, signers
<1>3. ASSUME NEW d \in Devices, Step(d) PROVE SignersStore'
  <2>1. \/ UNCHANGED storing
        \/ \E stable, b : storing' = [storing EXCEPT ![d] = checkpoint(state[d], stable, d, b)]
    BY <1>3 DEF Step
  <2>2. ASSUME NEW stable, NEW b, checkpoint(state[d], stable, d, b) # storing[d]
        PROVE  Checkpointer(state[d].config) = d
    BY <2>2 DEF checkpoint
  <2>3. scenario.changes = {} => state[d].config = scenario.config
    BY DEF ConfigsInLine
  <2> QED BY <1>1, <2>1, <2>2, <2>3 DEF SignersStore, signers
<1> QED BY <1>2, <1>3

LEMMA SignsIsSigner ==
  ASSUME Types, ConfigsInLine, SignersStore, NEW d \in Devices, signs(d)
  PROVE  d \in signers
<1>1. d \in scenario.config.owners
  BY ConfigsNumbered DEF signs, ConfigsInLine, isOwnerPeer
<1> QED BY <1>1 DEF signs, SignersStore, signers

heldCheckpoints ==
  {GenesisCheckpoint} \cup {state[d].checkpoint : d \in Devices}
                      \cup {durable[d].checkpoint : d \in Devices}

\* A checkpoint covers all that those below it do, and none is above that of the signer.
CheckpointsInLine ==
  /\ \A k, n \in heldCheckpoints :
       k.height <= n.height => \A a \in Devices : k.authors[a].nonce <= n.authors[a].nonce
  /\ \A m \in signers \cap Devices :
       /\ \A d \in Devices \ {m} : state[d].checkpoint.height <= shown(m).checkpoint.height
       /\ \A d \in Devices : durable[d].checkpoint.height <= shown(m).checkpoint.height
       /\ shown(m).checkpoint.height <= state[m].checkpoint.height

LEMMA CheckpointsNumbered ==
  ASSUME Types
  PROVE  /\ \A k \in heldCheckpoints :
              k.height \in Nat /\ \A a \in Devices : k.authors[a].nonce \in Nat
         /\ \A d \in Devices : /\ state[d].checkpoint \in heldCheckpoints
                               /\ durable[d].checkpoint \in heldCheckpoints
                               /\ shown(d).checkpoint \in heldCheckpoints
         /\ GenesisCheckpoint.height = 0 /\ GenesisCheckpoint \in heldCheckpoints
         /\ \A a \in Devices : GenesisCheckpoint.authors[a].nonce = 0
<1>1. /\ GenesisCheckpoint.height = 0
      /\ \A a \in Devices : GenesisCheckpoint.authors[a].nonce = 0
  BY DEF GenesisCheckpoint, NoOperation
<1>2. \A d \in Devices :
        /\ state[d].checkpoint.height \in Nat /\ durable[d].checkpoint.height \in Nat
        /\ \A a \in Devices : /\ state[d].checkpoint.authors[a].nonce \in Nat
                              /\ durable[d].checkpoint.authors[a].nonce \in Nat
  BY NumbersAreNatural DEF Types, StatesTyped
<1> QED BY <1>1, <1>2 DEF heldCheckpoints, shown

LEMMA CheckpointsInit == Init => CheckpointsInLine
<1> SUFFICES ASSUME Init PROVE CheckpointsInLine
  OBVIOUS
<1>1. \A d \in Devices : state[d].checkpoint = GenesisCheckpoint /\ durable[d].checkpoint = GenesisCheckpoint
  BY DEF Init, GenesisState
<1>2. /\ \A a \in Devices : GenesisCheckpoint.authors[a].nonce = 0
      /\ GenesisCheckpoint.height = 0
  BY DEF GenesisCheckpoint, NoOperation
<1> QED BY <1>1, <1>2 DEF CheckpointsInLine, heldCheckpoints, shown

LEMMA OneSignerStays ==
  ASSUME Types, [Next]_vars, OneSigner'
  PROVE  OneSigner
  BY EnvironmentStep DEF OneSigner, signers

\* Only the signer makes a checkpoint, after the one it holds.
LEMMA CoverStep ==
  ASSUME Types, ConfigsInLine, SignersStore, OneSigner, CheckpointsInLine, [Next]_vars
  PROVE  \A k, n \in heldCheckpoints' :
           k.height <= n.height => \A a \in Devices : k.authors[a].nonce <= n.authors[a].nonce
<1>1. CASE heldCheckpoints' \subseteq heldCheckpoints
  BY <1>1 DEF CheckpointsInLine
<1>2. CASE UNCHANGED <<state, durable, written>>
  BY <1>1, <1>2 DEF heldCheckpoints
<1>3. ASSUME NEW d \in Devices, heldMoves(d), ~ signs(d)
      PROVE  heldCheckpoints' \subseteq heldCheckpoints
  <2>1. state'[d].checkpoint \in heldCheckpoints /\ durable'[d].checkpoint \in heldCheckpoints
    <3>1. stays(d) \/ adds(d) \/ merges(d) \/ leaves(d) \/ startsOver(d) \/ losesPower(d) \/ flushes(d)
      BY <1>3 DEF heldMoves
    <3>2. CASE stays(d) \/ adds(d) \/ leaves(d)
      BY <3>2, CheckpointsNumbered DEF stays, adds, leaves
    <3>3. CASE merges(d)
      BY <3>3, CheckpointsNumbered DEF merges
    <3>4. CASE startsOver(d)
      BY <3>4, CheckpointsNumbered DEF startsOver, GenesisState
    <3>5. CASE losesPower(d) \/ flushes(d)
      BY <3>5, CheckpointsNumbered DEF losesPower, flushes
    <3> QED BY <3>1, <3>2, <3>3, <3>4, <3>5
  <2>2. \A e \in Devices \ {d} : state'[e] = state[e] /\ durable'[e] = durable[e]
    BY <1>3 DEF heldMoves, alone
  <2> QED BY <2>1, <2>2 DEF heldCheckpoints
<1>4. ASSUME NEW d \in Devices, heldMoves(d), signs(d)
      PROVE  \A k, n \in heldCheckpoints' :
               k.height <= n.height => \A a \in Devices : k.authors[a].nonce <= n.authors[a].nonce
  <2> DEFINE own == state[d].checkpoint
             new == state'[d].checkpoint
  <2>1. d \in signers
    BY <1>4, SignsIsSigner
  <2>2. /\ new.height = own.height + 1 /\ own \in heldCheckpoints
        /\ \A a \in Devices : own.authors[a].nonce <= new.authors[a].nonce
    BY <1>4, CheckpointsNumbered DEF signs
  <2>3. \A a \in Devices : new.authors[a].nonce \in Nat
    <3>1. Types'
      BY TypesStep
    <3> QED BY <3>1, NumbersAreNatural DEF Types, StatesTyped
  <2>4. heldCheckpoints' \subseteq heldCheckpoints \cup {new}
    <3>1. \A e \in Devices \ {d} : state'[e] = state[e] /\ durable'[e] = durable[e]
      BY <1>4 DEF heldMoves, alone
    <3>2. durable'[d] = durable[d]
      BY <1>4 DEF signs
    <3> QED BY <3>1, <3>2 DEF heldCheckpoints
  <2>5. \A k \in heldCheckpoints : k.height <= own.height
    <3>1. /\ \A e \in Devices \ {d} : state[e].checkpoint.height <= shown(d).checkpoint.height
          /\ \A e \in Devices : durable[e].checkpoint.height <= shown(d).checkpoint.height
          /\ shown(d).checkpoint.height <= own.height
      BY <2>1 DEF CheckpointsInLine
    <3>2. /\ \A e \in Devices : /\ state[e].checkpoint.height \in Nat
                                /\ durable[e].checkpoint.height \in Nat
          /\ shown(d).checkpoint.height \in Nat /\ own.height \in Nat
      BY CheckpointsNumbered
    <3>3. GenesisCheckpoint.height <= own.height
      BY <3>2, CheckpointsNumbered
    <3>4. \A e \in Devices : state[e].checkpoint.height <= own.height
      BY <3>1, <3>2
    <3>5. \A e \in Devices : durable[e].checkpoint.height <= own.height
      BY <3>1, <3>2
    <3> HIDE DEF own
    <3> QED BY <3>3, <3>4, <3>5 DEF heldCheckpoints
  <2>6. \A k \in heldCheckpoints : k.height \in Nat /\ \A a \in Devices : k.authors[a].nonce \in Nat
    BY CheckpointsNumbered
  <2> HIDE DEF own, new
  <2>7. ASSUME NEW k \in heldCheckpoints
        PROVE  ~ (new.height <= k.height) /\ \A a \in Devices : k.authors[a].nonce <= new.authors[a].nonce
    <3>1. k.height <= own.height /\ k.height \in Nat /\ own.height \in Nat
      BY <2>2, <2>5, <2>6
    <3>2. \A a \in Devices : k.authors[a].nonce <= own.authors[a].nonce
      BY <2>2, <3>1 DEF CheckpointsInLine
    <3>3. ASSUME NEW a \in Devices PROVE k.authors[a].nonce <= new.authors[a].nonce
      <4>1. /\ k.authors[a].nonce \in Nat /\ own.authors[a].nonce \in Nat /\ new.authors[a].nonce \in Nat
            /\ k.authors[a].nonce <= own.authors[a].nonce /\ own.authors[a].nonce <= new.authors[a].nonce
        BY <2>2, <2>3, <2>6, <3>2
      <4> QED BY <4>1
    <3> QED BY <2>2, <3>1, <3>3
  <2>8. \A a \in Devices : new.authors[a].nonce <= new.authors[a].nonce
    BY <2>3
  <2>9. ASSUME NEW k \in heldCheckpoints', NEW n \in heldCheckpoints', k.height <= n.height
        PROVE  \A a \in Devices : k.authors[a].nonce <= n.authors[a].nonce
    <3>1. CASE n = new
      BY <2>4, <2>7, <2>8, <3>1
    <3>2. CASE n # new /\ k = new
      BY <2>4, <2>7, <2>9, <3>2
    <3>3. CASE n # new /\ k # new
      BY <2>4, <2>9, <3>3 DEF CheckpointsInLine
    <3> QED BY <3>1, <3>2, <3>3
  <2> QED BY <2>9
<1> QED BY <1>1, <1>2, <1>3, <1>4, HeldStep

\* A device other than the owner gets its checkpoints from what the owner showed.
LEMMA EndStep ==
  ASSUME Types, ConfigsInLine, SignersStore, OneSigner, OneSigner', CheckpointsInLine, [Next]_vars,
         NEW m \in signers \cap Devices
  PROVE  LET shownNow == IF m \in scenario.losing THEN durable'[m] ELSE state'[m]
         IN /\ \A d \in Devices \ {m} : state'[d].checkpoint.height <= shownNow.checkpoint.height
            /\ \A d \in Devices : durable'[d].checkpoint.height <= shownNow.checkpoint.height
            /\ shownNow.checkpoint.height <= state'[m].checkpoint.height
<1> DEFINE later == IF m \in scenario.losing THEN durable'[m] ELSE state'[m]
           held(d) == /\ d # m => state'[d].checkpoint.height <= later.checkpoint.height
                      /\ durable'[d].checkpoint.height <= later.checkpoint.height
<1>0. /\ \A d \in Devices : state[d].checkpoint.height \in Nat /\ durable[d].checkpoint.height \in Nat
      /\ \A d \in Devices : state'[d].checkpoint.height \in Nat /\ durable'[d].checkpoint.height \in Nat
      /\ \A d \in Devices : shown(d).checkpoint.height \in Nat
  <2>1. Types'
    BY TypesStep
  <2>2. \A d \in Devices : state'[d].checkpoint.height \in Nat /\ durable'[d].checkpoint.height \in Nat
    BY <2>1, NumbersAreNatural DEF Types, StatesTyped
  <2> QED BY <2>2, CheckpointsNumbered
<1>1. /\ \A d \in Devices \ {m} : state[d].checkpoint.height <= shown(m).checkpoint.height
      /\ \A d \in Devices : durable[d].checkpoint.height <= shown(m).checkpoint.height
      /\ shown(m).checkpoint.height <= state[m].checkpoint.height
  BY DEF CheckpointsInLine
<1>2. CASE UNCHANGED <<state, durable, written>>
  BY <1>1, <1>2 DEF shown
<1>3. ASSUME NEW d \in Devices, heldMoves(d), d # m
      PROVE  (\A e \in Devices : held(e)) /\ later.checkpoint.height <= state'[m].checkpoint.height
  <2>1. \A e \in Devices \ {d} : state'[e] = state[e] /\ durable'[e] = durable[e]
    BY <1>3 DEF heldMoves, alone
  <2>2. later = shown(m)
    BY <1>3, <2>1 DEF shown
  <2>3. \A e \in Devices : shown(e).checkpoint.height <= shown(m).checkpoint.height
    BY <1>0, <1>1 DEF shown
  <2>4. /\ state[d].checkpoint.height <= shown(m).checkpoint.height
        /\ durable[d].checkpoint.height <= shown(m).checkpoint.height
    BY <1>1, <1>3
  <2>5. held(d)
    <3>1. ~ signs(d)
      <4>1. signs(d) => d \in signers
        BY SignsIsSigner
      <4> QED BY <1>3, <4>1 DEF OneSigner
    <3>2. CASE stays(d) \/ adds(d) \/ leaves(d)
      BY <2>2, <2>4, <3>2 DEF stays, adds, leaves
    <3>3. CASE merges(d)
      BY <2>2, <2>3, <2>4, <3>3 DEF merges
    <3>4. CASE startsOver(d)
      BY <1>0, <2>2, <3>4 DEF startsOver, GenesisState, GenesisCheckpoint
    <3>5. CASE losesPower(d) \/ flushes(d)
      BY <2>2, <2>4, <3>5 DEF losesPower, flushes
    <3> QED BY <1>3, <3>1, <3>2, <3>3, <3>4, <3>5 DEF heldMoves
  <2>6. \A e \in Devices \ {d} : held(e)
    BY <1>1, <2>1, <2>2
  <2> HIDE DEF held, later
  <2> QED BY <1>1, <1>3, <2>1, <2>2, <2>5, <2>6
<1>4. ASSUME heldMoves(m)
      PROVE  (\A e \in Devices : held(e)) /\ later.checkpoint.height <= state'[m].checkpoint.height
  <2>1. \A e \in Devices \ {m} : state'[e] = state[e] /\ durable'[e] = durable[e]
    BY <1>4 DEF heldMoves, alone
  <2>2. \/ state[m].checkpoint.height <= state'[m].checkpoint.height /\ durable'[m] = durable[m]
        \/ m \in scenario.losing /\ state'[m] = durable[m] /\ durable'[m] = durable[m]
        \/ m \in scenario.losing /\ state'[m] = state[m] /\ durable'[m] = state[m]
    <3>1. ~ startsOver(m)
      BY EnvironmentStep DEF startsOver, OneSigner, signers
    <3>2. CASE stays(m) \/ adds(m) \/ leaves(m)
      BY <1>0, <3>2 DEF stays, adds, leaves
    <3>3. CASE merges(m)
      BY <1>0, <3>3 DEF merges
    <3>4. CASE signs(m)
      BY <1>0, <3>4 DEF signs
    <3> QED BY <1>4, <3>1, <3>2, <3>3, <3>4 DEF heldMoves, losesPower, flushes
  <2>3. /\ shown(m).checkpoint.height <= later.checkpoint.height
        /\ later.checkpoint.height <= state'[m].checkpoint.height
        /\ durable'[m].checkpoint.height <= later.checkpoint.height
    BY <1>0, <1>1, <2>2 DEF shown
  <2>4. later.checkpoint.height \in Nat
    BY <1>0
  <2> HIDE DEF later
  <2>5. \A e \in Devices \ {m} : held(e)
    BY <1>0, <1>1, <2>1, <2>3, <2>4
  <2> QED BY <2>3, <2>5
<1>5. ASSUME \A e \in Devices : held(e), later.checkpoint.height <= state'[m].checkpoint.height
      PROVE  /\ \A d \in Devices \ {m} : state'[d].checkpoint.height <= later.checkpoint.height
             /\ \A d \in Devices : durable'[d].checkpoint.height <= later.checkpoint.height
             /\ later.checkpoint.height <= state'[m].checkpoint.height
  BY <1>5
<1> QED BY <1>2, <1>3, <1>4, <1>5, HeldStep

LEMMA CheckpointsStep ==
  ASSUME Types, ConfigsInLine, SignersStore, OneSigner, OneSigner', CheckpointsInLine, [Next]_vars
  PROVE  CheckpointsInLine'
<1>1. scenario' = scenario
  BY EnvironmentStep
<1>2. \A m \in Devices : shown(m)' = IF m \in scenario.losing THEN durable'[m] ELSE state'[m]
  BY <1>1 DEF shown
<1>3. signers' = signers
  BY <1>1 DEF signers
<1> QED BY <1>1, <1>2, <1>3, CoverStep, EndStep DEF CheckpointsInLine

-----------------------------------------------------------------------------
(* What others hold of an author is no more than the author shows.         *)

\* No participant is removed and then added anew.
NoneReadmitted == "add" \notin scenario.changes \/ "remove" \notin scenario.changes

\* a remembers what it signed, unless it was removed.
remembers(a) ==
  a \notin restored /\ (a \in Writers(state[a].config) \/ "remove" \notin scenario.changes)

names(d) == named(state[d]) \cup named(durable[d])
everywhere == UNION {names(d) : d \in Devices}

Unique ==
  \A p, q \in everywhere :
    p.author = q.author /\ p.nonce = q.nonce => p = q \/ p.author \in restored

Shows(a) ==
  /\ \A d \in Devices \ {a} : within(state[d], shown(a), a)
  /\ \A d \in Devices : within(durable[d], shown(a), a)
  /\ within(shown(a), state[a], a)

\* Whoever is not a participant wrote nothing, if none is removed.
StrangersSilent ==
  \A a \in Devices \ restored :
    a \notin Writers(state[a].config) /\ "remove" \notin scenario.changes =>
      \A op \in written : op.author # a

Numbered ==
  /\ Unique
  /\ \A a \in Devices : remembers(a) => Shows(a)
  /\ StrangersSilent

LEMMA ReachesLess ==
  ASSUME NEW W, GoodOperations(W), NEW s, GoodState(s, W), NEW a \in Devices,
         NEW m \in Nat, reaches(s, a, m), NEW n \in Nat, n <= m
  PROVE  reaches(s, a, n)
<1>1. s.checkpoint.authors[a].nonce \in Nat /\ \A op \in s.ops : op.nonce \in Nat
  BY NumbersAreNatural
<1>2. CASE m <= s.checkpoint.authors[a].nonce
  BY <1>1, <1>2 DEF reaches
<1>3. ASSUME NEW op \in s.ops, op.author = a, m <= op.nonce PROVE reaches(s, a, n)
  <2>1. n <= op.nonce
    BY <1>1, <1>3
  <2> QED BY <1>3, <2>1 DEF reaches
<1> QED BY <1>2, <1>3 DEF reaches

LEMMA WithinOnward ==
  ASSUME NEW s, NEW t, NEW u, NEW a, within(s, t, a), within(t, u, a)
  PROVE  within(s, u, a)
  BY DEF within

LEMMA WithinItself ==
  ASSUME NEW s, NEW t, NEW a, s.ops = t.ops, s.checkpoint = t.checkpoint
  PROVE  within(s, t, a)
  BY DEF within, reaches

\* Of a writer that wrote nothing, nothing is reached.
LEMMA WithinNothing ==
  ASSUME NEW W, GoodOperations(W), NEW s, GoodState(s, W), NEW t, GoodState(t, W), NEW a \in Devices,
         \A op \in s.ops : op.author # a, s.checkpoint.authors[a].nonce = 0
  PROVE  within(s, t, a)
<1>1. t.checkpoint.authors[a].nonce \in Nat
  BY NumbersAreNatural
<1> QED BY <1>1 DEF within, reaches

LEMMA Unwritten ==
  ASSUME NEW W, GoodOperations(W), NEW s, GoodState(s, W), NEW t, GoodState(t, W), NEW a \in Devices,
         \A op \in W : op.author # a
  PROVE  within(s, t, a)
<1>1. s.checkpoint.authors[a] = NoOperation(a)
  BY DEF GoodState, GoodCheckpoint, headsOf
<1>2. s.checkpoint.authors[a].nonce = 0
  BY <1>1 DEF NoOperation
<1>3. \A op \in s.ops : op.author # a
  BY NumbersAreNatural
<1> QED BY <1>2, <1>3, WithinNothing

\* A state made of what others named reaches no further than they do.
LEMMA MadeOfNamed ==
  ASSUME NEW W, GoodOperations(W), NEW s, GoodState(s, W), NEW t, NEW a \in Devices,
         \A op \in t.ops : op.author = a => op \in s.ops,
         t.checkpoint.authors[a] \in named(s), t.checkpoint.authors[a].author = a
  PROVE  within(t, s, a)
<1> SUFFICES ASSUME NEW n \in Nat, reaches(t, a, n) PROVE reaches(s, a, n)
  BY DEF within
<1>1. CASE n <= t.checkpoint.authors[a].nonce
  <2>1. /\ t.checkpoint.authors[a].nonce \in Nat
        /\ reaches(s, a, t.checkpoint.authors[a].nonce)
    BY NamedReached
  <2> QED BY <1>1, <2>1, ReachesLess
<1>2. CASE \E op \in t.ops : op.author = a /\ n <= op.nonce
  BY <1>2 DEF reaches
<1> QED BY <1>1, <1>2 DEF reaches

\* The writers a device knows change by the changes of the scenario, unless it starts over.
LEMMA ConfigMoves ==
  ASSUME Types, ConfigsInLine, [Next]_vars, NEW a \in Devices
  PROVE  narrows(scenario.changes, state[a].config, state'[a].config) \/ forgetsConfig(a)
<1>1. state[a].config \in heldConfigs
  BY DEF heldConfigs
<1>2. CASE state'[a].config = state[a].config
  BY <1>2, NarrowsItself
<1>3. CASE configMoves(a)
  <2>1. CASE importsConfig(a)
    <3>1. PICK from \in Devices : /\ shown(from).config.seqno >= state[a].config.seqno
                                  /\ state'[a].config = shown(from).config
      BY <2>1 DEF importsConfig
    <3>2. shown(from).config \in heldConfigs /\ state[a].config.seqno <= shown(from).config.seqno
      BY <1>1, <3>1, ShownConfig, ConfigsNumbered
    <3> QED BY <1>1, <3>1, <3>2 DEF ConfigsInLine
  <2>2. CASE appliesConfig(a)
    BY <2>2 DEF appliesConfig, ConfigsInLine
  <2>3. CASE losesConfig(a)
    <3>1. state'[a].config = state[a].config
      BY <2>3, ConfigsNumbered DEF losesConfig, ConfigsInLine
    <3> QED BY <1>2, <3>1
  <2> QED BY <1>3, <2>1, <2>2, <2>3 DEF configMoves
<1> QED BY <1>2, <1>3, ConfigStep DEF configMoves, sameConfigs

LEMMA WritersMove ==
  ASSUME Types, ConfigsInLine, [Next]_vars, NEW a \in Devices, a \notin restored'
  PROVE  narrows(scenario.changes, state[a].config, state'[a].config)
  BY ConfigMoves DEF forgetsConfig

LEMMA RememberedBefore ==
  ASSUME Types, ConfigsInLine, [Next]_vars, NoneReadmitted, NEW a \in Devices, remembers(a)'
  PROVE  remembers(a)
<1>1. scenario' = scenario /\ restored \subseteq restored'
  BY EnvironmentStep
<1>2. a \notin restored' /\ a \notin restored
  BY <1>1 DEF remembers
<1>3. narrows(scenario.changes, state[a].config, state'[a].config)
  BY <1>2, WritersMove
<1> QED BY <1>1, <1>2, <1>3 DEF remembers, narrows, NoneReadmitted

\* What a step writes, if anything.
LEMMA WritesOne ==
  ASSUME Types, [Next]_vars
  PROVE  written' = written \/ \E d \in Devices : adds(d)
  BY HeldStep DEF heldMoves, stays, merges, leaves, signs, startsOver, losesPower, flushes

LEMMA StrangersStep ==
  ASSUME Types, ConfigsInLine, StrangersSilent, [Next]_vars
  PROVE  StrangersSilent'
<1>1. scenario' = scenario /\ restored \subseteq restored'
  BY EnvironmentStep
<1> SUFFICES ASSUME NEW a \in Devices, a \notin restored', a \notin Writers(state'[a].config),
                    "remove" \notin scenario.changes, NEW op \in written'
             PROVE  op.author # a
  BY <1>1 DEF StrangersSilent
<1>2. narrows(scenario.changes, state[a].config, state'[a].config)
  BY WritersMove
<1>3. a \notin Writers(state[a].config) /\ a \notin restored
  BY <1>1, <1>2 DEF narrows
<1>4. \A w \in written : w.author # a
  BY <1>3 DEF StrangersSilent
<1> QED BY <1>3, <1>4, WritesOne DEF adds

\* What another device does adds nothing that a has not shown.
LEMMA OthersStep ==
  ASSUME Types, Types', [Next]_vars, NEW a \in Devices, Shows(a),
         NEW d \in Devices \ {a}, heldMoves(d)
  PROVE  within(state'[d], shown(a), a) /\ within(durable'[d], shown(a), a)
<1>0. /\ GoodOperations(written) /\ GoodOperations(written')
      /\ GoodState(state[d], written) /\ GoodState(state'[d], written')
      /\ GoodState(shown(a), written) /\ GoodState(shown(a), written')
  BY WrittenStep, ShownGood, GoodStateGrows DEF Types, StatesTyped
<1>1. within(state[d], shown(a), a) /\ within(durable[d], shown(a), a)
  BY DEF Shows
<1>2. \A from \in Devices : within(shown(from), shown(a), a)
  <2>1. within(shown(a), shown(a), a)
    BY WithinItself
  <2> QED BY <2>1 DEF Shows, shown
<1>3. CASE stays(d)
  <2>1. within(state'[d], state[d], a)
    BY <1>3, WithinItself DEF stays
  <2> QED BY <1>1, <1>3, <2>1, WithinOnward DEF stays
<1>4. CASE adds(d)
  <2>1. \A op \in state'[d].ops : op.author = a => op \in state[d].ops
    BY <1>4 DEF adds
  <2>2. within(state'[d], state[d], a)
    BY <1>4, <2>1 DEF adds, within, reaches
  <2> QED BY <1>1, <1>4, <2>2, WithinOnward DEF adds
<1>5. CASE merges(d)
  <2>1. PICK from \in Devices :
          /\ state'[d].ops \subseteq state[d].ops \cup shown(from).ops
          /\ state'[d].checkpoint \in {state[d].checkpoint, shown(from).checkpoint}
    BY <1>5 DEF merges
  <2>2. \A n \in Nat : reaches(state'[d], a, n) => reaches(state[d], a, n) \/ reaches(shown(from), a, n)
    BY <2>1 DEF reaches
  <2>3. within(state'[d], shown(a), a)
    BY <1>1, <1>2, <2>2 DEF within
  <2> QED BY <1>1, <1>5, <2>3 DEF merges
<1>6. CASE leaves(d)
  <2>1. within(state'[d], state[d], a)
    BY <1>6 DEF leaves, within, reaches
  <2> QED BY <1>1, <1>6, <2>1, WithinOnward DEF leaves
<1>7. CASE signs(d)
  <2>1. state'[d].checkpoint.authors[a].author = a
    BY <1>0 DEF GoodState, GoodCheckpoint, headsOf, NoOperation, position
  <2>2. within(state'[d], state[d], a)
    BY <1>0, <1>7, <2>1, MadeOfNamed DEF signs
  <2> QED BY <1>1, <1>7, <2>2, WithinOnward DEF signs
<1>8. CASE startsOver(d)
  <2>1. state'[d].ops = {} /\ state'[d].checkpoint.authors[a].nonce = 0
    BY <1>8 DEF startsOver, GenesisState, GenesisCheckpoint, NoOperation
  <2>2. within(state'[d], shown(a), a)
    BY <1>0, <2>1, WithinNothing
  <2> QED BY <1>8, <2>2 DEF startsOver
<1>9. CASE losesPower(d) \/ flushes(d)
  BY <1>1, <1>9 DEF losesPower, flushes
<1> QED BY <1>3, <1>4, <1>5, <1>6, <1>7, <1>8, <1>9 DEF heldMoves

\* What a does itself takes nothing back.
LEMMA OwnStep ==
  ASSUME Types, Types', [Next]_vars, ConfigsInLine, CheckpointsInLine, StrangersSilent,
         NEW a \in Devices, Shows(a), remembers(a)', heldMoves(a)
  PROVE  \/ /\ within(state[a], state'[a], a) /\ durable'[a] = durable[a]
         \/ /\ a \in scenario.losing /\ durable'[a] = durable[a] /\ state'[a] = durable[a]
         \/ /\ a \in scenario.losing /\ durable'[a] = state[a] /\ state'[a] = state[a]
<1>0. /\ GoodOperations(written) /\ GoodOperations(written')
      /\ GoodState(state[a], written) /\ GoodState(state'[a], written')
      /\ GoodState(state[a], written')
  BY WrittenStep, GoodStateGrows DEF Types, StatesTyped
<1>1. scenario' = scenario /\ restored \subseteq restored' /\ a \notin restored'
  BY EnvironmentStep DEF remembers
<1>2. CASE stays(a)
  BY <1>2, WithinItself DEF stays
<1>3. CASE adds(a)
  BY <1>3 DEF adds, within, reaches
<1>4. CASE merges(a)
  <2>1. PICK from \in Devices :
          state'[a].checkpoint = IF shown(from).checkpoint.height <= state[a].checkpoint.height
                                 THEN state[a].checkpoint ELSE shown(from).checkpoint
    BY <1>4 DEF merges
  <2>2. /\ state[a].checkpoint \in heldCheckpoints /\ shown(from).checkpoint \in heldCheckpoints
        /\ state[a].checkpoint.height \in Nat /\ shown(from).checkpoint.height \in Nat
        /\ state[a].checkpoint.authors[a].nonce \in Nat
    BY CheckpointsNumbered
  <2>3. state[a].checkpoint.authors[a].nonce <= state'[a].checkpoint.authors[a].nonce
    <3>1. CASE shown(from).checkpoint.height <= state[a].checkpoint.height
      BY <2>1, <2>2, <3>1
    <3>2. CASE ~ (shown(from).checkpoint.height <= state[a].checkpoint.height)
      <4>1. state[a].checkpoint.height <= shown(from).checkpoint.height
        BY <2>2, <3>2
      <4> QED BY <2>1, <2>2, <3>2, <4>1 DEF CheckpointsInLine
    <3> QED BY <3>1, <3>2
  <2> QED BY <1>0, <1>4, <2>3, KeptReaches DEF merges
<1>5. CASE leaves(a)
  <2>1. PICK from \in Devices : /\ shown(from).config.seqno > state[a].config.seqno
                                /\ a \notin Writers(shown(from).config)
                                /\ state'[a].config = shown(from).config
    BY <1>5 DEF leaves
  <2>2. "remove" \notin scenario.changes
    BY <1>1, <2>1 DEF remembers
  <2>3. a \notin Writers(state[a].config)
    <3>1. narrows(scenario.changes, state[a].config, state'[a].config)
      BY <1>1, WritersMove
    <3> QED BY <2>1, <2>2, <3>1 DEF narrows
  <2>4. \A op \in written : op.author # a
    BY <1>1, <2>2, <2>3 DEF StrangersSilent
  <2>5. written' = written
    BY <1>5 DEF leaves
  <2>6. within(state[a], state'[a], a)
    BY <1>0, <2>4, <2>5, Unwritten
  <2> QED BY <1>5, <2>6 DEF leaves
<1>6. CASE signs(a)
  BY <1>0, <1>6, KeptReaches DEF signs
<1>7. ~ startsOver(a)
  BY <1>1 DEF startsOver
<1>8. CASE losesPower(a) \/ flushes(a)
  BY <1>8 DEF losesPower, flushes
<1> QED BY <1>2, <1>3, <1>4, <1>5, <1>6, <1>7, <1>8 DEF heldMoves

LEMMA ShowsStep ==
  ASSUME Types, [Next]_vars, ConfigsInLine, CheckpointsInLine, StrangersSilent, NoneReadmitted,
         \A a \in Devices : remembers(a) => Shows(a), NEW a \in Devices, remembers(a)'
  PROVE  Shows(a)'
<1>0. scenario' = scenario /\ Types'
  BY EnvironmentStep, TypesStep
<1>1. Shows(a)
  BY RememberedBefore
<1> DEFINE later == IF a \in scenario.losing THEN durable'[a] ELSE state'[a]
<1>2. shown(a)' = later
  BY <1>0 DEF shown
<1>3. CASE UNCHANGED <<state, durable, written>>
  <2>1. later = shown(a)
    BY <1>3 DEF shown
  <2> QED BY <1>1, <1>2, <1>3, <2>1 DEF Shows
<1>4. ASSUME NEW d \in Devices, heldMoves(d), d # a PROVE Shows(a)'
  <2>1. \A e \in Devices \ {d} : state'[e] = state[e] /\ durable'[e] = durable[e]
    BY <1>4 DEF heldMoves, alone
  <2>2. later = shown(a) /\ state'[a] = state[a]
    BY <1>4, <2>1 DEF shown
  <2>3. within(state'[d], shown(a), a) /\ within(durable'[d], shown(a), a)
    BY <1>0, <1>1, <1>4, OthersStep
  <2> HIDE DEF later
  <2> QED BY <1>1, <1>2, <2>1, <2>2, <2>3 DEF Shows
<1>5. ASSUME heldMoves(a) PROVE Shows(a)'
  <2>1. \A e \in Devices \ {a} : state'[e] = state[e] /\ durable'[e] = durable[e]
    BY <1>5 DEF heldMoves, alone
  <2>2. /\ within(shown(a), later, a) /\ within(durable'[a], later, a)
        /\ within(later, state'[a], a)
    <3>1. \A s : within(s, s, a)
      BY DEF within
    <3>2. CASE within(state[a], state'[a], a) /\ durable'[a] = durable[a]
      <4>1. within(shown(a), state'[a], a)
        BY <1>1, <3>2, WithinOnward DEF Shows
      <4>2. within(durable[a], state'[a], a)
        BY <1>1, <4>1, WithinOnward DEF Shows
      <4> QED BY <3>1, <3>2, <4>1, <4>2 DEF shown
    <3>3. CASE a \in scenario.losing /\ durable'[a] = durable[a] /\ state'[a] = durable[a]
      BY <3>1, <3>3 DEF shown
    <3>4. CASE a \in scenario.losing /\ durable'[a] = state[a] /\ state'[a] = state[a]
      BY <1>1, <3>1, <3>4 DEF shown, Shows
    <3> QED BY <1>0, <1>1, <1>5, <3>2, <3>3, <3>4, OwnStep
  <2> HIDE DEF later
  <2>3. \A d \in Devices \ {a} : within(state'[d], later, a)
    BY <1>1, <2>1, <2>2, WithinOnward DEF Shows
  <2>4. \A d \in Devices : within(durable'[d], later, a)
    BY <1>1, <2>1, <2>2, WithinOnward DEF Shows
  <2> QED BY <1>2, <2>2, <2>3, <2>4 DEF Shows
<1> QED BY <1>3, <1>4, <1>5, HeldStep

-----------------------------------------------------------------------------
(* So a number names one operation.                                        *)

LEMMA NamedEverywhere ==
  ASSUME Types, NEW p \in everywhere
  PROVE  /\ p.author \in Devices /\ p.nonce \in Nat /\ p \in headsOf(p.author, written)
         /\ \E d \in Devices : \/ reaches(state[d], p.author, p.nonce)
                               \/ reaches(durable[d], p.author, p.nonce)
<1>1. PICK d \in Devices : p \in names(d)
  BY DEF everywhere
<1>2. GoodOperations(written) /\ GoodState(state[d], written) /\ GoodState(durable[d], written)
  BY DEF Types, StatesTyped
<1> QED BY <1>1, <1>2, NamedReached DEF names

\* A number that the author takes next was seen nowhere.
LEMMA NumberIsNew ==
  ASSUME Types, NEW d \in Devices, Shows(d), NEW prev \in AuthorHeads(state[d], d),
         NEW p \in everywhere, p.author = d
  PROVE  p.nonce # prev.nonce + 1
<1>1. GoodOperations(written) /\ GoodState(state[d], written)
  BY DEF Types, StatesTyped
<1>2. prev.nonce \in Nat /\ ~ reaches(state[d], d, prev.nonce + 1)
  BY <1>1, NextNumber
<1>3. p.nonce \in Nat /\ \E e \in Devices : reaches(state[e], d, p.nonce) \/ reaches(durable[e], d, p.nonce)
  BY NamedEverywhere
<1>4. reaches(state[d], d, p.nonce)
  BY <1>3 DEF Shows, within
<1> QED BY <1>2, <1>4

\* The names after a step that writes nothing.
LEMMA SameNames ==
  ASSUME Types, Types', [Next]_vars, NEW d \in Devices, heldMoves(d), ~ adds(d)
  PROVE  everywhere' \subseteq everywhere \cup {NoOperation(a) : a \in Devices}
<1>1. \A e \in Devices \ {d} : state'[e] = state[e] /\ durable'[e] = durable[e]
  BY DEF heldMoves, alone
<1>2. \A e \in Devices : /\ named(state[e]) \subseteq everywhere
                         /\ named(durable[e]) \subseteq everywhere
                         /\ named(shown(e)) \subseteq everywhere
  <2>1. \A e \in Devices : names(e) \subseteq everywhere
    BY DEF everywhere
  <2> QED BY <2>1 DEF names, shown
<1>3. /\ named(state'[d]) \subseteq everywhere \cup {NoOperation(a) : a \in Devices}
      /\ named(durable'[d]) \subseteq everywhere \cup {NoOperation(a) : a \in Devices}
  <2>1. CASE stays(d)
    BY <1>2, <2>1 DEF stays, named
  <2>2. CASE merges(d)
    <3>1. PICK from \in Devices :
            /\ state'[d].ops \subseteq state[d].ops \cup shown(from).ops
            /\ state'[d].checkpoint \in {state[d].checkpoint, shown(from).checkpoint}
      BY <2>2 DEF merges
    <3>2. named(state'[d]) \subseteq named(state[d]) \cup named(shown(from))
      BY <3>1 DEF named
    <3> QED BY <1>2, <2>2, <3>2 DEF merges
  <2>3. CASE leaves(d)
    <3>1. named(state'[d]) \subseteq named(state[d])
      BY <2>3 DEF leaves, named
    <3> QED BY <1>2, <2>3, <3>1 DEF leaves
  <2>4. CASE signs(d)
    <3>1. named(state'[d]) \subseteq named(state[d])
      <4>1. \A a \in Devices : state'[d].checkpoint.authors[a] \in named(state[d])
        BY <2>4 DEF signs
      <4>2. \A op \in state'[d].ops : position(op) \in named(state[d])
        BY <2>4 DEF signs, named
      <4>3. \A x \in named(state'[d]) : x \in named(state[d])
        BY <4>1, <4>2 DEF named
      <4> QED BY <4>3
    <3> QED BY <1>2, <2>4, <3>1 DEF signs
  <2>5. CASE startsOver(d)
    BY <2>5 DEF startsOver, GenesisState, GenesisCheckpoint, named
  <2>6. CASE losesPower(d) \/ flushes(d)
    BY <1>2, <2>6 DEF losesPower, flushes
  <2> QED BY <2>1, <2>2, <2>3, <2>4, <2>5, <2>6 DEF heldMoves
<1>4. \A e \in Devices : names(e)' \subseteq everywhere \cup {NoOperation(a) : a \in Devices}
  BY <1>1, <1>2, <1>3 DEF names
<1> QED BY <1>4 DEF everywhere

LEMMA UniqueStep ==
  ASSUME Types, [Next]_vars, Unique, \A a \in Devices : remembers(a) => Shows(a)
  PROVE  Unique'
<1>0. Types' /\ scenario' = scenario /\ restored \subseteq restored'
  BY TypesStep, EnvironmentStep
<1> DEFINE one(p, q) == p.author = q.author /\ p.nonce = q.nonce => p = q \/ p.author \in restored'
<1>1. \A p, q \in everywhere : one(p, q)
  BY <1>0 DEF Unique
<1>2. CASE UNCHANGED <<state, durable, written>>
  <2>1. everywhere' = everywhere
    BY <1>2 DEF everywhere, names
  <2> QED BY <1>1, <2>1 DEF Unique
<1>3. ASSUME NEW d \in Devices, heldMoves(d), ~ adds(d) PROVE Unique'
  <2>1. everywhere' \subseteq everywhere \cup {NoOperation(a) : a \in Devices}
    BY <1>0, <1>3, SameNames
  <2>2. ASSUME NEW p \in everywhere', NEW q \in everywhere', p.author = q.author, p.nonce = q.nonce
        PROVE  p = q \/ p.author \in restored'
    <3>1. /\ p.author \in Devices /\ p \in headsOf(p.author, written')
          /\ q \in headsOf(q.author, written')
      <4>1. ASSUME NEW x \in everywhere' PROVE x.author \in Devices /\ x \in headsOf(x.author, written')
        <5>1. PICK e \in Devices : x \in names(e)'
          BY <4>1 DEF everywhere
        <5>2. GoodOperations(written') /\ GoodState(state'[e], written') /\ GoodState(durable'[e], written')
          BY <1>0 DEF Types, StatesTyped
        <5> QED BY <5>1, <5>2, NamedReached DEF names
      <4> QED BY <2>2, <4>1
    <3>2. CASE p.nonce = 0
      BY <1>0, <2>2, <3>1, <3>2, HeadsNumbered DEF Types
    <3>3. CASE p.nonce # 0
      <4>1. p \in everywhere /\ q \in everywhere
        BY <2>1, <2>2, <3>3 DEF NoOperation
      <4> QED BY <1>1, <2>2, <4>1
    <3> QED BY <3>2, <3>3
  <2> QED BY <2>2 DEF Unique
<1>4. ASSUME NEW d \in Devices, heldMoves(d), adds(d) PROVE Unique'
  <2>1. PICK prev, op :
          /\ prev \in AuthorHeads(state[d], d)
          /\ d \in Writers(state[d].config)
          /\ op.author = d /\ op.nonce = prev.nonce + 1
          /\ state'[d].checkpoint = state[d].checkpoint
          /\ state'[d].ops \subseteq state[d].ops \cup {op}
          /\ durable'[d] = durable[d]
    BY <1>4 DEF adds
  <2> DEFINE new == position(op)
  <2>2. everywhere' \subseteq everywhere \cup {new}
    <3>1. \A e \in Devices \ {d} : state'[e] = state[e] /\ durable'[e] = durable[e]
      BY <1>4 DEF heldMoves, alone
    <3>2. named(state'[d]) \subseteq named(state[d]) \cup {new}
      BY <2>1 DEF named
    <3>3. \A e \in Devices : /\ named(state'[e]) \subseteq named(state[e]) \cup {new}
                             /\ named(durable'[e]) = named(durable[e])
      BY <2>1, <3>1, <3>2
    <3> HIDE DEF new
    <3>4. \A e \in Devices : names(e)' \subseteq names(e) \cup {new}
      BY <3>3 DEF names
    <3> QED BY <3>4 DEF everywhere
  <2>3. new.author = d /\ new.nonce = prev.nonce + 1
    BY <2>1 DEF position
  <2> HIDE DEF new
  <2>4. \A p \in everywhere : p.author = d /\ p.nonce = new.nonce => d \in restored'
    <3>1. CASE d \in restored
      BY <1>0, <3>1
    <3>2. CASE d \notin restored
      <4>1. Shows(d)
        BY <2>1, <3>2 DEF remembers
      <4> QED BY <2>1, <2>3, <4>1, NumberIsNew
    <3> QED BY <3>1, <3>2
  <2>5. \A p, q \in everywhere' : one(p, q)
    BY <1>1, <2>2, <2>3, <2>4
  <2> QED BY <2>5 DEF Unique
<1> QED BY <1>2, <1>3, <1>4, HeldStep

NumberInv ==
  /\ ConfigsInLine /\ SignersStore
  /\ OneSigner => CheckpointsInLine
  /\ OneSigner /\ NoneReadmitted => Numbered

LEMMA NumberedInit == Init => NumberInv
<1> SUFFICES ASSUME Init PROVE NumberInv
  OBVIOUS
<1>1. Types
  BY TypesInit
<1>2. ConfigsInLine /\ CheckpointsInLine
  BY ConfigsInit, CheckpointsInit
<1>3. \A d, a \in Devices : within(state[d], shown(a), a) /\ within(durable[d], shown(a), a)
                            /\ within(shown(a), state[a], a)
  BY DEF Init, shown, within
<1>4. \A a \in Devices : Shows(a)
  BY <1>3 DEF Shows
<1>5. StrangersSilent /\ SignersStore
  BY DEF Init, StrangersSilent, SignersStore
<1>6. Unique
  <2>1. \A d \in Devices : state[d].ops = {} /\ durable[d].ops = {}
    BY DEF Init, GenesisState
  <2>2. written = {} /\ GoodOperations(written)
    BY <1>1 DEF Init, Types
  <2>3. \A p \in everywhere : p.author \in Devices /\ p = NoOperation(p.author)
    BY <1>1, <2>2, NamedEverywhere DEF headsOf
  <2>4. \A p, q \in everywhere : p.author = q.author => p = q
    BY <2>3
  <2> QED BY <2>4 DEF Unique
<1> QED BY <1>2, <1>4, <1>5, <1>6 DEF NumberInv, Numbered

LEMMA NumberedStep ==
  ASSUME Types, NumberInv, [Next]_vars
  PROVE  NumberInv'
<1>1. scenario' = scenario
  BY EnvironmentStep
<1>2. ConfigsInLine /\ ConfigsInLine' /\ SignersStore /\ SignersStore'
  BY ConfigsStep, SignersStoreStep DEF NumberInv
<1>3. OneSigner' => OneSigner /\ CheckpointsInLine /\ CheckpointsInLine'
  BY <1>2, OneSignerStays, CheckpointsStep DEF NumberInv
<1>4. ASSUME OneSigner', NoneReadmitted' PROVE Numbered'
  <2>1. NoneReadmitted /\ CheckpointsInLine /\ Numbered
    BY <1>1, <1>3, <1>4 DEF NoneReadmitted, NumberInv
  <2>2. \A a \in Devices : remembers(a)' => Shows(a)'
    BY <1>2, <2>1, ShowsStep DEF Numbered
  <2>3. Unique' /\ StrangersSilent'
    BY <1>2, <2>1, UniqueStep, StrangersStep DEF Numbered
  <2> QED BY <2>2, <2>3 DEF Numbered
<1> QED BY <1>2, <1>3, <1>4 DEF NumberInv

\* Where one device signs the checkpoints and remembers them, and nobody is removed and
\* admitted anew, the devices that hold a number of an author hold the same operation,
\* whatever the author lost with its power.
THEOREM NumbersNameOne == Spec => [](OneSigner /\ NoneReadmitted => NumberedOnce)
<1>1. Types /\ NumberInv /\ [Next]_vars => NumberInv'
  BY NumberedStep
<1>2. Types /\ NumberInv => (OneSigner /\ NoneReadmitted => NumberedOnce)
  <2> SUFFICES ASSUME Types, Unique PROVE NumberedOnce
    BY DEF NumberInv, Numbered
  <2>1. \A d \in Devices : positions(d) \subseteq everywhere
    <3> SUFFICES ASSUME NEW d \in Devices, NEW p \in positions(d) PROVE p \in named(state[d])
      BY DEF everywhere, names
    <3>1. DOMAIN state[d].checkpoint.authors = Devices
      BY DEF Types, StatesTyped, GoodState, GoodCheckpoint
    <3>2. CASE p \in Range(state[d].checkpoint.authors)
      <4>1. PICK a \in Devices : p = state[d].checkpoint.authors[a]
        BY <3>1, <3>2 DEF Range
      <4> QED BY <4>1 DEF named
    <3>3. CASE p \in {position(op) : op \in state[d].ops}
      BY <3>3 DEF named
    <3> QED BY <3>2, <3>3 DEF positions
  <2>2. UNION {positions(d) : d \in Devices} \subseteq everywhere
    BY <2>1
  <2> QED BY <2>2 DEF Unique, NumberedOnce
<1> QED BY <1>1, <1>2, NumberedInit, TypesInvariant, PTL DEF Spec
=============================================================================
