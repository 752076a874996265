---------------------------- MODULE OperationLog ----------------------------
(***************************************************************************)
(* The operations of one shared object on several devices: writing and     *)
(* acknowledging, importing a peer's state, placing operations as the      *)
(* sequencer, replaying the order into the body, and checkpointing the     *)
(* stable prefix. Owners change the configuration meanwhile: the trimming  *)
(* roster, the sequencer and the participants. A device may restart, lose  *)
(* power before what it wrote is on its disk, or be restored from the copy *)
(* it had at genesis.                                                      *)
(*                                                                         *)
(* The configuration chain is linear here (ConfigMerge models forks), and  *)
(* an owner signs checkpoints alone (CheckpointChain models the rest).     *)
(***************************************************************************)
EXTENDS OperationOrder

CONSTANTS
  Scenarios,     \* what may happen in a behaviour, see ScenarioOK
  MinCheckpointOperations,
  MaxOperations, \* the operations a state holds at most
  MaxConfig      \* bound: configurations after genesis

\* The configuration of genesis: whoever it names, nothing is dropped, removed or
\* ordered yet.
GenesisConfig(cfg) ==
  /\ cfg.seqno = 0 /\ cfg.start = [height |-> 0] /\ cfg.dropped = {}
  /\ cfg.writers \in Seq(Devices) /\ IsInjective(cfg.writers) /\ cfg.owners \subseteq Range(cfg.writers)
  /\ cfg.sequencer \in Devices \cup {None}
  /\ cfg.removed = [d \in Devices |-> 0]
  /\ DOMAIN cfg = {"seqno", "writers", "owners", "dropped", "sequencer", "start", "removed"}

\* A scenario has the configuration an object starts from, the kinds of changes
\* owners may make to it, whom they may appoint, how many edits each device
\* writes and how many operations all write, which replay into a body, whether
\* a step of a body may stop early, how many restarts there may be, the devices
\* whose restart may be a loss of power, while no config changes, and those that
\* may be restored from their copy of genesis.
ScenarioOK(c) ==
  /\ GenesisConfig(c.config)
  /\ c.changes \subseteq {"sequencer", "roster", "remove", "add"}
  /\ c.appointees \subseteq Devices \cup {None}
  /\ c.edits \in [Devices -> Nat] /\ c.written \in Nat /\ c.restarts \in Nat
  /\ c.bodies \subseteq Devices /\ c.interrupted \in BOOLEAN
  /\ c.restored \subseteq Devices /\ c.losing \subseteq Devices
  /\ c.losing # {} => c.changes = {}

ASSUME LogAssumption ==
  /\ \A c \in Scenarios : ScenarioOK(c)
  /\ MinCheckpointOperations \in Nat \ {0}
  /\ MaxOperations \in Nat /\ MaxConfig \in Nat

VARIABLES
  scenario, \* what may happen
  state,    \* the SOState each device holds
  durable,  \* the state on the disk of each device that may lose power
  body,     \* what each BodyDriver holds
  storing,  \* the checkpoint each device stores in the background
  intent,   \* the config change each owner prepared from a state it read
  written,  \* history: every operation ever signed
  restarts, \* restarts so far
  restored  \* the devices restored so far

log == <<state, body, storing, intent, written>>
environment == <<scenario, durable, restarts, restored>>
vars == <<log, environment>>

Nothing == [nothing |-> TRUE]

\* The state data of a checkpoint is the sequence of edits it carries.
GenesisCheckpoint ==
  [height |-> 0, authors |-> [d \in Devices |-> NoOperation(d)],
   sequence |-> NoPosition, data |-> <<>>]
GenesisState(config) ==
  [config |-> config, checkpoint |-> GenesisCheckpoint, ops |-> {}, sequence |-> {}]

\* The body's driver before its first step: nothing installed, no set read.
Detached == [installed |-> Nothing, set |-> Nothing, positions |-> <<>>]

Init ==
  /\ scenario \in Scenarios
  /\ state = [d \in Devices |-> GenesisState(scenario.config)]
  /\ durable = state
  /\ body = [d \in Devices |-> Detached]
  /\ storing = [d \in Devices |-> Nothing]
  /\ intent = [d \in Devices |-> Nothing]
  /\ written = {}
  /\ restarts = 0
  /\ restored = {}

-----------------------------------------------------------------------------
(* Operations and positions.                                               *)

AddOperation(s, op) ==
  IF Covers(s.checkpoint, position(op)) THEN s ELSE [s EXCEPT !.ops = @ \cup {op}]

\* A position above the checkpoint that the start or the sequencer accounts for.
accounted(s, r) ==
  /\ r.height > s.checkpoint.sequence.height
  /\ r.height <= s.config.start.height \/ r.signer = s.config.sequencer

\* Whether s stays within the counts a stored state may have.
fits(s) == Cardinality(s.ops) <= MaxOperations /\ Cardinality(s.sequence) <= MaxOperations

\* Whether d, as the sequencer, may extend the sequence.
extends(s, d) ==
  LET placed == sequenced(s)
  IN /\ s.config.sequencer = d
     /\ placed.complete
     /\ placed.tail.height >= s.config.start.height
     /\ ~\E r \in s.sequence : r.signer = d /\ r.height > placed.tail.height

\* The sequencer signs a position for each operation the sequence lacks.
sequenceOperations(s, d) ==
  LET placed == sequenced(s)
      order == Order(s)
      rest == SubSeq(order, Len(placed.order) + 1, Len(order))
      signed[i \in 0..Len(rest)] ==
        IF i = 0 THEN placed.tail
        ELSE [signer |-> d, height |-> placed.tail.height + i,
              prev |-> signed[i - 1], op |-> position(rest[i])]
  IN IF extends(s, d)
     THEN [s EXCEPT !.sequence = @ \cup {signed[i] : i \in 1..Len(rest)}]
     ELSE s

-----------------------------------------------------------------------------
(* Writing. AddLocalOperation holds the lock from reading the heads to the *)
(* write, and places the operation in the same write.                      *)

\* Only the byte order of hashes matters. Bound: a new hash sorts below or
\* above every earlier one.
newHashes ==
  LET used == {op.hash : op \in written}
  IN IF used = {} THEN {0} ELSE {Min(used) - 1, Max(used) + 1}

\* What writing the operation op leaves, the sequencer placing it at once.
wrote(s, d, op) == sequenceOperations(AddOperation(s, op), d)

AddLocalOperation(d, ack) ==
  /\ d \in Writers(state[d].config)
  /\ Cardinality(written) < scenario.written
  /\ \E prev \in AuthorHeads(state[d], d), hash \in newHashes :
       \E op \in {[author |-> d, nonce |-> prev.nonce + 1, hash |-> hash, prev |-> prev,
                    parents |-> Heads(state[d]) \ {prev}, ack |-> ack]} :
         /\ written' = written \cup {op}
         /\ state' = [state EXCEPT ![d] = wrote(state[d], d, op)]
         /\ fits(state'[d])
  /\ UNCHANGED <<body, storing, intent, environment>>

Write(d) ==
  /\ Cardinality({op \in written : op.author = d /\ ~op.ack}) < scenario.edits[d]
  /\ AddLocalOperation(d, FALSE)

Acknowledge(d) ==
  /\ d \in Writers(state[d].config)
  /\ \E order \in {Order(state[d])} : NeedsAcknowledgment(state[d], order, d)
  /\ AddLocalOperation(d, TRUE)

SequenceOperations(d) ==
  \E next \in {sequenceOperations(state[d], d)} :
    /\ next # state[d] /\ fits(next)
    /\ state' = [state EXCEPT ![d] = next]
    /\ UNCHANGED <<body, storing, intent, written, environment>>

-----------------------------------------------------------------------------
(* Importing a peer's state. A peer sends a state once it is durable.      *)

\* Mutated form of shown: a peer sends what it holds at once.
shownAtOnce(d) == state[d]

\* What d sends of its state.
shown(d) == IF d \in scenario.losing THEN durable[d] ELSE state[d]

\* What d wrote reaches its disk.
Flush(d) ==
  /\ d \in scenario.losing /\ durable[d] # state[d]
  /\ durable' = [durable EXCEPT ![d] = state[d]]
  /\ UNCHANGED <<log, scenario, restarts, restored>>

\* Two checkpoints of one height conflict.
conflicts(s, next) == s.checkpoint.height = next.height /\ s.checkpoint # next

\* Mutated form of adoptCheckpoint: the operations a checkpoint covers stay in the set.
adoptWithOperations(s, next) ==
  IF next.height <= s.checkpoint.height THEN s ELSE [s EXCEPT !.checkpoint = next]

adoptCheckpoint(s, next) ==
  LET kept == [s EXCEPT !.checkpoint = next,
                        !.ops = {op \in @ : ~Covers(next, position(op))}]
  IN IF next.height <= s.checkpoint.height THEN s
     ELSE [kept EXCEPT !.sequence = {r \in @ : accounted(kept, r)}]

\* Mutated form of mergeSnapshot: the peer's operations replace the held ones.
mergeReplacing(s, candidate) ==
  LET adopted == adoptCheckpoint([s EXCEPT !.config = candidate.config],
                                 candidate.checkpoint)
  IN [adopted EXCEPT
        !.ops = {op \in candidate.ops : ~Covers(adopted.checkpoint, position(op))},
        !.sequence = @ \cup {r \in candidate.sequence : accounted(adopted, r)}]

mergeSnapshot(s, candidate) ==
  LET adopted == adoptCheckpoint([s EXCEPT !.config = candidate.config],
                                 candidate.checkpoint)
  IN [adopted EXCEPT
        !.ops = @ \cup {op \in candidate.ops : ~Covers(adopted.checkpoint, position(op))},
        !.sequence = @ \cup {r \in candidate.sequence : accounted(adopted, r)}]

ImportPeerSnapshot(d, from) ==
  /\ shown(from).config.seqno >= state[d].config.seqno
  /\ d \in Writers(shown(from).config)
  /\ ~conflicts(state[d], shown(from).checkpoint)
  /\ \E next \in {mergeSnapshot(state[d], shown(from))} :
       /\ next # state[d] /\ fits(next)
       /\ state' = [state EXCEPT ![d] = next]
  /\ UNCHANGED <<body, storing, intent, written, environment>>

\* A device outside the config of genesis holds nothing until it imports.
holdsObject(d) == d \in Writers(scenario.config) \/ state[d] # GenesisState(scenario.config)

\* A device that the peer's config removed keeps only that config.
ImportRemoval(d, from) ==
  /\ holdsObject(d)
  /\ shown(from).config.seqno > state[d].config.seqno
  /\ d \notin Writers(shown(from).config)
  /\ state' = [state EXCEPT ![d].config = shown(from).config, ![d].ops = {}]
  /\ UNCHANGED <<body, storing, intent, written, environment>>

-----------------------------------------------------------------------------
(* Changing the configuration: an owner reads its state and signs a change *)
(* of it, which applies unless the config head moved meanwhile.            *)

Prepare(d, next) ==
  /\ isOwnerPeer(state[d].config, d)
  /\ intent[d] = Nothing
  /\ state[d].config.seqno < MaxConfig
  /\ intent' = [intent EXCEPT ![d] = [next EXCEPT !.seqno = @ + 1]]
  /\ UNCHANGED <<state, body, storing, written, environment>>

SetSOSequencer(d) ==
  /\ "sequencer" \in scenario.changes
  /\ \E p \in scenario.appointees \ {state[d].config.sequencer} :
       /\ p # None => p \in Writers(state[d].config)
       /\ Prepare(d, [state[d].config EXCEPT !.sequencer = p, !.start = SequenceTail(state[d])])

MaintainRoster(d) ==
  /\ "roster" \in scenario.changes
  /\ \E order \in {Order(state[d])} :
     \E next \in {nextRosterDropped(state[d], order, d)} :
       /\ next # state[d].config.dropped
       /\ Prepare(d, [state[d].config EXCEPT !.dropped = next])

\* The last operation held from the removed writer still applies.
pin(s, w) ==
  LET head == CHOOSE h \in AuthorHeads(s, w) : TRUE
  IN IF Covers(s.checkpoint, head) THEN 0 ELSE head.nonce

RemoveSOParticipant(d) ==
  LET cfg == state[d].config
  IN \E i \in {j \in DOMAIN cfg.writers : cfg.writers[j] \notin cfg.owners} :
       /\ "remove" \in scenario.changes
       /\ \E w \in {cfg.writers[i]} :
            Prepare(d, [cfg EXCEPT
              !.writers = RemoveAt(@, i),
              !.dropped = @ \ {w},
              !.removed = [@ EXCEPT ![w] = pin(state[d], w)]])

AddSOParticipant(d) ==
  LET cfg == state[d].config
  IN \E w \in Devices \ Writers(cfg) :
       /\ "add" \in scenario.changes
       /\ Prepare(d, [cfg EXCEPT !.writers = Append(@, w)])

ApplyConfigChange(d) ==
  LET next == intent[d]
      newest == \A e \in Devices : state[e].config.seqno <= state[d].config.seqno
  IN /\ next # Nothing
     /\ intent' = [intent EXCEPT ![d] = Nothing]
     /\ IF next.seqno = state[d].config.seqno + 1
        THEN newest /\ state' = [state EXCEPT ![d].config = next]
        ELSE state' = state
     /\ UNCHANGED <<body, storing, written, environment>>

-----------------------------------------------------------------------------
(* The body. A position remembers whether replay refused its operation.    *)

AdmitsOperation(cfg, op) ==
  op.author \in Writers(cfg) \/ op.nonce <= cfg.removed[op.author]

\* The edits that leave their mark on the body.
replayed(positions) ==
  LET marks[i \in 0..Len(positions)] ==
        IF i = 0 THEN <<>>
        ELSE IF positions[i].op.ack \/ positions[i].refused THEN marks[i - 1]
        ELSE Append(marks[i - 1], position(positions[i].op))
  IN marks[Len(positions)]

apply(s, op) ==
  [op |-> op, refused |-> Equivocated(s, op) \/ ~AdmitsOperation(s.config, op)]

\* The state of the body after the first n operations above its checkpoint.
Root(b, n) == b.installed.data \o replayed(SubSeq(b.positions, 1, n))

hashes(b) == [i \in DOMAIN b.positions |-> b.positions[i].op]

\* How many of the body's positions next covers first, if it left the body
\* in the state next carries.
kept(b, next) ==
  IF b.installed = Nothing \/ b.set = Nothing THEN {}
  ELSE {n \in {CoveredPrefix([checkpoint |-> b.set], hashes(b), next)} :
          n >= 0 /\ Root(b, n) = next.data}

install(b, next) ==
  IF b.installed = next THEN b
  ELSE [b EXCEPT !.installed = next,
                 !.positions = IF kept(b, next) = {} THEN <<>>
                               ELSE SubSeq(@, Max(kept(b, next)) + 1, Len(@))]

follows(s, order, d) ==
  /\ Leader(s.config) # None
  /\ ~isOwnerPeer(s.config, d)
  /\ ~\E op \in Range(order) : op.author = d /\ ~op.ack

\* The checkpoint d owes over the stable prefix its body applied.
checkpoint(s, stable, d, b) ==
  LET enough == IF Leader(s.config) = d THEN 1 ELSE MinCheckpointOperations
  IN IF /\ storing[d] = Nothing
        /\ Checkpointer(s.config) = d
        /\ Len(stable) >= enough /\ Len(b.positions) >= Len(stable)
     THEN [prefix |-> stable, data |-> Root(b, Len(stable)), height |-> s.checkpoint.height]
     ELSE storing[d]

\* Mutated form of sharedPrefix: as many positions as the order has are kept, in whatever order.
sharedLength(b, order) == Min({Len(b.positions), Len(order)})

\* How many of the body's first positions the order still places first.
sharedPrefix(b, order) ==
  LET least(m, n) == IF m < n THEN m ELSE n
      same == {n \in 0..least(Len(order), Len(b.positions)) :
                 \A i \in 1..n : b.positions[i].op = order[i]}
  IN Max(same)

\* What a step leaves of the body b: the positions up to n of the order, the
\* first keep of them as they were.
replaying(b, s, order, keep, n) ==
  [b EXCEPT !.positions = [i \in 1..n |-> IF i <= keep THEN @[i] ELSE apply(s, order[i])],
            !.set = s.checkpoint]

following(b) == [b EXCEPT !.positions = <<>>]

Step(d) ==
  /\ d \in scenario.bodies
  /\ UNCHANGED <<state, intent, written, environment>>
  /\ \E order \in {Order(state[d])}, b \in {install(body[d], state[d].checkpoint)} :
       \/ /\ follows(state[d], order, d)
          /\ body' = [body EXCEPT ![d] = following(b)]
          /\ UNCHANGED storing
       \/ /\ ~follows(state[d], order, d)
          /\ \E keep \in {sharedPrefix(b, order)} : \E n \in keep..Len(order) :
             \E next \in {replaying(b, state[d], order, keep, n)},
                stable \in {StablePoint(state[d], order)} :
               /\ n < Len(order) => scenario.interrupted
               /\ body' = [body EXCEPT ![d] = next]
               /\ storing' = IF n < Len(order) THEN storing
                             ELSE [storing EXCEPT ![d] = checkpoint(state[d], stable, d, next)]
  /\ <<body, storing>>' # <<body, storing>>

-----------------------------------------------------------------------------
(* Signing the stored checkpoint on the state held when it is stored.      *)

current(s, stable, c) ==
  /\ s.checkpoint.height = c.height
  /\ IsPrefix(c.prefix, stable)

stableCheckpoint(s, c) ==
  [height |-> c.height + 1, authors |-> cover(s, c.prefix),
   sequence |-> SequenceHead(s, c.prefix), data |-> c.data]

AdoptCheckpoint(d) ==
  /\ storing[d] # Nothing
  /\ storing' = [storing EXCEPT ![d] = Nothing]
  /\ \E order \in {Order(state[d])} : \E stable \in {StablePoint(state[d], order)} :
       IF current(state[d], stable, storing[d]) /\ isOwnerPeer(state[d].config, d)
       THEN state' = [state EXCEPT ![d] = adoptCheckpoint(@, stableCheckpoint(@, storing[d]))]
       ELSE UNCHANGED state
  /\ UNCHANGED <<body, intent, written, environment>>

-----------------------------------------------------------------------------
(* Losing memory: a restart keeps the state, a loss of power what is on    *)
(* the disk, a restore neither.                                            *)

Restart(d) ==
  /\ body[d] # Detached \/ storing[d] # Nothing
  /\ restarts < scenario.restarts
  /\ restarts' = restarts + 1
  /\ body' = [body EXCEPT ![d] = Detached]
  /\ storing' = [storing EXCEPT ![d] = Nothing]
  /\ UNCHANGED <<state, durable, intent, written, scenario, restored>>

LosePower(d) ==
  /\ d \in scenario.losing /\ durable[d] # state[d]
  /\ restarts < scenario.restarts
  /\ restarts' = restarts + 1
  /\ state' = [state EXCEPT ![d] = durable[d]]
  /\ body' = [body EXCEPT ![d] = Detached]
  /\ storing' = [storing EXCEPT ![d] = Nothing]
  /\ UNCHANGED <<durable, intent, written, scenario, restored>>

Restore(d) ==
  /\ d \in scenario.restored \ restored
  /\ restored' = restored \cup {d}
  /\ state' = [state EXCEPT ![d] = GenesisState(scenario.config)]
  /\ durable' = [durable EXCEPT ![d] = state'[d]]
  /\ intent' = [intent EXCEPT ![d] = Nothing]
  /\ body' = [body EXCEPT ![d] = Detached]
  /\ storing' = [storing EXCEPT ![d] = Nothing]
  /\ UNCHANGED <<written, scenario, restarts>>

Next ==
  \/ \E d \in Devices :
       \/ Write(d) \/ Acknowledge(d) \/ SequenceOperations(d)
       \/ SetSOSequencer(d) \/ MaintainRoster(d)
       \/ RemoveSOParticipant(d) \/ AddSOParticipant(d) \/ ApplyConfigChange(d)
       \/ Restore(d)
  \/ \E d \in Devices, from \in Devices : ImportPeerSnapshot(d, from) \/ ImportRemoval(d, from)
  \/ \E d \in Devices :
       Step(d) \/ AdoptCheckpoint(d) \/ Flush(d) \/ Restart(d) \/ LosePower(d)

Spec == Init /\ [][Next]_vars

\* What the devices do without being asked: store the checkpoints they owe,
\* import what their peers hold, place and acknowledge it, and replay it.
Upkeep ==
  \/ \E d \in Devices : AdoptCheckpoint(d)
  \/ \E d, from \in Devices : ImportPeerSnapshot(d, from)
  \/ \E d \in Devices : SequenceOperations(d) \/ Acknowledge(d) \/ Step(d)

\* Some upkeep happens while any is left to do.
FairSpec == Spec /\ WF_vars(Upkeep)

-----------------------------------------------------------------------------
(* Properties.                                                             *)

Position == [author : Devices, nonce : Nat, hash : Int]
Checkpoints == {state[d].checkpoint : d \in Devices}

\* A replica holds signed operations its checkpoint does not cover, positions
\* above the checkpoint that the configuration accounts for, and a checkpoint
\* over signed operations; a body's positions are signed operations.
TypeOK ==
  /\ \A d \in Devices : LET s == state[d] IN
       /\ s.ops \subseteq {op \in written : ~Covers(s.checkpoint, position(op))}
       /\ \A r \in s.sequence : r.height > s.checkpoint.sequence.height /\ r.op \in {position(op) : op \in written}
       /\ \A a \in Devices : s.checkpoint.authors[a] \in
            {NoOperation(a)} \cup {position(op) : op \in {w \in written : w.author = a}}
       /\ fits(s)
       /\ intent[d] = Nothing \/ intent[d].seqno <= MaxConfig
  /\ \A d \in Devices :
       /\ \A i \in DOMAIN body[d].positions : body[d].positions[i].op \in written
       /\ storing[d] = Nothing \/ Range(storing[d].prefix) \subseteq written
  /\ \A op \in written : op.parents \cup {op.prev} \subseteq Position
  /\ scenario \in Scenarios /\ restored \subseteq scenario.restored
  /\ \A d \in Devices : durable[d].ops \subseteq written

\* The author signed nothing else at the operation's nonce, as every device
\* does that has not lost its memory.
Single(op) ==
  \A other \in written : other.author = op.author /\ other.nonce = op.nonce => other = op

\* A checkpoint covers an edit of a writer exactly when the state it carries
\* has the edit's mark, once: none is lost below a checkpoint and none is
\* replayed twice (stable-point.go cover, body-driver.go checkpoint).
CoversWhatItCarries ==
  \A d \in Devices, op \in {w \in written : ~w.ack /\ Single(w)} :
    LET carried == state[d].checkpoint
        marks == {i \in DOMAIN carried.data : carried.data[i] = position(op)}
    IN /\ Cardinality(marks) <= 1
       /\ marks # {} => Covers(carried, position(op))
       /\ Covers(carried, position(op)) /\ op.author \in Writers(state[d].config) => marks # {}

\* A device that was neither removed nor restored, and does not lose power,
\* holds each edit it wrote, or a checkpoint whose state carries it, whatever it
\* imported since
\* (operation-log.go insert, state.go adoptCheckpoint).
OwnEditsKept ==
  \A op \in {w \in written : ~w.ack} :
    LET s == state[op.author]
    IN \/ op \in s.ops \/ position(op) \in Range(s.checkpoint.data)
       \/ op.author \in restored \cup scenario.losing \/ op.author \notin Writers(s.config)

\* The positions of operations that the device holds or has a checkpoint over.
positions(d) ==
  {position(op) : op \in state[d].ops} \cup Range(state[d].checkpoint.authors)

\* No two devices ever hold different operations of an author at one nonce: an
\* author that loses power numbers again only what nobody received
\* (host.go:128-130, sync/catchup.go:452).
NumberedOnce ==
  \A p, q \in UNION {positions(d) : d \in Devices} :
    p.author = q.author /\ p.nonce = q.nonce => p = q \/ p.author \in restored

\* No device lost its memory and owners make none of these changes.
calm(kinds) == restored = {} /\ scenario.changes \cap kinds = {}

\* The edits a replica holds as settled: those its checkpoint carries, then
\* those replay applies of its stable prefix.
settled(s) ==
  LET stable == StablePoint(s, Order(s))
  IN s.checkpoint.data \o replayed([i \in DOMAIN stable |-> apply(s, stable[i])])

\* What replaying the held state from its checkpoint yields.
replay(s) ==
  LET order == Order(s)
  IN s.checkpoint.data \o replayed([i \in DOMAIN order |-> apply(s, order[i])])

\* What is stable on one device has the same place on every device. A move of
\* the sequencer is to leave the order a device holds as it is
\* (sequencer.go:38-40).
SettledAgree ==
  \A p, q \in {settled(state[d]) : d \in Devices} : IsPrefix(p, q) \/ IsPrefix(q, p)

\* It is so while every writer stays on the roster and the sequencer stays
\* (stable-point.go:39-46).
StableAgree == calm({"remove", "roster", "sequencer"}) => SettledAgree

\* What is stable on a device keeps its place there, likewise. A writer that joins holds
\* the stable prefix back until it writes (stable-point.go:69-70), but not the order.
StableFinal ==
  [][calm({"remove", "roster", "sequencer"})' /\ scenario.losing = {} =>
       \A d \in Devices : state'[d] # state[d] =>
         \E before \in {settled(state[d])}, after \in {settled(state'[d])} :
           \/ IsPrefix(before, after)
           \/ "add" \in scenario.changes /\ IsPrefix(before, replay(state'[d]))]_vars

\* A replica at its checkpoint whose body replayed the whole order.
Replayed(d, b) ==
  /\ b.installed = state[d].checkpoint
  /\ b.set = state[d].checkpoint
  /\ Len(b.positions) = Len(Order(state[d]))

\* A step that replays the whole order leaves the body exactly where replaying
\* from the checkpoint anew would, whatever the body applied before: positions
\* kept across a checkpoint or a reordering are the right ones, while no writer
\* is removed and no device was restored
\* (body-driver.go install, Step).
StepIsReplay ==
  [][\A d \in Devices :
       \E b \in {body'[d]} :
         b # body[d] /\ Replayed(d, b) /\ calm({"remove"})
           => Root(b, Len(b.positions)) = replay(state[d])]_vars

\* The order a body applied is the one every member computes: an edit replay
\* refuses has no mark (fold.go:151-156, body.go OrderedOperation.Refused).
BodyRefuses ==
  \A d \in Devices :
    Replayed(d, body[d]) /\ hashes(body[d]) = Order(state[d])
      => Root(body[d], Len(body[d].positions)) = replay(state[d])

\* A writer acknowledges at most once for each edit of another writer and each
\* question of the checkpointer, which only edits make it ask, so
\* acknowledgments never answer each other without end (stable-point.go:131-166).
AnswersBounded ==
  \A d \in Devices :
    LET answers == {op \in written : op.ack /\ op.author = d}
        asked == {op \in written : op.author # d /\ (~op.ack \/ op.author = Checkpointer(state[d].config))}
    IN restored \cup scenario.losing = {} /\ scenario.changes = {} => Cardinality(answers) <= Cardinality(asked)

\* With nothing changed or restored, and below the bound, every edit is eventually below the
\* checkpoint of every writer, whatever interleaving of edits, acknowledgments
\* and restarts came before. Where the order is merged, one may stay above it
\* once every writer built on it, behind an acknowledgment that the order
\* places first and that nothing asks anyone to answer
\* (acknowledge.go, stable-point.go:131-166, body-driver.go checkpoint).
EditsSettle ==
  LET quiet == scenario.changes = {} /\ scenario.restored \cup scenario.losing = {}
      below == Cardinality(written) < scenario.written
  IN <>[](quiet /\ below =>
         \A d \in Writers(scenario.config), op \in {w \in written : ~w.ack} :
           \/ Covers(state[d].checkpoint, position(op))
           \/ /\ scenario.config.sequencer = None
              /\ \E order \in {Order(state[d])} :
                   /\ order # <<>> /\ Head(order).ack
                   /\ \A w \in Writers(scenario.config) : op \in builtOn(state[d], order, w))
=============================================================================
