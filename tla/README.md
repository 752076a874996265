# A verification project for Spacewave

Spacewave keeps shared objects on the devices of the people who share them.
Each device holds a signed state of the object: the configuration chain that
says who may do what, the operations the participants wrote, the checkpoints
that fold the operations, the keys, and, when the participants control the
object as a group, the messages of the decision they are taking. There is no
server that must be right: a device accepts a state because of what is signed
in it. This directory holds TLA+ modules that model the parts of that system
where signatures alone do not make it right, the TLC runs that check them, and
proofs that TLAPS checks.

Paths are relative to the repository's `src/`; `sobject/` stands for
`core/sobject/`.

Contents: 1 the system, 2 the plan, 3 the modules and the code, 4 the runs,
5 disagreements with the code, 6 fairness, 7 the proofs, 8 what is not modelled.

## 1. The system

### The shared object and its parts

| component | state it keeps | operations | what makes it correct |
|---|---|---|---|
| group control: rounds and driver (`sobject/rounds.go`, `control-driver.go`, `control-state.go`) | the control messages of the open decision (persisted); round and timers (memory) | compute a step, sign and add a message under the lock, arm and fire timeouts, apply a decision, import, restart | voters apply one value for a height and config; a voter keeps its lock over restarts and dropped rounds; a commit verifies everywhere; everyone decides |
| requests, agreements and records (`control-request.go`) | agreements in the state | ask, approve, judge a record, change who controls, seal a checkpoint | a record is decided only on agreements of a quorum; a change that waits was really agreed to |
| config chain (`config-chain.go`, `control.go`) | config and its head hash, retained changes | sign a change, verify one under the config before it, apply | one chain; only owners, or a quorum, extend it |
| checkpoint chain (`checkpoint.go`, `state.go`, `stable-point.go`) | the held checkpoint and its signatures | build, sign, co-sign, validate the authority of, adopt | one chain; the held config vouches for the held checkpoint |
| host (`host.go`) | the state, under the provider's lock | update, import a snapshot, import config changes alone, install or merge an invitation | a refused candidate leaves no trace; a device never goes back |
| config branches and merge (`config-merge.go`, `host-merge.go`) | branches of retained changes | decide which head wins, replay the other branch | all devices end on one head, unless the chains fork below a checkpoint; no change is lost or made twice |
| operation log and stable point (`operation-log.go`, `stable-point.go`, `fold.go`) | operations, by author and nonce, over a checkpoint | add, order, acknowledge, fold, cover | every replica computes one order; what is stable never reorders |
| sequencer (`sequence.go`, `sequencer.go`) | positions one device gave to operations | place, replace the sequencer | no two operations at one position |
| trimming roster (`roster.go`) | dropped peers, in the config | drop a silent writer, take it back | the stable point moves though a writer is away |
| body host and body driver (`body-host.go`, `body-driver.go`, `body-checkpointer.go`) | applied operations, the checkpoint being stored | attach, release, apply, unwind, store and sign a checkpoint in the background | what a body applied is what the order says; work of a released body does no harm |
| keys (`key-rotation.go`, `grant-keyring.go`) | key epochs and grants | grant, rotate, drop, wrap again | a removed reader gets no later key; a remaining one loses none |
| participants and ownership (`remove-participant.go`, `transfer-ownership.go`, `leave.go`, `ownership.go`) | in the config; departure in the head change | add, remove, promote, hand over, leave, recover | an owner always remains, and what a departed peer vouched for is vouched for again |
| invites (`invite.go`) | invites and their uses | create, use, revoke | no more uses than allowed |
| sync (`sobject/sync/`) | sessions, the peer's pinned snapshot | exchange states, page through history, acknowledge | what is sent is durable; a slow peer neither blocks nor misses a state |

They interact as follows. Everything a device knows of an object is one
`SOState`, which only changes under the provider's lock (`SOHost.UpdateSOState`).
The drivers (`Control`, `BodyDriver`) watch it, compute outside the lock from a
snapshot, and come back with a change that is checked again under the lock. Sync
sessions exchange whole states: `ImportPeerSnapshot` verifies a candidate
against the held state and merges it. Decisions, checkpoints and config changes
are therefore the same whether they are made here or imported, and the device
cannot tell in which order others saw them.

What is hard about it: a step computed from a state that moved on; a driver
that is replaced while it writes; a restart that forgets rounds and timers; caps
that drop messages; states that arrive late, out of order and several heights
apart; two owners, or an owner and a group, that act on their own replicas at
the same time; changes of authority, after which an old signature must still be
worth something or no longer be. `PROJECT.json` lists these hazards at their
lines.

### The rest of the repository

The providers put the state on disk and on the wire: `core/provider/local` keeps
it and its replicas, `core/provider/spacewave` writes through a cloud that keeps
one copy, `core/provider/transfer` copies objects between accounts. Beside them
are sessions and pairing (`core/session`, `core/pairing`), the network stack
(`net/`: links, transports, floodsub, signalling), storage (`db/`: volumes,
key-value stores, the log-structured `s4db`, blocks and their collection and
write-back, coordination leases, the object graph and its transactions, block
exchange), the job scheduler (`forge/`), the build tool, plugins and user
interface (`bldr/`, `app/`, `sdk/`). Each is a component of `PROJECT.json`, with
what is planned for it or why it is left out.

## 2. The plan

In this order, the most important behaviour first.

1. **Group decisions** (done): `GroupDecision`, `ControlRounds`,
   `ControlProgress`; proofs of all their safety properties.
2. **The two chains** (done): `SharedHistory`, `CheckpointChain`, which takes the
   promise of `GroupDecision` for each decision and composes decisions, owners
   and the exchange of states; proofs of what holds though owners race, and of the
   refinement of `SharedHistory` where they do not.
3. **The operation log** (done): `OperationOrder`, the order and the stable point
   as functions of a state, and `OperationLog`, the devices that write,
   acknowledge, exchange, sequence, replay and checkpoint over it, with the
   roster, restarts, losses of power and restored copies; proofs of what a state
   holds, of its types, and of what a number names.
4. **Config branches** (done): `ConfigMerge`, owners that extend one config apart,
   the merge of the losing branch, the requests and answers of a sync session,
   leave requests, and the grants of one key epoch that travel with a state;
   proofs of its safety properties.
5. **Keys** (left): later epochs and their rotation, which the cloud host starts,
   and `reconcileGroupGrants`.
6. **Providers** (left): the cloud host that accepts locally and rebases, the
   resumable transfer; invites and their uses.
7. **Beyond shared objects** (left): execution claims of forge, coordination
   leases, write-back and collection of blocks, `s4db`.

Theorems left: of the operation log, that stable prefixes agree while an owner admits
writers or where a device loses power.

## 3. The modules and the code

`PROJECT.json` maps each definition to its lines.

### ControlRounds: one decision of a group

The height, the config and so the voters are constants. For each honest voter:

| variable | in the code |
|---|---|
| `held[v]` | the open decision's messages in v's `SOState.control_messages` |
| `round[v]`, `expired[v]` | `Control`'s round and fired timers, memory only |
| `pending[v]` | the message `step` computed and signed, before `send` gets the host lock |
| `leaving[v]` | the same, of a driver whose body was released: `BodyHost.execute` starts the driver in a goroutine nothing waits for |
| `decision[v]`, `commit[v]` | the applied value and the precommits it was applied with |
| `sent` | history: each message that ever entered its own voter's state, which is what others can receive |

`Step` is `stepRound` with one action for each of its outcomes, in its order:
`Decide`, `SkipRound`, `EndRound`, `Propose`, `Prevote`, `PrevoteTimeout`,
`Precommit`, `PrecommitNil`. A step that waits arms timers (`dueTimers`), which
`Expire` lets pass. A message is computed in one action and added in another
(`Send`), because the code computes from a snapshot and adds under the lock,
where `addOwn` looks at the state again. `Receive` is what `MergeControlMessages`
does with one message of another's state: `AddControlMessage`, with the
proposer check, the evidence cap and the trimming of old rounds.
`ImportDecision` is a decided config or checkpoint arriving in a state.
`Restart` loses what is in memory; `Reattach` releases the body over a live
driver, whose addition completes later (`LateSend`).

Values are hashes, as numbers, since the code picks the smaller of two
proposals of one proposer. Judging a value is a choice in `Judgments`: a valid
value is accepted and an invalid one refused, or, with `MayDefer`, either is
"not known yet", which is what a voter says while its body has not caught up.
Faulty voters are members of the config that sign what they like: they have no
state, and `FaultyMessages` is what they sign. They are in the model because
`rounds.go` is written to tolerate less than a third of the weight.

`GroupDecision` is the promise: each voter applies at most one value, an
acceptable one, the same as the others. `ControlRounds` implements it
(`KeepsPromise`, the refinement maps `decided` to `decision`).
`ControlProgress` adds time and fairness (section 6).

### CheckpointChain: configs and checkpoints over time

Each device holds a config and a checkpoint. Both are hash chains, so they are
modelled as the sequences their hashes name: a config is the sequence of its
records, a checkpoint of its entries. What a config says is a record of
`Contents`: who is a member, who owns, whose departure the change carries, whom
the roster drops, who votes. `signatures[d]` are the owners' signatures on d's
copy of its checkpoint, which its hash does not cover.

| action | in the code |
|---|---|
| `SignChange`, `ApplyChange` | `applyOwnerConfigChange`: an owner seals and signs from the state it read, and applies under the lock or fails. `mayChange` holds what the callers of it allow: promotion, removal by an owner that remains, a hand-over that carries the leave request of its signer (`refuseDepartingSigners`). `coSigned` is the signature part of `pruneRemovedParticipants` |
| `StartCheckpoint`, `AdoptOwn`, `DropOwn` | `BodyDriver.checkpoint`, `storeCheckpoint` and `bodyCheckpointer.adopt` |
| `Agree` | `ChangeSOConfig` under group control, by the voter that asks and by those that approve |
| `Endorse`, `Decide` | `controlJudgment.judgeValue` and `Control.decide`. The rounds between them are `ControlRounds`; here a voter endorses what it judges valid, and applies what a quorum endorsed, one value for each config and height, which is the promise of `GroupDecision` |
| `ImportPeerSnapshot` | `SOHost.ImportPeerSnapshot` and `mergeSnapshot`, once both devices admitted each other (`authorizeParticipants`); `adoptCheckpoint` is `AdoptCheckpoint` |
| `ImportPeerConfig` | the config changes alone, which a device takes from a peer that it refused |
| `ImportRemoval` | the answer to a leave request |
| `InstallInviteSnapshot`, `MergeInviteSnapshot` | accepting an invitation |

A record may make several changes that the code makes one after the other, as
`ChangeSOConfig` takes any next config. Contents are finite, so a scenario lists
those that its history is made of, with the config of genesis, its creator and
the bounds; `Histories` has two, an owner that leaves and a guest that comes and
goes, and TLC takes one at the start. Devices exchange states at any moment;
loss and delay are exchanges that do not happen yet. A device's state is
persisted, so a crash only loses `signing` and `storing`, which `ApplyChange`
(by failing) and `DropOwn` cover.

`SharedHistory` is the abstract specification: what devices hold are prefixes of
one chain of configs and one chain of checkpoints, and each device only moves on.

### OperationOrder and OperationLog: operations, order and body

`OperationOrder` has no variables. A state is a record: the config, the
checkpoint (what it covers of each author, the sequence position it ends at, and
`data`, the edits whose marks the folded state carries), the operations above it
and the sequence records. From it `Order` computes the replay order (the
positions of the sequence first, then the lowest hash whose links are placed),
`StablePoint` its stable prefix, `NeedsAcknowledgment` whether a writer is to
acknowledge, `nextRosterDropped` the roster, and `CoveredPrefix` what of an old
order a checkpoint covers. They are written as functions, some recursive over
sequences of the held operations.

`OperationLog` is the devices over it.

| variable | in the code |
|---|---|
| `state[d]` | `SOState` of d |
| `durable[d]` | the state on the disk of a device that may lose power; its volume reports it by `WaitDurable` |
| `body[d]` | `BodyDriver`: the installed checkpoint, the set last read, the applied positions, each with whether replay refused it |
| `storing[d]` | the checkpoint whose data is stored in the background |
| `intent[d]` | a config change built from a state that was read, before `ApplyConfigChange` takes the lock |
| `written` | history: every operation signed |
| `restarts`, `restored`, `scenario` | bounds, and what the behaviour may do |

| action | in the code |
|---|---|
| `Write`, `Acknowledge` | `WriteOperation` and `Acknowledge` over `SOHost.AddLocalOperation`, which holds the lock from reading the heads to the write, and places the operation when the device is the sequencer |
| `SequenceOperations` | `SOHost.SequenceOperations`, for what arrived from others |
| `ImportPeerSnapshot`, `ImportRemoval` | `mergeSnapshot` with `adoptCheckpoint`; a state that removed the device, which holds the object (`commitPeerSnapshot`). They take `shown(from)`: `writeMessages` captures a state and sends it once it is durable |
| `SetSOSequencer`, `MaintainRoster`, `RemoveSOParticipant`, `AddSOParticipant`, then `ApplyConfigChange` | the owner's change in its two steps; it fails when the config head moved |
| `Step` | `BodyDriver.Step`: install the checkpoint, follow or replay, keep the shared prefix, queue a checkpoint; it may stop after any operation (`interrupted`) |
| `AdoptCheckpoint` | `bodyCheckpointer.adopt`, with its second look at height, prefix and owner |
| `Flush`, `Restart`, `LosePower`, `Restore` | the disk catches up; memory is lost; memory and what was not durable are lost; the state of genesis is back from an old backup |

An edit leaves its position as a mark on the body, an acknowledgment none, and a
refused operation none; the state data of a checkpoint is the sequence of marks.
So "what a checkpoint carries" and "what replay yields" are compared mark by mark.

### ConfigMerge: owners that change the config apart

Here a config is what it says of each peer (owner, reader, none), a record is
named by its sequence number, a rank that stands for the order of hashes, and
its signer, and `records` is all that was ever signed: a device retains those of
its chain and those they absorb.

| variable | in the code |
|---|---|
| `head[d]`, `checkpoint[d]`, `grants[d]` | the config chain hash, the checkpoint with the record it was signed under, and the key grants in d's `SOState` |
| `heard[d]`, `answer[d]` | the advertisements d took in, and the response on its way to it (`syncExchange`) |
| `request[d]` | the signed leave request d retries until it is answered |

| action | in the code |
|---|---|
| `AddSOParticipant`, `RemoveSOParticipants` | the owner's changes with the grants they issue, prune and wrap again |
| `BuildSOLeaveRequest`, `acceptSharedObjectLeave`, `LeaveSharedObject` | asking to leave; an owner that serves it, if no record since did and the peer stayed in; the answer, or its refusal |
| `SignCheckpoint` | a checkpoint, which raises the floor below which a fork may not merge |
| `RequestHistory` | advertisement, request and response: the suffix from the asker's head, or the peer's branch above the asker's floor |
| `ImportPeerSnapshot` | the head extends the held one, or a merge on its way absorbs it (`VerifyConfigChainSuffix`) |
| `MergePeerBranch` | the peer's head wins, and d, an owner there, signs a merge on it that absorbs its own branch |
| `DeclineResponse`, `ImportPeerConfig` | an answer that is stale, refused or of no use; the config alone, for a peer that was removed |

## 4. The runs

| run | question | answer |
|---|---|---|
| `rounds` | Do two honest voters that want different values, one of which restarts, agree in spite of a third that votes for both? | `Agreement`, `VoteLock`, `CommitsVerify`, `TypeOK` hold |
| `overlap` | Does a voter whose body is attached again over a live driver sign twice or disturb a decision, and does a state that keeps one round of each voter stay bounded and resume right, when a faulty voter signs three prevotes for one step? | `OneVotePerSlot`, `DecisionFinal`, `BoundedEvidence`, `ResumesFromHeld` hold |
| `progress` | Does everyone decide, and only what is acceptable, though the first proposer is faulty and judgments may be late? | `EveryoneDecides` and `KeepsPromise` (the refinement of `GroupDecision`) hold under the fairness of section 6 |
| `history` | Is there one history through a hand-over, a removal, a group and back, and with a guest that comes and goes, while devices lag and refused ones adopt configs alone? | all six properties hold |
| `order` | Through edits, acknowledgments, exchange, sequencing, replay, checkpoints, restarts, losses of power, changes of config and a restored device: does every checkpoint carry just what it covers, every author keep its edits, no position get two operations, what is stable stay put and agree, a body equal the replay of its order, and every edit settle, with no endless acknowledging? | all nine properties hold |
| `merge` | Do owners that change the config apart meet at one head, unless one checkpointed in between, with no change lost, made twice or brought back, no merge below a checkpoint, each leave carried out once, and the key for every member? | all seven properties hold |
| `overlap_lock`, `control_race`, `two_checkpointers`, `kept_refused`, `sequencer_race`, `merge_nested` | Does the code do what its comments and tests say? | not in these cases: section 5 |

**Bounds and why they are enough.**

*Rounds.* A quorum is more than two thirds of the weight, so three voters with
weights 2, 1, 1 already have minimal quorums (a with either other voter, b and c
without a are none), a faulty voter below a third, and two honest voters that
can be played against each other. Two rounds are enough for a lock to be taken
and tried, three (`overlap`) for a lock to be carried over a round without it and
for rounds to be dropped with `MaxControlRounds = 1`. `InOrder` lets the messages
of one voter arrive in the order of signing: states are exchanged whole, so a
state that shows a later message of a voter shows the earlier ones, unless it
dropped them. The faulty messages of each run are those its question needs, and
each may reach one voter and not the other.

*Chains.* In `Leaving` four configs let an owner leave, a group decide, and a
peer come back; three checkpoints let a device skip a height, where the link
between checkpoints cannot be checked. In `Guest` the guest joins twice in four
configs. One label for each height is enough, because checkpoints also differ by
author and config. Both let one owner at a time sign, as a hand-over arranges;
what happens otherwise is the subject of `control_race` and `two_checkpointers`.

*Order.* Thirteen scenarios, each small, as every operation multiplies the
interleavings: the order merged, signed by the owner and signed by the other
writer; three writers; a restart with steps that stop early; a loss of power,
with and without a sequencer that loses it; a restored device; and each kind of
config change, with a writer admitted after another has settled edits (`JoinsLater`). Two writers with an edit each, or one with two, and the
acknowledgments these call for (with two writers fewer than the bound of seven
operations, unless the scenario sets a lower one) suffice for acknowledgments to
answer each other, for two checkpoints in a row
and for an order that a late edit changes. Only the order of hashes matters, and
a new one sorts below or above all earlier ones (`newHashes`); with two
operations that are not linked this is every order. `AcknowledgmentLag = 1` and
`MinCheckpointOperations = 1` make acknowledging and checkpointing happen early,
`DropSize = 2` the dropping of a silent writer. `MaxConfig = 1`: one change of
the config after genesis, as chains of changes are the subject of the other
modules. Power is lost where the config does not change.

*Merge.* Two owners that sign up to two changes and one, with either order of
the hashes of a tie, are enough for a fork of unequal or equal lengths, a merge,
a change on top of it and a merge of merges; a reader relays both branches. One
answer at a time is on its way to each device, where the code has one from each peer
it is connected to: an answer is judged by the head held when it arrives, so nothing
depends on others that are on their way. The creator checkpoints, once. A leave is asked for at
the config of genesis. `merge_nested` needs a third owner.

Deadlock is not checked where a bound ends the rounds, chains or operations;
`rounds` is checked for it, since a faulty voter's messages and a restart are
always possible there.

Each property is also shown to depend on the code: `PROJECT.json` names for each
a mutated definition (a dropped check under the lock, a lock trimmed with its
round, operations that stay below a checkpoint, a state sent before it is
durable, a branch that is adopted instead of merged, and so on) under which TLC
finds it violated.

## 5. Disagreements with the code

Each is a run that TLC ends with a counterexample.

- **`overlap_lock`**. When a body is released and another attached, the old
  driver may still wait for the host lock to add a precommit. `send` checks
  again that the slot of that message is free and the decision open, which
  keeps `OneVotePerSlot`, but the new driver prevotes from a state without that
  precommit, so the voter votes against its own lock. `Rounds.lean` and
  `TestStepRoundKeepsLeanRules` say that an honest voter does not. A voter to
  which this happens counts as faulty in the proofs.
- **`control_race`**. The change to group control checks that the sealed
  checkpoint is held by the owner that signs the change, not by the
  checkpointer, which may have signed the next one. That checkpointer keeps it,
  and votes one height above the group.
- **`two_checkpointers`**. Adopting a stored checkpoint looks again at the height,
  the prefix and the owner's authority, not at who is the checkpointer. An owner
  that does not know yet that it was dropped or is removed, or that was storing
  when it handed over, signs one checkpoint and the next owner another. (The
  same lines let a departing owner sign after its transfer applied, although
  `ownership.go` says it "never signs again".)
- **`kept_refused`**. A body keeps the positions that the new order still places
  first, by hash. An operation it applied before it learned that its author was
  removed stays applied, though every other member refuses it.
- **`sequencer_race`**. `SetSOSequencer` reads where the sequence ends outside the
  lock, and only the config head is looked at again. Positions that the outgoing
  sequencer signs meanwhile are ignored under the new config, and an order that
  devices had settled changes.
- **`merge_nested`**. When merges nest and the inner fork is itself part of the
  absorbed branch, `ReadConfigSuffix` finds no way from an absorbed record to the
  head, so a device that holds that record cannot follow.

Four more weaknesses met on the way contradict no comment. An owner that checkpoints a
change it made apart shuts itself off from every branch that forks below, also where
that branch wins; `HeadsMeet` excepts just this. Two are hazards without a property: a merge that removes an owner of the losing branch leaves its readers
behind, and with three owners a branch may be absorbed twice and undo a later
change. The last came up when `NumberedOnce` was proved: a removed participant
drops its operations (`next.Ops = nil`, `host.go:331-336`), so once admitted anew it
numbers from its checkpoint again, while another member may still hold its old
operation under the same number. TLC finds that in a scenario with a removal and an
admission; the scenarios of `order` have one change of the config, and the theorem
says what it assumes (`NoneReadmitted`).

## 6. Fairness

`progress`: `FairSpec` gives weak fairness to the steps, additions and timers of
each honest voter, as `Control.Execute` loops over them as long as its context
lives, and to the receipt of each other's messages and decisions, as sync
sessions send every new state to connected peers. Nothing is assumed of faulty
voters. A timeout grows with its round (`defaultControlTimeout`: two seconds and
one more for each round), so from some round on it outlasts the delays, whatever
they are: `TimelyExpire` lets a timeout of round `SyncRound` or later pass only
when nothing else is left to do and earlier timeouts passed. Before it, timeouts
pass at any moment. `progress` leaves out restarts: a voter that restarts
forever need not decide.

`order`: weak fairness on `Upkeep`, what a mounted object does by itself: the
body's loop steps and stores checkpoints, the acknowledger and the sequencer watch
the state, and sync sessions bring in what peers hold. It is one condition on all
of it (some upkeep happens while any is left), weaker than fairness of each part;
it suffices as each of these steps brings something to an end, and no user's
edit or change of config is assumed to happen.

`merge`: weak fairness on `Exchange`, the requests, answers, imports and merges of
the sessions between connected devices, likewise as one condition. A session that
failed connects again, which `DeclineResponse` does by forgetting what was heard.
No owner is assumed to sign anything but merges, which the code signs unasked. One
condition on all of it is not enough to have the devices meet after an owner refused a
branch from below its checkpoint (`forkBelowCheckpoint`): the refusal ends the stream
that both use, each time anew, and nothing says that the other side gets its answer
before. So `HeadsMeet` excepts that state whichever of the heads wins. When the head of
the owner with the checkpoint loses (two owners each sign a change of genesis, and the
one that checkpoints has the losing hash), no fairness would help.

## 7. The proofs

`ControlRoundsProofs` proves for any finite set of voters, weights, faulty messages,
values, caps and bounds;
`CheckpointChainProofs` and `CheckpointLineProofs` for any devices, contents, labels,
caps and bounds; `ConfigMergeProofs` for any devices, peers, roles, scenarios and
numbers of records; `OperationLogProofs`, `OperationEditProofs` and `OperationAgreeProofs`
for any devices, scenarios and bounds. `DataInduction` holds what the proofs about recursive functions need.

| theorem | says |
|---|---|
| `TypeCorrect` (rounds) | `Spec => []TypeOK` |
| `IndInvariant` | `Spec => []IndInv` |
| `VotesKeepLock`, `RestartsResume`, `CommitsAreVerifiable` | the properties `VoteLock`, `ResumesFromHeld`, `CommitsVerify` |
| `VotesOncePerSlot` | `OneVotePerSlot`, when no body is attached over a live driver |
| `AgreementHolds` | `FaultyMinority => (Spec => []Agreement)` |
| `DecisionStaysFinal` | the action property `DecisionFinal` |
| `RoundsKeepPromise` | `FaultyMinority => (Spec => KeepsPromise)`: the refinement |
| `EvidenceStaysBounded` | `Spec => []BoundedEvidence` |
| `IInvInvariant`, `TypeCorrect` (chains) | `Spec => []IInv`, `Spec => []TypeOK` |
| `RecordsAreAgreed`, `AgreementsOutlast` | the properties `RecordsAgreed`, `AgreementsLast` |
| `DevicesOnlyMoveOn` | no step shortens or changes the config a device holds, or lowers its checkpoint, even when owners race |
| `LineInvariant` | `OneSignerAtATime => (Spec /\ [][IdleHandover]_vars => []OneLine)` |
| `MembersCanInvite`, `DecisionsStayAboveSeal` | under the same two conditions, the properties `HeldVouched`, `DecisionsFollowSeal` |
| `DevicesShareHistory` | under the same two conditions, `FollowsHistory`: the refinement of `SharedHistory` |
| `Invariance` (merge) | `Spec => []MergeInv` |
| `RecordsWellFormed`, `CheckpointStays`, `RequestServedOnce` | the properties `TypeOK`, `CheckpointStaysOnChain`, `LeaveOnce` of `ConfigMerge` |
| `NoChangeForgotten` | the action property `ChangesKept` |
| `LatestStands` | the property `LatestChangeStands`, which speaks of at most two owners |
| `OperationsAboveCheckpoint` | a state holds only signed operations its checkpoint does not cover (a part of `TypeOK`) |
| `OperationsKept` | an operation is held until a checkpoint covers it, unless the device is removed or restored or loses power |
| `LogTypeCorrect` | `Spec => []TypeOK` |
| `NumbersNameOne` | `Spec => [](OneSigner /\ NoneReadmitted => NumberedOnce)` |
| `CheckpointsCarryEdits` | `Spec => [](NoneReadmitted => CoversWhatItCarries)` |
| `WritersKeepEdits` | `Spec => [](OneSigner /\ NoneReadmitted => OwnEditsKept)` |
| `AcknowledgingEnds` | `Spec => []AnswersBounded` |
| `StepsReplay` | `Spec /\ []SoleSigner => StepIsReplay` |
| `StableAgrees` | `Spec => [](Quiet => StableAgree)` |
| `StableStays` | `Spec /\ [](scenario.changes = {}) => StableFinal` |

The assumptions are the named ones of `ControlRounds` (`VotersAssumption`,
`ValuesAssumption`, `BoundsAssumption`), `CheckpointChain` (`ChainAssumption`),
`ConfigMerge` (`MergeAssumption`), `OperationOrder` (`OrderAssumption`) and
`OperationLog` (`LogAssumption`). Where agreement is at stake there is also
`FaultyMinority`: faulty voters and those attached over a live driver hold at most
a third of the weight.

**The argument for the rounds.** `VoteLock` is not inductive: it speaks of all a
voter ever signed, and the voter only sees what its state holds. `IndInv` closes
the gap. `OwnHeld(v)`: while the decision is open, v's state holds its newest
message and its lock, whatever it trimmed, and each of its messages that is held
is one it sent. `PendingFits(v)`: a message computed from an older snapshot still
fits, as no message of v's own can be added between (there is one driver) and
messages of others only add polkas (`PolkaGrows`). `PrecommitsAfterPrevote(v)` ties
v's precommit to its prevote in the round, and `CommitsShown` says that applied
commits are made of messages that exist. From it `AgreementHolds` follows in the
usual way, but over weights: two quorums share more than the faulty weight
(`voterWeight` counts pairs in a product, so the intersection is a cardinality
argument), hence a correct voter; were two values committed, take the least round
after the lower commit in which a polka for another value exists (`LeastRound`): a
voter common to both is locked, and would have needed an earlier such polka.
`DecisionInv` adds that a closed decision holds no messages and that honest voters
prevote acceptable values only, which gives finality and the refinement.
`BoundedEvidence` counts; its inductive form `EvidenceInv` speaks of each voter's
record as trimmed and of each slot as within the cap, and the count follows by
mapping the messages other than the lock into rounds, steps and numbers up to
the cap.

**The argument for the chains.** `RecordsAgreed` speaks of the agreements ever
given, while a record is judged by those in one state, made into a value that
voters endorse, and decided later, elsewhere. `IInv` follows it all the way: every
config held, being signed or endorsed is a chain whose group records each carry
the agreement of a quorum of the config before, with respect to `agreed`, which
only grows (those that a state holds are among them and concern its config); every
checkpoint held, stored or endorsed has entries of the right
form; and endorsements are by voters of the config they name. Each action either
leaves these values, extends one by a record that `judgeControlRecord`, and so
the agreements, allow, or copies one from another device.

**The argument for one line.** `DecisionsFollowSeal`, `HeldVouched` and
`FollowsHistory` are false where owners race (`control_race`, `two_checkpointers`),
so their theorems say when owners do not. `OneSignerAtATime`: in each config that
owners control there is exactly one that is not about to leave, so that one
signs; and no scenario lets refused devices adopt configs alone, as such a device
learns who controls without the checkpoints made before. `IdleHandover`: an owner
that comes to hold a config by which it departs is not storing a checkpoint, which
it would sign besides the next owner's. Neither is enforced by the code, as the two
findings show; the scenario `Leaving` of the run `history` satisfies the first, and
its behaviours the second but where a hand-over meets a checkpoint being stored. The
run checks more than the theorems say: the scenario `Guest`, where refused devices do
adopt configs alone, and the behaviours that `IdleHandover` leaves out.

The invariant `OneLine` says that there are a chain C of configs and a chain K of
checkpoints that all devices hold beginnings of and some device holds in full,
and then what makes the next step stay on them. An entry or a record a group made is
a decision, and the only one of its key (`Entries`, `Decided`); what is endorsed
continues C and K (`Endorsed`); a record to or from a group seals just the entries
made under the configs before it (`Seals`); a member holds every entry made
before its config (`UpToDate`). With these, a voter whose decision nobody applied yet
holds all of C and K (`OpenForAll`), since what it lacks would have been decided under
the key it votes on; and the one signer of the last config holds all of them
(`SignerHoldsAll`), since in every config before the last its signer signed the next
(`Turns`). So the only devices that can extend a line are those that hold it. That
a config vouches for the checkpoint held with it (`Vouched`) is carried along, as a
merge of two snapshots picks config and checkpoint one by one.

**The argument for the merge.** Chains, absorbed records, suffixes and merged configs
are computed by recursion over records. `DataInduction` proves, without a theorem that
takes an operator, what is needed of it: the least number of a set (`LeastNumber`),
induction over a rank in the naturals (`RankInduction`), and that a definition by
recursion which looks only at elements of lower rank has exactly one solution
(`Recursion`, `OneSolution`). The rank of a record is its sequence number. From this
each function gets an unfolding lemma, and the rest is about what they return: a
chain has one record of each sequence number, a suffix that is read is on the chain of
its target (`SuffixOnChain`) and accounts, with what its reader had, for all that the
target does (`SuffixCovers`), and a merged config is valid (`MergeValid`). `MergeInv` says that records are well formed
and absorb whole branches from a fork below both sides (`Formed`, `Merging`,
`Configs`), that each device's checkpoint was signed under a record of its chain
(`Heads`), and that an answer on its way is a part of its target's chain, from where the
asker was (`Answers`): a stale answer is judged by its receiver against the head it
holds by then. For `LeaveOnce`, requests name the first config, so an owner that looks
for a removal by one reads its whole chain, and no merge absorbs where that read starts
(`ReadFromGenesis`).

**The argument for `LatestStands`.** A merge takes the roles of the branch that wins and
fixes up the newer changes of the branch that loses, so whether the newest change of a
role stands depends on which changes of the two sides were compared. `TwoInv`
strengthens `MergeInv` for at most two owners, neither of them the subject of a change
(`TwoOwners`, `OwnersStay`).
An owner's records are in line, and a merge is signed onto a record of the other owner,
whose branch wins (`TwoSign`); a head that accounts for all that one of them signed is
then absorbed by nobody but it (`StaysOnChain`). So two records account together for no
more than one on both chains does, the fork at which they merge (`Meet`, `ForkMeets`),
and a branch on its way to an owner holds all above its first record, so the fork the
owner finds is the last shared record (`WholeBranches`, `ForkHighest`). `Standing` then
says that the role of a device is the one a newest change gave it, a change above which
no record of the chain set the role again: of the changes newest on either side one is
newest at the merge (`OneOfTwo`), and the merge keeps it (`MergeStands`). The number of
devices is assumed finite (`MergeAssumption`), so that a newest change exists. TLC
checked `TwoInv` on the scenarios of the run `merge` before it was proved. With three
owners the property is false, which is the hazard at `config-merge.go:80`.

**The argument for the operations.** `States` says of what a device holds, and of
what is on its disk, that its operations are signed and above its checkpoint.
Each operation on a state (placing, adding, adopting, merging) is shown by a lemma
to yield a state that `Follows` the one before: it holds what that held but for
what its own checkpoint covers. A step is then one of these, a removal, a restore
or a loss of power.

`Types`, which gives `TypeOK`, adds what everything else is made of: signed operations
have authors, numbers above 0 and links to positions; a checkpoint names of each author
nothing or an operation the author signed; and what a body applied, stores or prepares
consists of signed operations. The order and the stable point are recursive functions
over sequences of operations, so it rests on lemmas about recursion from
`DataInduction`: a function that repeats a step reaches its end when each step takes
something off a finite set (`Iteration`, `IterationEnds`), and a set of distinct numbers
has its least member, and is listed by rank (`LowestElement`, `LeastAndGreatest`).

`NumberedOnce` is not inductive: that two devices hold the same operation under a
number says nothing of the number an author takes next. An author numbers from what it
holds and its checkpoint covers, so `Shows` says that nothing of an author `a` is on any
device or disk that is not reached by what `a` shows, and that this is reached by a's
state: `shown(a)` is what a session may send, the durable state of a device that may
lose power. A loss of power takes a back to that and not further. Keeping `Shows` asks
that a's checkpoint never covers less than before (`CheckpointsInLine`: of two checkpoints
the higher covers as much for every author) and that a writer that is still one was not
removed meanwhile (`ConfigsInLine`: configs follow each other, each within the change its
scenario allows). The first needs one device that signs checkpoints and remembers them
(`OneSigner`: the only owner or, where no config changes, the checkpointer, whom the
others then leave it to; where owners race `two_checkpointers` shows two checkpoints of one height),
the second that none who was removed is admitted anew (`NoneReadmitted`, section 5).
Every scenario of `order` satisfies both, so the theorem says of all numbers of devices
and operations what the run says of its instances. `NumberInv` is the inductive
invariant; TLC checked it on the scenarios of `order` before it was proved.

`CoversWhatItCarries` compares what a checkpoint covers, a position of each author,
with the marks it carries, a sequence that a body built step by step and that a
checkpointer signed later, after its state had moved on. `EditInv` follows the marks all
that way. `Counted`: an author numbers its operations from 1, each above the one it links
to. `StatesCarry`: each checkpoint, in memory and on disk, carries only marks of what it
covers, each once, and the mark of every edit whose number it covers, unless its author
numbered another the same or is no writer any more. `BodiesFair`: of what a body applied it
refused only edits whose refusal lasts. `StoringCarries`: the checkpoint that is being
stored, if the state still has the checkpoint it was computed on, continues that one's
marks by those of its prefix (`CarriesOn`). When it is signed (`SignedCarries`), the
prefix has no operation twice and is closed under links (`EarlierInPrefix`), so that the
marks it adds are new and are of all that is newly covered. A checkpoint covers by number where
a prefix has operations: the links down from the operation it newly covers of an author
meet every number above what it covered before, and so every edit that is alone with
its number. That a refusal lasts needs
`NoneReadmitted`; no device needs to sign alone, so `CheckpointsCarryEdits` holds in the
scenarios where owners race too. `OwnEditsKept` adds `OwnHeld`: what an author wrote is in its
state or below its checkpoint, and is the only one of its number, which the proof of
`NumberedOnce` gives where one device signs.

`AnswersBounded` compares two numbers and is shown by naming, for each acknowledgment,
an operation that it and no other of its author answers. `past(op)` is what an operation
descends from: the least set with it that has what its members link to. An
acknowledgment is owed when the order holds enough that its author did not build on, or a
question of the checkpointer; `AnswerFound` takes such an operation x and shows that the
acknowledgment descends from it, as it links to every head and every operation held
descends to a head (`FromHeads`), and that the author's operation before does not
(`MissedIsNew`). Of two acknowledgments the later descends from the earlier
(`OwnPast`), so they answer different operations (`AnswersApart`), and an injection bounds
the one set by the other. What makes this an invariant is `Answering`, with
`Descending`: operations have ages, which links only lower, so that a descent ends and a
new operation is in no earlier one's past (`PastStays`). `builtOn` walks the order, which
ends at the checkpoint, while `past` does not: the two agree because what a checkpoint
covers is closed under links (`ClosedBelow`), which signing a stable prefix keeps
(`SignedClosed`). All of it is for scenarios where no config changes and no device loses
its memory, as the property itself is.

`StepIsReplay` is about positions a body keeps: `install` keeps those a new checkpoint
does not cover, if the body stood at its data, and `Step` those the new order begins
with, though both were applied to an earlier state, which may have refused what the
present one admits. `NoneRefused` closes this gap: where no
writer is removed and one device signs (`SoleSigner`), names are unique, so no operation
that is held is equivocated (`Unique`), and its author is a writer (`Familiar`), so that
neither replay nor a body refuses any (`NothingRefused`, `StepReplays`). Positions then
differ by their operation alone, which is the order's (`WholeOrderReplayed`). Where two
owners race to sign the property is left to TLC: a writer may number an operation
twice there, and what one body refuses another admits.

`StableAgree` relates two devices that hold different operations, each of which computes
its order from what it holds. The proof compares both with a third order, of all
operations ever written: `Greedy(P, W)` says that each operation of P is the one with the
lowest hash that W allows next. Of two such orders the shorter begins the longer
(`OneOrder`), so it suffices that what a checkpoint covers (`Opened`) and what is stable
above it (`StableOpens`) are one. A device that lacks an operation could only go
wrong by placing another where that one belongs. It does not when each writer has
built on what it places (`Anchored`): a state holds what its operations link to
(`HeldClosed`), so the author of the unknown operation wrote it after those the device
holds of it, and it comes from all that these come from (`UnknownComesLater`). The same
keeps an order open when a writer adds an operation (`OpenedStays`), whatever its hash.
This needs `Merging`: no sequencer, and `Quiet`, a config that stays and devices that
keep their memory.

Where a sequencer orders (`Leading`), the third order is the one its records sign. They
are a line (`Trail(P, R, q, W)`): each names the one before it and places one
operation after what that links to, none twice. Each device holds a part of it above its checkpoint,
and its checkpoint covers what the line places up to the record it names (`OnTrail`,
`Reached`). That alone is not inductive: a sequencer that had lost one of its records
would sign another at its height. `Full` says it holds all of them above its checkpoint,
whatever it imported or adopted, so that it only ever lengthens the line, while
everyone else signs none (`LineGrows`, `QuietOnTrail`). What a state
resolves is then a stretch of the line, up to the first record it lacks; what it settles
are the marks of the first operations of the line (`SettledPinned`), and of two such beginnings one begins the
other (`LineAgrees`). `StableAgrees` puts both orders together.

For `StableFinal` where the order is merged both orders are one device's, before and after a step; what has to be
shown is that the later is not the shorter one. A device holds what it held
(`HeldOnward`), so for each stable operation it still knows that every writer built on it,
or its checkpoint covers it by then; `SettlesAsFar` finds the operation where what it
settles would end too early, which it holds (`ClosedPlaced`), places next, as no other may
come first, and knows to be built on (`BuiltByOne`). On the line of a sequencer a device keeps
the records it held, but those below a newer checkpoint (`KeepsRecords`), so that what it
settles reaches no less far (`LineStays`).

A property that failed on the way: that the stable prefix of a device only grows is
false when a writer joins. The new member has built on nothing, so what was stable above
the checkpoint is not any more (stable-point.go:69-70), until it writes; its place in the order stays. An earlier
scenario had too few edits to show it. `StableFinal` states the weaker fact for that
case, that what was stable begins what replay of the whole order yields, and TLC checks
it in `JoinsLater`.

**Model-checked only.** Liveness (`EveryoneDecides`, `EditsSettle`, `HeadsMeet`,
`MembersCanRead`) is beyond the prover. Of `OperationLog`,
`StableAgree` and `StableFinal` where writers are admitted, and `StableAgree` where power
is lost, are checked by TLC on the instances above, without a
theorem yet.
`EveryoneKeepsLock`, `OneCheckpointPerHeight`, `BodyRefuses`, `SettledAgree` and
`AbsorbedCanFollow` are false.

## 8. What is not modelled, and why

- Cryptography: a signature is the name of its signer, a hash is the value. A
  voter or owner that is not faulty is the only one that signs as itself.
- Encoding, sizes and validation of malformed messages: the models hold only
  messages that pass `Validate`.
- The composition of everything: `CheckpointChain` has a label where `OperationLog`
  has operations, `OperationLog` has one line of configs and owners that checkpoint
  alone where `CheckpointChain` has groups and a departing owner, and `ConfigMerge`
  has owner control, roles and heights where the others have voters and data. Each
  takes of the others what it needs as the others' properties state it.
- Of configs, in `ConfigMerge`, all fields but the roles: the other lists merge by
  peer and single fields as a whole, as a role does. `SELF_ENROLL_PEER` records and
  devices that join with a lineage only are left out; so are owners that a merging
  branch removes from the statements of `HeadsMeet` and `MembersCanRead`, and removals
  and departures of any device from that of `HeadsMeet`.
- Recovery from a trusted source. An owner that checkpoints a change it made apart
  refuses every branch from below its checkpoint, also where its own head loses, and
  nobody else merges its branch: `HeadsMeet` says that the devices end at one head or in
  this state (section 6).
- Keys: one epoch. Later epochs are started by the cloud host. The cache of
  decrypted keys and `reconcileGroupGrants` are left out.
- Sync as a protocol: pages, deadlines, generations of workers. An exchange
  happens or does not, and carries a state that was durable when it was sent.
- A group whose faulty voter fills its evidence slots differently at each honest
  voter: one may lock with votes another has no room for, and propose a value the
  other cannot justify. That this goes on forever is a statement about
  unboundedly many rounds.
- The cloud host, transfer, invites, health, pairing, storage, network, world,
  forge, build and interface: see the components of `PROJECT.json`, each with the
  reason.
