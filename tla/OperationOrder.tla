--------------------------- MODULE OperationOrder ---------------------------
(***************************************************************************)
(* The order every replica of a shared object computes from the state it   *)
(* holds: the operations above its checkpoint, the positions a sequencer   *)
(* signed, and the prefix of that order which is stable.                   *)
(*                                                                         *)
(* A state is a record with the fields config, checkpoint, ops and         *)
(* sequence. An operation names the operations it builds on by position:   *)
(* author, nonce and hash. A sequence position is its own identity, so it  *)
(* carries the position before it.                                         *)
(***************************************************************************)
EXTENDS Integers, FiniteSets, SequencesExt

CONSTANTS
  Devices,           \* the devices that may write
  None,              \* no device: the order is merged
  AcknowledgmentLag, \* edits a writer leaves unacknowledged
  DropSize           \* operations at which lagging writers are dropped

ASSUME OrderAssumption ==
  /\ None \notin Devices
  /\ AcknowledgmentLag \in Nat \ {0}
  /\ DropSize \in Nat \ {0}

-----------------------------------------------------------------------------
(* The configuration.                                                      *)

Writers(cfg) == Range(cfg.writers)
isOwnerPeer(cfg, d) == d \in cfg.owners

\* The writers the roster keeps, in participant order.
TrimRoster(cfg) == SelectSeq(cfg.writers, LAMBDA d: d \notin cfg.dropped)
OnRoster(cfg) == Writers(cfg) \ cfg.dropped

Checkpointer(cfg) ==
  LET owners == SelectSeq(TrimRoster(cfg), LAMBDA d: isOwnerPeer(cfg, d))
  IN IF owners = <<>> THEN None ELSE Head(owners)

\* The owner that both orders and checkpoints.
Leader(cfg) ==
  IF Checkpointer(cfg) = cfg.sequencer THEN cfg.sequencer ELSE None

-----------------------------------------------------------------------------
(* The operations above the checkpoint.                                    *)

position(op) == [author |-> op.author, nonce |-> op.nonce, hash |-> op.hash]
NoOperation(d) == [author |-> d, nonce |-> 0, hash |-> 0]
NoPosition == [height |-> 0]

\* What an operation names: its parents and its author's previous operation.
links(op) == op.parents \cup (IF op.prev.nonce = 0 THEN {} ELSE {op.prev})

Covers(checkpoint, pos) == pos.nonce <= checkpoint.authors[pos.author].nonce

\* The links a replica has to hold to place the operation.
openLinks(s, op) == {l \in links(op) : ~Covers(s.checkpoint, l)}

Heads(s) ==
  LET named == UNION {links(op) : op \in s.ops}
      covered == {s.checkpoint.authors[d] : d \in Devices}
  IN ({position(op) : op \in s.ops}
        \cup {pos \in covered : pos.nonce > 0}) \ named

\* The author's latest operation; one of several if it signed two at once.
AuthorHeads(s, d) ==
  LET own == {op \in s.ops : op.author = d}
      last == {op \in own : \A other \in own : other.nonce <= op.nonce}
  IN IF own = {} THEN {s.checkpoint.authors[d]} ELSE {position(op) : op \in last}

Equivocated(s, op) ==
  \E other \in s.ops : other # op /\ other.author = op.author /\ other.nonce = op.nonce

-----------------------------------------------------------------------------
(* The sequence: the positions above the checkpoint's that the records     *)
(* support, up to the first gap or fork.                                   *)

base(s) == s.checkpoint.sequence
start(s) == s.config.start

\* The records on the hash links down from the sequencer's start.
startPath(s) ==
  LET down[k \in 0..start(s).height] ==
        IF k = 0 THEN start(s) ELSE down[k - 1].prev
      held(k) == down[k] \in s.sequence
  IN {down[k] : k \in {i \in 0..(start(s).height - 1) : \A j \in 0..i : held(j)}}

\* The records that may follow the position prev.
nextPositions(s, prev) ==
  LET height == prev.height + 1
      signed == {r \in s.sequence : s.config.sequencer # None /\ r.signer = s.config.sequencer}
  IN {r \in (IF height <= start(s).height THEN startPath(s) ELSE signed) :
        r.height = height /\ r.prev = prev}

resolveSequence(s) ==
  LET walk[below \in Seq(s.sequence)] ==
        LET next == nextPositions(s, IF below = <<>> THEN base(s) ELSE Last(below))
        IN IF Cardinality(next) = 1
           THEN walk[Append(below, CHOOSE r \in next : TRUE)]
           ELSE below
  IN walk[<<>>]

SequenceTail(s) ==
  LET resolved == resolveSequence(s)
  IN IF resolved = <<>> THEN base(s) ELSE Last(resolved)

\* Whether positions may still be added.
sequenceOpen(s) ==
  \/ s.config.sequencer # None
  \/ SequenceTail(s).height < start(s).height

-----------------------------------------------------------------------------
(* The replay order.                                                       *)

placedLinks(s, op, placed) ==
  \A l \in openLinks(s, op) : l \in {position(p) : p \in Range(placed)}

\* The operations the sequence places, with the last position it consumed and
\* whether it consumed every one.
sequenced(s) ==
  LET positions == resolveSequence(s)
      consume[at \in [taken : 0..Len(positions), order : Seq(s.ops)]] ==
        LET pos == positions[at.taken + 1].op
            known == Covers(s.checkpoint, pos) \/ \E o \in Range(at.order) : position(o) = pos
            placeable == {o \in s.ops : position(o) = pos /\ placedLinks(s, o, at.order)}
        IN IF at.taken < Len(positions) /\ known
           THEN consume[[at EXCEPT !.taken = @ + 1]]
           ELSE IF at.taken < Len(positions) /\ placeable # {}
           THEN consume[[taken |-> at.taken + 1,
                         order |-> Append(at.order, CHOOSE o \in placeable : TRUE)]]
           ELSE [order |-> at.order,
                 tail |-> IF at.taken = 0 THEN base(s) ELSE positions[at.taken],
                 complete |-> at.taken = Len(positions)]
  IN consume[[taken |-> 0, order |-> <<>>]]

\* The rest follow, the lowest hash among those whose links are placed first.
Order(s) ==
  LET extend[placed \in Seq(s.ops)] ==
        LET ready == {op \in s.ops \ Range(placed) : placedLinks(s, op, placed)}
        IN IF ready = {} THEN placed
           ELSE extend[Append(placed, CHOOSE op \in ready : \A o \in ready : op.hash <= o.hash)]
  IN extend[sequenced(s).order]

-----------------------------------------------------------------------------
(* What a writer has built on, and what is therefore stable.               *)

\* The operation and those of the order it descends from.
Ancestors(s, order, op) ==
  LET below[at \in [upTo : 0..Len(order), found : SUBSET s.ops]] ==
        IF at.upTo = 0 THEN at.found
        ELSE below[[upTo |-> at.upTo - 1,
                    found |-> at.found \cup {x \in {order[at.upTo]} :
                                \E y \in at.found : position(x) \in openLinks(s, y)}]]
  IN below[[upTo |-> Len(order), found |-> {op}]]

\* The writer's placed operations that none of its later ones follows.
latest(order, d) ==
  LET own == {op \in Range(order) : op.author = d}
  IN {op \in own : \A later \in own : later.prev # position(op)}

builtOn(s, order, d) ==
  LET ancestries == {Ancestors(s, order, tip) : tip \in latest(order, d)}
  IN {op \in UNION ancestries : \A built \in ancestries : op \in built}

\* Mutated form of StablePoint: only the owners need to have built on a stable operation.
StablePointOfOwners(s, order) ==
  LET built == {builtOn(s, order, d) : d \in OnRoster(s.config) \cap s.config.owners}
      unstable == {i \in DOMAIN order : \E b \in built : order[i] \notin b}
  IN IF sequenceOpen(s) THEN sequenced(s).order
     ELSE IF unstable = {} THEN order
     ELSE SubSeq(order, 1, Min(unstable) - 1)

\* The stable prefix of the order.
StablePoint(s, order) ==
  LET built == {builtOn(s, order, d) : d \in OnRoster(s.config)}
      unstable == {i \in DOMAIN order : \E b \in built : order[i] \notin b}
  IN IF sequenceOpen(s) THEN sequenced(s).order
     ELSE IF unstable = {} THEN order
     ELSE SubSeq(order, 1, Min(unstable) - 1)

UnplacedHeads(s, order) ==
  LET placed == {position(op) : op \in Range(order)}
  IN {h \in Heads(s) : h \notin placed /\ ~Covers(s.checkpoint, h)}

\* Whether d has built on the latest operation of the author.
BuiltOnLatest(s, order, d, author) ==
  LET built == {position(op) : op \in builtOn(s, order, d)}
  IN /\ built # {}
     /\ \E head \in AuthorHeads(s, author) :
          head.nonce = 0 \/ Covers(s.checkpoint, head) \/ head \in built

\* Mutated form of NeedsAcknowledgment: every acknowledgment asks for an answer.
NeedsAnswer(s, order, d) ==
  /\ s.config.sequencer = None
  /\ UnplacedHeads(s, order) = {}
  /\ Range(order) \ builtOn(s, order, d) # {}

\* Mutated form of NeedsAcknowledgment: an acknowledgment waits for one edit more than the lag.
NeedsAcknowledgmentPastLag(s, order, d) ==
  /\ s.config.sequencer = None
  /\ UnplacedHeads(s, order) = {}
  /\ \E missed \in {Range(order) \ builtOn(s, order, d)} :
       Cardinality({op \in missed : ~op.ack}) > AcknowledgmentLag

\* Whether the writer d owes an acknowledgment: it left enough edits
\* unacknowledged, or the checkpointer asks by one of its own.
NeedsAcknowledgment(s, order, d) ==
  LET checkpointer == Checkpointer(s.config)
  IN /\ s.config.sequencer = None
     /\ UnplacedHeads(s, order) = {}
     /\ \E missed \in {Range(order) \ builtOn(s, order, d)} :
          \/ Cardinality({op \in missed : ~op.ack}) >= AcknowledgmentLag
          \/ d # checkpointer /\ \E op \in missed : op.ack /\ op.author = checkpointer

\* The writers the owner self should drop from the trimming roster: it acts
\* when every owner before it is itself dropped or about to be.
nextRosterDropped(s, order, self) ==
  LET cfg == s.config
      over == Cardinality(s.ops) >= DropSize
      behind == {d \in Devices : ~BuiltOnLatest(s, order, d, self)}
      roster == TrimRoster(cfg)
      ahead == {d \in cfg.owners : \E j \in DOMAIN roster :
                  roster[j] = d /\ \A i \in 1..j : roster[i] # self}
      wrote == \E op \in s.ops : op.author = self
  IN IF ahead # {} /\ ~(over /\ ahead \subseteq behind) THEN cfg.dropped
     ELSE {d \in cfg.dropped : ~wrote \/ d \in behind}
          \cup (IF over THEN (OnRoster(cfg) \ {self}) \cap behind ELSE {})

-----------------------------------------------------------------------------
(* Checkpoints over a prefix of the order.                                 *)

\* Mutated form of cover: a checkpoint covers the latest held operations.
coverHeads(s, prefix) == [d \in Devices |-> CHOOSE h \in AuthorHeads(s, d) : TRUE]

\* The author heads of a checkpoint that covers the prefix.
cover(s, prefix) ==
  [d \in Devices |->
     LET own == {op \in Range(prefix) : op.author = d}
     IN IF own = {} THEN s.checkpoint.authors[d]
        ELSE position(CHOOSE op \in own : \A o \in own : o.nonce <= op.nonce)]

\* The last position before the first that the checkpoint would not cover.
SequenceHead(s, prefix) ==
  LET positions == resolveSequence(s)
      open == {i \in DOMAIN positions :
                 /\ ~Covers(s.checkpoint, positions[i].op)
                 /\ positions[i].op \notin {position(op) : op \in Range(prefix)}}
      last == IF open = {} THEN Len(positions) ELSE Min(open) - 1
  IN IF last = 0 THEN base(s) ELSE positions[last]

\* How many first operations of the order next covers, or -1 when they are
\* not the first ones.
CoveredPrefix(s, order, next) ==
  LET covered(i) == Covers(next, position(order[i]))
      n == CHOOSE k \in 0..Len(order) :
             (\A i \in 1..k : covered(i)) /\ (k = Len(order) \/ ~covered(k + 1))
      prefix == {position(order[i]) : i \in 1..n}
  IN IF \/ \E i \in (n + 1)..Len(order) : covered(i)
        \/ \E d \in Devices :
             LET head == next.authors[d]
             IN head.nonce > 0 /\ head \notin prefix /\ ~Covers(s.checkpoint, head)
     THEN -1 ELSE n
=============================================================================
