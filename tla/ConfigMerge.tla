----------------------------- MODULE ConfigMerge -----------------------------
(***************************************************************************)
(* The configuration chains of one shared object whose owners change it    *)
(* apart: each device holds a head; a peer answers it with the records     *)
(* that follow its head, or with its own branch once the chains diverged;  *)
(* and a device whose head loses signs a merge that absorbs its branch.    *)
(*                                                                         *)
(* A configuration is the role of each peer. Its other lists merge by peer *)
(* and its single fields as a whole, as a role does. Owners control it.    *)
(* One key epoch grants the key of the object to each participant.         *)
(*                                                                         *)
(* A hash is the record's sequence number and signer, as no device signs   *)
(* twice at one sequence number, with a rank that breaks ties.             *)
(***************************************************************************)
EXTENDS Integers, FiniteSets, SequencesExt

CONSTANTS
  Devices,   \* the devices that hold the object
  Peers,     \* those that may participate: the devices and others
  Ranks,     \* bound: the order of hashes of one sequence number
  Scenarios  \* what may happen in a behaviour, see ScenarioOK

Roles == {"OWNER", "READER", "NONE"}

\* A scenario has the roles at genesis, the changes that each owner may sign,
\* by kind and subject, how many it signs and the ranks of its hashes, the
\* devices that ask to leave at their first config, and the owner that created
\* the object, which checkpoints, and how often.
ScenarioOK(sc) ==
  /\ sc.roles \in [Peers -> Roles]
  /\ sc.changes \in [Devices -> SUBSET ({"add", "remove"} \X Peers)]
  /\ sc.signs \in [Devices -> Nat] /\ sc.ranks \in [Devices -> SUBSET Ranks]
  /\ sc.leaving \subseteq Devices
  /\ sc.checkpointer \in Devices /\ sc.checkpoints \in Nat
  /\ Cardinality({p \in Peers : sc.roles[p] = "OWNER"}) <= Cardinality(Ranks)

ASSUME MergeAssumption ==
  /\ Devices \subseteq Peers /\ IsFiniteSet(Peers)
  /\ Ranks \subseteq Nat
  /\ \A sc \in Scenarios : ScenarioOK(sc)

VARIABLES
  scenario,   \* what may happen
  records,    \* every record signed, by its hash
  head,       \* the record that produced the config each device holds
  checkpoint, \* the checkpoint each device holds
  grants,     \* the grants of the key each device holds: who signed each peer's
  heard,      \* the peers whose present state each device was told and took in
  answer,     \* the answer of a peer on its way to each device
  request     \* the leave request each device signed

state == <<head, checkpoint, grants>>
log == <<records, state>>
exchange == <<heard, answer>>
vars == <<scenario, log, exchange, request>>

Nothing == [nothing |-> TRUE]

\* No peer holds the key.
NoGrants == [p \in Peers |-> Nothing]

\* The record every replica starts from, and the hash before it.
NoHash == [seqno |-> -1, rank |-> 0, signer |-> Nothing]
GenesisHash == [seqno |-> 0, rank |-> 0, signer |-> Nothing]

Init ==
  /\ scenario \in Scenarios
  /\ records = [h \in {GenesisHash} |->
       [prev |-> NoHash, config |-> scenario.roles, fork |-> NoHash, branch |-> <<>>,
        leave |-> Nothing]]
  /\ head = [d \in Devices |-> GenesisHash]
  /\ checkpoint = [d \in Devices |-> [height |-> 0, under |-> GenesisHash]]
  /\ grants = [d \in Devices |->
       [p \in Peers |-> IF scenario.roles[p] = "NONE" THEN Nothing ELSE scenario.checkpointer]]
  /\ heard = [d \in Devices |-> {}]
  /\ answer = [d \in Devices |-> Nothing]
  /\ request = [d \in Devices |-> Nothing]

-----------------------------------------------------------------------------
(* Configurations and chains.                                              *)

config(h) == records[h].config
isOwnerPeer(cfg, p) == cfg[p] = "OWNER"
Participates(cfg, p) == cfg[p] # "NONE"

\* Validate: while anyone participates, someone owns.
Valid(cfg) ==
  (\E p \in Peers : Participates(cfg, p)) => \E p \in Peers : isOwnerPeer(cfg, p)

\* The records that lead to target, above the sequence number floor.
ReadConfigBranch(target, floor) ==
  LET back[k \in DOMAIN records] ==
        IF k = GenesisHash \/ k.seqno <= floor THEN <<>> ELSE Append(back[records[k].prev], k)
  IN back[target]

\* The chain that leads to h, after genesis.
chain(h) == ReadConfigBranch(h, 0)

onChain(h) == {GenesisHash} \cup Range(chain(h))

\* The records that those in hashes absorb, in merges nested to any depth.
AbsorbedConfigChanges(hashes) ==
  LET below[h \in DOMAIN records] ==
        Range(records[h].branch) \cup UNION {below[b] : b \in Range(records[h].branch)}
  IN UNION {below[h] : h \in hashes}

\* The records whose changes the config of h accounts for.
accounted(h) == onChain(h) \cup AbsorbedConfigChanges(onChain(h))

-----------------------------------------------------------------------------
(* Merging.                                                                *)

\* Mutated form of applyConfigDelta: a changed record replaces the whole config.
applyWhole(target, parent, next) == IF parent = next THEN target ELSE next

\* Each field that next changed from parent is set on target.
applyConfigDelta(target, parent, next) ==
  [p \in Peers |-> IF parent[p] = next[p] THEN target[p] ELSE next[p]]

\* The config that a merge on h of the branch yields: each record applies
\* while its signer owns and what it leaves is valid.
mergeConfigBranch(h, branch) ==
  LET merged[i \in 0..Len(branch)] ==
        IF i = 0 THEN config(h)
        ELSE LET before == merged[i - 1]
                 next == applyConfigDelta(before, config(records[branch[i]].prev), config(branch[i]))
             IN IF isOwnerPeer(before, branch[i].signer) /\ Valid(next) THEN next ELSE before
  IN merged[Len(branch)]

\* Mutated form of MergeWins: a tie leaves the merge to the peer on both sides.
MergeWinsHigher(h, other) == h.seqno > other.seqno

MergeWins(h, other) ==
  \/ h.seqno > other.seqno
  \/ h.seqno = other.seqno /\ h.rank < other.rank

\* The fork of the merge in entry that absorbs h, in whatever depth.
AbsorbedFork(h, entry) ==
  LET find[e \in DOMAIN records] ==
        LET branch == records[e].branch
            hits == {i \in DOMAIN branch : branch[i] = h \/ find[branch[i]] # NoHash}
        IN IF hits = {} THEN NoHash
           ELSE IF branch[Min(hits)] = h THEN records[e].fork
           ELSE find[branch[Min(hits)]]
  IN find[entry]

-----------------------------------------------------------------------------
(* Reading the retained records of a chain. A device retains those of its  *)
(* own chain and those that merges on it absorb.                           *)

\* The records from base, or from the fork of a merge that absorbs it, to target.
ReadConfigSuffix(base, target) ==
  LET suffix[to \in DOMAIN records] == [from \in DOMAIN records |->
        LET fork == AbsorbedFork(from, to)
            rest == suffix[records[to].prev][IF fork = NoHash THEN from ELSE fork]
        IN IF from = to THEN [changes |-> <<>>]
           ELSE IF to = GenesisHash \/ rest = Nothing THEN Nothing
           ELSE [changes |-> Append(rest.changes, to)]]
  IN suffix[target][base]

\* The record at the floor of a branch that leads to target.
cursor(branch, target) == IF branch = <<>> THEN target ELSE records[Head(branch)].prev

\* The record that the changes follow, held when there are none.
base(held, changes) == IF changes = <<>> THEN held ELSE records[Head(changes)].prev

\* Whether the changes follow held, or the fork of the merge that absorbs it.
ConfigSuffixBase(held, changes) ==
  LET absorbing == {i \in DOMAIN changes : AbsorbedFork(held, changes[i]) # NoHash}
  IN \/ base(held, changes) = held
     \/ /\ absorbing # {}
        /\ base(held, changes) = AbsorbedFork(held, changes[Min(absorbing)])

\* Whether a device at held may adopt the suffix, which leads to target.
VerifyConfigChainSuffix(held, target, changes) ==
  /\ ConfigSuffixBase(held, changes)
  /\ target = IF changes = <<>> THEN held ELSE Last(changes)
  /\ base(held, changes) # held => target.seqno > held.seqno

\* Mutated form of CheckpointFloor: a fork one below the checkpoint may merge.
CheckpointFloorBelow(d) == checkpoint[d].under.seqno - 1

\* The lowest fork that d merges at.
CheckpointFloor(d) == checkpoint[d].under.seqno

-----------------------------------------------------------------------------
(* Signing.                                                                *)

\* A hash for the record that d signs on h.
newHashes(d, h) ==
  {k \in [seqno : {h.seqno + 1}, rank : scenario.ranks[d], signer : {d}] :
     \A other \in DOMAIN records : other.seqno = k.seqno => other.rank # k.rank}

\* The record that hash names is signed on prev.
signing(prev, hash, cfg, fork, branch, leave) ==
  LET entry == [prev |-> prev, config |-> cfg, fork |-> fork, branch |-> branch, leave |-> leave]
  IN records' = [k \in DOMAIN records \cup {hash} |-> IF k = hash THEN entry ELSE records[k]]

\* d holds another state, which it advertises to its peers.
holds(d, h, next, keys) ==
  /\ head' = [head EXCEPT ![d] = h]
  /\ checkpoint' = [checkpoint EXCEPT ![d] = next]
  /\ grants' = [grants EXCEPT ![d] = keys]
  /\ heard' = IF <<h, next, keys>> = <<head[d], checkpoint[d], grants[d]>> THEN heard
              ELSE [e \in Devices |-> heard[e] \ {d}]

signed(d) == {h \in DOMAIN records : h.signer = d /\ records[h].branch = <<>>}

\* d signs a change of its config, which applies under the lock of its state
\* with the grants it issues or prunes.
ApplyConfigChange(d, next, keys, leave) ==
  /\ isOwnerPeer(config(head[d]), d)
  /\ Valid(next)
  /\ \E h \in newHashes(d, head[d]) :
       /\ signing(head[d], h, next, NoHash, <<>>, leave)
       /\ holds(d, h, checkpoint[d], keys)

mayChange(d, kind, p) ==
  <<kind, p>> \in scenario.changes[d] /\ Cardinality(signed(d)) < scenario.signs[d]

\* d hands the peer it adds the key it has itself.
AddSOParticipant(d) ==
  /\ \E p \in Peers :
       /\ mayChange(d, "add", p)
       /\ ~Participates(config(head[d]), p)
       /\ grants[d][d] # Nothing
       /\ ApplyConfigChange(d, [config(head[d]) EXCEPT ![p] = "READER"],
                            [grants[d] EXCEPT ![p] = d], Nothing)
  /\ UNCHANGED <<scenario, answer, request>>

\* The grants d holds without p's, where it wraps again those that p signed.
pruneRemovedParticipants(d, p) ==
  [q \in Peers |-> IF q = p THEN Nothing ELSE IF grants[d][q] = p THEN d ELSE grants[d][q]]

\* d has the key for the grants that it has to wrap again.
mayPrune(d, p) ==
  (\E q \in Peers \ {p} : grants[d][q] = p) => d # p /\ grants[d][d] # Nothing

RemoveSOParticipants(d) ==
  /\ \E p \in Peers :
       /\ mayChange(d, "remove", p)
       /\ Participates(config(head[d]), p)
       /\ mayPrune(d, p)
       /\ ApplyConfigChange(d, [config(head[d]) EXCEPT ![p] = "NONE"],
                            pruneRemovedParticipants(d, p), Nothing)
  /\ UNCHANGED <<scenario, answer, request>>

-----------------------------------------------------------------------------
(* Leaving. A participant signs a request at the config it holds, and asks *)
(* an owner for it until it has the answer.                                *)

BuildSOLeaveRequest(p) ==
  /\ p \in scenario.leaving /\ head[p] = GenesisHash
  /\ Participates(config(head[p]), p) /\ ~isOwnerPeer(config(head[p]), p)
  /\ request[p] = Nothing
  /\ request' = [request EXCEPT ![p] = [peer |-> p, at |-> head[p]]]
  /\ UNCHANGED <<scenario, log, exchange>>

\* Each config from the one the request was signed at admits the peer.
leaveProofsRemainCurrent(p, at, changes) ==
  changes # <<>> /\ \A h \in {at} \cup Range(changes) : Participates(config(h), p)

\* Mutated form of LeaveSOParticipants: whoever participates now is removed.
LeaveSOParticipantsNow(d, ask) ==
  IF ReadConfigSuffix(ask.at, head[d]) # Nothing /\ Participates(config(head[d]), ask.peer)
  THEN [remove |-> [config(head[d]) EXCEPT ![ask.peer] = "NONE"]]
  ELSE [refused |-> TRUE]

\* What the owner d finds of the request among the changes since: nothing
\* readable, the record that carried it out, or the removal to sign.
LeaveSOParticipants(d, ask) ==
  LET suffix == ReadConfigSuffix(ask.at, head[d])
      done == {h \in Range(suffix.changes) : records[h].leave = ask}
  IN IF suffix = Nothing THEN [refused |-> TRUE]
     ELSE IF done # {} THEN [removed |-> CHOOSE h \in done : TRUE]
     ELSE IF /\ Participates(config(head[d]), ask.peer)
             /\ suffix.changes = <<>> \/ leaveProofsRemainCurrent(ask.peer, ask.at, suffix.changes)
     THEN [remove |-> [config(head[d]) EXCEPT ![ask.peer] = "NONE"]]
     ELSE [refused |-> TRUE]

\* The answer may be lost, and the owner serve the request anew.
acceptSharedObjectLeave(d, p) ==
  /\ request[p] # Nothing
  /\ isOwnerPeer(config(head[d]), d)
  /\ \E outcome \in {LeaveSOParticipants(d, request[p])} :
       /\ "remove" \in DOMAIN outcome
       /\ mayPrune(d, p)
       /\ ApplyConfigChange(d, outcome.remove, pruneRemovedParticipants(d, p), request[p])
  /\ UNCHANGED <<scenario, answer, request>>

\* The leaver adopts the proof of its removal, or gives up.
LeaveSharedObject(p, d) ==
  /\ request[p] # Nothing
  /\ isOwnerPeer(config(head[d]), d)
  /\ \E outcome \in {LeaveSOParticipants(d, request[p])} :
       \/ /\ "removed" \in DOMAIN outcome
          /\ {request[p].at, head[p]} \subseteq onChain(outcome.removed)
          /\ holds(p, outcome.removed, checkpoint[p], NoGrants)
       \/ "refused" \in DOMAIN outcome /\ UNCHANGED <<state, heard>>
  /\ request' = [request EXCEPT ![p] = Nothing]
  /\ UNCHANGED <<scenario, records, answer>>

-----------------------------------------------------------------------------
(* Checkpoints.                                                            *)

SignCheckpoint(d) ==
  /\ d = scenario.checkpointer
  /\ isOwnerPeer(config(head[d]), d)
  /\ checkpoint[d].height < scenario.checkpoints
  /\ grants[d][d] # Nothing
  /\ holds(d, head[d], [height |-> checkpoint[d].height + 1, under |-> head[d]], grants[d])
  /\ UNCHANGED <<scenario, records, answer, request>>

-----------------------------------------------------------------------------
(* Synchronizing. Each side admits the other under the config it holds.    *)

authorizeParticipants(d, e) ==
  Participates(config(head[d]), d) /\ Participates(config(head[d]), e)

\* A peer advertises what it holds once for each change of it. d declines a
\* head below its own or what it holds itself. Otherwise it asks for the
\* records from its head, and the peer answers with its branch above d's floor
\* when there are none.
RequestHistory(d, from) ==
  /\ authorizeParticipants(d, from) /\ authorizeParticipants(from, d)
  /\ answer[d] = Nothing
  /\ from \notin heard[d]
  /\ head[from].seqno >= head[d].seqno
  /\ <<head[from], checkpoint[from], grants[from]>> # <<head[d], checkpoint[d], grants[d]>>
  /\ heard' = [heard EXCEPT ![d] = @ \cup {from}]
  /\ \E suffix \in {ReadConfigSuffix(head[d], head[from])},
        branch \in {ReadConfigBranch(head[from], CheckpointFloor(d))} :
       answer' = [answer EXCEPT ![d] =
         [from |-> from, target |-> head[from], checkpoint |-> checkpoint[from],
          grants |-> grants[from],
          changes |-> IF suffix = Nothing THEN branch ELSE suffix.changes,
          cursor |-> IF suffix = Nothing THEN cursor(branch, head[from]) ELSE NoHash]]
  /\ UNCHANGED <<scenario, log, request>>

\* An owner signed the grant of p, or p itself.
validateSigner(cfg, signer, p) ==
  signer # Nothing /\ (isOwnerPeer(cfg, signer) \/ (signer = p /\ Participates(cfg, p)))

\* Mutated form of MergeKeyEpochs: the candidate's grants replace the held ones.
MergeKeyEpochsReplacing(cfg, held, epochs) ==
  [p \in Peers |->
     IF Participates(cfg, p) /\ validateSigner(cfg, epochs[p], p) THEN epochs[p] ELSE Nothing]

\* The held grants of those that still read, and those in epochs that cfg
\* authorizes where the held one is missing or its signer left.
MergeKeyEpochs(cfg, held, epochs) ==
  [p \in Peers |->
     IF ~Participates(cfg, p) THEN Nothing
     ELSE IF ~validateSigner(cfg, held[p], p) /\ validateSigner(cfg, epochs[p], p)
     THEN epochs[p] ELSE held[p]]

\* What d holds of the checkpoint and the grants after it adopts cfg with the
\* candidate's.
newer(d, cfg, candidate) ==
  IF Participates(cfg, d) /\ candidate.height > checkpoint[d].height
  THEN candidate ELSE checkpoint[d]
keys(d, cfg, epochs) ==
  IF Participates(cfg, d) THEN MergeKeyEpochs(cfg, grants[d], epochs) ELSE NoGrants

\* d, unless it was removed, can read the checkpoint; the first holds no data.
validateAccess(d, cfg, candidate, epochs) ==
  Participates(cfg, d) /\ newer(d, cfg, candidate).height > 0 => keys(d, cfg, epochs)[d] # Nothing

\* d writes the config of target with what it adopts of the candidate.
commitPeerSnapshot(d, target, cfg, candidate, epochs) ==
  /\ validateAccess(d, cfg, candidate, epochs)
  /\ holds(d, target, newer(d, cfg, candidate), keys(d, cfg, epochs))

\* The changes after held, if they pass it.
unappliedConfigChanges(held, changes) ==
  LET at == {i \in DOMAIN changes : changes[i] = held}
  IN IF at = {} THEN changes ELSE SubSeq(changes, Min(at) + 1, Len(changes))

\* Whether d may adopt the changes: they follow its head, or a merge among
\* them absorbs it from a fork that is not below its checkpoint.
importable(d, target, changes) ==
  /\ VerifyConfigChainSuffix(head[d], target, changes)
  /\ base(head[d], changes) # head[d] =>
       base(head[d], changes).seqno >= CheckpointFloor(d)

\* The newest record of d's branch above its floor that the peer's branch has.
forks(d) ==
  LET held == ReadConfigBranch(head[d], CheckpointFloor(d))
      shared == ({cursor(held, head[d])} \cup Range(held))
                  \cap ({answer[d].cursor} \cup Range(answer[d].changes))
  IN {h \in shared : \A other \in shared : other.seqno <= h.seqno}

\* Mutated form of ours: the records from the fork on.
oursFromFork(d, fork) == ReadConfigBranch(head[d], fork.seqno - 1)

\* The records of d's branch that the peer's lacks.
ours(d, fork) == ReadConfigBranch(head[d], fork.seqno)

\* Whether d handles the answer: it admits the peer, and its head is not above the answer's.
current(d) ==
  /\ answer[d] # Nothing
  /\ authorizeParticipants(d, answer[d].from)
  /\ head[d].seqno <= answer[d].target.seqno

isBranch(d) == answer[d].cursor # NoHash

\* Mutated form of extends: the winning head replaces the held one.
extendsOrWins(d) ==
  /\ isBranch(d)
  /\ \E fork \in forks(d) : ours(d, fork) = <<>> \/ MergeWins(answer[d].target, head[d])

\* Whether the peer's branch, which d asked for when the chains diverged, now extends d's.
extends(d) ==
  isBranch(d) /\ \E fork \in forks(d) : ours(d, fork) = <<>> /\ fork # answer[d].target

\* Whether the answer follows d's head.
follows(d) ==
  \/ extends(d)
  \/ /\ ~isBranch(d)
     /\ importable(d, answer[d].target, unappliedConfigChanges(head[d], answer[d].changes))

\* Whether d is to merge: the peer's head wins, and d owns it.
isToMerge(d) ==
  /\ isBranch(d)
  /\ \E fork \in forks(d) : ours(d, fork) # <<>> /\ fork # answer[d].target
  /\ MergeWins(answer[d].target, head[d])
  /\ isOwnerPeer(config(answer[d].target), d)

\* The config that d holds once it adopted the answer, or merged.
nextConfig(d) ==
  IF follows(d) THEN config(answer[d].target)
  ELSE CHOOSE merged \in {mergeConfigBranch(answer[d].target, branch) :
                            branch \in {ours(d, fork) : fork \in forks(d)}} : TRUE

accessible(d) == validateAccess(d, nextConfig(d), answer[d].checkpoint, answer[d].grants)
adopts(d) == follows(d) /\ accessible(d)
absorbs(d) == isToMerge(d) /\ accessible(d)

ImportPeerSnapshot(d) ==
  /\ current(d) /\ adopts(d)
  /\ commitPeerSnapshot(d, answer[d].target, nextConfig(d), answer[d].checkpoint, answer[d].grants)
  /\ answer' = [answer EXCEPT ![d] = Nothing]
  /\ UNCHANGED <<scenario, records, request>>

\* d signs a merge on the peer's head that absorbs its own branch.
MergePeerBranch(d) ==
  /\ current(d) /\ absorbs(d)
  /\ \E fork \in forks(d), merge \in newHashes(d, answer[d].target) :
       /\ signing(answer[d].target, merge, nextConfig(d), fork, ours(d, fork), Nothing)
       /\ commitPeerSnapshot(d, merge, nextConfig(d), answer[d].checkpoint, answer[d].grants)
  /\ answer' = [answer EXCEPT ![d] = Nothing]
  /\ UNCHANGED <<scenario, request>>

\* Whether d cannot do with the answer what it is to: its suffix or branch does
\* not meet d's chain above its floor, or d has no key for its checkpoint.
fails(d) ==
  /\ head[d].seqno <= answer[d].target.seqno
  /\ ~adopts(d) /\ ~absorbs(d)
  /\ isBranch(d) => forks(d) = {} \/ follows(d) \/ isToMerge(d)

\* An answer that d cannot use leaves what it holds as it is. A failure ends
\* the stream, and the next one advertises anew.
DeclineResponse(d) ==
  /\ answer[d] # Nothing
  /\ ~(current(d) /\ (adopts(d) \/ absorbs(d)))
  /\ heard' = IF authorizeParticipants(d, answer[d].from) /\ ~fails(d) THEN heard
              ELSE [heard EXCEPT ![d] = @ \ {answer[d].from}, ![answer[d].from] = @ \ {d}]
  /\ answer' = [answer EXCEPT ![d] = Nothing]
  /\ UNCHANGED <<scenario, log, request>>

\* A participant that d refuses admits d, and offers it the changes that follow d's head.
ImportPeerConfig(d, from) ==
  /\ ~authorizeParticipants(d, from) /\ authorizeParticipants(from, d)
  /\ head[d] # head[from] /\ head[d] \in onChain(head[from])
  /\ commitPeerSnapshot(d, head[from], config(head[from]), checkpoint[d], NoGrants)
  /\ UNCHANGED <<scenario, records, answer, request>>

Next ==
  \/ \E d \in Devices : AddSOParticipant(d) \/ RemoveSOParticipants(d)
  \/ \E d \in Devices : BuildSOLeaveRequest(d) \/ SignCheckpoint(d)
  \/ \E d, p \in Devices : acceptSharedObjectLeave(d, p) \/ LeaveSharedObject(p, d)
  \/ \E d, from \in Devices : RequestHistory(d, from) \/ ImportPeerConfig(d, from)
  \/ \E d \in Devices : ImportPeerSnapshot(d) \/ MergePeerBranch(d) \/ DeclineResponse(d)

Spec == Init /\ [][Next]_vars

\* What the streams between the devices do by themselves.
Exchange ==
  \/ \E d, from \in Devices : RequestHistory(d, from) \/ ImportPeerConfig(d, from)
  \/ \E d \in Devices : ImportPeerSnapshot(d) \/ MergePeerBranch(d) \/ DeclineResponse(d)

\* Some of it happens while any is left to do.
FairSpec == Spec /\ WF_vars(Exchange)

-----------------------------------------------------------------------------
(* Properties.                                                             *)

\* A record follows one of the sequence number below, absorbs a branch that
\* leads from the fork to its end, and yields a valid config; the checkpoint a
\* device holds was signed under a record.
TypeOK ==
  /\ scenario \in Scenarios
  /\ \A h \in DOMAIN records \ {GenesisHash} :
       LET entry == records[h] IN
       /\ entry.prev \in DOMAIN records /\ h.seqno = entry.prev.seqno + 1
       /\ entry.config \in [Peers -> Roles] /\ Valid(entry.config)
       /\ entry.branch # <<>> =>
            /\ entry.fork \in onChain(entry.prev)
            /\ entry.branch = ReadConfigBranch(Last(entry.branch), entry.fork.seqno)
  /\ head \in [Devices -> DOMAIN records]
  /\ \A d \in Devices : checkpoint[d].under \in DOMAIN records

\* No device forgets a change its config accounted for: whatever it imports or
\* merges, the record stays on its chain, or a merge on its chain absorbs it
\* (host-merge.go MergePeerBranch, config-chain.go VerifyConfigChainSuffix).
ChangesKept ==
  [][\A d \in Devices : accounted(head[d]) \subseteq accounted(head[d])']_vars

\* The peers that owners sign changes about.
subjects == {change[2] : change \in UNION Range(scenario.changes)}

\* The changes of the peer p's role among the records.
changesOf(p, hashes) ==
  {h \in hashes \ {GenesisHash} :
     records[h].branch = <<>> /\ config(h)[p] # config(records[h].prev)[p]}

\* The role of a peer is the one that a latest change of it set: a merge
\* neither loses a change nor brings back what its owner had seen and changed
\* since, while two owners sign and none loses its ownership
\* (config-merge.go mergeConfigBranch, applyConfigDelta).
LatestChangeStands ==
  \A d \in Devices, p \in Peers :
    LET changes == changesOf(p, accounted(head[d]))
        latest == {h \in changes : \A later \in changes : h \notin accounted(records[later].prev)}
        owners == {o \in Peers : isOwnerPeer(scenario.roles, o)}
    IN owners \cap subjects = {} /\ Cardinality(owners) <= 2 =>
         config(head[d])[p] \in
           (IF changes = {} THEN {scenario.roles[p]} ELSE {config(h)[p] : h \in latest})

\* The config that a held checkpoint was signed under stays on the chain of its
\* device, so no merge changes what was decided before the checkpoint
\* (host-merge.go CheckpointFloor, checkMergeFloor).
CheckpointStaysOnChain ==
  \A d \in Devices : checkpoint[d].under \in onChain(head[d])

\* A leave request removes its participant once along a chain: an owner whose
\* chain carried it out, itself or by import, and then admitted the participant
\* anew does not remove it with the same request (leave.go:71-73, 98-125).
LeaveOnce ==
  \A h \in DOMAIN records : records[h].leave # Nothing =>
    ~\E before \in onChain(records[h].prev) : records[before].leave = records[h].leave

\* The chain of d, an owner, forks from that of e below the checkpoint d holds.
forkBelowCheckpoint(d, e) ==
  /\ isOwnerPeer(config(head[d]), d)
  /\ \A h \in onChain(head[d]) \cap onChain(head[e]) : h.seqno < CheckpointFloor(d)

\* While its participants and owners stay, every device that participates ends
\* at one head, however owners changed the config apart (host-merge.go:64-66:
\* the peer whose head loses merges), unless an owner checkpointed a change
\* that it made apart. It then refuses every branch from below its checkpoint,
\* which ends the exchange for both, and they may stay apart until a trusted
\* source recovers one (host-merge.go:171-173, host-sync.go:17).
HeadsMeet ==
  LET members == {d \in Devices : Participates(scenario.roles, d)}
  IN subjects \cap Devices = {} /\ scenario.leaving = {} =>
       <>[](\/ \A d, e \in members : head[d] = head[e]
            \/ \E d, e \in members : forkBelowCheckpoint(d, e))

\* While owners stay, every device that the owners admit ends with a grant of
\* the key for each participant it admits: no merge, import, departure or join
\* leaves a member that cannot read, or one whose grant nobody accepts
\* (state.go:461-469 MergeKeyEpochs, remove-participant.go pruneRemovedParticipants).
MembersCanRead ==
  LET owners == {o \in Peers : isOwnerPeer(scenario.roles, o)}
      admits(d, p) == Participates(config(head[d]), p)
  IN owners \cap subjects = {} =>
       <>[](\A d \in Devices : (\A o \in owners : admits(o, d)) /\ admits(d, d) =>
              \A p \in Peers : admits(d, p) => validateSigner(config(head[d]), grants[d][p], p))

\* A device whose head was absorbed, however many merges deep, can follow: the
\* records from the fork of a merge lead to the head that absorbed it
\* (host-sync.go:51-53, config-merge_test.go:156-157).
AbsorbedCanFollow ==
  \A d \in Devices : \A h \in AbsorbedConfigChanges(onChain(head[d])) :
    ReadConfigSuffix(h, head[d]) # Nothing
=============================================================================
