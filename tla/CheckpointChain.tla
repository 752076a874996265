--------------------------- MODULE CheckpointChain ---------------------------
(***************************************************************************)
(* The history of one shared object: the chain of configs that says who    *)
(* controls it, and the chain of checkpoints of its state, as each device  *)
(* holds them (core/sobject/config-chain.go, checkpoint.go, state.go).     *)
(*                                                                         *)
(* Under owner control an owner signs config changes alone, and the        *)
(* checkpointer signs checkpoints in the background. Under group control   *)
(* the voters decide both, one value for each config and height: that is   *)
(* what GroupDecision promises and ControlRounds implements, so here a     *)
(* voter only judges values (Endorse) and applies the one that a quorum    *)
(* endorsed (Decide). Devices exchange what they hold when they meet.      *)
(*                                                                         *)
(* A chain is named by its hash, which names all it follows, so a config   *)
(* is the sequence of its records and a checkpoint the sequence of its     *)
(* entries. Its hash leaves out the owners' signatures, which come and go.  *)
(***************************************************************************)
EXTENDS Naturals, Sequences, FiniteSets, SequencesExt

CONSTANTS
  Devices,               \* the peers of the shared object
  Scenarios,             \* what a history may hold: see ScenarioOK
  Labels,                \* what a checkpoint may cover and carry
  Group,                 \* the signer of a checkpoint that a commit decided
  MaxControlAgreements   \* changes of one config that a voter agrees to

\* A scenario has the first config's content and the owner that signed the
\* first checkpoint, what a change may make a config say, whether a device that
\* refused a peer adopts its config changes, and bounds of both chains.
\* owners is in participant order, departing are the owners whose leave request
\* the change carries, dropped are the peers the trimming roster drops, and each
\* voter has one vote.
ScenarioOK(x) ==
  /\ \A c \in x.contents \cup {x.genesis} :
       /\ DOMAIN c = {"group", "members", "owners", "departing", "dropped", "voters"}
       /\ c.group \in BOOLEAN
       /\ c.owners \in Seq(Devices)
       /\ c.owners # <<>>
       /\ Range(c.owners) \cup c.voters \subseteq c.members
       /\ c.members \subseteq Devices
       /\ c.dropped \subseteq c.members
       /\ c.group <=> c.voters # {}
       /\ c.departing # {} => ~ c.group /\ c.departing \subseteq Range(c.owners)
  /\ ~ x.genesis.group
  /\ x.creator \in Range(x.genesis.owners)
  /\ x.configOnly \in BOOLEAN
  /\ x.maxConfig \in Nat \ {0} /\ x.maxHeight \in Nat

ASSUME ChainAssumption ==
  /\ IsFiniteSet(Devices)
  /\ \A x \in Scenarios : ScenarioOK(x)
  /\ Group \notin Devices

VARIABLES
  scenario,    \* what this history may hold
  config,      \* config[d]: the config d holds, empty before d joins
  checkpoint,  \* checkpoint[d]: the checkpoint d holds
  signatures,  \* signatures[d]: the peers whose signatures d's copy of it carries
  agreements,  \* agreements[d]: agreements to changes of config[d] that d holds
  signing,     \* signing[d]: the change owner d signed and is about to apply
  storing,     \* storing[d]: the checkpoint owner d stores in the background
  endorsed,    \* every judgment a voter made in favour of a value
  decisions,   \* every value a group decided
  agreed       \* every agreement a voter ever added to its state

vars == <<scenario, config, checkpoint, signatures, agreements, signing, storing, endorsed,
          decisions, agreed>>
held == <<checkpoint, signatures>>
background == <<signing, storing>>
past == <<scenario, endorsed, decisions, agreed>>

-----------------------------------------------------------------------------
(* What a config says.                                                     *)

content(c) == Last(c).content
seal(c) == Last(c).seal          \* at most one checkpoint
holds(d) == config[d] # <<>>
IsGroupControl(c) == content(c).group
isOwnerPeer(c, S) == S \cap Range(content(c).owners) # {}  \* an owner among the peers S

\* The first owner on the trimming roster, as a set of at most one device.
Checkpointer(c) ==
  LET onRoster == SelectSeq(content(c).owners, LAMBDA d : d \notin content(c).dropped)
  IN IF onRoster = <<>> THEN {} ELSE {Head(onRoster)}

HasQuorum(S, c) == Cardinality(S \cap content(c).voters) * 3 > Cardinality(content(c).voters) * 2

\* The decision that is open for d.
key(d) == [config |-> config[d], height |-> Len(checkpoint[d]) + 1]
votes(d) == holds(d) /\ IsGroupControl(config[d]) /\ d \in content(config[d]).voters

\* The config after c that says new and seals sealed.
follow(c, new, sealed) == Append(c, [content |-> new, seal |-> sealed])

\* Config c authorizes checkpoint k, signed by the peers S: c seals it, or a group
\* decided it under c, or an owner of c signed it.
ValidateAuthority(k, S, c) ==
  /\ Cardinality(S) <= Cardinality(content(c).members)
  /\ \/ k \in seal(c)
     \/ IF IsGroupControl(c) THEN k # <<>> /\ Last(k).author = Group /\ Last(k).config = c
        ELSE isOwnerPeer(c, S)

\* What a device that holds k and the config c makes of checkpoint next: a
\* higher one that c authorizes replaces k, unless it is k's successor and does
\* not follow k; a lower one is ignored, and another of k's height refused.
refuses(k, next, S, c) ==
  IF Len(next) <= Len(k) THEN Len(next) = Len(k) /\ next # k
  ELSE \/ Len(next) = Len(k) + 1 /\ ~ IsPrefix(k, next)
       \/ ~ ValidateAuthority(next, S, c)

\* The copy of d's own checkpoint replaces d's where only that one is authorized.
replaces(d, next, S, c) ==
  \/ Len(next) > Len(checkpoint[d])
  \/ next = checkpoint[d] /\ ~ ValidateAuthority(next, signatures[d], c) /\ ValidateAuthority(next, S, c)

\* d, which comes to hold config c, takes checkpoint next with the signatures S.
adoptCheckpoint(d, next, S, c) ==
  /\ ~ refuses(checkpoint[d], next, S, c)
  /\ checkpoint' = [checkpoint EXCEPT ![d] = IF replaces(d, next, S, c) THEN next ELSE @]
  /\ signatures' = [signatures EXCEPT ![d] = IF replaces(d, next, S, c) THEN S ELSE @]

-----------------------------------------------------------------------------
Init ==
  /\ scenario \in Scenarios
  /\ config = [d \in Devices |->
       IF d \in scenario.genesis.members THEN <<[content |-> scenario.genesis, seal |-> {}]>> ELSE <<>>]
  /\ checkpoint = [d \in Devices |-> <<>>]
  /\ signatures = [d \in Devices |-> IF d \in scenario.genesis.members THEN {scenario.creator} ELSE {}]
  /\ agreements = [d \in Devices |-> {}]
  /\ signing = [d \in Devices |-> {}]
  /\ storing = [d \in Devices |-> {}]
  /\ endorsed = {}
  /\ decisions = {}
  /\ agreed = {}

(* Owner control: an owner changes the config.                             *)

\* What an owner d of content old may make it say: an owner that stays a member
\* stays an owner, and the signer does. An owner that is to leave hands over
\* first, by a change that carries its leave request, and signs no change of that.
owns(d, old) == d \in Range(old.owners) \ old.departing
mayChange(d, old, new) ==
  /\ owns(d, old)
  /\ d \in Range(new.owners)
  /\ Range(old.owners) \cap new.members \subseteq Range(new.owners)
  /\ new.departing # {} => new.departing = {d} /\ new.members = old.members

\* Owner d signs a change of the config it holds. A change to group control
\* seals the checkpoint d holds; any other keeps the seal of the config.
SignChange(d, new) ==
  /\ holds(d)
  /\ ~ IsGroupControl(config[d])
  /\ mayChange(d, content(config[d]), new)
  /\ new # content(config[d])
  /\ signing[d] = {}
  /\ Len(config[d]) < scenario.maxConfig
  /\ signing' = [signing EXCEPT ![d] =
       {follow(config[d], new, IF new.group THEN {checkpoint[d]} ELSE seal(config[d]))}]
  /\ UNCHANGED <<config, held, agreements, storing, past>>

\* Mutated form of applies: the sealed checkpoint is not looked at again.
appliesAnySeal(d, next) == Front(next) = config[d]

\* Under the host lock: the change follows the held config, and the checkpoint
\* it seals for a group is still held.
applies(d, next) ==
  /\ Front(next) = config[d]
  /\ IsGroupControl(next) => checkpoint[d] \in seal(next)

\* Mutated form of pruneControlMessages: agreements to changes of an earlier config
\* stay.
pruneNone(d, c, k) == agreements[d]

\* Mutated form of pruneControlMessages: a new checkpoint drops them as well.
pruneAtCheckpoint(d, c, k) == IF c = config[d] /\ k = checkpoint[d] THEN agreements[d] ELSE {}

\* The agreements d keeps as it comes to hold config c and checkpoint k: those to
\* changes of the config it held go with that config.
pruneControlMessages(d, c, k) == IF c = config[d] THEN agreements[d] ELSE {}

\* d holds config c from now on.
adoptConfig(d, c) ==
  /\ config' = [config EXCEPT ![d] = c]
  /\ agreements' = [agreements EXCEPT ![d] = pruneControlMessages(d, c, checkpoint[d])]

removed(d, next) == content(config[d]).members \ content(next).members

\* Mutated form of coSigned: the signatures of the removed peers go, and d adds none.
withoutCoSign(d, next) == signatures[d] \ removed(d, next)

\* The signatures of d's checkpoint after its change next: a change that removes
\* peers drops theirs, and d, which stays, signs where no other owner did.
coSigned(d, next) ==
  LET kept == signatures[d] \ removed(d, next)
  IN IF removed(d, next) = {} \/ ValidateAuthority(checkpoint[d], kept, next)
     THEN kept ELSE kept \cup {d}

\* The change applies, or fails as the state moved on.
ApplyChange(d) ==
  /\ \E next \in signing[d] :
       IF applies(d, next)
       THEN adoptConfig(d, next) /\ signatures' = [signatures EXCEPT ![d] = coSigned(d, next)]
       ELSE UNCHANGED <<config, agreements, signatures>>
  /\ signing' = [signing EXCEPT ![d] = {}]
  /\ UNCHANGED <<checkpoint, storing, past>>

(* Owner control: the checkpointer signs checkpoints.                      *)

\* The checkpointer's body stores the state a checkpoint will carry.
StartCheckpoint(d, label) ==
  /\ holds(d)
  /\ ~ IsGroupControl(config[d])
  /\ d \in Checkpointer(config[d]) \ content(config[d]).departing
  /\ storing[d] = {}
  /\ Len(checkpoint[d]) < scenario.maxHeight
  /\ storing' = [storing EXCEPT ![d] = {[height |-> Len(checkpoint[d]), label |-> label]}]
  /\ UNCHANGED <<config, held, agreements, signing, past>>

\* The checkpoint owner d signs, over the one it holds.
own(d, label) ==
  Append(checkpoint[d], [config |-> config[d], label |-> label, author |-> d])

\* Mutated form of current: a group may have taken control.
currentUnderAnyConfig(d, work) == Len(checkpoint[d]) = work.height

\* Under the host lock: the checkpoint the work was for is still held, and the
\* held config authorizes d's signature.
current(d, work) ==
  /\ Len(checkpoint[d]) = work.height
  /\ ValidateAuthority(own(d, work.label), {d}, config[d])

\* d signs and adopts the checkpoint it stored.
AdoptOwn(d) ==
  /\ \E work \in storing[d] :
       /\ current(d, work)
       /\ checkpoint' = [checkpoint EXCEPT ![d] = own(d, work.label)]
       /\ signatures' = [signatures EXCEPT ![d] = {d}]
  /\ storing' = [storing EXCEPT ![d] = {}]
  /\ UNCHANGED <<config, agreements, signing, past>>

\* The work is dropped: the state moved past it, its prefix is no longer
\* stable, storing failed, or the process stopped.
DropOwn(d) ==
  /\ storing[d] # {}
  /\ storing' = [storing EXCEPT ![d] = {}]
  /\ UNCHANGED <<config, held, agreements, signing, past>>

-----------------------------------------------------------------------------
(* Group control: agreeing to changes and deciding.                        *)

agreement(d, new) == [voter |-> d, content |-> new]
agreementsOf(d, M) == {a \in M : a.voter = d}

\* What a state holds after agreement a is added: at most MaxControlAgreements
\* of one voter.
AddControlMessage(M, a) ==
  IF Cardinality(agreementsOf(a.voter, M)) < MaxControlAgreements THEN M \cup {a} ELSE M

\* Voter d asks for a change, or approves one.
Agree(d, new) ==
  /\ votes(d)
  /\ new # content(config[d])
  /\ new.departing = {}
  /\ agreement(d, new) \notin agreements[d]
  /\ Len(config[d]) < scenario.maxConfig
  /\ agreements' = [agreements EXCEPT ![d] = AddControlMessage(@, agreement(d, new))]
  /\ agreed' = agreed \cup
       {[voter |-> a.voter, config |-> config[d], content |-> a.content] : a \in agreements'[d]}
  /\ UNCHANGED <<config, held, background, scenario, endorsed, decisions>>

agreers(M, new) == {a.voter : a \in {b \in M : b.content = new}}

\* Mutated form of judgeControlRecord: one agreement is enough.
judgeControlRecordOfOne(d, new) == agreers(agreements[d], new) # {}

\* d accepts a record that it, and a quorum it knows of, agreed to.
judgeControlRecord(d, new) ==
  /\ d \in agreers(agreements[d], new)
  /\ HasQuorum(agreers(agreements[d], new), config[d])

\* The heads d may accept next: an agreed record that seals the checkpoint d
\* holds, or a checkpoint over it.
acceptable(d) ==
  {[config |-> follow(config[d], new, {checkpoint[d]}), checkpoint |-> checkpoint[d]] :
     new \in {n \in scenario.contents : judgeControlRecord(d, n) /\ Len(config[d]) < scenario.maxConfig}} \cup
  {[config |-> config[d],
    checkpoint |-> Append(checkpoint[d], [config |-> config[d], label |-> l, author |-> Group])] :
     l \in {m \in Labels : Len(checkpoint[d]) < scenario.maxHeight}}

\* Voter d judges a value of its open decision valid, and votes for it.
Endorse(d, head) ==
  /\ votes(d)
  /\ head \in acceptable(d)
  /\ endorsed' = endorsed \cup {[voter |-> d, key |-> key(d), head |-> head]}
  /\ UNCHANGED <<config, held, agreements, background, scenario, decisions, agreed>>

keyOf(d, e) == e.key = key(d)

endorsersOf(d, head) == {e.voter : e \in {f \in endorsed : keyOf(d, f) /\ f.head = head}}

\* Voter d applies the value of its open decision, the only one it has.
Decide(d, head) ==
  /\ votes(d)
  /\ HasQuorum(endorsersOf(d, head), config[d])
  /\ \A x \in decisions : x.key = key(d) => x.head = head
  /\ decisions' = decisions \cup {[key |-> key(d), head |-> head]}
  /\ \/ /\ head.config # config[d]
        /\ adoptConfig(d, head.config)
        /\ UNCHANGED held
     \/ /\ head.config = config[d]
        /\ adoptCheckpoint(d, head.checkpoint, {}, config[d])
        /\ agreements' = [agreements EXCEPT
             ![d] = pruneControlMessages(d, config[d], checkpoint'[d])]
        /\ UNCHANGED config
  /\ UNCHANGED <<background, scenario, endorsed, agreed>>

-----------------------------------------------------------------------------
(* Devices exchange what they hold.                                        *)

member(c, d) == d \in content(c).members

\* d's config lets d and e synchronize.
admits(d, e) == holds(d) /\ member(config[d], d) /\ member(config[d], e)

\* d merges what e holds into its own state; the config e holds follows d's.
mergeSnapshot(d, e) ==
  /\ IsPrefix(config[d], config[e])
  /\ config' = [config EXCEPT ![d] = config[e]]
  /\ adoptCheckpoint(d, checkpoint[e], signatures[e], config[e])
  /\ agreements' = [agreements EXCEPT ![d] =
       agreements[e] \cup pruneControlMessages(d, config[e], checkpoint'[d])]
  /\ UNCHANGED <<background, past>>

\* d and e synchronize: each admits the other.
ImportPeerSnapshot(d, e) ==
  /\ admits(d, e)
  /\ admits(e, d)
  /\ mergeSnapshot(d, e)

\* e answers d's leave request: d takes the config without d, and nothing else.
ImportRemoval(d, e) ==
  /\ holds(d)
  /\ member(config[d], d)
  /\ IsStrictPrefix(config[d], config[e])
  /\ ~ member(config[e], d)
  /\ adoptConfig(d, config[e])
  /\ UNCHANGED <<held, background, past>>

\* d refused e, which admitted d: d adopts the config changes e sends, alone.
ImportPeerConfig(d, e) ==
  /\ scenario.configOnly
  /\ holds(d)
  /\ ~ admits(d, e)
  /\ admits(e, d)
  /\ IsStrictPrefix(config[d], config[e])
  /\ adoptConfig(d, config[e])
  /\ UNCHANGED <<held, background, past>>

\* d, which is no member, accepts an invitation: it shows d what e holds.
invited(d, e) ==
  /\ ~ admits(d, d)
  /\ admits(e, d)
  /\ ValidateAuthority(checkpoint[e], signatures[e], config[e])

\* An account that does not list the object takes the state as it is.
InstallInviteSnapshot(d, e) ==
  /\ invited(d, e)
  /\ ~ holds(d)
  /\ config' = [config EXCEPT ![d] = config[e]]
  /\ checkpoint' = [checkpoint EXCEPT ![d] = checkpoint[e]]
  /\ signatures' = [signatures EXCEPT ![d] = signatures[e]]
  /\ agreements' = [agreements EXCEPT ![d] = agreements[e]]
  /\ UNCHANGED <<background, past>>

\* An account that lists it merges what it held when it left.
MergeInviteSnapshot(d, e) ==
  /\ invited(d, e)
  /\ holds(d)
  /\ mergeSnapshot(d, e)

Next ==
  \E d \in Devices :
    \/ \E new \in scenario.contents : SignChange(d, new) \/ Agree(d, new)
    \/ ApplyChange(d)
    \/ \E label \in Labels : StartCheckpoint(d, label)
    \/ AdoptOwn(d)
    \/ DropOwn(d)
    \/ \E head \in acceptable(d) : Endorse(d, head)
    \/ \E f \in endorsed : Decide(d, f.head)
    \/ \E e \in Devices \ {d} :
         \/ ImportPeerSnapshot(d, e)
         \/ ImportRemoval(d, e)
         \/ ImportPeerConfig(d, e)
         \/ InstallInviteSnapshot(d, e)
         \/ MergeInviteSnapshot(d, e)

Spec == Init /\ [][Next]_vars

-----------------------------------------------------------------------------
(* Properties.                                                             *)

\* The types of the state: configs made of known contents that seal at most one
\* checkpoint, checkpoints made of known labels, at most one change and one
\* checkpoint of a device under way, and agreements of voters only.
TypeOK ==
  /\ \A d \in Devices :
       /\ \A i \in DOMAIN config[d] :
            config[d][i].content \in scenario.contents \cup {scenario.genesis} /\ Cardinality(config[d][i].seal) <= 1
       /\ \A i \in DOMAIN checkpoint[d] :
            /\ checkpoint[d][i].label \in Labels
            /\ checkpoint[d][i].author \in Devices \cup {Group}
       /\ signatures[d] \subseteq Devices
       /\ Len(config[d]) <= scenario.maxConfig /\ Len(checkpoint[d]) <= scenario.maxHeight
       /\ agreements[d] \subseteq [voter : Devices, content : scenario.contents]
       /\ agreements[d] # {} => \A a \in agreements[d] : a.voter \in content(config[d]).voters
       /\ Cardinality(signing[d]) <= 1 /\ Cardinality(storing[d]) <= 1
  /\ \A e \in endorsed : e.voter \in content(e.key.config).voters

\* A member of a group votes where the group's decisions go on: the checkpoint it
\* holds is the one its config seals, or follows it by what the group decided
\* under that config ("seals the held checkpoint so the group's decisions follow
\* it", SetSOControl). A device that refused a peer and adopts the config that
\* seals without the sealed checkpoint may vote below it (ImportPeerConfig), so
\* this is about histories without such imports.
DecisionsFollowSeal ==
  \A d \in Devices : votes(d) /\ ~ scenario.configOnly =>
    \A k \in seal(config[d]) :
      /\ IsPrefix(k, checkpoint[d])
      /\ \A i \in Len(k)+1..Len(checkpoint[d]) :
           checkpoint[d][i].author = Group /\ checkpoint[d][i].config = config[d]

\* Any member can invite: its config vouches for the checkpoint it holds, even
\* after the voters that decided it or the owner that signed it left ("so it stays
\* valid after the voters who committed it change", sobject.proto). As above, a
\* config adopted alone may miss the checkpoint it seals.
HeldVouched ==
  \A d \in Devices : admits(d, d) /\ ~ scenario.configOnly =>
    ValidateAuthority(checkpoint[d], signatures[d], config[d])

\* A record that a group decided was agreed to by a quorum of the voters of the
\* config before it, whatever they held when they voted.
RecordsAgreed ==
  \A d \in Devices : \A i \in 2..Len(config[d]) :
    LET before == SubSeq(config[d], 1, i - 1)
    IN IsGroupControl(before) =>
         HasQuorum({a.voter : a \in {b \in agreed : /\ b.config = before
                                                    /\ b.content = config[d][i].content}},
                   before)

\* An owner signs one checkpoint at a height ("One checkpointer keeps owners from
\* signing different checkpoints at one height", Checkpointer): no two devices
\* hold different ones.
OneCheckpointPerHeight ==
  \A d, e \in Devices :
    Len(checkpoint[d]) = Len(checkpoint[e]) => checkpoint[d] = checkpoint[e]

\* An agreement outlives the checkpoints decided before the change: a voter holds
\* it for as long as it holds the config the change follows.
AgreementsLast ==
  [][\A d \in Devices : config'[d] = config[d] => agreements[d] \subseteq agreements'[d]]_vars

\* All devices follow one history of configs and checkpoints, and none goes back.
History == INSTANCE SharedHistory
FollowsHistory == History!Spec
=============================================================================
