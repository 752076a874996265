------------------------ MODULE CheckpointChainProofs ------------------------
(***************************************************************************)
(* Theorems about CheckpointChain, for any devices, any history and any    *)
(* bounds: what a change that a group decided rests on, how long an        *)
(* agreement lasts, and that a device only moves on along its configs.     *)
(***************************************************************************)
EXTENDS CheckpointChain, FiniteSetTheorems, TLAPS

(* Chains are sequences of records that name each other, so there is no    *)
(* set they are all in: a chain is a sequence of something.                *)

IsChain(c) == \E S : c \in Seq(S)

\* What Append, Front, Last and SubSeq make of a chain.
LEMMA AppendChain ==
  ASSUME NEW c, IsChain(c), NEW x
  PROVE  /\ IsChain(Append(c, x)) /\ Len(c) \in Nat
         /\ Len(Append(c, x)) = Len(c) + 1
         /\ DOMAIN c = 1..Len(c) /\ DOMAIN Append(c, x) = 1..Len(c) + 1
         /\ \A i \in 1..Len(c) : Append(c, x)[i] = c[i]
         /\ Append(c, x)[Len(c) + 1] = x
         /\ Append(c, x) # <<>>
<1>1. PICK S : c \in Seq(S)
  BY DEF IsChain
<1>2. c \in Seq(S \cup {x})
  <2>1. DOMAIN c = 1..Len(c) /\ Len(c) \in Nat /\ \A i \in 1..Len(c) : c[i] \in S \cup {x}
    BY <1>1
  <2>2. c = [i \in 1..Len(c) |-> c[i]]
    BY <1>1
  <2> QED BY <2>1, <2>2
<1>3. Append(c, x) \in Seq(S \cup {x})
  BY <1>2
<1>4. IsChain(Append(c, x))
  BY <1>3 DEF IsChain
<1>5. Len(c) \in Nat /\ DOMAIN c = 1..Len(c)
  BY <1>2
<1>6. Len(Append(c, x)) = Len(c) + 1 /\ DOMAIN Append(c, x) = 1..Len(c) + 1
  BY <1>2, <1>5
<1>7. /\ \A i \in 1..Len(c) : Append(c, x)[i] = c[i]
      /\ Append(c, x)[Len(c) + 1] = x
  BY <1>2, <1>5
<1>8. Append(c, x) # <<>>
  BY <1>5, <1>6, Len(<<>>) = 0
<1> QED BY <1>4, <1>5, <1>6, <1>7, <1>8

LEMMA PrefixesOfAppend ==
  ASSUME NEW c, IsChain(c), NEW x, NEW i \in 2..Len(c) + 1
  PROVE  SubSeq(Append(c, x), 1, i - 1) = IF i = Len(c) + 1 THEN c ELSE SubSeq(c, 1, i - 1)
<1>1. PICK S : c \in Seq(S)
  BY DEF IsChain
<1>2. SubSeq(Append(c, x), 1, i - 1) = [k \in 1..i - 1 |-> Append(c, x)[k]]
  BY AppendChain
<1>3. SubSeq(Append(c, x), 1, i - 1) = [k \in 1..i - 1 |-> c[k]]
  BY <1>2, AppendChain
<1>4. SubSeq(c, 1, i - 1) = [k \in 1..i - 1 |-> c[k]]
  BY AppendChain
<1>5. c = [k \in 1..Len(c) |-> c[k]]
  BY <1>1
<1> QED BY <1>3, <1>4, <1>5, AppendChain

LEMMA PrefixOfAppend ==
  ASSUME NEW c, IsChain(c), NEW x
  PROVE  IsPrefix(c, Append(c, x)) /\ Front(Append(c, x)) = c /\ IsPrefix(c, c)
<1>1. PICK S : c \in Seq(S)
  BY DEF IsChain
<1>2. c = [k \in 1..Len(c) |-> c[k]]
  BY <1>1
<1>3. SubSeq(c, 1, Len(c)) = c
  BY <1>1, <1>2
<1>4. SubSeq(Append(c, x), 1, Len(c)) = [k \in 1..Len(c) |-> Append(c, x)[k]]
  BY <1>1
<1>5. SubSeq(Append(c, x), 1, Len(c)) = c
  BY <1>2, <1>4, AppendChain
<1> QED BY <1>3, <1>5, AppendChain DEF IsPrefix, Front

\* An empty chain is a prefix of every chain.
LEMMA EmptyIsPrefix ==
  ASSUME NEW c, IsChain(c)
  PROVE  IsPrefix(<<>>, c) /\ IsChain(<<>>)
<1>1. PICK S : c \in Seq(S)
  BY DEF IsChain
<1>2. Len(<<>>) = 0 /\ Len(c) \in Nat /\ <<>> \in Seq(S)
  BY <1>1
<1>3. SubSeq(<<>>, 1, 0) = <<>> /\ SubSeq(c, 1, 0) = <<>>
  BY <1>1, <1>2
<1> QED BY <1>2, <1>3 DEF IsPrefix, IsChain

-----------------------------------------------------------------------------
(* The inductive invariant, of what x may hold and of the agreements A.    *)

\* The voters that agreed to change config c to n.
agreedBy(A, c, n) == {a.voter : a \in {b \in A : b.config = c /\ b.content = n}}

\* Each record of c after a group's config rests on a quorum of agreements in A.
recordsAgreed(c, A) ==
  \A i \in 2..Len(c) :
    IsGroupControl(SubSeq(c, 1, i - 1)) =>
      HasQuorum(agreedBy(A, SubSeq(c, 1, i - 1), c[i].content), SubSeq(c, 1, i - 1))

goodConfig(c, x, A) ==
  /\ IsChain(c)
  /\ Len(c) <= x.maxConfig
  /\ \A i \in 1..Len(c) : /\ c[i].content \in x.contents \cup {x.genesis}
                         /\ Cardinality(c[i].seal) <= 1
  /\ recordsAgreed(c, A)

goodCheckpoint(k, x) ==
  /\ IsChain(k)
  /\ Len(k) <= x.maxHeight
  /\ \A i \in 1..Len(k) : k[i].label \in Labels /\ k[i].author \in Devices \cup {Group}

\* An agreement of a voter of the held config c, which is remembered in A.
goodAgreement(a, c, x, A) ==
  /\ a \in [voter : Devices, content : x.contents]
  /\ a.voter \in content(c).voters
  /\ [voter |-> a.voter, config |-> c, content |-> a.content] \in A

goodSigned(next, x, A) ==
  /\ goodConfig(next, x, A)
  /\ \E c, r : IsChain(c) /\ next = Append(c, r)

goodWork(work, x) == work.label \in Labels /\ work.height \in Nat /\ work.height < x.maxHeight

goodEndorsement(e, x, A) ==
  /\ e.voter \in content(e.key.config).voters
  /\ goodConfig(e.head.config, x, A)
  /\ IsPrefix(e.key.config, e.head.config)
  /\ goodCheckpoint(e.head.checkpoint, x)

Shape ==
  /\ scenario \in Scenarios
  /\ DOMAIN config = Devices /\ DOMAIN checkpoint = Devices /\ DOMAIN signatures = Devices
  /\ DOMAIN agreements = Devices /\ DOMAIN signing = Devices /\ DOMAIN storing = Devices

GoodConfigs == \A d \in Devices : goodConfig(config[d], scenario, agreed)
GoodCheckpoints ==
  \A d \in Devices : /\ goodCheckpoint(checkpoint[d], scenario)
                     /\ signatures[d] \subseteq Devices
                     /\ config[d] = <<>> => checkpoint[d] = <<>>
GoodAgreements ==
  \A d \in Devices : \A a \in agreements[d] : goodAgreement(a, config[d], scenario, agreed)
GoodSigning ==
  \A d \in Devices : /\ signing[d] = {} \/ \E c : signing[d] = {c}
                     /\ \A c \in signing[d] : goodSigned(c, scenario, agreed)
GoodStoring ==
  \A d \in Devices : /\ storing[d] = {} \/ \E w : storing[d] = {w}
                     /\ \A w \in storing[d] : goodWork(w, scenario) /\ holds(d)
GoodEndorsed == \A e \in endorsed : goodEndorsement(e, scenario, agreed)

IInv ==
  /\ Shape
  /\ GoodConfigs
  /\ GoodCheckpoints
  /\ GoodAgreements
  /\ GoodSigning
  /\ GoodStoring
  /\ GoodEndorsed

-----------------------------------------------------------------------------
(* Quorums, and what stays as agreements are added.                        *)

\* The voters of a config that says something known are finitely many.
LEMMA VotersFinite ==
  ASSUME NEW x \in Scenarios, NEW n \in x.contents \cup {x.genesis}
  PROVE  IsFiniteSet(n.voters) /\ n.voters \subseteq Devices
<1>1. n.voters \subseteq Devices
  BY ChainAssumption DEF ScenarioOK
<1> QED BY <1>1, ChainAssumption, FS_Subset

\* A quorum stays one as voters join it.
LEMMA LargerQuorum ==
  ASSUME NEW c, IsFiniteSet(content(c).voters), NEW S, NEW T, S \subseteq T, HasQuorum(S, c)
  PROVE  HasQuorum(T, c)
<1> DEFINE V == content(c).voters
<1>1. IsFiniteSet(T \cap V) /\ IsFiniteSet(S \cap V)
  BY FS_Subset, T \cap V \in SUBSET V, S \cap V \in SUBSET V
<1>2. Cardinality(S \cap V) <= Cardinality(T \cap V)
  BY <1>1, FS_Subset, S \cap V \in SUBSET (T \cap V)
<1>3. /\ Cardinality(V) \in Nat /\ Cardinality(S \cap V) \in Nat
      /\ Cardinality(T \cap V) \in Nat
  BY <1>1, FS_CardinalityType
<1> QED BY <1>2, <1>3 DEF HasQuorum

\* A quorum has a member.
LEMMA QuorumHasMember ==
  ASSUME NEW c, IsFiniteSet(content(c).voters), NEW S, HasQuorum(S, c)
  PROVE  S # {}
<1>1. SUFFICES ASSUME S = {} PROVE FALSE
  OBVIOUS
<1>2. Cardinality(S \cap content(c).voters) = 0
  BY <1>1, FS_EmptySet
<1> QED BY <1>2, FS_CardinalityType DEF HasQuorum

\* The content of a prefix of a known chain is known.
LEMMA PrefixContent ==
  ASSUME NEW c, NEW x, NEW A, goodConfig(c, x, A), NEW i \in 2..Len(c)
  PROVE  content(SubSeq(c, 1, i - 1)) \in x.contents \cup {x.genesis}
<1>1. PICK S : c \in Seq(S)
  BY DEF goodConfig, IsChain
<1>2. Len(SubSeq(c, 1, i - 1)) = i - 1 /\ SubSeq(c, 1, i - 1)[i - 1] = c[i - 1]
  BY <1>1
<1>3. i - 1 \in 1..Len(c)
  BY <1>1
<1> QED BY <1>2, <1>3 DEF goodConfig, content, Last

LEMMA GoodConfigStays ==
  ASSUME NEW x \in Scenarios, NEW A, NEW B, A \subseteq B, NEW c, goodConfig(c, x, A)
  PROVE  goodConfig(c, x, B)
<1> SUFFICES ASSUME NEW i \in 2..Len(c), IsGroupControl(SubSeq(c, 1, i - 1))
             PROVE  HasQuorum(agreedBy(B, SubSeq(c, 1, i - 1), c[i].content), SubSeq(c, 1, i - 1))
  BY DEF goodConfig, recordsAgreed
<1> DEFINE before == SubSeq(c, 1, i - 1)
<1>1. IsFiniteSet(content(before).voters)
  BY PrefixContent, VotersFinite
<1>2. HasQuorum(agreedBy(A, before, c[i].content), before)
  BY DEF goodConfig, recordsAgreed
<1>3. agreedBy(A, before, c[i].content) \subseteq agreedBy(B, before, c[i].content)
  BY DEF agreedBy
<1>4. HasQuorum(agreedBy(B, before, c[i].content), before)
  <2> HIDE DEF before
  <2> QED BY <1>1, <1>2, <1>3, LargerQuorum
<1> QED BY <1>4

\* A record after a good config makes a good config, if a group agreed to it.
LEMMA FollowIsGood ==
  ASSUME NEW x \in Scenarios, NEW A, NEW c, goodConfig(c, x, A), c # <<>>,
         Len(c) < x.maxConfig, NEW n \in x.contents, NEW k, Cardinality(k) <= 1,
         IsGroupControl(c) => HasQuorum(agreedBy(A, c, n), c)
  PROVE  goodConfig(follow(c, n, k), x, A)
<1> DEFINE r == [content |-> n, seal |-> k]
           f == Append(c, r)
<1>1. IsChain(c)
  BY DEF goodConfig
<1>2. IsChain(f) /\ Len(f) = Len(c) + 1 /\ Len(c) \in Nat /\ f[Len(c) + 1] = r
      /\ \A i \in 1..Len(c) : f[i] = c[i]
  BY <1>1, AppendChain
<1>3. Len(f) <= x.maxConfig
  BY <1>2, ChainAssumption DEF ScenarioOK
<1>4. ASSUME NEW i \in 1..Len(f)
      PROVE  f[i].content \in x.contents \cup {x.genesis} /\ Cardinality(f[i].seal) <= 1
  <2>1. CASE i = Len(c) + 1
    BY <1>2, <2>1
  <2>2. CASE i # Len(c) + 1
    BY <1>2, <2>2 DEF goodConfig
  <2> QED BY <2>1, <2>2
<1>5. ASSUME NEW i \in 2..Len(f), IsGroupControl(SubSeq(f, 1, i - 1))
      PROVE  HasQuorum(agreedBy(A, SubSeq(f, 1, i - 1), f[i].content), SubSeq(f, 1, i - 1))
  <2>1. SubSeq(f, 1, i - 1) = IF i = Len(c) + 1 THEN c ELSE SubSeq(c, 1, i - 1)
    BY <1>1, <1>2, PrefixesOfAppend
  <2>2. CASE i = Len(c) + 1
    <3>1. SubSeq(f, 1, i - 1) = c /\ f[i].content = n
      BY <1>2, <2>1, <2>2
    <3>2. IsGroupControl(c)
      BY <1>5, <3>1
    <3> QED BY <3>1, <3>2
  <2>3. CASE i # Len(c) + 1
    <3>1. i \in 2..Len(c) /\ f[i] = c[i] /\ SubSeq(f, 1, i - 1) = SubSeq(c, 1, i - 1)
      BY <1>2, <2>1, <2>3
    <3> QED BY <1>5, <3>1 DEF goodConfig, recordsAgreed
  <2> QED BY <2>2, <2>3
<1> HIDE DEF f
<1>6. goodConfig(f, x, A)
  BY <1>2, <1>3, <1>4, <1>5 DEF goodConfig, recordsAgreed
<1> QED BY <1>6 DEF f, follow

\* What a held config says is known.
LEMMA HeldContent ==
  ASSUME IInv, NEW d \in Devices, holds(d)
  PROVE  /\ content(config[d]) \in scenario.contents \cup {scenario.genesis}
         /\ Cardinality(seal(config[d])) <= 1
         /\ IsFiniteSet(content(config[d]).voters)
<1>1. PICK S : config[d] \in Seq(S)
  BY DEF IInv, GoodConfigs, goodConfig, IsChain
<1>2. Len(config[d]) \in 1..Len(config[d])
  BY <1>1 DEF holds
<1>3. /\ config[d][Len(config[d])].content \in scenario.contents \cup {scenario.genesis}
      /\ Cardinality(config[d][Len(config[d])].seal) <= 1
  BY <1>2 DEF IInv, GoodConfigs, goodConfig
<1> QED BY <1>3, VotersFinite DEF content, seal, Last, IInv, Shape

\* A decided value was endorsed for the decision that is open for d.
LEMMA DecidedIsEndorsed ==
  ASSUME IInv, NEW d \in Devices, NEW head, Decide(d, head)
  PROVE  \E e \in endorsed : e.head = head /\ e.key.config = config[d]
<1>1. HasQuorum(endorsersOf(d, head), config[d]) /\ holds(d)
  BY DEF Decide, votes
<1>2. endorsersOf(d, head) # {}
  BY <1>1, HeldContent, QuorumHasMember
<1>3. PICK e \in endorsed : keyOf(d, e) /\ e.head = head
  BY <1>2 DEF endorsersOf
<1>4. e.key.config = config[d]
  BY <1>3 DEF keyOf, key
<1> QED BY <1>3, <1>4

-----------------------------------------------------------------------------
(* How a step moves what a device holds.                                   *)

\* d keeps its config, or takes one that it signed, that e holds or that a group
\* decided, which follows it.
configMoves(d) ==
  \/ config'[d] = config[d]
  \/ \E c \in signing[d] : config'[d] = c /\ Front(c) = config[d]
  \/ \E e \in Devices : config'[d] = config[e] /\ IsPrefix(config[d], config[e])
  \/ \E e \in endorsed : config'[d] = e.head.config /\ e.key.config = config[d]

\* d keeps its checkpoint, signs the next, or takes one that e holds or that a
\* group decided.
checkpointMoves(d) ==
  \/ checkpoint'[d] = checkpoint[d]
  \/ \E work \in storing[d] : /\ Len(checkpoint[d]) = work.height
                             /\ checkpoint'[d] = own(d, work.label)
  \/ \E e \in Devices : checkpoint'[d] = checkpoint[e] /\ Len(checkpoint[d]) <= Len(checkpoint[e])
  \/ \E e \in endorsed : /\ checkpoint'[d] = e.head.checkpoint
                        /\ Len(checkpoint[d]) <= Len(e.head.checkpoint)

\* d keeps agreements to changes of the config it comes to hold, adds one of its
\* own, or takes those of e with e's config.
agreementsMove(d) ==
  \/ agreements'[d] \subseteq agreements[d] /\ (config'[d] = config[d] \/ agreements'[d] = {})
  \/ /\ config'[d] = config[d] /\ votes(d)
     /\ \E n \in scenario.contents : /\ agreements'[d] \subseteq agreements[d] \cup {agreement(d, n)}
                                     /\ \A a \in agreements'[d] :
                                          [voter |-> a.voter, config |-> config[d],
                                           content |-> a.content] \in agreed'
  \/ \E e \in Devices :
       /\ config'[d] = config[e]
       /\ \/ agreements'[d] \subseteq agreements[e]
          \/ config'[d] = config[d] /\ agreements'[d] \subseteq agreements[e] \cup agreements[d]

moves(d) ==
  /\ configMoves(d)
  /\ checkpointMoves(d)
  /\ agreementsMove(d)
  /\ holds(d) \/ holds(d)' \/ checkpoint'[d] = checkpoint[d]

still(d) == /\ config'[d] = config[d] /\ checkpoint'[d] = checkpoint[d]
            /\ agreements'[d] = agreements[d]

LEMMA StillMoves ==
  ASSUME NEW d \in Devices, still(d)
  PROVE  moves(d)
  BY DEF still, moves, configMoves, checkpointMoves, agreementsMove

\* A merge takes e's config, and e's checkpoint or none.
LEMMA MergeMoves ==
  ASSUME Shape, NEW a \in Devices, NEW e \in Devices, holds(a), mergeSnapshot(a, e),
         NEW d \in Devices
  PROVE  moves(d)
<1>1. CASE d # a
  BY <1>1, StillMoves DEF mergeSnapshot, adoptCheckpoint, still, Shape
<1>2. CASE d = a
  <2>1. config'[a] = config[e] /\ IsPrefix(config[a], config[e])
    BY DEF mergeSnapshot, Shape
  <2>2. checkpointMoves(a)
    <3>1. checkpoint'[a] = IF replaces(a, checkpoint[e], signatures[e], config[e])
                           THEN checkpoint[e] ELSE checkpoint[a]
      BY DEF mergeSnapshot, adoptCheckpoint, Shape
    <3>2. CASE Len(checkpoint[e]) > Len(checkpoint[a])
      BY <3>1, <3>2 DEF checkpointMoves
    <3> QED BY <3>1, <3>2 DEF checkpointMoves, replaces
  <2>3. agreements'[a] = agreements[e] \cup pruneControlMessages(a, config[e], checkpoint'[a])
    BY DEF mergeSnapshot, Shape
  <2>4. agreementsMove(a)
    BY <2>1, <2>3 DEF pruneControlMessages, agreementsMove
  <2> QED BY <1>2, <2>1, <2>2, <2>4 DEF moves, configMoves
<1> QED BY <1>1, <1>2

\* So does adopting a config alone, of e or decided.
LEMMA AdoptConfigMoves ==
  ASSUME Shape, NEW a \in Devices, NEW c, adoptConfig(a, c), UNCHANGED checkpoint,
         NEW d \in Devices,
         \/ \E x \in signing[a] : c = x /\ Front(x) = config[a]
         \/ \E e \in Devices : c = config[e] /\ IsPrefix(config[a], config[e])
         \/ \E x \in endorsed : c = x.head.config /\ x.key.config = config[a]
  PROVE  moves(d)
<1>1. CASE d # a
  BY <1>1, StillMoves DEF adoptConfig, still, Shape
<1>2. CASE d = a
  <2>1. config'[a] = c /\ agreements'[a] = pruneControlMessages(a, c, checkpoint[a])
    BY DEF adoptConfig, Shape
  <2> QED BY <1>2, <2>1 DEF moves, configMoves, checkpointMoves, agreementsMove,
                            pruneControlMessages
<1> QED BY <1>1, <1>2

LEMMA StepMoves ==
  ASSUME IInv, Next, NEW d \in Devices
  PROVE  moves(d)
<1> USE DEF IInv
<1>1. ASSUME NEW a \in Devices, NEW new \in scenario.contents, SignChange(a, new) PROVE moves(d)
  BY <1>1, StillMoves DEF SignChange, held, still
<1>2. ASSUME NEW a \in Devices, NEW new \in scenario.contents, Agree(a, new) PROVE moves(d)
  <2>1. CASE d # a
    BY <1>2, <2>1, StillMoves DEF Agree, held, still, Shape
  <2>2. CASE d = a
    <3>1. agreements'[a] = AddControlMessage(agreements[a], agreement(a, new))
      BY <1>2 DEF Agree, Shape
    <3>2. agreements'[a] \subseteq agreements[a] \cup {agreement(a, new)}
      BY <3>1 DEF AddControlMessage
    <3>3. \A x \in agreements'[a] : [voter |-> x.voter, config |-> config[a],
                                     content |-> x.content] \in agreed'
      BY <1>2 DEF Agree
    <3>4. UNCHANGED <<config, checkpoint>> /\ votes(a)
      BY <1>2 DEF Agree, held
    <3> QED BY <2>2, <3>2, <3>3, <3>4 DEF moves, configMoves, checkpointMoves, agreementsMove
  <2> QED BY <2>1, <2>2
<1>3. ASSUME NEW a \in Devices, ApplyChange(a) PROVE moves(d)
  <2>1. PICK c \in signing[a] :
          IF applies(a, c)
          THEN adoptConfig(a, c) /\ signatures' = [signatures EXCEPT ![a] = coSigned(a, c)]
          ELSE UNCHANGED <<config, agreements, signatures>>
    BY <1>3 DEF ApplyChange
  <2>2. UNCHANGED checkpoint
    BY <1>3 DEF ApplyChange
  <2>3. CASE applies(a, c)
    BY <2>1, <2>2, <2>3, AdoptConfigMoves DEF applies
  <2>4. CASE ~ applies(a, c)
    BY <2>1, <2>2, <2>4, StillMoves DEF still
  <2> QED BY <2>3, <2>4
<1>4. ASSUME NEW a \in Devices, NEW l \in Labels, StartCheckpoint(a, l) PROVE moves(d)
  BY <1>4, StillMoves DEF StartCheckpoint, held, still
<1>5. ASSUME NEW a \in Devices, AdoptOwn(a) PROVE moves(d)
  <2>1. PICK work \in storing[a] : /\ current(a, work)
                                  /\ checkpoint' = [checkpoint EXCEPT ![a] = own(a, work.label)]
    BY <1>5 DEF AdoptOwn
  <2>2. UNCHANGED <<config, agreements>>
    BY <1>5 DEF AdoptOwn
  <2>3. CASE d # a
    BY <2>1, <2>2, <2>3, StillMoves DEF still, Shape
  <2>4. CASE d = a
    <3>1. checkpoint'[a] = own(a, work.label) /\ Len(checkpoint[a]) = work.height
      BY <2>1 DEF Shape, current
    <3>2. holds(a)
      BY DEF GoodStoring
    <3> QED BY <2>2, <2>4, <3>1, <3>2 DEF moves, configMoves, checkpointMoves, agreementsMove
  <2> QED BY <2>3, <2>4
<1>6. ASSUME NEW a \in Devices, DropOwn(a) PROVE moves(d)
  BY <1>6, StillMoves DEF DropOwn, held, still
<1>7. ASSUME NEW a \in Devices, NEW head, Endorse(a, head) PROVE moves(d)
  BY <1>7, StillMoves DEF Endorse, held, still
<1>8. ASSUME NEW a \in Devices, NEW f \in endorsed, Decide(a, f.head) PROVE moves(d)
  <2>1. PICK e \in endorsed : e.head = f.head /\ e.key.config = config[a]
    BY <1>8, DecidedIsEndorsed
  <2>2. CASE e.head.config # config[a]
    <3>1. adoptConfig(a, e.head.config) /\ UNCHANGED checkpoint
      BY <1>8, <2>1, <2>2 DEF Decide, held
    <3> QED BY <2>1, <3>1, AdoptConfigMoves
  <2>3. CASE e.head.config = config[a]
    <3>1. /\ adoptCheckpoint(a, e.head.checkpoint, {}, config[a])
          /\ agreements' = [agreements EXCEPT ![a] =
               pruneControlMessages(a, config[a], checkpoint'[a])]
          /\ UNCHANGED config
      BY <1>8, <2>1, <2>3 DEF Decide
    <3>2. CASE d # a
      BY <3>1, <3>2, StillMoves DEF adoptCheckpoint, still, Shape
    <3>3. CASE d = a
      <4>1. checkpoint'[a] = IF replaces(a, e.head.checkpoint, {}, config[a])
                             THEN e.head.checkpoint ELSE checkpoint[a]
        BY <3>1 DEF adoptCheckpoint, Shape
      <4>2. checkpointMoves(a)
        <5>1. CASE Len(e.head.checkpoint) > Len(checkpoint[a])
          BY <4>1, <5>1 DEF checkpointMoves
        <5> QED BY <4>1, <5>1 DEF checkpointMoves, replaces
      <4>3. agreements'[a] = agreements[a]
        BY <3>1 DEF pruneControlMessages, Shape
      <4>4. holds(a)
        BY <1>8 DEF Decide, votes
      <4> QED BY <3>1, <3>3, <4>2, <4>3, <4>4 DEF moves, configMoves, agreementsMove
    <3> QED BY <3>2, <3>3
  <2> QED BY <2>2, <2>3
<1>9. ASSUME NEW a \in Devices, NEW e \in Devices,
             ImportPeerSnapshot(a, e) \/ MergeInviteSnapshot(a, e) PROVE moves(d)
  BY <1>9, MergeMoves DEF ImportPeerSnapshot, MergeInviteSnapshot, admits
<1>10. ASSUME NEW a \in Devices, NEW e \in Devices,
              ImportRemoval(a, e) \/ ImportPeerConfig(a, e) PROVE moves(d)
  <2>1. adoptConfig(a, config[e]) /\ UNCHANGED checkpoint /\ IsStrictPrefix(config[a], config[e])
    BY <1>10 DEF ImportRemoval, ImportPeerConfig, held
  <2> QED BY <2>1, AdoptConfigMoves DEF IsStrictPrefix
<1>11. ASSUME NEW a \in Devices, NEW e \in Devices, InstallInviteSnapshot(a, e) PROVE moves(d)
  <2>1. /\ config' = [config EXCEPT ![a] = config[e]]
        /\ checkpoint' = [checkpoint EXCEPT ![a] = checkpoint[e]]
        /\ agreements' = [agreements EXCEPT ![a] = agreements[e]]
        /\ config[a] = <<>>
    BY <1>11 DEF InstallInviteSnapshot, holds
  <2>2. CASE d # a
    BY <2>1, <2>2, StillMoves DEF still, Shape
  <2>3. CASE d = a
    <3> USE DEF holds
    <3>1. IsPrefix(config[a], config[e])
      BY <2>1, EmptyIsPrefix DEF GoodConfigs, goodConfig
    <3>2. Len(checkpoint[a]) <= Len(checkpoint[e])
      <4>1. checkpoint[a] = <<>> /\ IsChain(checkpoint[e])
        BY <2>1 DEF GoodCheckpoints, goodCheckpoint
      <4>2. Len(<<>>) = 0 /\ Len(checkpoint[e]) \in Nat
        BY <4>1, AppendChain
      <4> QED BY <4>1, <4>2
    <3>3. config[e] # <<>> /\ config'[a] = config[e] /\ checkpoint'[a] = checkpoint[e] /\ agreements'[a] = agreements[e]
      BY <1>11, <2>1 DEF Shape, InstallInviteSnapshot, invited, admits
    <3> QED BY <2>3, <3>1, <3>2, <3>3 DEF moves, configMoves, checkpointMoves, agreementsMove
  <2> QED BY <2>2, <2>3
<1> QED BY <1>1, <1>2, <1>3, <1>4, <1>5, <1>6, <1>7, <1>8, <1>9, <1>10, <1>11 DEF Next

-----------------------------------------------------------------------------
(* The step.                                                               *)

\* No step changes what a history may hold, and none forgets an agreement.
LEMMA StepShape ==
  ASSUME Shape, Next
  PROVE  Shape' /\ scenario' = scenario /\ agreed \subseteq agreed'
<1> DEFINE kept == Shape' /\ scenario' = scenario /\ agreed \subseteq agreed'
<1> USE DEF Shape, held, background, past
<1>1. ASSUME NEW a \in Devices, NEW new, SignChange(a, new) \/ Agree(a, new) PROVE kept
  BY <1>1 DEF SignChange, Agree
<1>2. ASSUME NEW a \in Devices, ApplyChange(a) PROVE kept
  BY <1>2 DEF ApplyChange, adoptConfig
<1>3. ASSUME NEW a \in Devices, NEW l, StartCheckpoint(a, l) PROVE kept
  BY <1>3 DEF StartCheckpoint
<1>4. ASSUME NEW a \in Devices, AdoptOwn(a) \/ DropOwn(a) PROVE kept
  BY <1>4 DEF AdoptOwn, DropOwn
<1>5. ASSUME NEW a \in Devices, NEW head, Endorse(a, head) PROVE kept
  BY <1>5 DEF Endorse
<1>6. ASSUME NEW a \in Devices, NEW head, Decide(a, head) PROVE kept
  BY <1>6 DEF Decide, adoptConfig, adoptCheckpoint
<1>7. ASSUME NEW a \in Devices, NEW e, ImportPeerSnapshot(a, e) \/ MergeInviteSnapshot(a, e)
      PROVE  kept
  BY <1>7 DEF ImportPeerSnapshot, MergeInviteSnapshot, mergeSnapshot, adoptCheckpoint
<1>8. ASSUME NEW a \in Devices, NEW e, ImportRemoval(a, e) \/ ImportPeerConfig(a, e) PROVE kept
  BY <1>8 DEF ImportRemoval, ImportPeerConfig, adoptConfig
<1>9. ASSUME NEW a \in Devices, NEW e, InstallInviteSnapshot(a, e) PROVE kept
  BY <1>9 DEF InstallInviteSnapshot
<1> QED BY <1>1, <1>2, <1>3, <1>4, <1>5, <1>6, <1>7, <1>8, <1>9 DEF Next

\* A config a device comes to hold follows the one it held.
LEMMA ConfigFollows ==
  ASSUME IInv, NEW d \in Devices, configMoves(d)
  PROVE  IsPrefix(config[d], config'[d]) /\ goodConfig(config'[d], scenario, agreed)
<1> USE DEF IInv
<1>1. CASE config'[d] = config[d]
  BY <1>1, PrefixOfAppend DEF GoodConfigs, goodConfig
<1>2. ASSUME NEW c \in signing[d], config'[d] = c, Front(c) = config[d]
      PROVE  IsPrefix(config[d], config'[d]) /\ goodConfig(config'[d], scenario, agreed)
  <2>1. goodConfig(c, scenario, agreed)
    BY DEF GoodSigning, goodSigned
  <2>2. PICK b, r : IsChain(b) /\ c = Append(b, r)
    BY DEF GoodSigning, goodSigned
  <2> QED BY <1>2, <2>1, <2>2, PrefixOfAppend
<1>3. ASSUME NEW e \in Devices, config'[d] = config[e], IsPrefix(config[d], config[e])
      PROVE  IsPrefix(config[d], config'[d]) /\ goodConfig(config'[d], scenario, agreed)
  BY <1>3 DEF GoodConfigs
<1>4. ASSUME NEW e \in endorsed, config'[d] = e.head.config, e.key.config = config[d]
      PROVE  IsPrefix(config[d], config'[d]) /\ goodConfig(config'[d], scenario, agreed)
  BY <1>4 DEF GoodEndorsed, goodEndorsement
<1> QED BY <1>1, <1>2, <1>3, <1>4 DEF configMoves

\* So a device that holds a config goes on to hold one.
LEMMA StillHolds ==
  ASSUME IInv, NEW d \in Devices, configMoves(d), holds(d)
  PROVE  config'[d] # <<>>
<1>1. PICK S : config[d] \in Seq(S)
  BY DEF IInv, GoodConfigs, goodConfig, IsChain
<1>2. Len(config[d]) \in Nat /\ Len(config[d]) # 0
  BY <1>1 DEF holds
<1>3. Len(config[d]) <= Len(config'[d])
  BY ConfigFollows DEF IsPrefix
<1> QED BY <1>2, <1>3, Len(<<>>) = 0

LEMMA ConfigsStep ==
  ASSUME IInv, Next
  PROVE  GoodConfigs'
<1> SUFFICES ASSUME NEW d \in Devices PROVE goodConfig(config'[d], scenario', agreed')
  BY DEF GoodConfigs
<1>1. goodConfig(config'[d], scenario, agreed)
  BY StepMoves, ConfigFollows DEF moves
<1> QED BY <1>1, StepShape, GoodConfigStays DEF IInv, Shape

\* A checkpoint signed over a good one below the bound is good.
LEMMA OwnIsGood ==
  ASSUME IInv, NEW d \in Devices, NEW work \in storing[d], Len(checkpoint[d]) = work.height
  PROVE  /\ goodCheckpoint(own(d, work.label), scenario)
         /\ Len(own(d, work.label)) = Len(checkpoint[d]) + 1
<1> DEFINE k == checkpoint[d]
           r == [config |-> config[d], label |-> work.label, author |-> d]
           n == Append(k, r)
<1>1. goodCheckpoint(k, scenario) /\ goodWork(work, scenario)
  BY DEF IInv, GoodCheckpoints, GoodStoring
<1>2. IsChain(n) /\ Len(n) = Len(k) + 1 /\ Len(k) \in Nat /\ n[Len(k) + 1] = r
      /\ \A i \in 1..Len(k) : n[i] = k[i]
  BY <1>1, AppendChain DEF goodCheckpoint
<1>3. scenario.maxHeight \in Nat
  BY ChainAssumption DEF ScenarioOK, IInv, Shape
<1>4. Len(n) <= scenario.maxHeight
  BY <1>1, <1>2, <1>3 DEF goodWork
<1>5. ASSUME NEW i \in 1..Len(n)
      PROVE  n[i].label \in Labels /\ n[i].author \in Devices \cup {Group}
  <2>1. CASE i = Len(k) + 1
    BY <1>1, <1>2, <2>1 DEF goodWork
  <2>2. CASE i # Len(k) + 1
    BY <1>1, <1>2, <2>2 DEF goodCheckpoint
  <2> QED BY <2>1, <2>2
<1> QED BY <1>2, <1>4, <1>5 DEF goodCheckpoint, own

\* Signatures are those of devices.
LEMMA SignaturesStep ==
  ASSUME IInv, Next, NEW d \in Devices
  PROVE  signatures'[d] \subseteq Devices
<1> USE DEF IInv, Shape
<1>0. \A e \in Devices : signatures[e] \subseteq Devices
  BY DEF GoodCheckpoints
<1>1. CASE UNCHANGED signatures
  BY <1>0, <1>1
<1>2. ASSUME NEW a \in Devices, NEW c, signatures' = [signatures EXCEPT ![a] = coSigned(a, c)]
      PROVE  signatures'[d] \subseteq Devices
  BY <1>0, <1>2 DEF coSigned
<1>3. ASSUME NEW a \in Devices, NEW k, NEW S \in SUBSET Devices, NEW c, adoptCheckpoint(a, k, S, c)
      PROVE  signatures'[d] \subseteq Devices
  BY <1>0, <1>3 DEF adoptCheckpoint
<1>4. ASSUME NEW a \in Devices, ApplyChange(a) PROVE signatures'[d] \subseteq Devices
  BY <1>1, <1>2, <1>4 DEF ApplyChange
<1>5. ASSUME NEW a \in Devices, AdoptOwn(a) PROVE signatures'[d] \subseteq Devices
  BY <1>0, <1>5 DEF AdoptOwn
<1>6. ASSUME NEW a \in Devices, NEW head, Decide(a, head) PROVE signatures'[d] \subseteq Devices
  BY <1>1, <1>3, <1>6 DEF Decide, held
<1>7. ASSUME NEW a \in Devices, NEW e \in Devices, mergeSnapshot(a, e)
      PROVE  signatures'[d] \subseteq Devices
  BY <1>0, <1>3, <1>7 DEF mergeSnapshot
<1>8. ASSUME NEW a \in Devices, NEW e \in Devices, InstallInviteSnapshot(a, e)
      PROVE  signatures'[d] \subseteq Devices
  BY <1>0, <1>8 DEF InstallInviteSnapshot
<1> QED BY <1>1, <1>4, <1>5, <1>6, <1>7, <1>8
        DEF Next, SignChange, Agree, StartCheckpoint, DropOwn, Endorse, held,
            ImportPeerSnapshot, MergeInviteSnapshot, ImportRemoval, ImportPeerConfig

LEMMA CheckpointsStep ==
  ASSUME IInv, Next
  PROVE  GoodCheckpoints'
<1> SUFFICES ASSUME NEW d \in Devices
             PROVE  /\ goodCheckpoint(checkpoint'[d], scenario')
                    /\ signatures'[d] \subseteq Devices
                    /\ config'[d] = <<>> => checkpoint'[d] = <<>>
  BY DEF GoodCheckpoints
<1>1. moves(d) /\ scenario' = scenario
  BY StepMoves, StepShape DEF IInv
<1>2. goodCheckpoint(checkpoint'[d], scenario)
  BY <1>1, OwnIsGood DEF moves, checkpointMoves, IInv, GoodCheckpoints, GoodEndorsed, goodEndorsement
<1>3. config'[d] = <<>> => checkpoint'[d] = <<>>
  <2>1. SUFFICES ASSUME config'[d] = <<>> PROVE checkpoint'[d] = <<>>
    OBVIOUS
  <2>2. ~ holds(d)
    BY <1>1, <2>1, StillHolds DEF moves
  <2> QED BY <1>1, <2>1, <2>2 DEF moves, holds, IInv, GoodCheckpoints
<1> QED BY <1>1, <1>2, <1>3, SignaturesStep

LEMMA AgreementsStep ==
  ASSUME IInv, Next
  PROVE  GoodAgreements'
<1> SUFFICES ASSUME NEW d \in Devices, NEW a \in agreements'[d]
             PROVE  goodAgreement(a, config'[d], scenario', agreed')
  BY DEF GoodAgreements
<1>1. agreementsMove(d) /\ scenario' = scenario /\ agreed \subseteq agreed'
  BY StepMoves, StepShape DEF moves, IInv
<1>2. ASSUME NEW e \in Devices, a \in agreements[e], config'[d] = config[e]
      PROVE  goodAgreement(a, config'[d], scenario', agreed')
  BY <1>1, <1>2 DEF IInv, GoodAgreements, goodAgreement
<1>3. ASSUME NEW n \in scenario.contents, a = agreement(d, n), config'[d] = config[d], votes(d),
             [voter |-> a.voter, config |-> config[d], content |-> a.content] \in agreed'
      PROVE  goodAgreement(a, config'[d], scenario', agreed')
  BY <1>1, <1>3 DEF goodAgreement, agreement, votes
<1> QED BY <1>1, <1>2, <1>3 DEF agreementsMove

LEMMA SigningStep ==
  ASSUME IInv, Next
  PROVE  GoodSigning'
<1> USE DEF IInv, Shape
<1>0. \A c \in UNION {signing[d] : d \in Devices} : goodSigned(c, scenario', agreed')
  <2>1. ASSUME NEW d \in Devices, NEW c \in signing[d] PROVE goodSigned(c, scenario', agreed')
    BY StepShape, GoodConfigStays DEF GoodSigning, goodSigned
  <2> QED BY <2>1
<1>1. ASSUME NEW a \in Devices, NEW new \in scenario.contents, SignChange(a, new) PROVE GoodSigning'
  <2> DEFINE k == IF new.group THEN {checkpoint[a]} ELSE seal(config[a])
             next == follow(config[a], new, k)
  <2>1. signing' = [signing EXCEPT ![a] = {next}] /\ holds(a) /\ ~ IsGroupControl(config[a])
        /\ Len(config[a]) < scenario.maxConfig
    BY <1>1 DEF SignChange
  <2>2. Cardinality(k) <= 1
    <3>1. Cardinality({checkpoint[a]}) = 1
      BY FS_Singleton
    <3> QED BY <2>1, <3>1, HeldContent
  <2>3. goodConfig(next, scenario, agreed)
    <3> HIDE DEF k
    <3> QED BY <2>1, <2>2, FollowIsGood DEF GoodConfigs, holds
  <2>4. IsChain(config[a]) /\ next = Append(config[a], [content |-> new, seal |-> k])
    BY DEF GoodConfigs, goodConfig, follow
  <2>5. goodSigned(next, scenario', agreed')
    <3>1. goodConfig(next, scenario', agreed')
      BY <2>3, StepShape, GoodConfigStays
    <3> HIDE DEF k
    <3> QED BY <2>4, <3>1 DEF goodSigned
  <2> HIDE DEF next
  <2> QED BY <1>0, <2>1, <2>5 DEF GoodSigning
<1>2. ASSUME NEW a \in Devices, ApplyChange(a) PROVE GoodSigning'
  BY <1>0, <1>2 DEF ApplyChange, GoodSigning
<1>3. CASE UNCHANGED signing
  BY <1>0, <1>3 DEF GoodSigning
<1> QED BY <1>1, <1>2, <1>3
        DEF Next, Agree, StartCheckpoint, AdoptOwn, DropOwn, Endorse, Decide, background,
            ImportPeerSnapshot, MergeInviteSnapshot, mergeSnapshot, ImportRemoval,
            ImportPeerConfig, InstallInviteSnapshot

LEMMA StoringStep ==
  ASSUME IInv, Next
  PROVE  GoodStoring'
<1> USE DEF IInv, Shape
<1>0. ASSUME NEW d \in Devices, NEW w \in storing[d]
      PROVE  goodWork(w, scenario') /\ holds(d)'
  <2>1. moves(d) /\ scenario' = scenario
    BY StepMoves, StepShape
  <2> QED BY <2>1, StillHolds DEF GoodStoring, moves, holds
<1>1. ASSUME NEW a \in Devices, NEW l \in Labels, StartCheckpoint(a, l) PROVE GoodStoring'
  <2> DEFINE work == [height |-> Len(checkpoint[a]), label |-> l]
  <2>1. /\ storing' = [storing EXCEPT ![a] = {work}] /\ holds(a) /\ holds(a)'
        /\ Len(checkpoint[a]) < scenario.maxHeight
    BY <1>1 DEF StartCheckpoint, holds
  <2>2. Len(checkpoint[a]) \in Nat
    BY AppendChain DEF GoodCheckpoints, goodCheckpoint
  <2>3. goodWork(work, scenario')
    BY <2>1, <2>2, StepShape DEF goodWork
  <2> HIDE DEF work
  <2> QED BY <1>0, <2>1, <2>3 DEF GoodStoring
<1>2. ASSUME NEW a \in Devices, AdoptOwn(a) \/ DropOwn(a) PROVE GoodStoring'
  BY <1>0, <1>2 DEF AdoptOwn, DropOwn, GoodStoring
<1>3. CASE UNCHANGED storing
  BY <1>0, <1>3 DEF GoodStoring
<1> QED BY <1>1, <1>2, <1>3
        DEF Next, Agree, SignChange, ApplyChange, Endorse, Decide, background,
            ImportPeerSnapshot, MergeInviteSnapshot, mergeSnapshot, ImportRemoval,
            ImportPeerConfig, InstallInviteSnapshot

\* What a voter may accept is good: a record that a quorum agreed to, or a
\* checkpoint over the one it holds.
LEMMA AcceptableIsGood ==
  ASSUME IInv, NEW d \in Devices, votes(d), NEW head \in acceptable(d)
  PROVE  /\ goodConfig(head.config, scenario, agreed)
         /\ IsPrefix(config[d], head.config)
         /\ goodCheckpoint(head.checkpoint, scenario)
<1> USE DEF IInv, Shape
<1>1. goodConfig(config[d], scenario, agreed) /\ goodCheckpoint(checkpoint[d], scenario)
      /\ holds(d) /\ IsChain(config[d]) /\ IsPrefix(config[d], config[d])
  BY PrefixOfAppend DEF GoodConfigs, GoodCheckpoints, votes, goodConfig
<1>2. ASSUME NEW n \in scenario.contents, judgeControlRecord(d, n),
             Len(config[d]) < scenario.maxConfig,
             head = [config |-> follow(config[d], n, {checkpoint[d]}), checkpoint |-> checkpoint[d]]
      PROVE  goodConfig(head.config, scenario, agreed) /\ IsPrefix(config[d], head.config)
             /\ goodCheckpoint(head.checkpoint, scenario)
  <2>1. agreers(agreements[d], n) \subseteq agreedBy(agreed, config[d], n)
    <3>1. ASSUME NEW a \in agreements[d], a.content = n
          PROVE  a.voter \in agreedBy(agreed, config[d], n)
      <4> DEFINE b == [voter |-> a.voter, config |-> config[d], content |-> a.content]
      <4>1. b \in agreed /\ b.config = config[d] /\ b.content = n /\ b.voter = a.voter
        BY <3>1 DEF GoodAgreements, goodAgreement
      <4> QED BY <4>1 DEF agreedBy
    <3> QED BY <3>1 DEF agreers
  <2>2. HasQuorum(agreedBy(agreed, config[d], n), config[d])
    BY <1>1, <1>2, <2>1, HeldContent, LargerQuorum DEF judgeControlRecord
  <2>3. Cardinality({checkpoint[d]}) <= 1
    <3>1. Cardinality({checkpoint[d]}) = 1
      BY FS_Singleton
    <3> QED BY <3>1
  <2>4. goodConfig(follow(config[d], n, {checkpoint[d]}), scenario, agreed)
    BY <1>1, <1>2, <2>2, <2>3, FollowIsGood DEF holds
  <2>5. IsPrefix(config[d], follow(config[d], n, {checkpoint[d]}))
    BY <1>1, PrefixOfAppend DEF follow
  <2> QED BY <1>1, <1>2, <2>4, <2>5
<1>3. ASSUME NEW l \in Labels, Len(checkpoint[d]) < scenario.maxHeight,
             head = [config |-> config[d], checkpoint |->
                       Append(checkpoint[d], [config |-> config[d], label |-> l, author |-> Group])]
      PROVE  goodConfig(head.config, scenario, agreed) /\ IsPrefix(config[d], head.config)
             /\ goodCheckpoint(head.checkpoint, scenario)
  <2> DEFINE k == checkpoint[d]
             r == [config |-> config[d], label |-> l, author |-> Group]
             n == Append(k, r)
  <2>1. IsChain(n) /\ Len(n) = Len(k) + 1 /\ Len(k) \in Nat /\ n[Len(k) + 1] = r
        /\ \A i \in 1..Len(k) : n[i] = k[i]
    BY <1>1, AppendChain DEF goodCheckpoint
  <2>2. Len(n) <= scenario.maxHeight
    BY <1>3, <2>1, ChainAssumption DEF ScenarioOK
  <2>3. ASSUME NEW i \in 1..Len(n)
        PROVE  n[i].label \in Labels /\ n[i].author \in Devices \cup {Group}
    <3>1. CASE i = Len(k) + 1
      BY <2>1, <3>1
    <3>2. CASE i # Len(k) + 1
      BY <1>1, <2>1, <3>2 DEF goodCheckpoint
    <3> QED BY <3>1, <3>2
  <2>4. goodCheckpoint(n, scenario)
    BY <2>1, <2>2, <2>3 DEF goodCheckpoint
  <2> QED BY <1>1, <1>3, <2>4
<1> QED BY <1>2, <1>3 DEF acceptable

LEMMA EndorsedStep ==
  ASSUME IInv, Next
  PROVE  GoodEndorsed'
<1> USE DEF IInv, Shape
<1>0. \A e \in endorsed : goodEndorsement(e, scenario', agreed')
  BY StepShape, GoodConfigStays DEF GoodEndorsed, goodEndorsement
<1>1. ASSUME NEW a \in Devices, NEW head \in acceptable(a), Endorse(a, head) PROVE GoodEndorsed'
  <2> DEFINE e == [voter |-> a, key |-> key(a), head |-> head]
  <2>1. endorsed' = endorsed \cup {e} /\ votes(a)
    BY <1>1 DEF Endorse
  <2>2. goodConfig(head.config, scenario', agreed') /\ goodCheckpoint(head.checkpoint, scenario')
        /\ IsPrefix(config[a], head.config)
    BY <2>1, AcceptableIsGood, StepShape, GoodConfigStays
  <2>3. e.voter \in content(e.key.config).voters /\ e.key.config = config[a]
    BY <2>1 DEF votes, key
  <2>4. goodEndorsement(e, scenario', agreed')
    BY <2>2, <2>3 DEF goodEndorsement
  <2> HIDE DEF e
  <2> QED BY <1>0, <2>1, <2>4 DEF GoodEndorsed
<1>2. CASE UNCHANGED endorsed
  BY <1>0, <1>2 DEF GoodEndorsed
<1> QED BY <1>1, <1>2
        DEF Next, Agree, SignChange, ApplyChange, StartCheckpoint, AdoptOwn, DropOwn, Decide, past,
            ImportPeerSnapshot, MergeInviteSnapshot, mergeSnapshot, ImportRemoval,
            ImportPeerConfig, InstallInviteSnapshot

LEMMA IInvStep ==
  ASSUME IInv, [Next]_vars
  PROVE  IInv'
<1>1. CASE Next
  BY <1>1, StepShape, ConfigsStep, CheckpointsStep, AgreementsStep, SigningStep, StoringStep,
     EndorsedStep DEF IInv
<1>2. CASE UNCHANGED vars
  BY <1>2 DEF vars, IInv, Shape, GoodConfigs, GoodCheckpoints, GoodAgreements, GoodSigning,
              GoodStoring, GoodEndorsed, holds
<1> QED BY <1>1, <1>2

LEMMA IInvInit == Init => IInv
<1> SUFFICES ASSUME Init PROVE IInv
  OBVIOUS
<1> DEFINE genesis == <<[content |-> scenario.genesis, seal |-> {}]>>
<1>1. Shape
  BY DEF Init, Shape
<1>2. IsChain(<<>>) /\ Len(<<>>) = 0
  BY <<>> \in Seq({}) DEF IsChain
<1>3. genesis = Append(<<>>, [content |-> scenario.genesis, seal |-> {}])
  OBVIOUS
<1>4. IsChain(genesis) /\ Len(genesis) = 1 /\ genesis[1] = [content |-> scenario.genesis, seal |-> {}]
  <2> DEFINE r == [content |-> scenario.genesis, seal |-> {}]
  <2> HIDE DEF r
  <2>1. IsChain(Append(<<>>, r)) /\ Len(Append(<<>>, r)) = 1 /\ Append(<<>>, r)[1] = r
    <3>1. PICK z : z = <<>>
      OBVIOUS
    <3>2. IsChain(z) /\ Len(z) = 0
      BY <1>2, <3>1
    <3>3. IsChain(Append(z, r)) /\ Len(Append(z, r)) = 0 + 1 /\ Append(z, r)[0 + 1] = r
      BY <3>2, AppendChain
    <3> QED BY <3>1, <3>3
  <2> USE DEF r
  <2> QED BY <1>3, <2>1
<1>5. scenario.maxConfig \in Nat \ {0} /\ scenario.maxHeight \in Nat
      /\ scenario.creator \in Devices
  <2>1. ScenarioOK(scenario)
    BY ChainAssumption DEF Init
  <2>2. scenario.creator \in Range(scenario.genesis.owners) /\ scenario.genesis.owners \in Seq(Devices)
    BY <2>1 DEF ScenarioOK
  <2> QED BY <2>1, <2>2 DEF ScenarioOK, Range
<1>6. goodConfig(genesis, scenario, agreed) /\ goodConfig(<<>>, scenario, agreed)
  <2>1. Cardinality({}) <= 1
    BY FS_EmptySet
  <2> HIDE DEF genesis
  <2>2. 1..1 = {1} /\ 2..1 = {} /\ 1..0 = {} /\ 2..0 = {}
    OBVIOUS
  <2>3. goodConfig(<<>>, scenario, agreed)
    BY <1>2, <1>5, <2>2 DEF goodConfig, recordsAgreed
  <2>4. /\ genesis[1].content = scenario.genesis /\ Cardinality(genesis[1].seal) <= 1
        /\ Len(genesis) <= scenario.maxConfig
    BY <1>4, <1>5, <2>1
  <2>5. goodConfig(genesis, scenario, agreed)
    BY <1>4, <2>2, <2>4 DEF goodConfig, recordsAgreed
  <2> QED BY <2>3, <2>5
<1>7. GoodConfigs
  BY <1>6 DEF Init, GoodConfigs
<1>8. GoodCheckpoints
  BY <1>2, <1>5 DEF Init, GoodCheckpoints, goodCheckpoint
<1> QED BY <1>1, <1>7, <1>8 DEF Init, IInv, GoodAgreements, GoodSigning, GoodStoring, GoodEndorsed

THEOREM IInvInvariant == Spec => []IInv
  BY IInvInit, IInvStep, PTL DEF Spec

-----------------------------------------------------------------------------
(* The theorems.                                                           *)

LEMMA IInvImpliesTypes ==
  ASSUME IInv
  PROVE  TypeOK
<1> USE DEF IInv
<1>1. ASSUME NEW d \in Devices
      PROVE  /\ \A i \in DOMAIN config[d] :
                  /\ config[d][i].content \in scenario.contents \cup {scenario.genesis}
                  /\ Cardinality(config[d][i].seal) <= 1
             /\ Len(config[d]) <= scenario.maxConfig
  BY AppendChain DEF GoodConfigs, goodConfig
<1>2. ASSUME NEW d \in Devices
      PROVE  /\ \A i \in DOMAIN checkpoint[d] :
                  /\ checkpoint[d][i].label \in Labels
                  /\ checkpoint[d][i].author \in Devices \cup {Group}
             /\ Len(checkpoint[d]) <= scenario.maxHeight
             /\ signatures[d] \subseteq Devices
  BY AppendChain DEF GoodCheckpoints, goodCheckpoint
<1>3. ASSUME NEW d \in Devices
      PROVE  /\ agreements[d] \subseteq [voter : Devices, content : scenario.contents]
             /\ \A a \in agreements[d] : a.voter \in content(config[d]).voters
  BY DEF GoodAgreements, goodAgreement
<1>4. ASSUME NEW d \in Devices
      PROVE  Cardinality(signing[d]) <= 1 /\ Cardinality(storing[d]) <= 1
  <2>1. \A S : S = {} \/ (\E x : S = {x}) => Cardinality(S) = 0 \/ Cardinality(S) = 1
    BY FS_EmptySet, FS_Singleton
  <2>2. Cardinality(signing[d]) = 0 \/ Cardinality(signing[d]) = 1
    BY <2>1 DEF GoodSigning
  <2>3. Cardinality(storing[d]) = 0 \/ Cardinality(storing[d]) = 1
    BY <2>1 DEF GoodStoring
  <2> QED BY <2>2, <2>3
<1>5. \A e \in endorsed : e.voter \in content(e.key.config).voters
  BY DEF GoodEndorsed, goodEndorsement
<1> QED BY <1>1, <1>2, <1>3, <1>4, <1>5 DEF TypeOK

\* The types hold in every state of every history.
THEOREM TypeCorrect == Spec => []TypeOK
  BY IInvInvariant, IInvImpliesTypes, PTL

\* Whatever the devices held when they voted, and whatever configs of racing
\* owners they met, each record after a group's config was agreed to by a quorum of
\* that config's voters.
THEOREM RecordsAreAgreed == Spec => []RecordsAgreed
<1>1. IInv => RecordsAgreed
  BY DEF IInv, GoodConfigs, goodConfig, recordsAgreed, agreedBy, RecordsAgreed
<1> QED BY <1>1, IInvInvariant, PTL

\* A voter keeps its agreements for as long as it holds the config they follow,
\* through checkpoints, merges and refused changes.
LEMMA AgreementsStay ==
  ASSUME IInv, Next, NEW d \in Devices, config'[d] = config[d]
  PROVE  agreements[d] \subseteq agreements'[d]
<1> DEFINE stay == agreements[d] \subseteq agreements'[d]
<1> USE DEF IInv, Shape
<1>1. CASE UNCHANGED agreements
  BY <1>1
<1>2. ASSUME NEW a \in Devices, NEW c, adoptConfig(a, c) PROVE stay
  BY <1>2 DEF adoptConfig, pruneControlMessages
<1>3. ASSUME NEW a \in Devices, NEW e, mergeSnapshot(a, e) PROVE stay
  BY <1>3 DEF mergeSnapshot, pruneControlMessages
<1>4. ASSUME NEW a \in Devices, NEW new, Agree(a, new) PROVE stay
  BY <1>4 DEF Agree, AddControlMessage
<1>5. ASSUME NEW a \in Devices, ApplyChange(a) PROVE stay
  BY <1>1, <1>2, <1>5 DEF ApplyChange
<1>6. ASSUME NEW a \in Devices, NEW head, Decide(a, head) PROVE stay
  BY <1>2, <1>6 DEF Decide, pruneControlMessages
<1>7. ASSUME NEW a \in Devices, NEW e \in Devices, InstallInviteSnapshot(a, e) PROVE stay
  <2>1. config[a] = <<>> /\ config[e] # <<>> /\ config' = [config EXCEPT ![a] = config[e]]
        /\ agreements' = [agreements EXCEPT ![a] = agreements[e]]
    BY <1>7 DEF InstallInviteSnapshot, invited, admits, holds
  <2> QED BY <2>1
<1> QED BY <1>1, <1>2, <1>3, <1>4, <1>5, <1>6, <1>7
        DEF Next, SignChange, StartCheckpoint, AdoptOwn, DropOwn, Endorse,
            ImportPeerSnapshot, MergeInviteSnapshot, ImportRemoval, ImportPeerConfig

THEOREM AgreementsOutlast == Spec => AgreementsLast
<1>1. IInv /\ [Next]_vars => [\A d \in Devices : config'[d] = config[d]
                                => agreements[d] \subseteq agreements'[d]]_vars
  BY AgreementsStay
<1> QED BY <1>1, IInvInvariant, PTL DEF Spec, AgreementsLast

\* A device only moves on along the configs it holds and never comes to hold a
\* lower checkpoint. FollowsHistory says this too, and that all devices are on one
\* chain, which racing owners break.
OnlyMovesOn ==
  [][\A d \in Devices : /\ IsPrefix(config[d], config'[d])
                        /\ Len(checkpoint[d]) <= Len(checkpoint'[d])]_vars

LEMMA MovesOn ==
  ASSUME IInv, Next, NEW d \in Devices
  PROVE  IsPrefix(config[d], config'[d]) /\ Len(checkpoint[d]) <= Len(checkpoint'[d])
<1>1. moves(d)
  BY StepMoves
<1>2. Len(checkpoint[d]) \in Nat
  BY AppendChain DEF IInv, GoodCheckpoints, goodCheckpoint
<1>3. ASSUME NEW work \in storing[d], Len(checkpoint[d]) = work.height,
             checkpoint'[d] = own(d, work.label)
      PROVE  Len(checkpoint[d]) <= Len(checkpoint'[d])
  BY <1>2, <1>3, OwnIsGood
<1>4. Len(checkpoint[d]) <= Len(checkpoint'[d])
  BY <1>1, <1>2, <1>3 DEF moves, checkpointMoves
<1> QED BY <1>1, <1>4, ConfigFollows DEF moves

\* Whatever a device merges, applies or is shown, it only moves on.
THEOREM DevicesOnlyMoveOn == Spec => OnlyMovesOn
<1>1. IInv /\ [Next]_vars => [\A d \in Devices :
                                /\ IsPrefix(config[d], config'[d])
                                /\ Len(checkpoint[d]) <= Len(checkpoint'[d])]_vars
  BY MovesOn
<1> QED BY <1>1, IInvInvariant, PTL DEF Spec, OnlyMovesOn
=============================================================================
