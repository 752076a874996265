-------------------------- MODULE ConfigMergeProofs --------------------------
(***************************************************************************)
(* Theorems about ConfigMerge, for every set of devices and peers, every   *)
(* scenario and every number of records.                                   *)
(***************************************************************************)
EXTENDS ConfigMerge, DataInduction, SequenceTheorems

\* The first record follows none; each other follows one of the sequence number
\* below, and absorbs records of lower sequence numbers only.
Formed ==
  /\ GenesisHash \in DOMAIN records
  /\ records[GenesisHash].branch = <<>>
  /\ \A h \in DOMAIN records : h.seqno \in Nat
  /\ \A h \in DOMAIN records \ {GenesisHash} :
       records[h].prev \in DOMAIN records /\ h.seqno = records[h].prev.seqno + 1
  /\ \A h \in DOMAIN records :
       /\ records[h].branch \in Seq(DOMAIN records)
       /\ \A b \in Range(records[h].branch) : b.seqno < h.seqno

\* The sequence number of each record.
seqnos == [h \in DOMAIN records |-> h.seqno]

LEMMA Seqnos ==
  Formed => /\ seqnos \in [DOMAIN records -> Nat]
            /\ GenesisHash \in DOMAIN records /\ seqnos[GenesisHash] = 0
            /\ \A h \in DOMAIN records : h.seqno \in Nat /\ seqnos[h] = h.seqno
            /\ \A h \in DOMAIN records \ {GenesisHash} :
                 /\ records[h].prev \in DOMAIN records
                 /\ seqnos[h] = seqnos[records[h].prev] + 1
  BY DEF Formed, seqnos, GenesisHash

\* The elements of a sequence with one more.
LEMMA RangeAppend ==
  ASSUME NEW A, NEW s \in Seq(A), NEW x \in A
  PROVE  Range(Append(s, x)) = Range(s) \cup {x}
<1> DEFINE t == Append(s, x)
<1>1. /\ t \in Seq(A) /\ Len(t) = Len(s) + 1
      /\ \A i \in 1..Len(s) : t[i] = s[i]
      /\ t[Len(s) + 1] = x
  BY AppendProperties
<1>2. DOMAIN t = 1..(Len(s) + 1) /\ DOMAIN s = 1..Len(s) /\ Len(s) \in Nat
  BY <1>1, LenProperties
<1>3. DOMAIN t = DOMAIN s \cup {Len(s) + 1}
  BY <1>2
<1> HIDE DEF t
<1>4. Range(t) = Range(s) \cup {x}
  BY <1>1, <1>2, <1>3 DEF Range
<1> QED BY <1>4 DEF t

-----------------------------------------------------------------------------
(* Chains.                                                                 *)

\* What the recursion of ReadConfigBranch makes of k and the branches of others.
branchStep(floor) ==
  [k \in DOMAIN records |-> [f \in [DOMAIN records -> Seq(DOMAIN records)] |->
     IF k = GenesisHash \/ k.seqno <= floor THEN <<>> ELSE Append(f[records[k].prev], k)]]

\* back is the function that ReadConfigBranch defines.
IsBack(back, floor) ==
  back = [k \in DOMAIN records |->
            IF k = GenesisHash \/ k.seqno <= floor THEN <<>>
            ELSE Append(back[records[k].prev], k)]

\* The recursion of ReadConfigBranch describes a function of sequences of records.
LEMMA BackExists ==
  Formed => \A floor \in Nat :
    \E back \in [DOMAIN records -> Seq(DOMAIN records)] : IsBack(back, floor)
<1> SUFFICES ASSUME Formed, NEW floor \in Nat
             PROVE  \E back \in [DOMAIN records -> Seq(DOMAIN records)] : IsBack(back, floor)
  OBVIOUS
<1> DEFINE S == DOMAIN records
           V == Seq(S)
           step == branchStep(floor)
<1>1. V # {}
  BY EmptySeq
<1>2. seqnos \in [S -> Nat]
  BY DEF Formed, seqnos
<1>3. step \in Steps(S, V)
  <2>1. ASSUME NEW k \in S, NEW f \in [S -> V]
        PROVE  (IF k = GenesisHash \/ k.seqno <= floor THEN <<>> ELSE Append(f[records[k].prev], k)) \in V
    BY EmptySeq, AppendProperties DEF Formed
  <2> QED BY <2>1 DEF Steps, branchStep
<1>4. Decided(S, V, seqnos, step)
  <2>1. ASSUME NEW k \in S, NEW f \in [S -> V], NEW g \in [S -> V],
               \A j \in S : seqnos[j] < seqnos[k] => f[j] = g[j]
        PROVE  step[k][f] = step[k][g]
    <3>1. k # GenesisHash => f[records[k].prev] = g[records[k].prev]
      <4> SUFFICES ASSUME k # GenesisHash PROVE f[records[k].prev] = g[records[k].prev]
        OBVIOUS
      <4>1. records[k].prev \in S /\ seqnos[records[k].prev] < seqnos[k]
        BY DEF seqnos, Formed
      <4> QED BY <2>1, <4>1
    <3>2. /\ step[k][f] = IF k = GenesisHash \/ k.seqno <= floor THEN <<>> ELSE Append(f[records[k].prev], k)
          /\ step[k][g] = IF k = GenesisHash \/ k.seqno <= floor THEN <<>> ELSE Append(g[records[k].prev], k)
      BY DEF branchStep
    <3> QED BY <3>1, <3>2
  <2> QED BY <2>1 DEF Decided
<1> HIDE DEF S, V, step
<1>5. PICK back \in [S -> V] : \A k \in S : back[k] = step[k][back]
  BY <1>1, <1>2, <1>3, <1>4, Recursion
<1>6. IsBack(back, floor)
  BY <1>5 DEF IsBack, S, V, step, branchStep
<1> QED BY <1>5, <1>6 DEF S, V

\* A branch ends at its target, after the branch that leads to the record before.
LEMMA BranchUnfolds ==
  Formed => \A floor \in Nat, h \in DOMAIN records :
    ReadConfigBranch(h, floor) =
      IF h = GenesisHash \/ h.seqno <= floor THEN <<>>
      ELSE Append(ReadConfigBranch(records[h].prev, floor), h)
<1> SUFFICES ASSUME Formed, NEW floor \in Nat, NEW h \in DOMAIN records
             PROVE  ReadConfigBranch(h, floor) =
                      IF h = GenesisHash \/ h.seqno <= floor THEN <<>>
                      ELSE Append(ReadConfigBranch(records[h].prev, floor), h)
  OBVIOUS
<1> DEFINE back == CHOOSE f : IsBack(f, floor)
<1>1. IsBack(back, floor)
  <2>1. \E f : IsBack(f, floor)
    BY BackExists
  <2> QED BY <2>1, Zenon
<1>2. \A k : ReadConfigBranch(k, floor) = back[k]
  BY Zenon DEF ReadConfigBranch, IsBack
<1> HIDE DEF back
<1> QED BY <1>1, <1>2 DEF IsBack

LEMMA BranchType ==
  Formed => \A floor \in Nat, h \in DOMAIN records :
    ReadConfigBranch(h, floor) \in Seq(DOMAIN records)
<1> SUFFICES ASSUME Formed, NEW floor \in Nat
             PROVE  DOMAIN records \subseteq
                      {h \in DOMAIN records : ReadConfigBranch(h, floor) \in Seq(DOMAIN records)}
  OBVIOUS
<1> DEFINE S == DOMAIN records
           T == {h \in S : ReadConfigBranch(h, floor) \in Seq(S)}
<1>1. ASSUME NEW h \in S, \A k \in S : seqnos[k] < seqnos[h] => k \in T
      PROVE  h \in T
  <2>1. CASE h = GenesisHash \/ h.seqno <= floor
    BY <2>1, BranchUnfolds, EmptySeq
  <2>2. CASE ~(h = GenesisHash \/ h.seqno <= floor)
    <3> DEFINE before == ReadConfigBranch(records[h].prev, floor)
    <3>1. before \in Seq(S)
      BY <1>1, <2>2, Seqnos
    <3>2. ReadConfigBranch(h, floor) = Append(before, h)
      BY <2>2, BranchUnfolds
    <3> HIDE DEF before
    <3>3. Append(before, h) \in Seq(S)
      BY <3>1, AppendProperties
    <3> QED BY <3>2, <3>3
  <2> QED BY <2>1, <2>2
<1> HIDE DEF T
<1>2. S \subseteq T
  BY <1>1, Seqnos, RankInduction
<1> QED BY <1>2 DEF T

\* The chain that leads to a record is the one that leads to the record before,
\* and the record.
LEMMA OnChainUnfolds ==
  Formed => /\ onChain(GenesisHash) = {GenesisHash}
            /\ \A h \in DOMAIN records \ {GenesisHash} :
                 onChain(h) = onChain(records[h].prev) \cup {h}
<1> SUFFICES ASSUME Formed
             PROVE  /\ onChain(GenesisHash) = {GenesisHash}
                    /\ \A h \in DOMAIN records \ {GenesisHash} :
                         onChain(h) = onChain(records[h].prev) \cup {h}
  OBVIOUS
<1>1. onChain(GenesisHash) = {GenesisHash}
  <2>1. ReadConfigBranch(GenesisHash, 0) = <<>>
    BY BranchUnfolds, Seqnos
  <2> QED BY <2>1 DEF onChain, chain, Range
<1>2. ASSUME NEW h \in DOMAIN records \ {GenesisHash}
      PROVE  onChain(h) = onChain(records[h].prev) \cup {h}
  <2>1. ~(h.seqno <= 0)
    BY Seqnos
  <2>2. chain(h) = Append(chain(records[h].prev), h)
    BY <2>1, BranchUnfolds DEF chain
  <2>3. chain(records[h].prev) \in Seq(DOMAIN records)
    BY Seqnos, BranchType DEF chain
  <2> QED BY <2>2, <2>3, RangeAppend DEF onChain
<1> QED BY <1>1, <1>2

\* A chain has one record of each sequence number up to that of its head.
LEMMA OnChainBelow ==
  Formed => \A h \in DOMAIN records :
    /\ h \in onChain(h) /\ GenesisHash \in onChain(h)
    /\ onChain(h) \subseteq DOMAIN records
    /\ \A k \in onChain(h) : k.seqno <= h.seqno /\ (k.seqno = h.seqno => k = h)
<1> SUFFICES ASSUME Formed
             PROVE  DOMAIN records \subseteq {h \in DOMAIN records :
                      /\ h \in onChain(h) /\ GenesisHash \in onChain(h)
                      /\ onChain(h) \subseteq DOMAIN records
                      /\ \A k \in onChain(h) : k.seqno <= h.seqno /\ (k.seqno = h.seqno => k = h)}
  OBVIOUS
<1> DEFINE S == DOMAIN records
           T == {h \in S : /\ h \in onChain(h) /\ GenesisHash \in onChain(h)
                           /\ onChain(h) \subseteq S
                           /\ \A k \in onChain(h) : k.seqno <= h.seqno /\ (k.seqno = h.seqno => k = h)}
<1>1. ASSUME NEW h \in S, \A k \in S : seqnos[k] < seqnos[h] => k \in T
      PROVE  h \in T
  <2>1. CASE h = GenesisHash
    BY <2>1, OnChainUnfolds, Seqnos
  <2>2. CASE h # GenesisHash
    <3> DEFINE p == records[h].prev
    <3>1. p \in T /\ h.seqno = p.seqno + 1 /\ p.seqno \in Nat
      BY <1>1, <2>2, Seqnos
    <3>2. onChain(h) = onChain(p) \cup {h}
      BY <2>2, OnChainUnfolds
    <3> HIDE DEF p
    <3>3. \A k \in onChain(p) : k.seqno <= p.seqno /\ k.seqno \in Nat
      BY <3>1, Seqnos
    <3> QED BY <3>1, <3>2, <3>3
  <2> QED BY <2>1, <2>2
<1> HIDE DEF T
<1>2. S \subseteq T
  BY <1>1, Seqnos, RankInduction
<1> QED BY <1>2 DEF T

\* The chain that leads to a record of a chain is the part of it up to there.
LEMMA OnChainPart ==
  Formed => \A h \in DOMAIN records : \A l \in onChain(h) :
    onChain(l) = {k \in onChain(h) : k.seqno <= l.seqno}
<1> SUFFICES ASSUME Formed
             PROVE  DOMAIN records \subseteq {h \in DOMAIN records : \A l \in onChain(h) :
                      onChain(l) = {k \in onChain(h) : k.seqno <= l.seqno}}
  OBVIOUS
<1> DEFINE S == DOMAIN records
           T == {h \in S : \A l \in onChain(h) :
                   onChain(l) = {k \in onChain(h) : k.seqno <= l.seqno}}
<1>1. ASSUME NEW h \in S, \A k \in S : seqnos[k] < seqnos[h] => k \in T
      PROVE  h \in T
  <2>1. CASE h = GenesisHash
    BY <2>1, OnChainUnfolds, Seqnos
  <2>2. CASE h # GenesisHash
    <3> DEFINE p == records[h].prev
    <3>1. p \in T /\ p \in S /\ h.seqno = p.seqno + 1 /\ p.seqno \in Nat
      BY <1>1, <2>2, Seqnos
    <3>2. onChain(h) = onChain(p) \cup {h}
      BY <2>2, OnChainUnfolds
    <3> HIDE DEF p
    <3>3. \A k \in onChain(p) : k.seqno <= p.seqno /\ k.seqno \in Nat
      BY <3>1, Seqnos, OnChainBelow
    <3>4. ASSUME NEW l \in onChain(h)
          PROVE  onChain(l) = {k \in onChain(h) : k.seqno <= l.seqno}
      <4>1. CASE l = h
        BY <3>1, <3>2, <3>3, <4>1
      <4>2. CASE l \in onChain(p)
        <5>1. onChain(l) = {k \in onChain(p) : k.seqno <= l.seqno}
          BY <3>1, <4>2
        <5>2. ~(h.seqno <= l.seqno)
          BY <3>1, <3>3, <4>2
        <5> QED BY <3>2, <5>1, <5>2
      <4> QED BY <3>2, <4>1, <4>2
    <3> QED BY <3>4
  <2> QED BY <2>1, <2>2
<1> HIDE DEF T
<1>2. S \subseteq T
  BY <1>1, Seqnos, RankInduction
<1> QED BY <1>2 DEF T

\* A branch has the records of the chain to its target above its floor.
LEMMA RangeBranch ==
  Formed => \A floor \in Nat, h \in DOMAIN records :
    Range(ReadConfigBranch(h, floor)) = {k \in onChain(h) : k.seqno > floor}
<1> SUFFICES ASSUME Formed, NEW floor \in Nat
             PROVE  DOMAIN records \subseteq {h \in DOMAIN records :
                      Range(ReadConfigBranch(h, floor)) = {k \in onChain(h) : k.seqno > floor}}
  OBVIOUS
<1> DEFINE S == DOMAIN records
           T == {h \in S : Range(ReadConfigBranch(h, floor)) = {k \in onChain(h) : k.seqno > floor}}
<1>1. ASSUME NEW h \in S, \A k \in S : seqnos[k] < seqnos[h] => k \in T
      PROVE  h \in T
  <2>0. \A k \in onChain(h) : k.seqno <= h.seqno /\ k.seqno \in Nat /\ h.seqno \in Nat
    BY OnChainBelow, Seqnos
  <2>1. CASE h.seqno <= floor
    <3>1. ReadConfigBranch(h, floor) = <<>>
      BY <2>1, BranchUnfolds
    <3>2. \A k \in onChain(h) : ~(k.seqno > floor)
      BY <2>0, <2>1
    <3> QED BY <3>1, <3>2 DEF Range
  <2>2. CASE ~(h.seqno <= floor)
    <3> DEFINE p == records[h].prev
    <3>1. h # GenesisHash
      BY <2>2, Seqnos
    <3>2. p \in T /\ p \in S
      BY <1>1, <3>1, Seqnos
    <3>3. onChain(h) = onChain(p) \cup {h}
      BY <3>1, OnChainUnfolds
    <3>4. ReadConfigBranch(h, floor) = Append(ReadConfigBranch(p, floor), h)
      BY <2>2, <3>1, BranchUnfolds
    <3>5. Range(ReadConfigBranch(h, floor)) = Range(ReadConfigBranch(p, floor)) \cup {h}
      BY <3>2, <3>4, BranchType, RangeAppend
    <3> HIDE DEF p
    <3> QED BY <2>0, <2>2, <3>2, <3>3, <3>5
  <2> QED BY <2>1, <2>2
<1> HIDE DEF T
<1>2. S \subseteq T
  BY <1>1, Seqnos, RankInduction
<1> QED BY <1>2 DEF T

-----------------------------------------------------------------------------
(* What merges absorb.                                                     *)

\* The records that h absorbs, in merges nested to any depth.
absorbed(h) == AbsorbedConfigChanges({h})

\* The records of the branch that h absorbs.
direct(h) == Range(records[h].branch)

\* What the recursion of AbsorbedConfigChanges makes of h.
absorbStep ==
  [h \in DOMAIN records |-> [f \in [DOMAIN records -> SUBSET DOMAIN records] |->
     direct(h) \cup UNION {f[b] : b \in direct(h)}]]

\* below is the function that AbsorbedConfigChanges defines.
IsBelow(below) ==
  below = [h \in DOMAIN records |->
             Range(records[h].branch) \cup UNION {below[b] : b \in Range(records[h].branch)}]

\* The recursion of AbsorbedConfigChanges describes a function of sets of records.
LEMMA BelowExists ==
  Formed => \E below \in [DOMAIN records -> SUBSET DOMAIN records] : IsBelow(below)
<1> SUFFICES ASSUME Formed
             PROVE  \E below \in [DOMAIN records -> SUBSET DOMAIN records] : IsBelow(below)
  OBVIOUS
<1> DEFINE S == DOMAIN records
           V == SUBSET S
           step == absorbStep
<1>1. \A h \in S : direct(h) \subseteq S /\ \A b \in direct(h) : seqnos[b] < seqnos[h]
  <2> SUFFICES ASSUME NEW h \in S
               PROVE  direct(h) \subseteq S /\ \A b \in direct(h) : seqnos[b] < seqnos[h]
    OBVIOUS
  <2>1. records[h].branch \in Seq(S) /\ \A b \in direct(h) : b.seqno < h.seqno
    BY DEF Formed, direct
  <2>2. direct(h) \subseteq S
    BY <2>1, RangeOfSeq DEF direct, Range
  <2> QED BY <2>1, <2>2, Seqnos
<1>2. step \in Steps(S, V)
  <2>1. \A h \in S, f \in [S -> V] : direct(h) \cup UNION {f[b] : b \in direct(h)} \in V
    BY <1>1
  <2> QED BY <2>1 DEF Steps, absorbStep
<1>3. Decided(S, V, seqnos, step)
  <2>1. ASSUME NEW h \in S, NEW f \in [S -> V], NEW g \in [S -> V],
               \A k \in S : seqnos[k] < seqnos[h] => f[k] = g[k]
        PROVE  step[h][f] = step[h][g]
    <3>1. \A b \in direct(h) : f[b] = g[b]
      BY <1>1, <2>1
    <3>2. {f[b] : b \in direct(h)} = {g[b] : b \in direct(h)}
      BY <3>1
    <3> QED BY <3>2 DEF absorbStep
  <2> QED BY <2>1 DEF Decided
<1>4. seqnos \in [S -> Nat] /\ V # {}
  BY Seqnos
<1> HIDE DEF S, V, step
<1>5. PICK below \in [S -> V] : \A h \in S : below[h] = step[h][below]
  BY <1>2, <1>3, <1>4, Recursion
<1>6. IsBelow(below)
  BY <1>5 DEF IsBelow, S, V, step, absorbStep, direct
<1> QED BY <1>5, <1>6 DEF S, V

\* A record absorbs its branch and what that absorbs; several, what each does.
AbsorptionUnfolds ==
  /\ \A h \in DOMAIN records : absorbed(h) = direct(h) \cup UNION {absorbed(b) : b \in direct(h)}
  /\ \A hs \in SUBSET DOMAIN records : AbsorbedConfigChanges(hs) = UNION {absorbed(h) : h \in hs}

LEMMA AbsorbedUnfolds == Formed => AbsorptionUnfolds
<1> SUFFICES ASSUME Formed PROVE AbsorptionUnfolds
  OBVIOUS
<1> DEFINE below == CHOOSE f : IsBelow(f)
<1>1. IsBelow(below)
  <2>1. \E f : IsBelow(f)
    BY BelowExists
  <2> QED BY <2>1, Zenon
<1>2. \A hs : AbsorbedConfigChanges(hs) = UNION {below[h] : h \in hs}
  BY Zenon DEF AbsorbedConfigChanges, IsBelow
<1> HIDE DEF below
<1>3. \A h : absorbed(h) = below[h]
  BY <1>2 DEF absorbed
<1>4. \A h \in DOMAIN records : below[h] = direct(h) \cup UNION {below[b] : b \in direct(h)}
  BY <1>1 DEF IsBelow, direct
<1>5. \A h \in DOMAIN records : absorbed(h) = direct(h) \cup UNION {absorbed(b) : b \in direct(h)}
  BY <1>3, <1>4
<1> QED BY <1>2, <1>3, <1>5 DEF AbsorptionUnfolds

\* What a record absorbs lies below it, with all that is absorbed there.
LEMMA AbsorbedBelow ==
  Formed => \A h \in DOMAIN records :
    /\ direct(h) \subseteq absorbed(h) /\ absorbed(h) \subseteq DOMAIN records
    /\ \A k \in absorbed(h) : k.seqno < h.seqno /\ absorbed(k) \subseteq absorbed(h)
<1> SUFFICES ASSUME Formed
             PROVE  DOMAIN records \subseteq {h \in DOMAIN records :
                      /\ direct(h) \subseteq absorbed(h) /\ absorbed(h) \subseteq DOMAIN records
                      /\ \A k \in absorbed(h) : k.seqno < h.seqno /\ absorbed(k) \subseteq absorbed(h)}
  OBVIOUS
<1> DEFINE S == DOMAIN records
           T == {h \in S : /\ direct(h) \subseteq absorbed(h) /\ absorbed(h) \subseteq S
                           /\ \A k \in absorbed(h) : k.seqno < h.seqno /\ absorbed(k) \subseteq absorbed(h)}
<1>1. ASSUME NEW h \in S, \A k \in S : seqnos[k] < seqnos[h] => k \in T
      PROVE  h \in T
  <2>1. absorbed(h) = direct(h) \cup UNION {absorbed(b) : b \in direct(h)}
    BY AbsorbedUnfolds DEF AbsorptionUnfolds
  <2>2. direct(h) \subseteq S /\ \A b \in direct(h) : b.seqno < h.seqno
    BY RangeOfSeq DEF direct, Range, Formed
  <2>3. \A b \in direct(h) : b \in T /\ b.seqno < h.seqno /\ b.seqno \in Nat /\ h.seqno \in Nat
    BY <1>1, <2>2, Seqnos
  <2>4. absorbed(h) \subseteq S
    BY <2>1, <2>2, <2>3
  <2>5. ASSUME NEW k \in absorbed(h) PROVE k.seqno < h.seqno /\ absorbed(k) \subseteq absorbed(h)
    <3>1. PICK b \in direct(h) : k = b \/ k \in absorbed(b)
      BY <2>1
    <3>2. absorbed(k) \subseteq absorbed(b) /\ k.seqno <= b.seqno /\ k.seqno \in Nat
      BY <2>3, <2>4, <3>1, Seqnos
    <3> QED BY <2>1, <2>3, <3>2
  <2> QED BY <2>1, <2>4, <2>5
<1> HIDE DEF T
<1>2. S \subseteq T
  BY <1>1, Seqnos, RankInduction
<1> QED BY <1>2 DEF T

\* A merge absorbs a whole branch: the records above its fork, up to one that
\* the fork leads to. The fork is on its own chain.
Merging ==
  \A m \in DOMAIN records \ {GenesisHash} :
    LET entry == records[m] IN
    entry.branch # <<>> =>
      /\ entry.fork \in onChain(entry.prev) \cap onChain(Last(entry.branch))
      /\ entry.branch = ReadConfigBranch(Last(entry.branch), entry.fork.seqno)

\* What a merge absorbs from a branch, its fork included, is on the chain below
\* it or in the branch.
LEMMA BranchCovered ==
  Formed /\ Merging => \A m \in DOMAIN records \ {GenesisHash} : \A b \in direct(m) :
    /\ onChain(b) \subseteq onChain(records[m].prev) \cup direct(m)
    /\ records[m].fork \in onChain(b)
<1> SUFFICES ASSUME Formed, Merging, NEW m \in DOMAIN records \ {GenesisHash}, NEW b \in direct(m)
             PROVE  /\ onChain(b) \subseteq onChain(records[m].prev) \cup direct(m)
                    /\ records[m].fork \in onChain(b)
  OBVIOUS
<1> DEFINE branch == records[m].branch
           fork == records[m].fork
           last == Last(branch)
           p == records[m].prev
<1>1. branch \in Seq(DOMAIN records) /\ branch # <<>>
  BY DEF Formed, direct, Range
<1>2. fork \in onChain(p) \cap onChain(last) /\ branch = ReadConfigBranch(last, fork.seqno)
  BY <1>1 DEF Merging
<1>3. last \in DOMAIN records /\ p \in DOMAIN records
  <2>1. last = branch[Len(branch)] /\ Len(branch) \in 1..Len(branch)
    BY <1>1, LenProperties, EmptySeq DEF Last
  <2> QED BY <1>1, <2>1, ElementOfSeq, Seqnos
<1>4. fork \in DOMAIN records /\ fork.seqno \in Nat
  BY <1>2, <1>3, OnChainBelow, Seqnos
<1> HIDE DEF branch, fork, last, p
<1>5. Range(branch) = {k \in onChain(last) : k.seqno > fork.seqno}
  BY <1>2, <1>3, <1>4, RangeBranch
<1>6. direct(m) = Range(branch)
  BY DEF direct, branch
<1>7. b \in onChain(last) /\ b.seqno > fork.seqno /\ b.seqno \in Nat
  BY <1>3, <1>5, <1>6, OnChainBelow, Seqnos
<1>8. onChain(b) \subseteq onChain(last) /\ fork \in onChain(b)
  BY <1>2, <1>3, <1>4, <1>7, OnChainPart
<1>9. onChain(fork) = {k \in onChain(last) : k.seqno <= fork.seqno}
  BY <1>2, <1>3, OnChainPart
<1>10. onChain(fork) \subseteq onChain(p)
  BY <1>2, <1>3, OnChainPart
<1>11. ASSUME NEW k \in onChain(b) PROVE k \in onChain(p) \cup direct(m)
  <2>1. k \in onChain(last) /\ k.seqno \in Nat
    BY <1>3, <1>8, OnChainBelow, Seqnos
  <2> QED BY <1>4, <1>5, <1>6, <1>9, <1>10, <2>1
<1> QED BY <1>8, <1>11 DEF fork, p

\* The records that h accounts for: its chain and what the chain absorbs.
LEMMA AccountedUnfolds ==
  Formed => \A h \in DOMAIN records :
    /\ accounted(h) = onChain(h) \cup UNION {absorbed(k) : k \in onChain(h)}
    /\ accounted(h) \subseteq DOMAIN records
    /\ h # GenesisHash => accounted(h) = accounted(records[h].prev) \cup {h} \cup absorbed(h)
<1> SUFFICES ASSUME Formed, NEW h \in DOMAIN records
             PROVE  /\ accounted(h) = onChain(h) \cup UNION {absorbed(k) : k \in onChain(h)}
                    /\ accounted(h) \subseteq DOMAIN records
                    /\ h # GenesisHash => accounted(h) = accounted(records[h].prev) \cup {h} \cup absorbed(h)
  OBVIOUS
<1>1. \A k \in DOMAIN records :
        accounted(k) = onChain(k) \cup UNION {absorbed(l) : l \in onChain(k)}
  BY OnChainBelow, AbsorbedUnfolds DEF accounted, AbsorptionUnfolds
<1>2. accounted(h) \subseteq DOMAIN records
  BY <1>1, OnChainBelow, AbsorbedBelow
<1>3. ASSUME h # GenesisHash
      PROVE  accounted(h) = accounted(records[h].prev) \cup {h} \cup absorbed(h)
  <2>1. onChain(h) = onChain(records[h].prev) \cup {h} /\ records[h].prev \in DOMAIN records
    BY <1>3, OnChainUnfolds, Seqnos
  <2> QED BY <1>1, <2>1
<1> QED BY <1>1, <1>2, <1>3

\* What a record accounts for accounts for nothing else.
LEMMA AccountedClosed ==
  Formed /\ Merging => \A h \in DOMAIN records : \A k \in accounted(h) : accounted(k) \subseteq accounted(h)
<1> SUFFICES ASSUME Formed, Merging
             PROVE  DOMAIN records \subseteq
                      {h \in DOMAIN records : \A k \in accounted(h) : accounted(k) \subseteq accounted(h)}
  OBVIOUS
<1> DEFINE S == DOMAIN records
           T == {h \in S : \A k \in accounted(h) : accounted(k) \subseteq accounted(h)}
<1>1. ASSUME NEW h \in S, \A k \in S : seqnos[k] < seqnos[h] => k \in T
      PROVE  h \in T
  <2>1. CASE h = GenesisHash
    <3>1. absorbed(h) = {}
      BY <2>1, AbsorbedUnfolds DEF AbsorptionUnfolds, direct, Formed, Range
    <3>2. accounted(h) = {h}
      BY <2>1, <3>1, AccountedUnfolds, OnChainUnfolds
    <3> QED BY <3>2
  <2>2. CASE h # GenesisHash
    <3> DEFINE p == records[h].prev
    <3>1. p \in T
      BY <1>1, <2>2, Seqnos
    <3>2. accounted(h) = accounted(p) \cup {h} \cup absorbed(h)
      BY <2>2, AccountedUnfolds
    <3>3. absorbed(h) = direct(h) \cup UNION {absorbed(b) : b \in direct(h)}
      BY AbsorbedUnfolds DEF AbsorptionUnfolds
    <3>4. ASSUME NEW b \in direct(h)
          PROVE  b \in T /\ b \in accounted(b) /\ absorbed(b) \subseteq accounted(b) /\ accounted(b) \subseteq accounted(h)
      <4>1. b \in S /\ b.seqno < h.seqno
        BY AbsorbedBelow
      <4>2. b \in T
        BY <1>1, <4>1, Seqnos
      <4>3. accounted(b) = onChain(b) \cup UNION {absorbed(k) : k \in onChain(b)} /\ b \in onChain(b)
        BY <4>1, AccountedUnfolds, OnChainBelow
      <4>4. onChain(b) \subseteq onChain(p) \cup direct(h)
        BY <2>2, BranchCovered
      <4>5. accounted(p) = onChain(p) \cup UNION {absorbed(k) : k \in onChain(p)}
        BY <3>1, AccountedUnfolds
      <4> HIDE DEF p, T
      <4>6. \A k \in onChain(b) : k \in accounted(h) /\ absorbed(k) \subseteq accounted(h)
        BY <3>2, <3>3, <4>4, <4>5
      <4> QED BY <4>2, <4>3, <4>6
    <3>5. ASSUME NEW k \in accounted(h) PROVE accounted(k) \subseteq accounted(h)
      <4>1. CASE k \in accounted(p)
        BY <3>1, <3>2, <4>1
      <4>2. CASE k \in absorbed(h)
        BY <3>3, <3>4, <4>2
      <4> QED BY <3>2, <4>1, <4>2
    <3> QED BY <3>5
  <2> QED BY <2>1, <2>2
<1> HIDE DEF T
<1>2. S \subseteq T
  BY <1>1, Seqnos, RankInduction
<1> QED BY <1>2 DEF T

-----------------------------------------------------------------------------
(* The fork of the merge that absorbs a record.                            *)

\* The places in the branch of e of the records that are h or absorb it.
hits(e, h, f) ==
  {i \in DOMAIN records[e].branch : records[e].branch[i] = h \/ f[records[e].branch[i]] # NoHash}

\* What the recursion of AbsorbedFork makes of e.
found(e, h, f) ==
  IF hits(e, h, f) = {} THEN NoHash
  ELSE IF records[e].branch[Min(hits(e, h, f))] = h THEN records[e].fork
  ELSE f[records[e].branch[Min(hits(e, h, f))]]

forksOrNone == {records[e].fork : e \in DOMAIN records} \cup {NoHash}
findStep(h) ==
  [e \in DOMAIN records |-> [f \in [DOMAIN records -> forksOrNone] |-> found(e, h, f)]]

\* find is the function that AbsorbedFork defines.
IsFind(find, h) ==
  find = [e \in DOMAIN records |->
        LET branch == records[e].branch
            hits_1 == {i \in DOMAIN branch : branch[i] = h \/ find[branch[i]] # NoHash}
        IN IF hits_1 = {} THEN NoHash
           ELSE IF branch[Min(hits_1)] = h THEN records[e].fork
           ELSE find[branch[Min(hits_1)]]]

\* The least of a set of places is one of them.
LEMMA LeastPlace ==
  ASSUME NEW S \in SUBSET Nat, S # {}
  PROVE  Min(S) \in S /\ \A i \in S : Min(S) <= i
<1>1. \E x \in S : \A y \in S : x <= y
  BY LeastNumber
<1> QED BY <1>1 DEF Min

LEMMA HitPlaces ==
  Formed => \A h, f : \A e \in DOMAIN records :
    /\ hits(e, h, f) \subseteq DOMAIN records[e].branch
    /\ hits(e, h, f) # {} => Min(hits(e, h, f)) \in hits(e, h, f)
    /\ \A i \in DOMAIN records[e].branch :
         /\ records[e].branch[i] \in DOMAIN records
         /\ records[e].branch[i] \in direct(e)
         /\ seqnos[records[e].branch[i]] < seqnos[e]
<1> SUFFICES ASSUME Formed, NEW e \in DOMAIN records, NEW h, NEW f
             PROVE  /\ hits(e, h, f) \subseteq DOMAIN records[e].branch
                    /\ hits(e, h, f) # {} => Min(hits(e, h, f)) \in hits(e, h, f)
                    /\ \A i \in DOMAIN records[e].branch :
                         /\ records[e].branch[i] \in DOMAIN records
                         /\ records[e].branch[i] \in direct(e)
                         /\ seqnos[records[e].branch[i]] < seqnos[e]
  OBVIOUS
<1>1. hits(e, h, f) \subseteq DOMAIN records[e].branch
  BY DEF hits
<1>2. records[e].branch \in Seq(DOMAIN records)
  BY DEF Formed
<1>3. DOMAIN records[e].branch \subseteq Nat
  BY <1>2, LenProperties
<1>4. hits(e, h, f) # {} => Min(hits(e, h, f)) \in hits(e, h, f)
  BY <1>1, <1>3, LeastPlace
<1>5. ASSUME NEW i \in DOMAIN records[e].branch
      PROVE  /\ records[e].branch[i] \in DOMAIN records
             /\ records[e].branch[i] \in direct(e)
             /\ seqnos[records[e].branch[i]] < seqnos[e]
  <2>1. records[e].branch[i] \in direct(e)
    BY DEF direct, Range
  <2>2. records[e].branch[i].seqno < e.seqno
    BY <2>1 DEF direct, Formed
  <2>3. records[e].branch[i] \in DOMAIN records
    BY <1>2, LenProperties, ElementOfSeq
  <2> QED BY <2>1, <2>2, <2>3, Seqnos
<1> QED BY <1>1, <1>4, <1>5

\* The recursion of AbsorbedFork describes a function.
LEMMA FindExists ==
  Formed => \A h : \E find : IsFind(find, h)
<1> SUFFICES ASSUME Formed, NEW h PROVE \E find : IsFind(find, h)
  OBVIOUS
<1> DEFINE S == DOMAIN records
           V == forksOrNone
           step == findStep(h)
<1>1. V # {} /\ seqnos \in [S -> Nat]
  BY Seqnos DEF forksOrNone
<1>2. step \in Steps(S, V)
  <2>1. ASSUME NEW e \in S, NEW f \in [S -> V] PROVE found(e, h, f) \in V
    BY HitPlaces DEF found, forksOrNone
  <2> QED BY <2>1 DEF Steps, findStep
<1>3. Decided(S, V, seqnos, step)
  <2>1. ASSUME NEW e \in S, NEW f \in [S -> V], NEW g \in [S -> V],
               \A k \in S : seqnos[k] < seqnos[e] => f[k] = g[k]
        PROVE  step[e][f] = step[e][g]
    <3>1. \A i \in DOMAIN records[e].branch : f[records[e].branch[i]] = g[records[e].branch[i]]
      BY <2>1, HitPlaces
    <3>2. hits(e, h, f) = hits(e, h, g)
      BY <3>1 DEF hits
    <3>3. found(e, h, f) = found(e, h, g)
      BY <3>1, <3>2, HitPlaces DEF found
    <3> QED BY <3>3 DEF findStep
  <2> QED BY <2>1 DEF Decided
<1> HIDE DEF S, V, step
<1>5. PICK find \in [S -> V] : \A e \in S : find[e] = step[e][find]
  BY <1>1, <1>2, <1>3, Recursion
<1>6. \A e \in DOMAIN records : find[e] = found(e, h, find)
  BY <1>5 DEF S, V, step, findStep
<1>7. DOMAIN find = DOMAIN records /\ find = [e \in DOMAIN records |-> find[e]]
  BY <1>5 DEF S
<1>8. find = [e \in DOMAIN records |-> found(e, h, find)]
  BY <1>6, <1>7
<1>9. IsFind(find, h)
  BY <1>8 DEF IsFind, found, hits
<1> QED BY <1>9

\* The fork of the merge that absorbs h is found in the branch of a record.
LEMMA ForkUnfolds ==
  Formed => \A h : \E find :
    \A e \in DOMAIN records : AbsorbedFork(h, e) = find[e] /\ find[e] = found(e, h, find)
<1> SUFFICES ASSUME Formed, NEW h
             PROVE  \E find : \A e \in DOMAIN records :
                      AbsorbedFork(h, e) = find[e] /\ find[e] = found(e, h, find)
  OBVIOUS
<1> DEFINE find == CHOOSE f : IsFind(f, h)
<1>1. IsFind(find, h)
  <2>1. \E f : IsFind(f, h)
    BY FindExists
  <2> QED BY <2>1, Zenon
<1>2. \A e : AbsorbedFork(h, e) = find[e]
  BY Zenon DEF AbsorbedFork, IsFind
<1> HIDE DEF find
<1>3. \A e \in DOMAIN records : find[e] = found(e, h, find)
  BY <1>1 DEF IsFind, found, hits
<1> QED BY <1>2, <1>3

\* A fork that is found is the fork of a merge that absorbs h itself, and that is
\* the record searched or absorbed by it.
LEMMA ForkOfMerge ==
  Formed => \A h : \A e \in DOMAIN records : AbsorbedFork(h, e) # NoHash =>
    \E m \in {e} \cup absorbed(e) : h \in direct(m) /\ AbsorbedFork(h, e) = records[m].fork
<1> SUFFICES ASSUME Formed, NEW h
             PROVE  DOMAIN records \subseteq {e \in DOMAIN records : AbsorbedFork(h, e) # NoHash =>
                      \E m \in {e} \cup absorbed(e) : h \in direct(m) /\ AbsorbedFork(h, e) = records[m].fork}
  OBVIOUS
<1>0. PICK find : \A e \in DOMAIN records : AbsorbedFork(h, e) = find[e] /\ find[e] = found(e, h, find)
  BY ForkUnfolds
<1> DEFINE S == DOMAIN records
           T == {e \in S : AbsorbedFork(h, e) # NoHash =>
                   \E m \in {e} \cup absorbed(e) : h \in direct(m) /\ AbsorbedFork(h, e) = records[m].fork}
<1>1. ASSUME NEW e \in S, \A k \in S : seqnos[k] < seqnos[e] => k \in T
      PROVE  e \in T
  <2> SUFFICES ASSUME AbsorbedFork(h, e) # NoHash
               PROVE  \E m \in {e} \cup absorbed(e) : h \in direct(m) /\ AbsorbedFork(h, e) = records[m].fork
    OBVIOUS
  <2> DEFINE i == Min(hits(e, h, find))
             b == records[e].branch[i]
  <2>1. hits(e, h, find) # {}
    BY <1>0 DEF found
  <2>2. i \in DOMAIN records[e].branch /\ (b = h \/ find[b] # NoHash)
    <3>1. i \in hits(e, h, find)
      BY <2>1, HitPlaces
    <3> HIDE DEF i
    <3> QED BY <3>1 DEF hits
  <2>3. b \in S /\ b \in direct(e) /\ seqnos[b] < seqnos[e]
    BY <2>2, HitPlaces
  <2>4. CASE b = h
    <3>1. AbsorbedFork(h, e) = records[e].fork
      BY <1>0, <2>1, <2>4 DEF found
    <3> QED BY <2>3, <2>4, <3>1
  <2>5. CASE b # h
    <3>1. AbsorbedFork(h, e) = find[b] /\ find[b] = AbsorbedFork(h, b)
      BY <1>0, <2>1, <2>3, <2>5 DEF found
    <3>2. PICK m \in {b} \cup absorbed(b) : h \in direct(m) /\ AbsorbedFork(h, b) = records[m].fork
      BY <1>1, <2>2, <2>3, <2>5, <3>1
    <3>3. absorbed(e) = direct(e) \cup UNION {absorbed(k) : k \in direct(e)}
      BY AbsorbedUnfolds DEF AbsorptionUnfolds
    <3> QED BY <2>3, <3>1, <3>2, <3>3
  <2> QED BY <2>4, <2>5
<1> HIDE DEF T
<1>2. S \subseteq T
  BY <1>1, Seqnos, RankInduction
<1> QED BY <1>2 DEF T

\* The fork found for a record is on its chain, and the record searched accounts
\* for all that it accounts for.
LEMMA ForkBelow ==
  Formed /\ Merging => \A e, h \in DOMAIN records : AbsorbedFork(h, e) # NoHash =>
    AbsorbedFork(h, e) \in onChain(h) /\ h \in absorbed(e)
<1> SUFFICES ASSUME Formed, Merging, NEW e \in DOMAIN records, NEW h \in DOMAIN records,
                    AbsorbedFork(h, e) # NoHash
             PROVE  AbsorbedFork(h, e) \in onChain(h) /\ h \in absorbed(e)
  OBVIOUS
<1>1. PICK m \in {e} \cup absorbed(e) : h \in direct(m) /\ AbsorbedFork(h, e) = records[m].fork
  BY ForkOfMerge
<1>2. m \in DOMAIN records /\ m # GenesisHash
  BY <1>1, AbsorbedBelow DEF Formed, direct, Range
<1>3. h \in absorbed(m) /\ absorbed(m) \subseteq absorbed(e)
  BY <1>1, <1>2, AbsorbedBelow
<1> QED BY <1>1, <1>2, <1>3, BranchCovered

-----------------------------------------------------------------------------
(* The records that lead from one to another.                              *)

\* What a read of the records may find.
outcomes == {Nothing} \cup [changes : Seq(DOMAIN records)]

\* The record that the read goes on from below to.
onward(from, to) == IF AbsorbedFork(from, to) = NoHash THEN from ELSE AbsorbedFork(from, to)

\* What the recursion of ReadConfigSuffix makes of to.
readTo(from, to, f) ==
  IF from = to THEN [changes |-> <<>>]
  ELSE IF to = GenesisHash \/ f[records[to].prev][onward(from, to)] = Nothing THEN Nothing
  ELSE [changes |-> Append(f[records[to].prev][onward(from, to)].changes, to)]
readStep ==
  [to \in DOMAIN records |-> [f \in [DOMAIN records -> [DOMAIN records -> outcomes]] |->
     [from \in DOMAIN records |-> readTo(from, to, f)]]]

\* suffix is the function that ReadConfigSuffix defines.
IsSuffixes(suffix) ==
  suffix = [to \in DOMAIN records |-> [from \in DOMAIN records |->
        LET fork == AbsorbedFork(from, to)
            rest == suffix[records[to].prev][IF fork = NoHash THEN from ELSE fork]
        IN IF from = to THEN [changes |-> <<>>]
           ELSE IF to = GenesisHash \/ rest = Nothing THEN Nothing
           ELSE [changes |-> Append(rest.changes, to)]]]

LEMMA OnwardType ==
  Formed /\ Merging => \A from, to \in DOMAIN records : onward(from, to) \in DOMAIN records
  BY ForkBelow, OnChainBelow DEF onward

LEMMA ReadType ==
  Formed /\ Merging =>
    \A from, to \in DOMAIN records : \A f \in [DOMAIN records -> [DOMAIN records -> outcomes]] :
      readTo(from, to, f) \in outcomes
<1> SUFFICES ASSUME Formed, Merging, NEW from \in DOMAIN records, NEW to \in DOMAIN records,
                    NEW f \in [DOMAIN records -> [DOMAIN records -> outcomes]]
             PROVE  readTo(from, to, f) \in outcomes
  OBVIOUS
<1> DEFINE rest == f[records[to].prev][onward(from, to)]
<1>1. <<>> \in Seq(DOMAIN records)
  BY EmptySeq
<1>2. CASE from = to \/ to = GenesisHash \/ rest = Nothing
  BY <1>1, <1>2 DEF readTo, outcomes
<1>3. CASE ~(from = to \/ to = GenesisHash \/ rest = Nothing)
  <2>1. rest \in outcomes
    BY <1>3, OnwardType, Seqnos
  <2>2. rest.changes \in Seq(DOMAIN records)
    BY <1>3, <2>1 DEF outcomes
  <2>3. readTo(from, to, f) = [changes |-> Append(rest.changes, to)]
    BY <1>3 DEF readTo
  <2> HIDE DEF rest
  <2>4. Append(rest.changes, to) \in Seq(DOMAIN records)
    BY <2>2, AppendProperties
  <2> QED BY <2>3, <2>4 DEF outcomes
<1> QED BY <1>2, <1>3

\* The recursion of ReadConfigSuffix describes a function.
LEMMA SuffixesExist ==
  Formed /\ Merging =>
    \E suffix \in [DOMAIN records -> [DOMAIN records -> outcomes]] : IsSuffixes(suffix)
<1> SUFFICES ASSUME Formed, Merging
             PROVE  \E suffix \in [DOMAIN records -> [DOMAIN records -> outcomes]] : IsSuffixes(suffix)
  OBVIOUS
<1> DEFINE S == DOMAIN records
           V == [S -> outcomes]
           step == readStep
<1>1. V # {} /\ seqnos \in [S -> Nat]
  <2>1. [h \in S |-> Nothing] \in V
    BY DEF outcomes
  <2> QED BY <2>1, Seqnos
<1>2. step \in Steps(S, V)
  <2>1. ASSUME NEW to \in S, NEW f \in [S -> V]
        PROVE  [from \in S |-> readTo(from, to, f)] \in V
    BY ReadType
  <2> QED BY <2>1 DEF Steps, readStep
<1>3. Decided(S, V, seqnos, step)
  <2>1. ASSUME NEW to \in S, NEW f \in [S -> V], NEW g \in [S -> V],
               \A k \in S : seqnos[k] < seqnos[to] => f[k] = g[k]
        PROVE  step[to][f] = step[to][g]
    <3>1. to # GenesisHash => f[records[to].prev] = g[records[to].prev]
      BY <2>1, Seqnos
    <3>2. \A from \in S : readTo(from, to, f) = readTo(from, to, g)
      BY <3>1 DEF readTo
    <3>3. [from \in S |-> readTo(from, to, f)] = [from \in S |-> readTo(from, to, g)]
      BY <3>2
    <3> QED BY <3>3 DEF readStep
  <2> QED BY <2>1 DEF Decided
<1> HIDE DEF S, V, step
<1>5. PICK suffix \in [S -> V] : \A to \in S : suffix[to] = step[to][suffix]
  BY <1>1, <1>2, <1>3, Recursion
<1>6. \A to \in DOMAIN records : suffix[to] = [from \in DOMAIN records |-> readTo(from, to, suffix)]
  BY <1>5 DEF S, V, step, readStep
<1>7. suffix = [to \in DOMAIN records |-> suffix[to]]
  BY <1>5 DEF S
<1>8. suffix = [to \in DOMAIN records |-> [from \in DOMAIN records |-> readTo(from, to, suffix)]]
  BY <1>6, <1>7
<1>9. IsSuffixes(suffix)
  BY <1>8 DEF IsSuffixes, readTo, onward
<1> QED BY <1>5, <1>9 DEF S, V

\* A read goes on from the record before the target.
LEMMA SuffixUnfolds ==
  Formed /\ Merging => \E suffix :
    \A from, to \in DOMAIN records :
      ReadConfigSuffix(from, to) = suffix[to][from] /\ suffix[to][from] = readTo(from, to, suffix)
<1> SUFFICES ASSUME Formed, Merging
             PROVE  \E suffix : \A from, to \in DOMAIN records :
                      ReadConfigSuffix(from, to) = suffix[to][from] /\ suffix[to][from] = readTo(from, to, suffix)
  OBVIOUS
<1> DEFINE suffix == CHOOSE f : IsSuffixes(f)
<1>1. IsSuffixes(suffix)
  <2>1. \E f : IsSuffixes(f)
    BY SuffixesExist
  <2> QED BY <2>1, Zenon
<1>2. \A from, to : ReadConfigSuffix(from, to) = suffix[to][from]
  BY Zenon DEF ReadConfigSuffix, IsSuffixes
<1> HIDE DEF suffix
<1>3. \A from, to \in DOMAIN records : suffix[to][from] = readTo(from, to, suffix)
  <2> SUFFICES ASSUME NEW from \in DOMAIN records, NEW to \in DOMAIN records
               PROVE  suffix[to][from] = readTo(from, to, suffix)
    OBVIOUS
  <2>1. suffix = [k \in DOMAIN records |-> [j \in DOMAIN records |-> readTo(j, k, suffix)]]
    BY <1>1 DEF IsSuffixes, readTo, onward
  <2>2. suffix[to] = [j \in DOMAIN records |-> readTo(j, to, suffix)]
    BY <2>1
  <2> QED BY <2>2
<1> QED BY <1>2, <1>3

\* What a read finds is nothing or records of the chain to the target.
LEMMA SuffixOnChain ==
  Formed /\ Merging => \A to, from \in DOMAIN records :
    ReadConfigSuffix(from, to) # Nothing =>
      \E c \in Seq(DOMAIN records) :
        ReadConfigSuffix(from, to) = [changes |-> c] /\ Range(c) \subseteq onChain(to) \ {GenesisHash}
<1> SUFFICES ASSUME Formed, Merging
             PROVE  DOMAIN records \subseteq {to \in DOMAIN records : \A from \in DOMAIN records :
                      ReadConfigSuffix(from, to) # Nothing =>
                        \E c \in Seq(DOMAIN records) :
                          ReadConfigSuffix(from, to) = [changes |-> c] /\ Range(c) \subseteq onChain(to) \ {GenesisHash}}
  OBVIOUS
<1>0. PICK suffix : \A from, to \in DOMAIN records :
        ReadConfigSuffix(from, to) = suffix[to][from] /\ suffix[to][from] = readTo(from, to, suffix)
  BY SuffixUnfolds
<1> DEFINE S == DOMAIN records
           T == {to \in S : \A from \in S :
                   ReadConfigSuffix(from, to) # Nothing =>
                     \E c \in Seq(S) :
                       ReadConfigSuffix(from, to) = [changes |-> c] /\ Range(c) \subseteq onChain(to) \ {GenesisHash}}
<1>1. ASSUME NEW to \in S, \A k \in S : seqnos[k] < seqnos[to] => k \in T
      PROVE  to \in T
  <2> SUFFICES ASSUME NEW from \in S, ReadConfigSuffix(from, to) # Nothing
               PROVE  \E c \in Seq(S) :
                        ReadConfigSuffix(from, to) = [changes |-> c] /\ Range(c) \subseteq onChain(to) \ {GenesisHash}
    OBVIOUS
  <2>1. CASE from = to
    <3>1. readTo(from, to, suffix) = [changes |-> <<>>]
      BY <2>1 DEF readTo
    <3>2. <<>> \in Seq(S) /\ Range(<<>>) = {}
      BY EmptySeq DEF Range
    <3> QED BY <1>0, <3>1, <3>2
  <2>2. CASE from # to
    <3> DEFINE p == records[to].prev
               start == onward(from, to)
    <3>1. to # GenesisHash /\ suffix[p][start] # Nothing
      <4>1. readTo(from, to, suffix) # Nothing
        BY <1>0
      <4> QED BY <2>2, <4>1 DEF readTo
    <3>2. p \in T /\ p \in S /\ start \in S
      BY <1>1, <3>1, Seqnos, OnwardType
    <3>3. PICK c \in Seq(S) : suffix[p][start] = [changes |-> c] /\ Range(c) \subseteq onChain(p) \ {GenesisHash}
      BY <1>0, <3>1, <3>2
    <3>4. ReadConfigSuffix(from, to) = [changes |-> Append(c, to)]
      <4>1. readTo(from, to, suffix) = [changes |-> Append(suffix[p][start].changes, to)]
        BY <2>2, <3>1 DEF readTo
      <4> QED BY <1>0, <3>3, <4>1
    <3>5. Append(c, to) \in Seq(S) /\ Range(Append(c, to)) = Range(c) \cup {to}
      BY <3>3, RangeAppend, AppendProperties
    <3>6. onChain(to) = onChain(p) \cup {to}
      BY <3>1, OnChainUnfolds
    <3> QED BY <3>1, <3>3, <3>4, <3>5, <3>6
  <2> QED BY <2>1, <2>2
<1> HIDE DEF T
<1>2. S \subseteq T
  BY <1>1, Seqnos, RankInduction
<1> QED BY <1>2 DEF T

-----------------------------------------------------------------------------
(* The configs that merges yield.                                          *)

\* Every config gives each peer a role, and a signed one is valid.
Configs ==
  \A h \in DOMAIN records :
    config(h) \in [Peers -> Roles] /\ (h # GenesisHash => Valid(config(h)))

\* What the recursion of mergeConfigBranch makes of place i of the branch.
mergedAt(h, branch, i, f) ==
  IF i = 0 THEN config(h)
  ELSE IF /\ isOwnerPeer(f[i - 1], branch[i].signer)
          /\ Valid(applyConfigDelta(f[i - 1], config(records[branch[i]].prev), config(branch[i])))
  THEN applyConfigDelta(f[i - 1], config(records[branch[i]].prev), config(branch[i]))
  ELSE f[i - 1]

mergeStep(h, branch) ==
  [i \in 0..Len(branch) |-> [f \in [0..Len(branch) -> [Peers -> Roles]] |-> mergedAt(h, branch, i, f)]]

\* merged is the function that mergeConfigBranch defines.
IsMerged(merged, h, branch) ==
  merged = [i \in 0..Len(branch) |->
        IF i = 0 THEN config(h)
        ELSE LET before == merged[i - 1]
                 next == applyConfigDelta(before, config(records[branch[i]].prev), config(branch[i]))
             IN IF isOwnerPeer(before, branch[i].signer) /\ Valid(next) THEN next ELSE before]

\* The recursion of mergeConfigBranch describes a function of configs.
LEMMA MergedExists ==
  Formed /\ Configs => \A h \in DOMAIN records : \A branch \in Seq(DOMAIN records) :
    \E merged \in [0..Len(branch) -> [Peers -> Roles]] : IsMerged(merged, h, branch)
<1> SUFFICES ASSUME Formed, Configs, NEW h \in DOMAIN records, NEW branch \in Seq(DOMAIN records)
             PROVE  \E merged \in [0..Len(branch) -> [Peers -> Roles]] : IsMerged(merged, h, branch)
  OBVIOUS
<1> DEFINE S == 0..Len(branch)
           V == [Peers -> Roles]
           step == mergeStep(h, branch)
           rank == [i \in S |-> i]
<1>0. /\ Len(branch) \in Nat
      /\ \A i \in S : i # 0 => i - 1 \in S /\ branch[i] \in DOMAIN records
  BY LenProperties, ElementOfSeq
<1>1. V # {} /\ rank \in [S -> Nat]
  <2>1. config(h) \in V
    BY DEF Configs
  <2> QED BY <1>0, <2>1
<1>2. step \in Steps(S, V)
  <2>1. ASSUME NEW i \in S, NEW f \in [S -> V] PROVE mergedAt(h, branch, i, f) \in V
    <3>1. CASE i = 0
      BY <3>1 DEF mergedAt, Configs
    <3>2. CASE i # 0
      <4>1. f[i - 1] \in V
        BY <1>0, <3>2
      <4>2. config(branch[i]) \in V
        BY <1>0, <3>2 DEF Configs
      <4> DEFINE next == applyConfigDelta(f[i - 1], config(records[branch[i]].prev), config(branch[i]))
      <4>3. next \in V
        BY <4>1, <4>2 DEF applyConfigDelta
      <4>4. mergedAt(h, branch, i, f) \in {f[i - 1], next}
        BY <3>2 DEF mergedAt
      <4> HIDE DEF next, V
      <4> QED BY <4>1, <4>3, <4>4
    <3> QED BY <3>1, <3>2
  <2>2. step = [i \in S |-> [f \in [S -> V] |-> mergedAt(h, branch, i, f)]]
    BY DEF mergeStep
  <2> HIDE DEF S, V, step
  <2> QED BY <2>1, <2>2 DEF Steps
<1>3. Decided(S, V, rank, step)
  <2>1. ASSUME NEW i \in S, NEW f \in [S -> V], NEW g \in [S -> V],
               \A k \in S : rank[k] < rank[i] => f[k] = g[k]
        PROVE  step[i][f] = step[i][g]
    <3>1. i # 0 => f[i - 1] = g[i - 1]
      BY <1>0, <2>1
    <3>2. mergedAt(h, branch, i, f) = mergedAt(h, branch, i, g)
      BY <3>1 DEF mergedAt
    <3>3. step[i][f] = mergedAt(h, branch, i, f) /\ step[i][g] = mergedAt(h, branch, i, g)
      BY DEF mergeStep
    <3> QED BY <3>2, <3>3
  <2> QED BY <2>1 DEF Decided
<1> HIDE DEF S, V, step, rank
<1>5. PICK merged \in [S -> V] : \A i \in S : merged[i] = step[i][merged]
  BY <1>1, <1>2, <1>3, Recursion
<1>6. \A i \in S : merged[i] = mergedAt(h, branch, i, merged)
  BY <1>5 DEF S, V, step, mergeStep
<1>7. merged = [i \in S |-> merged[i]]
  BY <1>5
<1>8. merged = [i \in S |-> mergedAt(h, branch, i, merged)]
  BY <1>6, <1>7
<1>9. IsMerged(merged, h, branch)
  BY <1>8 DEF IsMerged, mergedAt, S
<1> QED BY <1>5, <1>9 DEF S, V

\* A merge on a valid config yields a valid one: each change that would not is left out.
LEMMA MergeValid ==
  Formed /\ Configs => \A h \in DOMAIN records : \A branch \in Seq(DOMAIN records) :
    Valid(config(h)) =>
      mergeConfigBranch(h, branch) \in [Peers -> Roles] /\ Valid(mergeConfigBranch(h, branch))
<1> SUFFICES ASSUME Formed, Configs, NEW h \in DOMAIN records, NEW branch \in Seq(DOMAIN records),
                    Valid(config(h))
             PROVE  /\ mergeConfigBranch(h, branch) \in [Peers -> Roles]
                    /\ Valid(mergeConfigBranch(h, branch))
  OBVIOUS
<1> DEFINE merged == CHOOSE f : IsMerged(f, h, branch)
           n == Len(branch)
<1>0. n \in Nat
  BY LenProperties
<1>1. PICK m \in [0..n -> [Peers -> Roles]] : IsMerged(m, h, branch)
  BY MergedExists
<1>2. IsMerged(merged, h, branch)
  BY <1>1, Zenon
<1>3. mergeConfigBranch(h, branch) = merged[n]
  BY Zenon DEF mergeConfigBranch, IsMerged
<1> HIDE DEF merged
<1>4. \A i \in 0..n : merged[i] = mergedAt(h, branch, i, merged)
  BY <1>2 DEF IsMerged, mergedAt
<1> DEFINE good(i) == merged[i] \in [Peers -> Roles] /\ Valid(merged[i])
           T == {i \in Nat : i <= n => good(i)}
<1>5. 0 \in T
  BY <1>0, <1>4 DEF mergedAt, Configs
<1>6. ASSUME NEW i \in T PROVE i + 1 \in T
  <2> SUFFICES ASSUME i + 1 <= n PROVE good(i + 1)
    OBVIOUS
  <2> DEFINE before == merged[i]
             k == branch[i + 1]
             next == applyConfigDelta(before, config(records[k].prev), config(k))
  <2>1. before \in [Peers -> Roles] /\ Valid(before) /\ i + 1 \in 1..n /\ i + 1 \in 0..n
    BY <1>0
  <2>2. k \in DOMAIN records
    BY <2>1, ElementOfSeq
  <2>3. next \in [Peers -> Roles]
    BY <2>1, <2>2 DEF applyConfigDelta, Configs
  <2>4. merged[i + 1] = IF isOwnerPeer(before, k.signer) /\ Valid(next) THEN next ELSE before
    <3>1. (i + 1) - 1 = i /\ i + 1 # 0
      OBVIOUS
    <3>2. merged[i + 1] = mergedAt(h, branch, i + 1, merged)
      BY <1>4, <2>1
    <3> QED BY <3>1, <3>2 DEF mergedAt
  <2> HIDE DEF before, next
  <2> QED BY <2>1, <2>3, <2>4
<1>7. T = Nat
  <2> HIDE DEF T
  <2>1. T \in SUBSET Nat
    BY DEF T
  <2> QED BY <1>5, <1>6, <2>1, NumberInduction
<1> QED BY <1>0, <1>3, <1>7

-----------------------------------------------------------------------------
(* Signing leaves the signed records as they are.                          *)

Kept == \A h \in DOMAIN records : h \in DOMAIN records' /\ records'[h] = records[h]

BranchUnfolding ==
  \A floor \in Nat, h \in DOMAIN records :
    ReadConfigBranch(h, floor) =
      IF h = GenesisHash \/ h.seqno <= floor THEN <<>>
      ELSE Append(ReadConfigBranch(records[h].prev, floor), h)

OnChainUnfolding ==
  /\ onChain(GenesisHash) = {GenesisHash}
  /\ \A h \in DOMAIN records \ {GenesisHash} :
       onChain(h) = onChain(records[h].prev) \cup {h}

AccountedGrowing ==
  \A h \in DOMAIN records \ {GenesisHash} :
    accounted(records[h].prev) \cup direct(h) \subseteq accounted(h)

AccountedUnfolding ==
  \A h \in DOMAIN records :
    /\ accounted(h) = onChain(h) \cup UNION {absorbed(k) : k \in onChain(h)}
    /\ onChain(h) \subseteq DOMAIN records

\* The branches, chains and absorptions of the signed records stay.
LEMMA BranchesKept ==
  Formed /\ Formed' /\ Kept =>
    \A h \in DOMAIN records : \A floor \in Nat : ReadConfigBranch(h, floor)' = ReadConfigBranch(h, floor)
<1>1. (Formed => BranchUnfolding)'
  <2>1. Formed => BranchUnfolding
    BY BranchUnfolds DEF BranchUnfolding
  <2> QED BY <2>1, PTL
<1> SUFFICES ASSUME Formed, Formed', Kept, NEW floor \in Nat
             PROVE  DOMAIN records \subseteq
               {h \in DOMAIN records : ReadConfigBranch(h, floor)' = ReadConfigBranch(h, floor)}
  OBVIOUS
<1> DEFINE S == DOMAIN records
           T == {h \in S : ReadConfigBranch(h, floor)' = ReadConfigBranch(h, floor)}
<1>2. ASSUME NEW h \in S, \A k \in S : seqnos[k] < seqnos[h] => k \in T
      PROVE  h \in T
  <2>1. h \in DOMAIN records' /\ records'[h] = records[h]
    BY DEF Kept
  <2>2. ReadConfigBranch(h, floor)' =
          IF h = GenesisHash \/ h.seqno <= floor THEN <<>>
          ELSE Append(ReadConfigBranch(records[h].prev, floor)', h)
    BY <1>1, <2>1 DEF BranchUnfolding
  <2>3. ReadConfigBranch(h, floor) =
          IF h = GenesisHash \/ h.seqno <= floor THEN <<>>
          ELSE Append(ReadConfigBranch(records[h].prev, floor), h)
    BY BranchUnfolds
  <2>4. PICK p : p = records[h].prev
    OBVIOUS
  <2>5. CASE h = GenesisHash \/ h.seqno <= floor
    BY <2>2, <2>3, <2>5
  <2>6. CASE ~(h = GenesisHash \/ h.seqno <= floor)
    <3>1. p \in T
      BY <1>2, <2>4, <2>6, Seqnos
    <3>2. ReadConfigBranch(p, floor)' = ReadConfigBranch(p, floor)
      BY <3>1
    <3>3. ReadConfigBranch(h, floor)' = Append(ReadConfigBranch(p, floor)', h)
      BY <2>1, <2>2, <2>4, <2>6
    <3>4. ReadConfigBranch(h, floor) = Append(ReadConfigBranch(p, floor), h)
      BY <2>3, <2>4, <2>6
    <3> QED BY <3>2, <3>3, <3>4
  <2> QED BY <2>5, <2>6
<1> HIDE DEF T
<1>3. S \subseteq T
  BY <1>2, Seqnos, RankInduction
<1> QED BY <1>3 DEF T

LEMMA ChainsKept ==
  Formed /\ Formed' /\ Kept => \A h \in DOMAIN records : onChain(h)' = onChain(h)
  BY BranchesKept DEF onChain, chain, GenesisHash, Range

LEMMA AbsorbedKept ==
  Formed /\ Formed' /\ Kept => \A h \in DOMAIN records : absorbed(h)' = absorbed(h)
<1>1. (Formed => AbsorptionUnfolds)'
  BY AbsorbedUnfolds, PTL
<1> SUFFICES ASSUME Formed, Formed', Kept
             PROVE  DOMAIN records \subseteq {h \in DOMAIN records : absorbed(h)' = absorbed(h)}
  OBVIOUS
<1> DEFINE S == DOMAIN records
           T == {h \in S : absorbed(h)' = absorbed(h)}
<1>2. ASSUME NEW h \in S, \A k \in S : seqnos[k] < seqnos[h] => k \in T
      PROVE  h \in T
  <2>1. h \in DOMAIN records' /\ records'[h] = records[h] /\ direct(h)' = direct(h)
    BY DEF Kept, direct, Range
  <2>2. absorbed(h)' = direct(h) \cup UNION {absorbed(b)' : b \in direct(h)}
    BY <1>1, <2>1 DEF AbsorptionUnfolds
  <2>3. absorbed(h) = direct(h) \cup UNION {absorbed(b) : b \in direct(h)}
    BY AbsorbedUnfolds DEF AbsorptionUnfolds
  <2>4. \A b \in direct(h) : b \in S /\ b.seqno < h.seqno
    BY AbsorbedBelow
  <2>5. \A b \in direct(h) : absorbed(b)' = absorbed(b)
    BY <1>2, <2>4, Seqnos
  <2> QED BY <2>2, <2>3, <2>5
<1> HIDE DEF T
<1>3. S \subseteq T
  BY <1>2, Seqnos, RankInduction
<1> QED BY <1>3 DEF T

LEMMA AccountedKept ==
  Formed /\ Formed' /\ Kept => \A h \in DOMAIN records : accounted(h)' = accounted(h)
<1>1. (Formed => AccountedUnfolding)'
  <2>1. Formed => AccountedUnfolding
    BY AccountedUnfolds, OnChainBelow DEF AccountedUnfolding
  <2> QED BY <2>1, PTL
<1> SUFFICES ASSUME Formed, Formed', Kept, NEW h \in DOMAIN records
             PROVE  accounted(h)' = accounted(h)
  OBVIOUS
<1>2. h \in DOMAIN records' /\ onChain(h)' = onChain(h) /\ onChain(h) \subseteq DOMAIN records
  BY ChainsKept, OnChainBelow DEF Kept
<1>3. accounted(h)' = onChain(h) \cup UNION {absorbed(k)' : k \in onChain(h)}
  BY <1>1, <1>2 DEF AccountedUnfolding
<1>4. accounted(h) = onChain(h) \cup UNION {absorbed(k) : k \in onChain(h)}
  BY AccountedUnfolds
<1>5. \A k \in onChain(h) : absorbed(k)' = absorbed(k)
  BY <1>2, AbsorbedKept
<1> QED BY <1>3, <1>4, <1>5

-----------------------------------------------------------------------------
(* A record may be signed: on one of the sequence number below, whose config *)
(* is valid and which absorbs a branch that leads from its fork, or none.    *)
Signable(prev, hash, cfg, fork, branch) ==
  /\ prev \in DOMAIN records /\ hash \notin DOMAIN records /\ hash.seqno = prev.seqno + 1
  /\ cfg \in [Peers -> Roles] /\ Valid(cfg)
  /\ branch \in Seq(DOMAIN records)
  /\ branch # <<>> =>
       /\ Last(branch) \in DOMAIN records /\ Last(branch).seqno <= prev.seqno
       /\ fork \in onChain(prev) \cap onChain(Last(branch))
       /\ branch = ReadConfigBranch(Last(branch), fork.seqno)

LEMMA NewHash ==
  Formed => \A d \in Devices, h \in DOMAIN records : \A k \in newHashes(d, h) :
    k \notin DOMAIN records /\ k.seqno = h.seqno + 1
  BY DEF newHashes

\* What is signed keeps the records well formed.
LEMMA Signed ==
  Formed /\ Merging /\ Configs =>
    \A prev, hash, cfg, fork, branch, leave :
      Signable(prev, hash, cfg, fork, branch) /\ signing(prev, hash, cfg, fork, branch, leave) =>
        /\ Kept /\ DOMAIN records' = DOMAIN records \cup {hash}
        /\ records'[hash].prev = prev /\ records'[hash].branch = branch
        /\ Formed' /\ Merging' /\ Configs'
        /\ onChain(hash)' = onChain(prev) \cup {hash}
        /\ accounted(prev) \cup Range(branch) \subseteq accounted(hash)'
<1>1. (Formed => OnChainUnfolding)'
  <2>1. Formed => OnChainUnfolding
    BY OnChainUnfolds DEF OnChainUnfolding
  <2> QED BY <2>1, PTL
<1>2. (Formed => AccountedGrowing)'
  <2>1. Formed => AccountedGrowing
    BY AccountedUnfolds, AbsorbedBelow DEF AccountedGrowing
  <2> QED BY <2>1, PTL
<1> SUFFICES ASSUME Formed, Merging, Configs, NEW prev, NEW hash, NEW cfg, NEW fork, NEW branch, NEW leave,
                    Signable(prev, hash, cfg, fork, branch), signing(prev, hash, cfg, fork, branch, leave)
             PROVE  /\ Kept /\ DOMAIN records' = DOMAIN records \cup {hash}
                    /\ records'[hash].prev = prev /\ records'[hash].branch = branch
                    /\ Formed' /\ Merging' /\ Configs'
                    /\ onChain(hash)' = onChain(prev) \cup {hash}
                    /\ accounted(prev) \cup Range(branch) \subseteq accounted(hash)'
  OBVIOUS
<1> DEFINE entry == [prev |-> prev, config |-> cfg, fork |-> fork, branch |-> branch, leave |-> leave]
<1>3. /\ DOMAIN records' = DOMAIN records \cup {hash} /\ records'[hash] = entry
      /\ \A h \in DOMAIN records : records'[h] = records[h]
  BY DEF signing, Signable
<1>4. Kept
  BY <1>3 DEF Kept
<1>5. /\ prev \in DOMAIN records /\ prev.seqno \in Nat /\ hash.seqno = prev.seqno + 1 /\ hash # GenesisHash
      /\ GenesisHash \in DOMAIN records
  BY DEF Signable, Formed
<1>6. \A b \in Range(branch) : b \in DOMAIN records /\ b.seqno < hash.seqno
  <2> SUFFICES ASSUME NEW b \in Range(branch) PROVE b \in DOMAIN records /\ b.seqno < hash.seqno
    OBVIOUS
  <2>1. branch \in Seq(DOMAIN records) /\ branch # <<>>
    BY DEF Signable, Range
  <2>2. Last(branch) \in DOMAIN records /\ Last(branch).seqno <= prev.seqno /\ Last(branch).seqno \in Nat
    BY <2>1, Seqnos DEF Signable
  <2>3. fork \in onChain(Last(branch)) /\ branch = ReadConfigBranch(Last(branch), fork.seqno)
    BY <2>1 DEF Signable
  <2>4. fork.seqno \in Nat
    BY <2>2, <2>3, OnChainBelow, Seqnos
  <2>5. b \in onChain(Last(branch))
    BY <2>2, <2>3, <2>4, RangeBranch
  <2>6. b \in DOMAIN records /\ b.seqno <= Last(branch).seqno /\ b.seqno \in Nat
    BY <2>2, <2>5, OnChainBelow, Seqnos
  <2> QED BY <1>5, <2>2, <2>6
<1>7. Formed'
  <2>1. /\ GenesisHash \in DOMAIN records'
        /\ records'[GenesisHash].branch = <<>>
        /\ \A h \in DOMAIN records' : h.seqno \in Nat
    BY <1>3, <1>5 DEF Formed
  <2>2. ASSUME NEW h \in DOMAIN records' \ {GenesisHash}
        PROVE  records'[h].prev \in DOMAIN records' /\ h.seqno = records'[h].prev.seqno + 1
    BY <1>3, <1>5 DEF Formed
  <2>3. ASSUME NEW h \in DOMAIN records'
        PROVE  /\ records'[h].branch \in Seq(DOMAIN records')
               /\ \A b \in Range(records'[h].branch) : b.seqno < h.seqno
    <3>1. CASE h = hash
      <4>1. records'[h].branch = branch /\ branch \in Seq(DOMAIN records)
        BY <1>3, <3>1 DEF Signable
      <4> QED BY <1>3, <1>6, <3>1, <4>1, SeqMonotonic
    <3>2. CASE h \in DOMAIN records
      BY <1>3, <3>2 DEF Formed
    <3> QED BY <1>3, <3>1, <3>2
  <2> QED BY <2>1, <2>2, <2>3 DEF Formed, GenesisHash, Range
<1>8. \A h \in DOMAIN records, floor \in Nat :
        onChain(h)' = onChain(h) /\ ReadConfigBranch(h, floor)' = ReadConfigBranch(h, floor)
  BY <1>4, <1>7, ChainsKept, BranchesKept
<1>9. onChain(hash)' = onChain(prev) \cup {hash}
  BY <1>1, <1>3, <1>5, <1>7, <1>8 DEF OnChainUnfolding
<1>10. ASSUME NEW m \in DOMAIN records' \ {GenesisHash}, records'[m].branch # <<>>
       PROVE  (/\ records[m].fork \in onChain(records[m].prev) \cap onChain(Last(records[m].branch))
               /\ records[m].branch = ReadConfigBranch(Last(records[m].branch), records[m].fork.seqno))'
  <2>1. PICK last, f, p : last = Last(records'[m].branch) /\ f = records'[m].fork /\ p = records'[m].prev
    OBVIOUS
  <2>2. /\ p \in DOMAIN records /\ last \in DOMAIN records
        /\ f \in onChain(p) \cap onChain(last)
        /\ records'[m].branch = ReadConfigBranch(last, f.seqno)
    <3>1. CASE m = hash
      BY <1>3, <1>10, <2>1, <3>1 DEF Signable
    <3>2. CASE m \in DOMAIN records
      <4>1. records'[m] = records[m] /\ records[m].branch \in Seq(DOMAIN records)
        BY <1>3, <3>2 DEF Formed
      <4>2. last = records[m].branch[Len(records[m].branch)] /\ Len(records[m].branch) \in 1..Len(records[m].branch)
        BY <1>10, <2>1, <4>1, LenProperties, EmptySeq DEF Last
      <4>3. last \in DOMAIN records
        BY <4>1, <4>2, ElementOfSeq
      <4>4. p \in DOMAIN records
        BY <2>1, <3>2, <4>1, Seqnos
      <4> QED BY <1>10, <2>1, <3>2, <4>1, <4>3, <4>4 DEF Merging
    <3> QED BY <1>3, <3>1, <3>2
  <2>3. f.seqno \in Nat
    BY <2>2, OnChainBelow, Seqnos
  <2>4. f \in onChain(p)' \cap onChain(last)' /\ records'[m].branch = ReadConfigBranch(last, f.seqno)'
    BY <1>8, <2>2, <2>3
  <2> QED BY <2>1, <2>4
<1>11. Merging'
  BY <1>10 DEF Merging, GenesisHash
<1>12. Configs'
  <2>1. ASSUME NEW h \in DOMAIN records'
        PROVE  records'[h].config \in [Peers -> Roles] /\ (h # GenesisHash => Valid(records'[h].config))
    BY <1>3 DEF Configs, config, Signable
  <2> QED BY <2>1 DEF Configs, config, Valid, isOwnerPeer, Participates, Roles, GenesisHash
<1>13. accounted(prev) \cup Range(branch) \subseteq accounted(hash)'
  <2>1. accounted(prev)' = accounted(prev)
    BY <1>4, <1>5, <1>7, AccountedKept
  <2>2. direct(hash)' = Range(branch)
    BY <1>3 DEF direct, Range
  <2>3. accounted(prev)' \cup direct(hash)' \subseteq accounted(hash)'
    BY <1>2, <1>3, <1>5, <1>7 DEF AccountedGrowing
  <2> QED BY <1>3, <2>1, <2>2, <2>3
<1> QED BY <1>3, <1>4, <1>7, <1>9, <1>11, <1>12, <1>13

-----------------------------------------------------------------------------
(* The inductive invariant.                                                *)

\* Each device holds a signed record, and the config its checkpoint was signed
\* under is on the chain to it.
Heads ==
  /\ head \in [Devices -> DOMAIN records]
  /\ DOMAIN checkpoint = Devices
  /\ \A d \in Devices : checkpoint[d].under \in onChain(head[d])

\* An answer has records of the chain to its target, and none of the first config.
AnswerOK(a) ==
  /\ a.target \in DOMAIN records
  /\ a.checkpoint.under \in onChain(a.target)
  /\ a.changes \in Seq(DOMAIN records)
  /\ Range(a.changes) \subseteq onChain(a.target) \ {GenesisHash}
  /\ a.cursor \in onChain(a.target) \cup {NoHash}

Answers ==
  /\ DOMAIN answer = Devices
  /\ \A d \in Devices : answer[d] # Nothing => AnswerOK(answer[d])

\* Participants ask to leave at the first config they hold.
Requests ==
  /\ DOMAIN request = Devices
  /\ \A p \in Devices : request[p] # Nothing => request[p].at = GenesisHash

ChainsOK == Formed /\ Merging /\ Configs
MergeInv == scenario \in Scenarios /\ ChainsOK /\ Heads /\ Answers /\ Requests

LEMMA MergeInvInit == Init => MergeInv
<1> SUFFICES ASSUME Init PROVE MergeInv
  OBVIOUS
<1>1. /\ DOMAIN records = {GenesisHash} /\ records[GenesisHash].branch = <<>>
      /\ records[GenesisHash].config = scenario.roles
  BY DEF Init
<1>2. scenario \in Scenarios /\ scenario.roles \in [Peers -> Roles]
  BY MergeAssumption DEF Init, ScenarioOK
<1>3. Formed
  <2>1. <<>> \in Seq(DOMAIN records) /\ Range(<<>>) = {} /\ GenesisHash.seqno = 0
    BY EmptySeq DEF Range, GenesisHash
  <2>2. \A h \in DOMAIN records : h = GenesisHash
    BY <1>1
  <2>3. \A h \in DOMAIN records : h.seqno \in Nat
    BY <2>1, <2>2
  <2>4. \A h \in DOMAIN records :
          /\ records[h].branch \in Seq(DOMAIN records)
          /\ \A b \in Range(records[h].branch) : b.seqno < h.seqno
    BY <1>1, <2>1, <2>2
  <2>5. DOMAIN records \ {GenesisHash} = {}
    BY <2>2
  <2> QED BY <1>1, <2>3, <2>4, <2>5 DEF Formed
<1>4. Merging /\ Configs
  BY <1>1, <1>2 DEF Merging, Configs, config
<1>5. Heads
  <2>1. onChain(GenesisHash) = {GenesisHash}
    BY <1>3, OnChainUnfolds
  <2> QED BY <1>1, <2>1 DEF Heads, Init
<1>6. Answers /\ Requests
  BY DEF Answers, Requests, Init
<1> QED BY <1>2, <1>3, <1>4, <1>5, <1>6 DEF MergeInv, ChainsOK

-----------------------------------------------------------------------------
(* What a step does to the records and the heads.                          *)

\* No signed record changes, and the new ones are well formed.
Grows == Kept /\ ChainsOK'

\* Each head moves to a record that accounts for what the last one did, and whose
\* chain has the config of the held checkpoint.
Advances ==
  /\ Heads'
  /\ \A d \in Devices : accounted(head[d]) \subseteq accounted(head[d])'

LEMMA GrowsFrom ==
  ChainsOK /\ Grows => \A h \in DOMAIN records :
    /\ h \in DOMAIN records' /\ records'[h] = records[h]
    /\ onChain(h)' = onChain(h) /\ accounted(h)' = accounted(h)
  BY ChainsKept, AccountedKept DEF Grows, ChainsOK, Kept

LEMMA StaysGrows == ChainsOK /\ UNCHANGED records => Grows
<1> SUFFICES ASSUME ChainsOK, UNCHANGED records PROVE Grows
  OBVIOUS
<1>1. Kept
  BY DEF Kept
<1>2. Formed'
  BY DEF ChainsOK, Formed, GenesisHash, Range
<1>3. \A h \in DOMAIN records, floor \in Nat :
        onChain(h)' = onChain(h) /\ ReadConfigBranch(h, floor)' = ReadConfigBranch(h, floor)
  BY <1>1, <1>2, ChainsKept, BranchesKept DEF ChainsOK
<1>4. ASSUME NEW m \in DOMAIN records \ {GenesisHash}, records[m].branch # <<>>
      PROVE  /\ records[m].fork \in onChain(records[m].prev)' \cap onChain(Last(records[m].branch))'
             /\ records[m].branch = ReadConfigBranch(Last(records[m].branch), records[m].fork.seqno)'
  <2>1. PICK last, f, p : last = Last(records[m].branch) /\ f = records[m].fork /\ p = records[m].prev
    OBVIOUS
  <2>2. f \in onChain(p) \cap onChain(last) /\ records[m].branch = ReadConfigBranch(last, f.seqno)
    BY <1>4, <2>1 DEF ChainsOK, Merging
  <2>3. records[m].branch \in Seq(DOMAIN records)
    BY DEF ChainsOK, Formed
  <2>4. last = records[m].branch[Len(records[m].branch)] /\ Len(records[m].branch) \in 1..Len(records[m].branch)
    BY <1>4, <2>1, <2>3, LenProperties, EmptySeq DEF Last
  <2>5. last \in DOMAIN records /\ p \in DOMAIN records
    BY <2>1, <2>3, <2>4, ElementOfSeq, Seqnos DEF ChainsOK
  <2>6. f.seqno \in Nat
    BY <2>2, <2>5, OnChainBelow, Seqnos DEF ChainsOK
  <2>7. f \in onChain(p)' \cap onChain(last)' /\ records[m].branch = ReadConfigBranch(last, f.seqno)'
    BY <1>3, <2>2, <2>5, <2>6
  <2>8. records' = records
    OBVIOUS
  <2> QED BY <2>1, <2>7, <2>8
<1>5. Merging'
  BY <1>4 DEF Merging, GenesisHash
<1>6. Configs'
  BY DEF ChainsOK, Configs, config, Valid, isOwnerPeer, Participates, GenesisHash
<1> QED BY <1>1, <1>2, <1>5, <1>6 DEF Grows, ChainsOK

\* A device that holds another head moves it as long as that is covered.
LEMMA HoldsAdvances ==
  ChainsOK /\ Heads /\ Grows =>
    \A d \in Devices : \A h, next, keysOf :
      /\ holds(d, h, next, keysOf) /\ h \in DOMAIN records' /\ next.under \in onChain(h)'
      /\ accounted(head[d]) \subseteq accounted(h)'
      => Advances
<1> SUFFICES ASSUME ChainsOK, Heads, Grows, NEW d \in Devices, NEW h, NEW next, NEW keysOf,
                    holds(d, h, next, keysOf), h \in DOMAIN records', next.under \in onChain(h)',
                    accounted(head[d]) \subseteq accounted(h)'
             PROVE  Advances
  OBVIOUS
<1>1. head' = [head EXCEPT ![d] = h] /\ checkpoint' = [checkpoint EXCEPT ![d] = next]
  BY DEF holds
<1>2. head' \in [Devices -> DOMAIN records'] /\ DOMAIN checkpoint' = Devices
  BY <1>1, GrowsFrom DEF Heads
<1>3. ASSUME NEW e \in Devices
      PROVE  checkpoint'[e].under \in onChain(head[e])' /\ accounted(head[e]) \subseteq accounted(head[e])'
  <2>1. CASE e = d
    <3>1. head'[e] = h /\ checkpoint'[e] = next
      BY <1>1, <2>1 DEF Heads
    <3> QED BY <2>1, <3>1
  <2>2. CASE e # d
    <3>1. head'[e] = head[e] /\ checkpoint'[e] = checkpoint[e] /\ head[e] \in DOMAIN records
      BY <1>1, <2>2 DEF Heads
    <3> QED BY <3>1, GrowsFrom DEF Heads
  <2> QED BY <2>1, <2>2
<1> QED BY <1>2, <1>3 DEF Advances, Heads

LEMMA StaysAdvances ==
  ChainsOK /\ Heads /\ Grows /\ UNCHANGED <<head, checkpoint>> => Advances
<1> SUFFICES ASSUME ChainsOK, Heads, Grows, UNCHANGED <<head, checkpoint>> PROVE Advances
  OBVIOUS
<1>1. ASSUME NEW e \in Devices
      PROVE  /\ head'[e] \in DOMAIN records'
             /\ checkpoint'[e].under \in onChain(head[e])' /\ accounted(head[e]) \subseteq accounted(head[e])'
  <2>1. head'[e] = head[e] /\ checkpoint'[e] = checkpoint[e] /\ head[e] \in DOMAIN records
    BY DEF Heads
  <2> QED BY <2>1, GrowsFrom DEF Heads
<1> QED BY <1>1 DEF Advances, Heads

\* What is on its way stays as it is, or is taken in.
LEMMA AnswersKept ==
  /\ ChainsOK /\ Answers /\ Grows
  /\ DOMAIN answer' = Devices /\ \A d \in Devices : answer'[d] \in {answer[d], Nothing}
  => Answers'
<1> SUFFICES ASSUME ChainsOK, Answers, Grows, DOMAIN answer' = Devices,
                    \A d \in Devices : answer'[d] \in {answer[d], Nothing}
             PROVE  Answers'
  OBVIOUS
<1>1. ASSUME NEW d \in Devices, answer'[d] # Nothing PROVE AnswerOK(answer[d])'
  <2>1. answer'[d] = answer[d] /\ AnswerOK(answer[d])
    BY <1>1 DEF Answers
  <2>2. answer[d].changes \in Seq(DOMAIN records')
    <3>1. DOMAIN records \subseteq DOMAIN records'
      BY GrowsFrom
    <3> QED BY <2>1, <3>1, SeqMonotonic DEF AnswerOK
  <2>3. onChain(answer[d].target)' = onChain(answer[d].target) /\ answer[d].target \in DOMAIN records'
    <3>1. answer[d].target \in DOMAIN records
      BY <2>1 DEF AnswerOK
    <3>2. \A t : t = answer[d].target => onChain(t)' = onChain(t) /\ t \in DOMAIN records'
      BY <3>1, GrowsFrom
    <3>3. PICK t : t = answer[d].target
      OBVIOUS
    <3> QED BY <2>1, <3>2, <3>3
  <2> QED BY <2>1, <2>2, <2>3 DEF AnswerOK, Range, GenesisHash, NoHash
<1> QED BY <1>1 DEF Answers, Nothing

-----------------------------------------------------------------------------
(* What an answer covers.                                                  *)

\* The first of a sequence, and those after a place, are elements of it.
LEMMA HeadInRange ==
  ASSUME NEW A, NEW s \in Seq(A), s # <<>>
  PROVE  Head(s) \in Range(s) /\ Last(s) \in Range(s)
<1>1. Len(s) \in Nat \ {0} /\ DOMAIN s = 1..Len(s)
  BY EmptySeq, LenProperties
<1>2. Head(s) = s[1] /\ Last(s) = s[Len(s)] /\ 1 \in DOMAIN s /\ Len(s) \in DOMAIN s
  BY <1>1, HeadTailProperties DEF Last
<1> QED BY <1>2 DEF Range

LEMMA PartInRange ==
  ASSUME NEW A, NEW s \in Seq(A), NEW i \in DOMAIN s
  PROVE  /\ SubSeq(s, i + 1, Len(s)) \in Seq(A)
         /\ Range(SubSeq(s, i + 1, Len(s))) \subseteq Range(s)
<1>1. Len(s) \in Nat /\ DOMAIN s = 1..Len(s)
  BY LenProperties
<1> DEFINE t == SubSeq(s, i + 1, Len(s))
<1>2. \A k \in (i + 1)..Len(s) : s[k] \in A
  BY <1>1, ElementOfSeq
<1>3. /\ t \in Seq(A)
      /\ Len(t) = IF i + 1 <= Len(s) THEN Len(s) - (i + 1) + 1 ELSE 0
      /\ \A k \in 1..Len(t) : t[k] = s[i + 1 + k - 1]
  BY <1>1, SubSeqProperties
<1> HIDE DEF t
<1>4. \A k \in DOMAIN t : t[k] \in Range(s)
  <2> SUFFICES ASSUME NEW k \in DOMAIN t PROVE t[k] \in Range(s)
    OBVIOUS
  <2>1. k \in 1..Len(t)
    BY <1>3, LenProperties
  <2>2. i + 1 + k - 1 \in DOMAIN s /\ t[k] = s[i + 1 + k - 1]
    BY <1>1, <1>3, <2>1
  <2> QED BY <2>2 DEF Range
<1> QED BY <1>3, <1>4 DEF Range, t

\* The lowest fork at which d merges is the record its checkpoint was signed under.
LEMMA FloorType ==
  ChainsOK /\ Heads => \A d \in Devices :
    /\ CheckpointFloor(d) \in Nat
    /\ checkpoint[d].under \in onChain(head[d])
    /\ head[d] \in DOMAIN records
  BY OnChainBelow, Seqnos DEF ChainsOK, Heads, CheckpointFloor

\* The record at the floor of a branch is on the chain, and not below the floor
\* of a branch that a record of the chain has the sequence number of.
LEMMA CursorOnChain ==
  ChainsOK => \A h \in DOMAIN records, floor \in Nat :
    /\ cursor(ReadConfigBranch(h, floor), h) \in onChain(h)
    /\ floor <= h.seqno => cursor(ReadConfigBranch(h, floor), h).seqno >= floor
<1> SUFFICES ASSUME ChainsOK, NEW h \in DOMAIN records, NEW floor \in Nat
             PROVE  /\ cursor(ReadConfigBranch(h, floor), h) \in onChain(h)
                    /\ floor <= h.seqno => cursor(ReadConfigBranch(h, floor), h).seqno >= floor
  OBVIOUS
<1> DEFINE branch == ReadConfigBranch(h, floor)
<1>1. branch \in Seq(DOMAIN records) /\ Range(branch) = {k \in onChain(h) : k.seqno > floor}
  BY BranchType, RangeBranch DEF ChainsOK
<1> HIDE DEF branch
<1>2. CASE branch = <<>>
  BY <1>2, OnChainBelow DEF cursor, ChainsOK, branch
<1>3. CASE branch # <<>>
  <2> DEFINE first == Head(branch)
             p == records[first].prev
  <2>1. first \in onChain(h) /\ first.seqno > floor
    BY <1>1, <1>3, HeadInRange
  <2>2. first \in DOMAIN records \ {GenesisHash} /\ first.seqno = p.seqno + 1 /\ p.seqno \in Nat
    BY <2>1, OnChainBelow, Seqnos DEF ChainsOK, GenesisHash
  <2>3. onChain(first) \subseteq onChain(h) /\ p \in onChain(first)
    BY <2>1, <2>2, OnChainPart, OnChainUnfolds, OnChainBelow, Seqnos DEF ChainsOK
  <2>4. cursor(branch, h) = p
    BY <1>3 DEF cursor
  <2> HIDE DEF first, p
  <2> QED BY <2>1, <2>2, <2>3, <2>4 DEF branch
<1> QED BY <1>2, <1>3

\* The fork of a held branch and an answered one is one record of both chains,
\* and the held checkpoint was signed under one of the records that lead to it.
LEMMA ForksShared ==
  ChainsOK /\ Heads /\ Answers => \A d \in Devices :
    answer[d] # Nothing /\ isBranch(d) => \A fork \in forks(d) :
      /\ fork \in onChain(head[d]) \cap onChain(answer[d].target)
      /\ fork \in DOMAIN records /\ fork.seqno \in Nat
      /\ checkpoint[d].under \in onChain(fork)
      /\ forks(d) = {fork}
<1> SUFFICES ASSUME ChainsOK, Heads, Answers, NEW d \in Devices, answer[d] # Nothing, isBranch(d),
                    NEW fork \in forks(d)
             PROVE  /\ fork \in onChain(head[d]) \cap onChain(answer[d].target)
                    /\ fork \in DOMAIN records /\ fork.seqno \in Nat
                    /\ checkpoint[d].under \in onChain(fork)
                    /\ forks(d) = {fork}
  OBVIOUS
<1> DEFINE held == ReadConfigBranch(head[d], CheckpointFloor(d))
           shared == ({cursor(held, head[d])} \cup Range(held))
                       \cap ({answer[d].cursor} \cup Range(answer[d].changes))
<1>1. head[d] \in DOMAIN records /\ CheckpointFloor(d) \in Nat /\ checkpoint[d].under \in onChain(head[d])
  BY FloorType
<1>2. CheckpointFloor(d) <= head[d].seqno /\ head[d].seqno \in Nat
  BY <1>1, OnChainBelow, Seqnos DEF ChainsOK, CheckpointFloor
<1>3. /\ cursor(held, head[d]) \in onChain(head[d]) /\ cursor(held, head[d]).seqno >= CheckpointFloor(d)
      /\ Range(held) = {k \in onChain(head[d]) : k.seqno > CheckpointFloor(d)}
  BY <1>1, <1>2, CursorOnChain, RangeBranch DEF ChainsOK
<1>4. AnswerOK(answer[d]) /\ answer[d].cursor # NoHash
  BY DEF Answers, isBranch
<1> HIDE DEF held
<1>5. ASSUME NEW k \in shared
      PROVE  /\ k \in onChain(head[d]) \cap onChain(answer[d].target)
             /\ k \in DOMAIN records /\ k.seqno \in Nat /\ k.seqno >= CheckpointFloor(d)
  <2>1. k \in onChain(head[d]) \cap onChain(answer[d].target)
    BY <1>3, <1>4 DEF AnswerOK
  <2>2. k \in DOMAIN records /\ k.seqno \in Nat
    BY <1>1, <2>1, OnChainBelow, Seqnos DEF ChainsOK
  <2>3. k.seqno >= CheckpointFloor(d)
    BY <1>1, <1>3, <2>2
  <2> QED BY <2>1, <2>2, <2>3
<1>6. forks(d) = {h \in shared : \A other \in shared : other.seqno <= h.seqno}
  BY DEF forks, held
<1> HIDE DEF shared
<1>7. checkpoint[d].under \in onChain(fork)
  BY <1>1, <1>5, <1>6, OnChainPart DEF ChainsOK, CheckpointFloor
<1>8. ASSUME NEW other \in forks(d) PROVE other = fork
  <2>1. other.seqno = fork.seqno
    BY <1>5, <1>6
  <2>2. other \in onChain(fork)
    BY <1>1, <1>5, <1>6, <2>1, OnChainPart DEF ChainsOK
  <2> QED BY <1>5, <1>6, <2>1, <2>2, OnChainBelow DEF ChainsOK
<1> QED BY <1>5, <1>6, <1>7, <1>8

\* d's branch above the fork is empty when the fork is its head, and else ends
\* at its head.
LEMMA OursFromFork ==
  ChainsOK /\ Heads => \A d \in Devices : \A fork \in onChain(head[d]) :
    /\ ours(d, fork) \in Seq(DOMAIN records)
    /\ ours(d, fork) = <<>> => fork = head[d]
    /\ ours(d, fork) # <<>> => Last(ours(d, fork)) = head[d] /\ head[d] \in Range(ours(d, fork))
                              /\ head[d] # GenesisHash
<1> SUFFICES ASSUME ChainsOK, Heads, NEW d \in Devices, NEW fork \in onChain(head[d])
             PROVE  /\ ours(d, fork) \in Seq(DOMAIN records)
                    /\ ours(d, fork) = <<>> => fork = head[d]
                    /\ ours(d, fork) # <<>> => Last(ours(d, fork)) = head[d] /\ head[d] \in Range(ours(d, fork))
                                              /\ head[d] # GenesisHash
  OBVIOUS
<1> DEFINE h == head[d]
<1>1. h \in DOMAIN records /\ fork \in DOMAIN records /\ fork.seqno \in Nat /\ h.seqno \in Nat
      /\ fork.seqno <= h.seqno /\ (fork.seqno = h.seqno => fork = h)
  BY FloorType, OnChainBelow, Seqnos DEF ChainsOK
<1> HIDE DEF h
<1>2. ours(d, fork) = ReadConfigBranch(h, fork.seqno)
  BY DEF ours, h
<1>3. ours(d, fork) \in Seq(DOMAIN records) /\ Range(ours(d, fork)) = {k \in onChain(h) : k.seqno > fork.seqno}
  BY <1>1, <1>2, BranchType, RangeBranch DEF ChainsOK
<1>4. CASE h = GenesisHash \/ h.seqno <= fork.seqno
  <2>1. ours(d, fork) = <<>>
    BY <1>1, <1>2, <1>4, BranchUnfolds DEF ChainsOK
  <2>2. fork = h
    BY <1>1, <1>4 DEF GenesisHash
  <2> QED BY <1>3, <2>1, <2>2 DEF h
<1>5. CASE ~(h = GenesisHash \/ h.seqno <= fork.seqno)
  <2> DEFINE before == ReadConfigBranch(records[h].prev, fork.seqno)
  <2>1. ours(d, fork) = Append(before, h)
    BY <1>1, <1>2, <1>5, BranchUnfolds DEF ChainsOK
  <2>2. before \in Seq(DOMAIN records)
    BY <1>1, <1>5, BranchType, Seqnos DEF ChainsOK
  <2> HIDE DEF before
  <2>3. /\ Len(Append(before, h)) = Len(before) + 1 /\ Len(before) \in Nat
        /\ Append(before, h)[Len(before) + 1] = h
        /\ Range(Append(before, h)) = Range(before) \cup {h}
    BY <1>1, <2>2, AppendProperties, LenProperties, RangeAppend
  <2>4. Last(ours(d, fork)) = h /\ ours(d, fork) # <<>> /\ h \in Range(ours(d, fork))
    BY <2>1, <2>3 DEF Last
  <2> QED BY <1>3, <1>5, <2>4 DEF h
<1> QED BY <1>4, <1>5

\* What leads from held by the chain, or from the fork of a merge that absorbs it,
\* leads to a record that accounts for what held does.
LEMMA SuffixCovers ==
  ChainsOK => \A held, target \in DOMAIN records : \A changes \in Seq(DOMAIN records) :
    Range(changes) \subseteq onChain(target) \ {GenesisHash}
      /\ VerifyConfigChainSuffix(held, target, changes) =>
        /\ accounted(held) \subseteq accounted(target)
        /\ base(held, changes) \in onChain(held) \cap onChain(target)
<1> SUFFICES ASSUME ChainsOK, NEW held \in DOMAIN records, NEW target \in DOMAIN records,
                    NEW changes \in Seq(DOMAIN records),
                    Range(changes) \subseteq onChain(target) \ {GenesisHash},
                    VerifyConfigChainSuffix(held, target, changes)
             PROVE  /\ accounted(held) \subseteq accounted(target)
                    /\ base(held, changes) \in onChain(held) \cap onChain(target)
  OBVIOUS
<1> DEFINE b == base(held, changes)
<1>1. held \in onChain(held) /\ target \in onChain(target)
  BY OnChainBelow DEF ChainsOK
<1>2. \A k \in onChain(target) : k \in accounted(target) /\ accounted(k) \subseteq accounted(target)
  BY AccountedUnfolds, AccountedClosed DEF ChainsOK
<1>3. b \in onChain(target)
  <2>1. CASE changes = <<>>
    BY <1>1, <2>1 DEF VerifyConfigChainSuffix, base
  <2>2. CASE changes # <<>>
    <3>1. Head(changes) \in onChain(target) \ {GenesisHash}
      BY <2>2, HeadInRange
    <3>2. Head(changes) \in DOMAIN records \ {GenesisHash}
      BY <3>1, OnChainBelow DEF ChainsOK
    <3>3. b = records[Head(changes)].prev /\ b \in DOMAIN records
      BY <2>2, <3>2, Seqnos DEF base, ChainsOK
    <3>4. onChain(Head(changes)) \subseteq onChain(target)
      BY <3>1, OnChainPart DEF ChainsOK
    <3>5. b \in onChain(Head(changes))
      BY <3>2, <3>3, OnChainUnfolds, OnChainBelow DEF ChainsOK
    <3> QED BY <3>4, <3>5
  <2> QED BY <2>1, <2>2
<1>4. CASE b = held
  BY <1>1, <1>2, <1>3, <1>4
<1>5. CASE b # held
  <2> DEFINE absorbing == {i \in DOMAIN changes : AbsorbedFork(held, changes[i]) # NoHash}
             i == Min(absorbing)
  <2>1. absorbing # {} /\ b = AbsorbedFork(held, changes[i])
    BY <1>5, Zenon DEF VerifyConfigChainSuffix, ConfigSuffixBase
  <2>2. absorbing \in SUBSET Nat
    BY LenProperties
  <2> HIDE DEF absorbing
  <2>3. i \in absorbing
    BY <2>1, <2>2, LeastPlace
  <2>4. changes[i] \in onChain(target) /\ AbsorbedFork(held, changes[i]) # NoHash
    BY <2>3 DEF absorbing, Range
  <2>5. changes[i] \in DOMAIN records
    BY <2>4, OnChainBelow DEF ChainsOK
  <2>6. b \in onChain(held) /\ held \in absorbed(changes[i])
    BY <2>1, <2>4, <2>5, ForkBelow DEF ChainsOK
  <2>7. held \in accounted(target)
    BY <2>4, <2>6, AccountedUnfolds DEF ChainsOK
  <2>8. accounted(held) \subseteq accounted(target)
    BY <2>7, AccountedClosed DEF ChainsOK
  <2> QED BY <1>3, <2>6, <2>8
<1> QED BY <1>4, <1>5

\* An answer that follows d's head accounts for what it does, and has the config of
\* d's checkpoint on its chain.
LEMMA FollowsCovers ==
  ChainsOK /\ Heads /\ Answers => \A d \in Devices :
    answer[d] # Nothing /\ follows(d) =>
      /\ accounted(head[d]) \subseteq accounted(answer[d].target)
      /\ checkpoint[d].under \in onChain(answer[d].target)
<1> SUFFICES ASSUME ChainsOK, Heads, Answers, NEW d \in Devices, answer[d] # Nothing, follows(d)
             PROVE  /\ accounted(head[d]) \subseteq accounted(answer[d].target)
                    /\ checkpoint[d].under \in onChain(answer[d].target)
  OBVIOUS
<1> DEFINE h == head[d]
           t == answer[d].target
           u == checkpoint[d].under
<1>1. h \in DOMAIN records /\ u \in onChain(h) /\ AnswerOK(answer[d]) /\ t \in DOMAIN records
  BY FloorType DEF Answers, AnswerOK
<1>2. CASE extends(d)
  <2>1. PICK fork \in forks(d) : ours(d, fork) = <<>>
    BY <1>2 DEF extends
  <2>2. isBranch(d)
    BY <1>2 DEF extends
  <2>3. fork \in onChain(h) \cap onChain(t)
    BY <2>2, ForksShared
  <2>4. fork = h
    BY <2>1, <2>3, OursFromFork
  <2>5. onChain(h) \subseteq onChain(t) /\ h \in accounted(t)
    BY <1>1, <2>3, <2>4, OnChainPart, AccountedUnfolds DEF ChainsOK
  <2> QED BY <1>1, <2>5, AccountedClosed DEF ChainsOK
<1>3. CASE importable(d, t, unappliedConfigChanges(h, answer[d].changes))
  <2> DEFINE changes == unappliedConfigChanges(h, answer[d].changes)
             b == base(h, changes)
  <2>1. changes \in Seq(DOMAIN records) /\ Range(changes) \subseteq onChain(t) \ {GenesisHash}
    <3> DEFINE all == answer[d].changes
               at == {i \in DOMAIN all : all[i] = h}
    <3>1. all \in Seq(DOMAIN records) /\ Range(all) \subseteq onChain(t) \ {GenesisHash}
      BY <1>1 DEF AnswerOK
    <3>2. CASE at = {}
      BY <3>1, <3>2 DEF unappliedConfigChanges
    <3>3. CASE at # {}
      <4>1. at \in SUBSET Nat
        BY <3>1, LenProperties
      <4>2. Min(at) \in at
        <5> HIDE DEF at
        <5> QED BY <3>3, <4>1, LeastPlace
      <4>3. Min(at) \in DOMAIN all
        BY <4>2
      <4>4. changes = SubSeq(all, Min(at) + 1, Len(all))
        BY <3>3 DEF unappliedConfigChanges
      <4> HIDE DEF at, all, changes
      <4> QED BY <3>1, <4>3, <4>4, PartInRange
    <3> QED BY <3>2, <3>3
  <2>2. VerifyConfigChainSuffix(h, t, changes) /\ (b # h => b.seqno >= CheckpointFloor(d))
    BY <1>3 DEF importable
  <2> HIDE DEF changes
  <2>3. accounted(h) \subseteq accounted(t) /\ b \in onChain(h) \cap onChain(t)
    BY <1>1, <2>1, <2>2, SuffixCovers
  <2>4. u \in onChain(b)
    <3>1. b = h => u \in onChain(b)
      BY <1>1
    <3>2. b # h => u \in onChain(b)
      BY <1>1, <2>2, <2>3, OnChainPart, OnChainBelow, Seqnos DEF ChainsOK, CheckpointFloor
    <3> QED BY <3>1, <3>2
  <2>5. onChain(b) \subseteq onChain(t)
    BY <1>1, <2>3, OnChainPart DEF ChainsOK
  <2> QED BY <2>3, <2>4, <2>5
<1> QED BY <1>2, <1>3 DEF follows

-----------------------------------------------------------------------------
(* The steps.                                                              *)

\* The record that an owner signs follows its head.
LEMMA ApplyAdvances ==
  MergeInv => \A d \in Devices, next \in [Peers -> Roles] : \A keysOf, leave :
    ApplyConfigChange(d, next, keysOf, leave) => Grows /\ Advances
<1> SUFFICES ASSUME MergeInv, NEW d \in Devices, NEW next \in [Peers -> Roles], NEW keysOf, NEW leave,
                    ApplyConfigChange(d, next, keysOf, leave)
             PROVE  Grows /\ Advances
  OBVIOUS
<1>1. PICK h \in newHashes(d, head[d]) :
        signing(head[d], h, next, NoHash, <<>>, leave) /\ holds(d, h, checkpoint[d], keysOf)
  BY DEF ApplyConfigChange
<1>2. PICK p : p = head[d]
  OBVIOUS
<1>3. ChainsOK /\ Heads /\ p \in DOMAIN records /\ checkpoint[d].under \in onChain(p)
  BY <1>2, FloorType DEF MergeInv
<1>4. Signable(p, h, next, NoHash, <<>>)
  BY <1>1, <1>2, <1>3, NewHash, EmptySeq DEF Signable, ApplyConfigChange, ChainsOK
<1>5. signing(p, h, next, NoHash, <<>>, leave)
  BY <1>1, <1>2
<1>6. /\ Kept /\ DOMAIN records' = DOMAIN records \cup {h} /\ Formed' /\ Merging' /\ Configs'
      /\ onChain(h)' = onChain(p) \cup {h} /\ accounted(p) \subseteq accounted(h)'
  BY <1>3, <1>4, <1>5, Signed DEF ChainsOK
<1>7. Grows
  BY <1>6 DEF Grows, ChainsOK
<1> QED BY <1>1, <1>2, <1>3, <1>6, <1>7, HoldsAdvances

\* A device that holds another signed record, whose chain has what it held.
LEMMA MovesAdvances ==
  MergeInv /\ UNCHANGED records => \A d \in Devices, h \in DOMAIN records : \A next, keysOf :
    /\ holds(d, h, next, keysOf) /\ next.under \in onChain(h)
    /\ accounted(head[d]) \subseteq accounted(h)
    => Grows /\ Advances
<1> SUFFICES ASSUME MergeInv, UNCHANGED records, NEW d \in Devices, NEW h \in DOMAIN records,
                    NEW next, NEW keysOf, holds(d, h, next, keysOf), next.under \in onChain(h),
                    accounted(head[d]) \subseteq accounted(h)
             PROVE  Grows /\ Advances
  OBVIOUS
<1>1. ChainsOK /\ Heads /\ Grows
  BY StaysGrows DEF MergeInv
<1>2. h \in DOMAIN records' /\ onChain(h)' = onChain(h) /\ accounted(h)' = accounted(h)
  BY <1>1, GrowsFrom
<1> QED BY <1>1, <1>2, HoldsAdvances

\* What leads to a record of a chain is on the chain, and accounted for with it.
LEMMA ChainCovers ==
  ChainsOK => \A h \in DOMAIN records : \A k \in onChain(h) :
    k \in DOMAIN records /\ onChain(k) \subseteq onChain(h) /\ accounted(k) \subseteq accounted(h)
  BY OnChainBelow, OnChainPart, AccountedUnfolds, AccountedClosed DEF ChainsOK

AccountingClosed ==
  \A h \in DOMAIN records : \A k \in accounted(h) : accounted(k) \subseteq accounted(h)

LEMMA ClosedAlways == Formed /\ Merging => AccountingClosed
  BY AccountedClosed DEF AccountingClosed

LEMMA AddStep ==
  ASSUME MergeInv, NEW d \in Devices, AddSOParticipant(d)
  PROVE  Grows /\ Advances
<1>1. PICK p \in Peers :
        ApplyConfigChange(d, [config(head[d]) EXCEPT ![p] = "READER"], [grants[d] EXCEPT ![p] = d], Nothing)
  BY DEF AddSOParticipant
<1>2. [config(head[d]) EXCEPT ![p] = "READER"] \in [Peers -> Roles]
  BY FloorType DEF MergeInv, ChainsOK, Configs, Roles
<1> QED BY <1>1, <1>2, ApplyAdvances

LEMMA RemoveStep ==
  ASSUME MergeInv, NEW d \in Devices, RemoveSOParticipants(d)
  PROVE  Grows /\ Advances
<1>1. PICK p \in Peers :
        ApplyConfigChange(d, [config(head[d]) EXCEPT ![p] = "NONE"], pruneRemovedParticipants(d, p), Nothing)
  BY DEF RemoveSOParticipants
<1>2. [config(head[d]) EXCEPT ![p] = "NONE"] \in [Peers -> Roles]
  BY FloorType DEF MergeInv, ChainsOK, Configs, Roles
<1> QED BY <1>1, <1>2, ApplyAdvances

LEMMA ServeStep ==
  ASSUME MergeInv, NEW d \in Devices, NEW p \in Devices, acceptSharedObjectLeave(d, p)
  PROVE  Grows /\ Advances
<1> DEFINE outcome == LeaveSOParticipants(d, request[p])
<1>1. /\ "remove" \in DOMAIN outcome
      /\ ApplyConfigChange(d, outcome.remove, pruneRemovedParticipants(d, p), request[p])
  BY DEF acceptSharedObjectLeave
<1>2. outcome = [remove |-> [config(head[d]) EXCEPT ![request[p].peer] = "NONE"]]
  <2>1. outcome \in {[refused |-> TRUE], [remove |-> [config(head[d]) EXCEPT ![request[p].peer] = "NONE"]]}
          \/ DOMAIN outcome = {"removed"}
    BY DEF LeaveSOParticipants
  <2> HIDE DEF outcome
  <2>2. outcome # [refused |-> TRUE] /\ ~(DOMAIN outcome = {"removed"})
    BY <1>1
  <2> QED BY <2>1, <2>2
<1>3. outcome.remove \in [Peers -> Roles]
  <2>1. config(head[d]) \in [Peers -> Roles] /\ "NONE" \in Roles
    BY FloorType DEF MergeInv, ChainsOK, Configs, Roles
  <2>2. outcome.remove = [config(head[d]) EXCEPT ![request[p].peer] = "NONE"]
    <3> HIDE DEF outcome
    <3> QED BY <1>2
  <2> HIDE DEF outcome
  <2> QED BY <2>1, <2>2
<1> QED BY <1>1, <1>3, ApplyAdvances

LEMMA LeaveStep ==
  ASSUME MergeInv, NEW d \in Devices, NEW p \in Devices, LeaveSharedObject(p, d)
  PROVE  Grows /\ Advances
<1> DEFINE ask == request[p]
           outcome == LeaveSOParticipants(d, ask)
<1>1. UNCHANGED records /\ MergeInv /\ ChainsOK /\ Heads
  BY DEF LeaveSharedObject, MergeInv
<1>2. CASE UNCHANGED state
  BY <1>1, <1>2, StaysGrows, StaysAdvances DEF state
<1>3. CASE /\ "removed" \in DOMAIN outcome
           /\ {ask.at, head[p]} \subseteq onChain(outcome.removed)
           /\ holds(p, outcome.removed, checkpoint[p], NoGrants)
  <2> DEFINE suffix == ReadConfigSuffix(ask.at, head[d])
             done == {h \in Range(suffix.changes) : records[h].leave = ask}
  <2>1. suffix # Nothing /\ outcome.removed \in Range(suffix.changes)
    <3>1. \/ outcome \in {[refused |-> TRUE], [remove |-> [config(head[d]) EXCEPT ![ask.peer] = "NONE"]]}
          \/ suffix # Nothing /\ done # {} /\ outcome = [removed |-> CHOOSE h \in done : TRUE]
      BY DEF LeaveSOParticipants
    <3> HIDE DEF outcome
    <3>2. suffix # Nothing /\ done # {} /\ outcome.removed = CHOOSE h \in done : TRUE
      BY <1>3, <3>1
    <3>3. (CHOOSE h \in done : TRUE) \in done
      <4> HIDE DEF done
      <4> QED BY <3>2
    <3>4. outcome.removed \in done
      BY <3>2, <3>3, Zenon
    <3> QED BY <3>2, <3>4
  <2>2. ask.at = GenesisHash /\ GenesisHash \in DOMAIN records /\ head[d] \in DOMAIN records
        /\ head[p] \in DOMAIN records /\ checkpoint[p].under \in onChain(head[p])
    BY <1>1, FloorType DEF LeaveSharedObject, MergeInv, Requests, ChainsOK, Formed
  <2>3. PICK c \in Seq(DOMAIN records) : suffix = [changes |-> c] /\ Range(c) \subseteq onChain(head[d])
    BY <1>1, <2>1, <2>2, SuffixOnChain DEF ChainsOK
  <2> HIDE DEF suffix, outcome
  <2>4. outcome.removed \in onChain(head[d])
    BY <2>1, <2>3
  <2>5. outcome.removed \in DOMAIN records
    BY <1>1, <2>2, <2>4, OnChainBelow DEF ChainsOK
  <2>6. accounted(head[p]) \subseteq accounted(outcome.removed) /\ checkpoint[p].under \in onChain(outcome.removed)
    BY <1>1, <1>3, <2>2, <2>5, ChainCovers
  <2> QED BY <1>1, <1>3, <2>5, <2>6, MovesAdvances
<1> QED BY <1>2, <1>3 DEF LeaveSharedObject

LEMMA CheckpointStep ==
  ASSUME MergeInv, NEW d \in Devices, SignCheckpoint(d)
  PROVE  Grows /\ Advances
<1>1. /\ UNCHANGED records
      /\ holds(d, head[d], [height |-> checkpoint[d].height + 1, under |-> head[d]], grants[d])
  BY DEF SignCheckpoint
<1>2. head[d] \in DOMAIN records /\ head[d] \in onChain(head[d])
  BY FloorType, OnChainBelow DEF MergeInv, ChainsOK
<1> DEFINE next == [height |-> checkpoint[d].height + 1, under |-> head[d]]
<1>3. next.under \in onChain(head[d])
  BY <1>2
<1> HIDE DEF next
<1> QED BY <1>1, <1>2, <1>3, MovesAdvances DEF next

LEMMA OfferStep ==
  ASSUME MergeInv, NEW d \in Devices, NEW from \in Devices, ImportPeerConfig(d, from)
  PROVE  Grows /\ Advances
<1>1. /\ UNCHANGED records
      /\ head[d] \in onChain(head[from])
      /\ holds(d, head[from], newer(d, config(head[from]), checkpoint[d]), keys(d, config(head[from]), NoGrants))
  BY DEF ImportPeerConfig, commitPeerSnapshot
<1>2. newer(d, config(head[from]), checkpoint[d]) = checkpoint[d]
  BY DEF newer
<1>3. /\ head[from] \in DOMAIN records
      /\ accounted(head[d]) \subseteq accounted(head[from]) /\ checkpoint[d].under \in onChain(head[from])
  BY <1>1, FloorType, ChainCovers DEF MergeInv
<1> QED BY <1>1, <1>2, <1>3, MovesAdvances

LEMMA ImportStep ==
  ASSUME MergeInv, NEW d \in Devices, ImportPeerSnapshot(d)
  PROVE  Grows /\ Advances
<1> DEFINE t == answer[d].target
           next == newer(d, nextConfig(d), answer[d].checkpoint)
<1>1. UNCHANGED records /\ answer[d] # Nothing /\ follows(d)
      /\ holds(d, t, next, keys(d, nextConfig(d), answer[d].grants))
  BY DEF ImportPeerSnapshot, commitPeerSnapshot, current, adopts
<1>2. accounted(head[d]) \subseteq accounted(t) /\ checkpoint[d].under \in onChain(t)
  BY <1>1, FollowsCovers DEF MergeInv
<1>3. t \in DOMAIN records /\ answer[d].checkpoint.under \in onChain(t)
  BY <1>1 DEF MergeInv, Answers, AnswerOK
<1>4. next.under \in onChain(t)
  BY <1>2, <1>3 DEF newer
<1> HIDE DEF t, next
<1> QED BY <1>1, <1>2, <1>3, <1>4, MovesAdvances

\* A merge absorbs the whole branch of the device, on the head that won.
LEMMA MergeStep ==
  ASSUME MergeInv, NEW d \in Devices, MergePeerBranch(d)
  PROVE  Grows /\ Advances
<1>1. /\ answer[d] # Nothing /\ isBranch(d) /\ isToMerge(d)
      /\ head[d].seqno <= answer[d].target.seqno
  BY DEF MergePeerBranch, current, absorbs, isToMerge
<1>2. PICK fork \in forks(d), merge \in newHashes(d, answer[d].target) :
        /\ signing(answer[d].target, merge, nextConfig(d), fork, ours(d, fork), Nothing)
        /\ commitPeerSnapshot(d, merge, nextConfig(d), answer[d].checkpoint, answer[d].grants)
  BY DEF MergePeerBranch
<1>3. PICK t, h, cfg : t = answer[d].target /\ h = head[d] /\ cfg = nextConfig(d)
  OBVIOUS
<1>4. ChainsOK /\ Heads /\ Answers /\ AnswerOK(answer[d]) /\ t \in DOMAIN records /\ h \in DOMAIN records
  BY <1>1, <1>3, FloorType DEF MergeInv, Answers, AnswerOK
<1>5. /\ fork \in onChain(h) \cap onChain(t) /\ fork \in DOMAIN records /\ fork.seqno \in Nat
      /\ checkpoint[d].under \in onChain(fork)
      /\ forks(d) = {fork}
  BY <1>1, <1>3, <1>4, ForksShared
<1>6. PICK branch : branch = ours(d, fork)
  OBVIOUS
<1>7. /\ branch \in Seq(DOMAIN records) /\ branch # <<>>
      /\ Last(branch) = h /\ h \in Range(branch) /\ h # GenesisHash
  BY <1>1, <1>3, <1>4, <1>5, <1>6, OursFromFork DEF isToMerge
<1>8. branch = ReadConfigBranch(Last(branch), fork.seqno)
  BY <1>3, <1>6, <1>7 DEF ours
<1>9. cfg \in [Peers -> Roles] /\ Valid(cfg)
  <2>1. ~follows(d) => cfg = mergeConfigBranch(t, branch)
    <3>1. {mergeConfigBranch(answer[d].target, b) : b \in {ours(d, f) : f \in forks(d)}}
            = {mergeConfigBranch(t, branch)}
      BY <1>3, <1>5, <1>6
    <3> QED BY <1>3, <3>1 DEF nextConfig
  <2>2. follows(d) => cfg = config(t)
    BY <1>3 DEF nextConfig
  <2>3. t # GenesisHash
    <3>1. h.seqno \in Nat /\ t.seqno \in Nat /\ h.seqno <= t.seqno /\ GenesisHash.seqno = 0
      BY <1>1, <1>3, <1>4, Seqnos DEF ChainsOK, GenesisHash
    <3>2. h.seqno # 0
      <4>1. records[h].prev.seqno \in Nat /\ h.seqno = records[h].prev.seqno + 1
        BY <1>4, <1>7, Seqnos DEF ChainsOK
      <4> QED BY <4>1
    <3> QED BY <3>1, <3>2
  <2>4. config(t) \in [Peers -> Roles] /\ Valid(config(t))
    BY <1>4, <2>3 DEF ChainsOK, Configs
  <2> QED BY <1>4, <1>7, <2>1, <2>2, <2>4, MergeValid DEF ChainsOK
<1>10. Signable(t, merge, cfg, fork, branch)
  <2>1. merge \notin DOMAIN records /\ merge.seqno = t.seqno + 1
    BY <1>2, <1>3, <1>4, NewHash DEF ChainsOK
  <2> QED BY <1>1, <1>3, <1>4, <1>5, <1>7, <1>8, <1>9, <2>1 DEF Signable
<1>11. signing(t, merge, cfg, fork, branch, Nothing)
  BY <1>2, <1>3, <1>6
<1>12. /\ Kept /\ DOMAIN records' = DOMAIN records \cup {merge} /\ Formed' /\ Merging' /\ Configs'
       /\ onChain(merge)' = onChain(t) \cup {merge}
       /\ accounted(t) \cup Range(branch) \subseteq accounted(merge)'
  BY <1>4, <1>10, <1>11, Signed DEF ChainsOK
<1>13. Grows
  BY <1>12 DEF Grows, ChainsOK
<1>14. accounted(h) \subseteq accounted(merge)'
  <2>1. h \in accounted(merge)'
    BY <1>7, <1>12
  <2>2. (Formed /\ Merging => AccountingClosed)'
    BY ClosedAlways, PTL
  <2>3. accounted(h)' \subseteq accounted(merge)'
    BY <1>12, <2>1, <2>2 DEF AccountingClosed
  <2>4. accounted(h)' = accounted(h)
    BY <1>4, <1>13, GrowsFrom
  <2> QED BY <2>3, <2>4
<1>15. PICK next, keysOf : next = newer(d, cfg, answer[d].checkpoint) /\ keysOf = keys(d, cfg, answer[d].grants)
  OBVIOUS
<1>16. holds(d, merge, next, keysOf)
  BY <1>2, <1>3, <1>15 DEF commitPeerSnapshot
<1>17. next.under \in onChain(merge)'
  <2>1. answer[d].checkpoint.under \in onChain(t)
    BY <1>3, <1>4 DEF AnswerOK
  <2>2. checkpoint[d].under \in onChain(t)
    BY <1>4, <1>5, ChainCovers
  <2> QED BY <1>12, <1>15, <2>1, <2>2 DEF newer
<1> QED BY <1>3, <1>4, <1>12, <1>13, <1>14, <1>16, <1>17, HoldsAdvances

\* An answer is read from the records of the peer that gives it.
LEMMA RequestStep ==
  ASSUME MergeInv, NEW d \in Devices, NEW from \in Devices, RequestHistory(d, from)
  PROVE  Answers'
<1> DEFINE suffix == ReadConfigSuffix(head[d], head[from])
           branch == ReadConfigBranch(head[from], CheckpointFloor(d))
           a == [from |-> from, target |-> head[from], checkpoint |-> checkpoint[from],
                 grants |-> grants[from],
                 changes |-> IF suffix = Nothing THEN branch ELSE suffix.changes,
                 cursor |-> IF suffix = Nothing THEN cursor(branch, head[from]) ELSE NoHash]
<1>1. UNCHANGED log /\ answer' = [answer EXCEPT ![d] = a]
  BY DEF RequestHistory
<1>2. ChainsOK /\ Heads /\ Answers /\ Grows
  BY <1>1, StaysGrows DEF MergeInv, log
<1>3. /\ head[d] \in DOMAIN records /\ head[from] \in DOMAIN records /\ CheckpointFloor(d) \in Nat
      /\ checkpoint[from].under \in onChain(head[from])
  BY <1>2, FloorType
<1>4. AnswerOK(a)
  <2>1. CASE suffix = Nothing
    <3>1. branch \in Seq(DOMAIN records) /\ Range(branch) = {k \in onChain(head[from]) : k.seqno > CheckpointFloor(d)}
      BY <1>2, <1>3, BranchType, RangeBranch DEF ChainsOK
    <3>2. Range(branch) \subseteq onChain(head[from]) \ {GenesisHash}
      <4>1. ~(GenesisHash.seqno > CheckpointFloor(d))
        BY <1>3 DEF GenesisHash
      <4> QED BY <3>1, <4>1
    <3>3. cursor(branch, head[from]) \in onChain(head[from])
      BY <1>2, <1>3, CursorOnChain
    <3>4. a.changes = branch /\ a.cursor = cursor(branch, head[from]) /\ a.target = head[from]
          /\ a.checkpoint = checkpoint[from]
      BY <2>1
    <3> HIDE DEF a, branch, suffix
    <3> QED BY <1>3, <3>1, <3>2, <3>3, <3>4 DEF AnswerOK
  <2>2. CASE suffix # Nothing
    <3>1. PICK c \in Seq(DOMAIN records) :
            suffix = [changes |-> c] /\ Range(c) \subseteq onChain(head[from]) \ {GenesisHash}
      BY <1>2, <1>3, <2>2, SuffixOnChain DEF ChainsOK
    <3>2. a.changes = suffix.changes /\ a.cursor = NoHash /\ a.target = head[from]
          /\ a.checkpoint = checkpoint[from]
      BY <2>2
    <3> HIDE DEF a, branch, suffix
    <3> QED BY <1>3, <3>1, <3>2 DEF AnswerOK
  <2> QED BY <2>1, <2>2
<1> HIDE DEF a
<1>5. records' = records
  BY <1>1 DEF log
<1>6. ASSUME NEW b, AnswerOK(b) PROVE AnswerOK(b)'
  <2>1. b.target \in DOMAIN records /\ onChain(b.target)' = onChain(b.target)
    BY <1>2, <1>6, GrowsFrom DEF AnswerOK
  <2> QED BY <1>5, <1>6, <2>1 DEF AnswerOK, Range, GenesisHash, NoHash
<1>7. ASSUME NEW e \in Devices, answer'[e] # Nothing PROVE AnswerOK(answer[e])'
  <2>1. PICK b : b = answer'[e]
    OBVIOUS
  <2>2. AnswerOK(b)
    <3>1. b = a \/ b = answer[e]
      BY <1>1, <1>2, <2>1 DEF Answers
    <3> QED BY <1>2, <1>4, <1>7, <2>1, <3>1 DEF Answers
  <2>3. AnswerOK(b)'
    BY <1>6, <2>2
  <2> QED BY <2>1, <2>3
<1>8. DOMAIN answer' = Devices
  BY <1>1, <1>2 DEF Answers
<1> QED BY <1>7, <1>8 DEF Answers, Nothing

-----------------------------------------------------------------------------
(* The theorems.                                                           *)

LEMMA NextStep == MergeInv /\ [Next]_vars => MergeInv' /\ Grows /\ Advances
<1> SUFFICES ASSUME MergeInv, [Next]_vars PROVE MergeInv' /\ Grows /\ Advances
  OBVIOUS
<1>1. ChainsOK /\ Heads /\ Answers /\ Requests
  BY DEF MergeInv
<1>2. scenario' = scenario
  BY DEF Next, vars, AddSOParticipant, RemoveSOParticipants, BuildSOLeaveRequest, SignCheckpoint,
         acceptSharedObjectLeave, LeaveSharedObject, RequestHistory, ImportPeerConfig,
         ImportPeerSnapshot, MergePeerBranch, DeclineResponse
<1>3. Grows /\ Advances
  <2>1. UNCHANGED <<records, head, checkpoint>> => Grows /\ Advances
    BY <1>1, StaysGrows, StaysAdvances
  <2>2. ASSUME NEW d \in Devices, AddSOParticipant(d) \/ RemoveSOParticipants(d) PROVE Grows /\ Advances
    BY <2>2, AddStep, RemoveStep
  <2>3. ASSUME NEW d \in Devices, BuildSOLeaveRequest(d) \/ SignCheckpoint(d) PROVE Grows /\ Advances
    BY <2>1, <2>3, CheckpointStep DEF BuildSOLeaveRequest, log, state
  <2>4. ASSUME NEW d \in Devices, NEW p \in Devices, acceptSharedObjectLeave(d, p) \/ LeaveSharedObject(p, d)
        PROVE  Grows /\ Advances
    BY <2>4, ServeStep, LeaveStep
  <2>5. ASSUME NEW d \in Devices, NEW from \in Devices, RequestHistory(d, from) \/ ImportPeerConfig(d, from)
        PROVE  Grows /\ Advances
    BY <2>1, <2>5, OfferStep DEF RequestHistory, log, state
  <2>6. ASSUME NEW d \in Devices, ImportPeerSnapshot(d) \/ MergePeerBranch(d) \/ DeclineResponse(d)
        PROVE  Grows /\ Advances
    BY <2>1, <2>6, ImportStep, MergeStep DEF DeclineResponse, log, state
  <2>7. CASE UNCHANGED vars
    BY <2>1, <2>7 DEF vars, log, state
  <2> QED BY <2>2, <2>3, <2>4, <2>5, <2>6, <2>7 DEF Next
<1>4. Answers'
  <2>1. UNCHANGED answer => Answers'
    BY <1>1, <1>3, AnswersKept DEF Answers
  <2>2. ASSUME NEW d \in Devices, AddSOParticipant(d) \/ RemoveSOParticipants(d) PROVE Answers'
    BY <2>1, <2>2 DEF AddSOParticipant, RemoveSOParticipants
  <2>3. ASSUME NEW d \in Devices, BuildSOLeaveRequest(d) \/ SignCheckpoint(d) PROVE Answers'
    BY <2>1, <2>3 DEF BuildSOLeaveRequest, SignCheckpoint, exchange
  <2>4. ASSUME NEW d \in Devices, NEW p \in Devices, acceptSharedObjectLeave(d, p) \/ LeaveSharedObject(p, d)
        PROVE  Answers'
    BY <2>1, <2>4 DEF acceptSharedObjectLeave, LeaveSharedObject
  <2>5. ASSUME NEW d \in Devices, NEW from \in Devices, RequestHistory(d, from) \/ ImportPeerConfig(d, from)
        PROVE  Answers'
    BY <2>1, <2>5, RequestStep DEF ImportPeerConfig
  <2>6. ASSUME NEW d \in Devices, ImportPeerSnapshot(d) \/ MergePeerBranch(d) \/ DeclineResponse(d)
        PROVE  Answers'
    <3>1. answer' = [answer EXCEPT ![d] = Nothing]
      BY <2>6 DEF ImportPeerSnapshot, MergePeerBranch, DeclineResponse
    <3>2. DOMAIN answer' = Devices /\ \A e \in Devices : answer'[e] \in {answer[e], Nothing}
      BY <1>1, <3>1 DEF Answers
    <3> QED BY <1>1, <1>3, <3>2, AnswersKept
  <2>7. CASE UNCHANGED vars
    BY <2>1, <2>7 DEF vars, exchange
  <2> QED BY <2>2, <2>3, <2>4, <2>5, <2>6, <2>7 DEF Next
<1>5. Requests'
  <2>1. UNCHANGED request => Requests'
    BY <1>1 DEF Requests, Nothing, GenesisHash
  <2>2. ASSUME NEW d \in Devices, AddSOParticipant(d) \/ RemoveSOParticipants(d) PROVE Requests'
    BY <2>1, <2>2 DEF AddSOParticipant, RemoveSOParticipants
  <2>3. ASSUME NEW d \in Devices, BuildSOLeaveRequest(d) \/ SignCheckpoint(d) PROVE Requests'
    <3>1. CASE BuildSOLeaveRequest(d)
      <4>1. request' = [request EXCEPT ![d] = [peer |-> d, at |-> GenesisHash]]
        BY <3>1 DEF BuildSOLeaveRequest
      <4> QED BY <1>1, <4>1 DEF Requests, Nothing, GenesisHash
    <3>2. CASE SignCheckpoint(d)
      BY <2>1, <3>2 DEF SignCheckpoint
    <3> QED BY <2>3, <3>1, <3>2
  <2>4. ASSUME NEW d \in Devices, NEW p \in Devices, acceptSharedObjectLeave(d, p) \/ LeaveSharedObject(p, d)
        PROVE  Requests'
    <3>1. CASE acceptSharedObjectLeave(d, p)
      BY <2>1, <3>1 DEF acceptSharedObjectLeave
    <3>2. CASE LeaveSharedObject(p, d)
      <4>1. request' = [request EXCEPT ![p] = Nothing]
        BY <3>2 DEF LeaveSharedObject
      <4> QED BY <1>1, <4>1 DEF Requests, Nothing, GenesisHash
    <3> QED BY <2>4, <3>1, <3>2
  <2>5. ASSUME NEW d \in Devices, NEW from \in Devices, RequestHistory(d, from) \/ ImportPeerConfig(d, from)
        PROVE  Requests'
    BY <2>1, <2>5 DEF RequestHistory, ImportPeerConfig
  <2>6. ASSUME NEW d \in Devices, ImportPeerSnapshot(d) \/ MergePeerBranch(d) \/ DeclineResponse(d)
        PROVE  Requests'
    BY <2>1, <2>6 DEF ImportPeerSnapshot, MergePeerBranch, DeclineResponse
  <2>7. CASE UNCHANGED vars
    BY <2>1, <2>7 DEF vars
  <2> QED BY <2>2, <2>3, <2>4, <2>5, <2>6, <2>7 DEF Next
<1>6. scenario' \in Scenarios
  BY <1>2 DEF MergeInv
<1>7. ChainsOK' /\ Heads'
  BY <1>3 DEF Grows, Advances
<1> QED BY <1>3, <1>4, <1>5, <1>6, <1>7 DEF MergeInv

\* The records are well formed, each merge absorbs a whole branch from a fork on
\* both chains, each device holds a record that its checkpoint is on the chain of,
\* and each answer is a part of the chain of its target.
THEOREM Invariance == Spec => []MergeInv
<1>1. Init => MergeInv
  BY MergeInvInit
<1>2. MergeInv /\ [Next]_vars => MergeInv'
  BY NextStep
<1> QED BY <1>1, <1>2, PTL DEF Spec

\* Every record follows one of the sequence number below, absorbs a whole branch
\* and yields a valid config, however deep the merges nest
\* (config-chain.go BuildSOConfigChange, host-merge.go MergePeerBranch).
THEOREM RecordsWellFormed == Spec => []TypeOK
<1>1. MergeInv => TypeOK
  <2> SUFFICES ASSUME MergeInv PROVE TypeOK
    OBVIOUS
  <2>1. ASSUME NEW h \in DOMAIN records \ {GenesisHash}
        PROVE  /\ records[h].prev \in DOMAIN records /\ h.seqno = records[h].prev.seqno + 1
               /\ records[h].config \in [Peers -> Roles] /\ Valid(records[h].config)
               /\ records[h].branch # <<>> =>
                    /\ records[h].fork \in onChain(records[h].prev)
                    /\ records[h].branch = ReadConfigBranch(Last(records[h].branch), records[h].fork.seqno)
    BY DEF MergeInv, ChainsOK, Formed, Merging, Configs, config
  <2>2. ASSUME NEW d \in Devices PROVE checkpoint[d].under \in DOMAIN records
    BY FloorType, OnChainBelow DEF MergeInv, ChainsOK
  <2> QED BY <2>1, <2>2 DEF TypeOK, MergeInv, Heads
<1> QED BY <1>1, Invariance, PTL

\* No merge, import, removal or new checkpoint takes the config that a held
\* checkpoint was signed under off the chain of its device
\* (host-merge.go CheckpointFloor, checkMergeFloor).
THEOREM CheckpointStays == Spec => []CheckpointStaysOnChain
<1>1. MergeInv => CheckpointStaysOnChain
  BY DEF MergeInv, Heads, CheckpointStaysOnChain
<1> QED BY <1>1, Invariance, PTL

\* Whatever a device imports or merges, its config accounts for each change that
\* it did before (host-merge.go MergePeerBranch, config-chain.go
\* VerifyConfigChainSuffix).
THEOREM NoChangeForgotten == Spec => ChangesKept
<1>1. MergeInv /\ [Next]_vars => [\A d \in Devices : accounted(head[d]) \subseteq accounted(head[d])']_vars
  BY NextStep DEF Advances
<1> QED BY <1>1, Invariance, PTL DEF Spec, ChangesKept

-----------------------------------------------------------------------------
(* Leaving.                                                                *)

\* No merge absorbs the first record, so a read from it finds the whole chain.
LEMMA ReadFromGenesis ==
  ChainsOK => \A to \in DOMAIN records :
    /\ ReadConfigSuffix(GenesisHash, to) # Nothing
    /\ Range(ReadConfigSuffix(GenesisHash, to).changes) = onChain(to) \ {GenesisHash}
<1> SUFFICES ASSUME ChainsOK
             PROVE  DOMAIN records \subseteq {to \in DOMAIN records :
                      \E c \in Seq(DOMAIN records) :
                        /\ ReadConfigSuffix(GenesisHash, to) = [changes |-> c]
                        /\ Range(c) = onChain(to) \ {GenesisHash}}
  <2>1. \A c : [changes |-> c] # Nothing /\ [changes |-> c].changes = c
    BY DEF Nothing
  <2> QED BY <2>1
<1>0. GenesisHash \in DOMAIN records
  BY DEF ChainsOK, Formed
<1>1. ASSUME NEW to \in DOMAIN records PROVE AbsorbedFork(GenesisHash, to) = NoHash
  <2> SUFFICES ASSUME AbsorbedFork(GenesisHash, to) # NoHash PROVE FALSE
    OBVIOUS
  <2>1. GenesisHash \in absorbed(to)
    BY <1>0, ForkBelow DEF ChainsOK
  <2>2. PICK m \in {to} \cup absorbed(to) :
          GenesisHash \in direct(m) /\ AbsorbedFork(GenesisHash, to) = records[m].fork
    BY ForkOfMerge DEF ChainsOK
  <2>3. m \in DOMAIN records \ {GenesisHash} /\ records[m].branch \in Seq(DOMAIN records) /\ records[m].branch # <<>>
    BY <2>2, AbsorbedBelow DEF ChainsOK, Formed, direct, Range
  <2> DEFINE branch == records[m].branch
             fork == records[m].fork
             last == Last(branch)
  <2>4. fork \in onChain(last) /\ branch = ReadConfigBranch(last, fork.seqno)
    BY <2>3 DEF ChainsOK, Merging
  <2>5. last \in DOMAIN records
    <3>1. last \in Range(branch)
      BY <2>3, HeadInRange
    <3> QED BY <2>3, <3>1, RangeOfSeq DEF Range
  <2> HIDE DEF branch, fork, last
  <2>6. fork.seqno \in Nat
    BY <2>4, <2>5, OnChainBelow, Seqnos DEF ChainsOK
  <2>7. GenesisHash \in Range(branch)
    BY <2>2 DEF direct, branch
  <2>8. GenesisHash.seqno > fork.seqno
    BY <2>4, <2>5, <2>6, <2>7, RangeBranch DEF ChainsOK
  <2> QED BY <2>6, <2>8 DEF GenesisHash
<1>2. PICK suffix : \A from, to \in DOMAIN records :
        ReadConfigSuffix(from, to) = suffix[to][from] /\ suffix[to][from] = readTo(from, to, suffix)
  BY SuffixUnfolds DEF ChainsOK
<1> DEFINE S == DOMAIN records
           T == {to \in S : \E c \in Seq(S) :
                   /\ ReadConfigSuffix(GenesisHash, to) = [changes |-> c]
                   /\ Range(c) = onChain(to) \ {GenesisHash}}
<1>3. ASSUME NEW to \in S, \A k \in S : seqnos[k] < seqnos[to] => k \in T
      PROVE  to \in T
  <2>1. CASE to = GenesisHash
    <3>1. readTo(GenesisHash, to, suffix) = [changes |-> <<>>]
      BY <2>1 DEF readTo
    <3>2. <<>> \in Seq(S) /\ Range(<<>>) = {}
      BY EmptySeq DEF Range
    <3>3. onChain(to) \ {GenesisHash} = {}
      BY <2>1, OnChainUnfolds DEF ChainsOK
    <3> QED BY <1>0, <1>2, <3>1, <3>2, <3>3
  <2>2. CASE to # GenesisHash
    <3> DEFINE p == records[to].prev
    <3>1. p \in T /\ p \in S
      BY <1>3, <2>2, Seqnos DEF ChainsOK
    <3>2. PICK c \in Seq(S) : ReadConfigSuffix(GenesisHash, p) = [changes |-> c] /\ Range(c) = onChain(p) \ {GenesisHash}
      BY <3>1
    <3>3. suffix[p][GenesisHash] = [changes |-> c] /\ [changes |-> c] # Nothing
      BY <1>0, <1>2, <3>1, <3>2 DEF Nothing
    <3>4. readTo(GenesisHash, to, suffix) = [changes |-> Append(c, to)]
      <4>1. onward(GenesisHash, to) = GenesisHash
        BY <1>1 DEF onward
      <4>2. suffix[records[to].prev][onward(GenesisHash, to)] = [changes |-> c]
        BY <3>3, <4>1
      <4>3. [changes |-> c] # Nothing /\ [changes |-> c].changes = c
        BY DEF Nothing
      <4> HIDE DEF p, T
      <4> QED BY <2>2, <4>2, <4>3 DEF readTo
    <3>5. Append(c, to) \in Seq(S) /\ Range(Append(c, to)) = Range(c) \cup {to}
      BY <3>2, RangeAppend, AppendProperties
    <3>6. onChain(to) = onChain(p) \cup {to}
      BY <2>2, OnChainUnfolds DEF ChainsOK
    <3>7. ReadConfigSuffix(GenesisHash, to) = [changes |-> Append(c, to)]
      BY <1>0, <1>2, <3>4
    <3>8. Range(Append(c, to)) = onChain(to) \ {GenesisHash}
      BY <2>2, <3>2, <3>5, <3>6
    <3> QED BY <3>5, <3>7, <3>8
  <2> QED BY <2>1, <2>2
<1> HIDE DEF T
<1>4. S \subseteq T
  BY <1>3, Seqnos, RankInduction DEF ChainsOK
<1> QED BY <1>4 DEF T

LeaveInv == LeaveOnce /\ records[GenesisHash].leave = Nothing

\* What is signed carries out no request that a record on the way carried out.
LEMMA SigningOnce ==
  ChainsOK /\ LeaveInv /\ Grows =>
    \A prev \in DOMAIN records : \A hash, cfg, fork, branch, leave :
      /\ signing(prev, hash, cfg, fork, branch, leave)
      /\ leave # Nothing => \A before \in onChain(prev) : records[before].leave # leave
      => LeaveInv'
<1> SUFFICES ASSUME ChainsOK, LeaveInv, Grows, NEW prev \in DOMAIN records,
                    NEW hash, NEW cfg, NEW fork, NEW branch, NEW leave,
                    signing(prev, hash, cfg, fork, branch, leave),
                    leave # Nothing => \A before \in onChain(prev) : records[before].leave # leave
             PROVE  LeaveInv'
  OBVIOUS
<1>1. /\ DOMAIN records' = DOMAIN records \cup {hash}
      /\ records'[hash].prev = prev /\ records'[hash].leave = leave
  BY DEF signing
<1>2. GenesisHash \in DOMAIN records
  BY DEF ChainsOK, Formed
<1>3. ASSUME NEW h \in DOMAIN records', records'[h].leave # Nothing,
             NEW before \in onChain(records[h].prev)', records'[before].leave = records'[h].leave
      PROVE  FALSE
  <2>1. CASE h \in DOMAIN records /\ h # GenesisHash
    <3>1. PICK p : p = records[h].prev
      OBVIOUS
    <3>2. records'[h] = records[h] /\ p \in DOMAIN records
      BY <2>1, <3>1, GrowsFrom, Seqnos DEF ChainsOK
    <3>3. before \in onChain(p)' /\ onChain(p)' = onChain(p)
      BY <1>3, <3>1, <3>2, GrowsFrom
    <3>4. before \in DOMAIN records /\ records'[before] = records[before]
      BY <3>2, <3>3, OnChainBelow, GrowsFrom DEF ChainsOK
    <3> QED BY <1>3, <2>1, <3>1, <3>2, <3>3, <3>4 DEF LeaveInv, LeaveOnce
  <2>2. CASE h = hash
    <3>1. before \in onChain(prev)' /\ onChain(prev)' = onChain(prev)
      BY <1>1, <1>3, <2>2, GrowsFrom
    <3>2. before \in DOMAIN records /\ records'[before] = records[before]
      BY <3>1, OnChainBelow, GrowsFrom DEF ChainsOK
    <3> QED BY <1>1, <1>3, <2>2, <3>1, <3>2
  <2>3. CASE h = GenesisHash
    BY <1>2, <1>3, <2>3, GrowsFrom DEF LeaveInv
  <2> QED BY <1>1, <2>1, <2>2, <2>3
<1>4. LeaveOnce'
  BY <1>3 DEF LeaveOnce, Nothing
<1>5. records'[GenesisHash].leave = Nothing
  BY <1>2, GrowsFrom DEF LeaveInv
<1> QED BY <1>4, <1>5 DEF LeaveInv, GenesisHash, Nothing

LEMMA ApplyOnce ==
  MergeInv /\ LeaveInv => \A d \in Devices, next \in [Peers -> Roles] : \A keysOf, leave :
    /\ ApplyConfigChange(d, next, keysOf, leave)
    /\ leave # Nothing => \A before \in onChain(head[d]) : records[before].leave # leave
    => LeaveInv'
<1> SUFFICES ASSUME MergeInv, LeaveInv, NEW d \in Devices, NEW next \in [Peers -> Roles],
                    NEW keysOf, NEW leave, ApplyConfigChange(d, next, keysOf, leave),
                    leave # Nothing => \A before \in onChain(head[d]) : records[before].leave # leave
             PROVE  LeaveInv'
  OBVIOUS
<1>1. ChainsOK /\ Grows /\ head[d] \in DOMAIN records
  BY ApplyAdvances, FloorType DEF MergeInv
<1>2. PICK h \in newHashes(d, head[d]) : signing(head[d], h, next, NoHash, <<>>, leave)
  BY DEF ApplyConfigChange
<1> QED BY <1>1, <1>2, SigningOnce

\* An owner carries out a request that no record of its chain has carried out.
LEMMA ServeOnce ==
  ASSUME MergeInv, LeaveInv, NEW d \in Devices, NEW p \in Devices, acceptSharedObjectLeave(d, p)
  PROVE  LeaveInv'
<1> DEFINE ask == request[p]
           outcome == LeaveSOParticipants(d, ask)
           suffix == ReadConfigSuffix(ask.at, head[d])
           done == {h \in Range(suffix.changes) : records[h].leave = ask}
           next == [config(head[d]) EXCEPT ![ask.peer] = "NONE"]
<1>1. /\ "remove" \in DOMAIN outcome /\ ask # Nothing
      /\ ApplyConfigChange(d, outcome.remove, pruneRemovedParticipants(d, p), ask)
  BY DEF acceptSharedObjectLeave
<1>2. outcome = [remove |-> next] /\ suffix # Nothing /\ done = {}
  <2>1. \/ outcome = [refused |-> TRUE] \/ DOMAIN outcome = {"removed"}
        \/ outcome = [remove |-> next] /\ suffix # Nothing /\ done = {}
    BY DEF LeaveSOParticipants
  <2> HIDE DEF outcome
  <2>2. outcome # [refused |-> TRUE] /\ ~(DOMAIN outcome = {"removed"})
    BY <1>1
  <2> QED BY <2>1, <2>2
<1>3. ChainsOK /\ head[d] \in DOMAIN records /\ ask.at = GenesisHash
  BY <1>1, FloorType DEF MergeInv, Requests
<1>4. next \in [Peers -> Roles]
  BY <1>3 DEF ChainsOK, Configs, Roles
<1>5. outcome.remove = next
  <2> HIDE DEF outcome, next
  <2> QED BY <1>2
<1>6. \A before \in onChain(head[d]) : records[before].leave # ask
  <2>1. Range(suffix.changes) = onChain(head[d]) \ {GenesisHash}
    BY <1>3, ReadFromGenesis
  <2>2. records[GenesisHash].leave # ask
    BY <1>1 DEF LeaveInv
  <2> HIDE DEF suffix
  <2>3. \A before \in Range(suffix.changes) : records[before].leave # ask
    BY <1>2
  <2> QED BY <2>1, <2>2, <2>3
<1> HIDE DEF outcome, next, suffix
<1>7. ApplyConfigChange(d, next, pruneRemovedParticipants(d, p), ask)
  BY <1>1, <1>5
<1> QED BY <1>4, <1>6, <1>7, ApplyOnce

LEMMA LeaveInvStep == MergeInv /\ LeaveInv /\ [Next]_vars => LeaveInv'
<1> SUFFICES ASSUME MergeInv, LeaveInv, [Next]_vars PROVE LeaveInv'
  OBVIOUS
<1>1. ChainsOK /\ Grows
  BY NextStep DEF MergeInv
<1>2. UNCHANGED records => LeaveInv'
  <2> SUFFICES ASSUME UNCHANGED records PROVE LeaveInv'
    OBVIOUS
  <2>1. ASSUME NEW h \in DOMAIN records', records'[h].leave # Nothing,
               NEW before \in onChain(records[h].prev)', records'[before].leave = records'[h].leave
        PROVE  FALSE
    <3>1. PICK p : p = records[h].prev
      OBVIOUS
    <3>2. h # GenesisHash
      BY <2>1 DEF LeaveInv
    <3>3. p \in DOMAIN records
      <4>1. h \in DOMAIN records
        BY <2>1
      <4> QED BY <1>1, <3>1, <3>2, <4>1, Seqnos DEF ChainsOK
    <3>4. before \in onChain(p)
      BY <1>1, <2>1, <3>1, <3>3, GrowsFrom
    <3> QED BY <2>1, <3>1, <3>4 DEF LeaveInv, LeaveOnce
  <2>2. LeaveOnce'
    BY <2>1 DEF LeaveOnce, Nothing
  <2> QED BY <2>2 DEF LeaveInv, GenesisHash, Nothing
<1>3. ASSUME NEW d \in Devices, AddSOParticipant(d) PROVE LeaveInv'
  <2>1. PICK p \in Peers :
          ApplyConfigChange(d, [config(head[d]) EXCEPT ![p] = "READER"], [grants[d] EXCEPT ![p] = d], Nothing)
    BY <1>3 DEF AddSOParticipant
  <2>2. [config(head[d]) EXCEPT ![p] = "READER"] \in [Peers -> Roles]
    BY FloorType DEF MergeInv, ChainsOK, Configs, Roles
  <2> QED BY <2>1, <2>2, ApplyOnce
<1>4. ASSUME NEW d \in Devices, RemoveSOParticipants(d) PROVE LeaveInv'
  <2>1. PICK p \in Peers :
          ApplyConfigChange(d, [config(head[d]) EXCEPT ![p] = "NONE"], pruneRemovedParticipants(d, p), Nothing)
    BY <1>4 DEF RemoveSOParticipants
  <2>2. [config(head[d]) EXCEPT ![p] = "NONE"] \in [Peers -> Roles]
    BY FloorType DEF MergeInv, ChainsOK, Configs, Roles
  <2> QED BY <2>1, <2>2, ApplyOnce
<1>5. ASSUME NEW d \in Devices, MergePeerBranch(d) PROVE LeaveInv'
  <2>1. PICK fork \in forks(d), merge \in newHashes(d, answer[d].target) :
          signing(answer[d].target, merge, nextConfig(d), fork, ours(d, fork), Nothing)
    BY <1>5 DEF MergePeerBranch
  <2>2. answer[d].target \in DOMAIN records
    BY <1>5 DEF MergePeerBranch, current, MergeInv, Answers, AnswerOK
  <2> QED BY <1>1, <2>1, <2>2, SigningOnce
<1>6. ASSUME NEW d \in Devices, NEW p \in Devices, acceptSharedObjectLeave(d, p) PROVE LeaveInv'
  BY <1>6, ServeOnce
<1>7. CASE UNCHANGED vars
  BY <1>2, <1>7 DEF vars, log
<1> QED BY <1>2, <1>3, <1>4, <1>5, <1>6, <1>7
        DEF Next, BuildSOLeaveRequest, SignCheckpoint, LeaveSharedObject, RequestHistory,
            ImportPeerConfig, ImportPeerSnapshot, DeclineResponse, log, exchange

\* No request removes its participant twice along a chain, however often it is
\* retried, and whether its participant was admitted anew
\* (leave.go LeaveSOParticipants, leaveProofsRemainCurrent).
THEOREM RequestServedOnce == Spec => []LeaveOnce
<1>1. Init => LeaveInv
  <2> SUFFICES ASSUME Init PROVE LeaveInv
    OBVIOUS
  <2>1. DOMAIN records = {GenesisHash} /\ records[GenesisHash].leave = Nothing
    BY DEF Init
  <2> QED BY <2>1 DEF LeaveInv, LeaveOnce
<1>2. MergeInv /\ LeaveInv /\ [Next]_vars => LeaveInv'
  BY LeaveInvStep
<1>3. LeaveInv => LeaveOnce
  BY DEF LeaveInv
<1> QED BY <1>1, <1>2, <1>3, Invariance, PTL DEF Spec

-----------------------------------------------------------------------------
(* Two owners that stay. What one of them signed is in line: each of its   *)
(* records accounts for those before. A merge is signed onto a record of   *)
(* the other, which wins, so a head that accounts for all that one of them *)
(* signed is absorbed by nobody but it. So two records account together    *)
(* for no more than one on both chains does, which is the fork where they  *)
(* merge; and of the changes newest on either side of it, one is newest at *)
(* the merge.                                                              *)

\* A log: what R says of each record, the records A that it accounts for, and the chain C
\* that leads to it.
IsLog(R, A, C) ==
  /\ GenesisHash \in DOMAIN R
  /\ A[GenesisHash] = {GenesisHash} /\ C[GenesisHash] = {GenesisHash}
  /\ \A h \in DOMAIN R :
       /\ h.seqno \in Nat
       /\ {GenesisHash, h} \subseteq C[h] /\ C[h] \subseteq A[h] /\ A[h] \subseteq DOMAIN R
       /\ \A k \in A[h] : A[k] \subseteq A[h] /\ (k # h => k.seqno < h.seqno)
       /\ \A k \in C[h] : C[k] = {l \in C[h] : l.seqno <= k.seqno}
  /\ \A h \in DOMAIN R \ {GenesisHash} :
       /\ R[h].prev \in DOMAIN R /\ h.seqno = R[h].prev.seqno + 1
       /\ C[h] = C[R[h].prev] \cup {h}
       /\ R[h].branch = <<>> => A[h] = A[R[h].prev] \cup {h}
       /\ R[h].branch # <<>> =>
            /\ Last(R[h].branch) \in DOMAIN R
            /\ A[h] = A[R[h].prev] \cup {h} \cup A[Last(R[h].branch)]

\* The owners O sign each record, each of them in line, and absorb a branch onto a record of
\* another that wins over its end.
TwoSign(R, A, O) ==
  /\ \A h \in DOMAIN R \ {GenesisHash} :
       /\ h.signer \in O /\ h.rank \in Nat
       /\ \A k \in DOMAIN R \ {GenesisHash} : h.signer = k.signer => h \in A[k] \/ k \in A[h]
       /\ R[h].branch # <<>> =>
            /\ R[h].prev # GenesisHash /\ R[h].prev.signer # h.signer
            /\ MergeWins(R[h].prev, Last(R[h].branch))

\* What two records both account for, one on both chains does.
Meet(R, A, C) ==
  \A h, k \in DOMAIN R : h \in A[k] \/ k \in A[h] \/ \E f \in C[h] \cap C[k] : A[h] \cap A[k] \subseteq A[f]

\* The record h sets another role of p than the record before it.
sets(R, h, p) == R[h].config[p] # R[R[h].prev].config[p]

\* The changes of p among the records hashes, and those that no other builds on.
changesIn(R, hashes, p) == {h \in hashes \ {GenesisHash} : R[h].branch = <<>> /\ sets(R, h, p)}
newest(R, A, h, p) ==
  {k \in changesIn(R, A[h], p) : \A later \in changesIn(R, A[h], p) : k \notin A[R[later].prev]}

\* The role of p at h is that of the newest change, one above g if the chain from g to h sets it.
Standing(R, A, C, h, p) ==
  /\ changesIn(R, A[h], p) # {} => \E k \in newest(R, A, h, p) : R[k].config[p] = R[h].config[p]
  /\ changesIn(R, A[h], p) = {} => R[h].config[p] = R[GenesisHash].config[p]
  /\ \A g \in C[h] : (\E k \in C[h] \ C[g] : sets(R, k, p)) =>
       \E k \in newest(R, A, h, p) \ A[g] : R[k].config[p] = R[h].config[p]

\* What each record accounts for, and the chain to it.
accounts == [h \in DOMAIN records |-> accounted(h)]
chains == [h \in DOMAIN records |-> onChain(h)]

Founders == {o \in Peers : isOwnerPeer(scenario.roles, o)}
TwoOwners == Founders \cap subjects = {} /\ Cardinality(Founders) <= 2

\* No record makes or removes an owner, and each device's head accounts for all it signed.
OwnersStay ==
  /\ records[GenesisHash].config = scenario.roles
  /\ \A h \in DOMAIN records, p \in Peers : isOwnerPeer(config(h), p) <=> p \in Founders
  /\ \A p \in Devices : request[p] # Nothing => request[p].peer = p /\ p \notin Founders
  /\ \A d \in Devices : \A h \in DOMAIN records \ {GenesisHash} :
       h.signer = d => h \in accounted(head[d])

\* A branch on its way has all above the first of its records.
WholeBranches ==
  \A d \in Devices : answer[d] # Nothing /\ isBranch(d) =>
    \A h \in {answer[d].cursor} \cup Range(answer[d].changes) :
      \A k \in onChain(answer[d].target) : k.seqno > h.seqno => k \in Range(answer[d].changes)

TwoInv ==
  /\ WholeBranches
  /\ TwoOwners =>
       /\ OwnersStay
       /\ TwoSign(records, accounts, Founders) /\ Meet(records, accounts, chains)
       /\ \A h \in DOMAIN records, p \in Peers : Standing(records, accounts, chains, h, p)

AtMostTwo(O) == \A a, b, c \in O : a = b \/ b = c \/ a = c

LEMMA LogFacts ==
  ASSUME NEW R, NEW A, NEW C, IsLog(R, A, C), NEW h \in DOMAIN R
  PROVE  /\ h.seqno \in Nat /\ h \in C[h] /\ h \in A[h] /\ GenesisHash \in C[h] /\ GenesisHash \in A[h]
         /\ C[h] \subseteq A[h] /\ A[h] \subseteq DOMAIN R /\ C[h] \subseteq DOMAIN R
         /\ \A k \in A[h] : A[k] \subseteq A[h] /\ k.seqno \in Nat /\ k.seqno <= h.seqno
                            /\ (k # h => k.seqno < h.seqno)
         /\ \A k \in C[h] : C[k] \subseteq C[h] /\ A[k] \subseteq A[h]
  BY DEF IsLog

\* Of two records on a chain one leads to the other.
LEMMA OnOneChain ==
  ASSUME NEW R, NEW A, NEW C, IsLog(R, A, C), NEW h \in DOMAIN R, NEW k \in C[h], NEW l \in C[h]
  PROVE  k \in C[l] \/ l \in C[k]
<1>1. k \in DOMAIN R /\ l \in DOMAIN R
  BY LogFacts
<1>2. k.seqno \in Nat /\ l.seqno \in Nat
  BY <1>1, LogFacts
<1>3. C[k] = {x \in C[h] : x.seqno <= k.seqno} /\ C[l] = {x \in C[h] : x.seqno <= l.seqno}
  BY DEF IsLog
<1> QED BY <1>2, <1>3

\* A record and the one before it.
LEMMA LogUnfolds ==
  ASSUME NEW R, NEW A, NEW C, IsLog(R, A, C), NEW h \in DOMAIN R \ {GenesisHash}
  PROVE  /\ R[h].prev \in DOMAIN R /\ R[h].prev \in A[h] /\ R[h].prev \in C[h] /\ h \notin A[R[h].prev]
         /\ C[h] = C[R[h].prev] \cup {h} /\ A[R[h].prev] \subseteq A[h]
         /\ R[h].branch = <<>> => A[h] = A[R[h].prev] \cup {h}
<1>1. R[h].prev \in DOMAIN R /\ h.seqno = R[h].prev.seqno + 1 /\ C[h] = C[R[h].prev] \cup {h}
      /\ (R[h].branch = <<>> => A[h] = A[R[h].prev] \cup {h})
  BY DEF IsLog
<1>2. R[h].prev \in C[R[h].prev] /\ R[h].prev.seqno \in Nat
  BY <1>1, LogFacts
<1>3. R[h].prev \in C[h] /\ R[h].prev \in A[h] /\ A[R[h].prev] \subseteq A[h]
  BY <1>1, <1>2, LogFacts
<1>4. h \notin A[R[h].prev]
  <2> SUFFICES ASSUME h \in A[R[h].prev] PROVE FALSE
    OBVIOUS
  <2>1. h.seqno <= R[h].prev.seqno
    BY <1>1, LogFacts
  <2> QED BY <1>1, <1>2, <2>1
<1> QED BY <1>1, <1>3, <1>4

\* A merge, the winning head, and the end of the branch it absorbs.
LEMMA MergeUnfolds ==
  ASSUME NEW R, NEW A, NEW C, IsLog(R, A, C), NEW O, TwoSign(R, A, O),
         NEW m \in DOMAIN R \ {GenesisHash}, R[m].branch # <<>>,
         NEW t, t = R[m].prev, NEW e, e = Last(R[m].branch)
  PROVE  /\ t \in DOMAIN R \ {GenesisHash} /\ e \in DOMAIN R
         /\ A[m] = A[t] \cup {m} \cup A[e]
         /\ t.signer # m.signer /\ t.signer \in O /\ m.signer \in O
         /\ MergeWins(t, e) /\ t \notin A[e]
         /\ m \notin A[t] /\ m \notin A[e] /\ e.seqno < m.seqno
<1>1. /\ t \in DOMAIN R /\ e \in DOMAIN R /\ m.seqno = t.seqno + 1
      /\ A[m] = A[t] \cup {m} \cup A[e]
  BY DEF IsLog
<1>2. t # GenesisHash /\ t.signer # m.signer /\ m.signer \in O /\ MergeWins(t, e)
  BY DEF TwoSign
<1>3. t.signer \in O /\ t.rank \in Nat
  BY <1>1, <1>2 DEF TwoSign
<1>4. t.seqno \in Nat /\ e.seqno \in Nat
  BY <1>1, LogFacts
<1>5. e.seqno <= t.seqno
  BY <1>2, <1>4 DEF MergeWins
<1>6. t \notin A[e]
  <2> SUFFICES ASSUME t \in A[e] PROVE FALSE
    OBVIOUS
  <2>1. t # e => t.seqno < e.seqno
    BY <1>1, LogFacts
  <2>2. t = e
    BY <1>4, <1>5, <2>1
  <2> QED BY <1>2, <1>3, <1>4, <2>2 DEF MergeWins
<1>7. m \notin A[e]
  <2> SUFFICES ASSUME m \in A[e] PROVE FALSE
    OBVIOUS
  <2>1. m.seqno <= e.seqno
    BY <1>1, LogFacts
  <2> QED BY <1>1, <1>4, <1>5, <2>1
<1>8. m \notin A[t]
  BY LogUnfolds
<1> QED BY <1>1, <1>2, <1>3, <1>4, <1>5, <1>6, <1>7, <1>8

\* What a record accounts for off its chain, a merge on the chain absorbed.
LEMMA AbsorbedOnChain ==
  ASSUME NEW R, NEW A, NEW C, IsLog(R, A, C), NEW k \in DOMAIN R, NEW x \in A[k], x \notin C[k]
  PROVE  \E m \in C[k] \ {GenesisHash} :
           R[m].branch # <<>> /\ x \in A[Last(R[m].branch)] /\ x \notin A[R[m].prev]
<1> DEFINE ranks == {m.seqno : m \in {l \in C[k] : x \in A[l]}}
<1>1. ranks \in SUBSET Nat /\ ranks # {}
  BY LogFacts
<1>2. PICK n \in ranks : \A i \in ranks : n <= i
  <2> HIDE DEF ranks
  <2> QED BY <1>1, LeastNumber
<1>3. PICK m \in C[k] : x \in A[m] /\ m.seqno = n
  BY <1>2
<1>4. m \in DOMAIN R /\ C[m] \subseteq C[k] /\ m # x /\ m.seqno \in Nat
  BY <1>3, LogFacts
<1>5. m # GenesisHash
  BY <1>3, <1>4 DEF IsLog
<1>6. /\ R[m].prev \in DOMAIN R /\ R[m].prev \in C[k] /\ m.seqno = R[m].prev.seqno + 1
      /\ R[m].prev.seqno \in Nat
  <2>1. R[m].prev \in DOMAIN R /\ R[m].prev \in C[m] /\ m.seqno = R[m].prev.seqno + 1
    BY <1>4, <1>5, LogUnfolds DEF IsLog
  <2> QED BY <1>4, <2>1, LogFacts
<1>7. x \notin A[R[m].prev]
  <2> SUFFICES ASSUME x \in A[R[m].prev] PROVE FALSE
    OBVIOUS
  <2>1. R[m].prev.seqno \in ranks
    BY <1>6
  <2> HIDE DEF ranks
  <2> QED BY <1>2, <1>3, <1>6, <2>1
<1>8. R[m].branch # <<>> /\ A[m] = A[R[m].prev] \cup {m} \cup A[Last(R[m].branch)]
  BY <1>3, <1>4, <1>5, <1>7 DEF IsLog
<1> QED BY <1>3, <1>4, <1>5, <1>7, <1>8

\* A record that accounts for all that one of the owners signed is on the chain of those
\* that account for it: nobody absorbs it.
LEMMA StaysOnChain ==
  ASSUME NEW R, NEW A, NEW C, IsLog(R, A, C), NEW O, AtMostTwo(O), TwoSign(R, A, O),
         NEW d \in O, NEW x \in DOMAIN R, \A h \in DOMAIN R \ {GenesisHash} : h.signer = d => h \in A[x],
         NEW k \in DOMAIN R, x \in A[k]
  PROVE  x \in C[k]
<1> SUFFICES ASSUME x \notin C[k] PROVE FALSE
  OBVIOUS
<1>1. PICK m \in C[k] \ {GenesisHash} :
        R[m].branch # <<>> /\ x \in A[Last(R[m].branch)] /\ x \notin A[R[m].prev]
  BY AbsorbedOnChain
<1>2. m \in DOMAIN R \ {GenesisHash}
  BY <1>1, LogFacts
<1>3. PICK t, e : t = R[m].prev /\ e = Last(R[m].branch)
  OBVIOUS
<1>4. /\ t \in DOMAIN R \ {GenesisHash} /\ e \in DOMAIN R
      /\ t.signer # m.signer /\ t.signer \in O /\ m.signer \in O /\ t \notin A[e]
      /\ e.seqno < m.seqno
  BY <1>1, <1>2, <1>3, MergeUnfolds
<1>5. A[x] \subseteq A[e] /\ x.seqno <= e.seqno /\ x.seqno \in Nat /\ e.seqno \in Nat
  BY <1>1, <1>3, <1>4, LogFacts
<1>6. t.signer # d
  BY <1>4, <1>5
<1>7. m.signer # d
  <2> SUFFICES ASSUME m.signer = d PROVE FALSE
    OBVIOUS
  <2>1. m \in A[x]
    BY <1>2
  <2>2. m.seqno <= x.seqno /\ m.seqno \in Nat
    BY <2>1, LogFacts
  <2> QED BY <1>4, <1>5, <2>2
<1> QED BY <1>4, <1>6, <1>7 DEF AtMostTwo

-----------------------------------------------------------------------------
(* Owner d signs m.                                                        *)

\* S, B and D are the log R, A and C with the record m.
Adds(R, A, C, S, B, D, m) ==
  /\ m \notin DOMAIN R /\ DOMAIN S = DOMAIN R \cup {m}
  /\ \A h \in DOMAIN R : S[h] = R[h] /\ B[h] = A[h] /\ D[h] = C[h]

\* m changes the config at h, the head of d.
Changes(S, m, h) == S[m].branch = <<>> /\ S[m].prev = h

\* m absorbs h, the head of d, above the fork f, onto t, which wins.
Absorbs(S, C, m, h, t, f) ==
  /\ S[m].branch # <<>> /\ S[m].prev = t /\ Last(S[m].branch) = h
  /\ t \notin C[h] /\ h \notin C[t] /\ MergeWins(t, h)
  /\ f \in C[h] \cap C[t] /\ \A l \in C[h] \cap C[t] : l \in C[f]

\* The head of d, which accounts for all it signed.
AllOf(R, A, d, h) == h \in DOMAIN R /\ \A k \in DOMAIN R \ {GenesisHash} : k.signer = d => k \in A[h]

\* What d absorbs its branch onto, the other owner signed.
LEMMA OtherWins ==
  ASSUME NEW R, NEW A, NEW C, IsLog(R, A, C), NEW O, AtMostTwo(O), TwoSign(R, A, O),
         NEW d \in O, NEW h, AllOf(R, A, d, h), NEW t \in DOMAIN R, t \notin C[h], h \notin C[t],
         MergeWins(t, h), \A k \in DOMAIN R \ {GenesisHash} : k.rank \in Nat
  PROVE  /\ t # GenesisHash /\ t.signer \in O /\ t.signer # d /\ t \notin A[h] /\ h \notin A[t]
<1>1. h \in DOMAIN R /\ h.seqno \in Nat /\ t.seqno \in Nat
  BY LogFacts DEF AllOf
<1>2. h \notin A[t]
  BY <1>1, StaysOnChain DEF AllOf
<1>3. t \notin A[h]
  <2> SUFFICES ASSUME t \in A[h] PROVE FALSE
    OBVIOUS
  <2>1. t # h
    BY <1>1, LogFacts
  <2>2. t.seqno < h.seqno
    BY <1>1, <2>1, LogFacts
  <2> QED BY <1>1, <2>2 DEF MergeWins
<1>4. t # GenesisHash
  BY <1>1, <1>3, LogFacts
<1>5. t.signer \in O /\ t.signer # d
  BY <1>3, <1>4 DEF TwoSign, AllOf
<1> QED BY <1>2, <1>3, <1>4, <1>5

LEMMA TwoSignKept ==
  ASSUME NEW R, NEW A, NEW C, IsLog(R, A, C), NEW O, AtMostTwo(O), TwoSign(R, A, O),
         NEW S, NEW B, NEW D, IsLog(S, B, D), NEW m, Adds(R, A, C, S, B, D, m), m # GenesisHash,
         NEW d \in O, m.signer = d, m.rank \in Nat, NEW h, AllOf(R, A, d, h),
         NEW t, NEW f, Changes(S, m, h) \/ (t \in DOMAIN R /\ Absorbs(S, C, m, h, t, f))
  PROVE  TwoSign(S, B, O)
<1>1. h \in DOMAIN R /\ m \in DOMAIN S \ {GenesisHash}
  BY DEF AllOf, Adds
<1>2. A[h] \subseteq B[m]
  <2>1. CASE Changes(S, m, h)
    <3>1. B[h] \subseteq B[m]
      BY <1>1, <2>1, LogUnfolds DEF Changes
    <3> QED BY <1>1, <3>1 DEF Adds
  <2>2. CASE t \in DOMAIN R /\ Absorbs(S, C, m, h, t, f)
    <3>1. B[m] = B[S[m].prev] \cup {m} \cup B[Last(S[m].branch)]
      BY <1>1, <2>2 DEF IsLog, Absorbs
    <3>2. B[h] \subseteq B[m]
      BY <2>2, <3>1 DEF Absorbs
    <3> QED BY <1>1, <3>2 DEF Adds
  <2> QED BY <2>1, <2>2
<1>3. ASSUME NEW k \in DOMAIN S \ {GenesisHash}, NEW l \in DOMAIN S \ {GenesisHash}, k.signer = l.signer
      PROVE  k \in B[l] \/ l \in B[k]
  <2>1. CASE k = m
    <3>1. l = m => l \in B[k]
      BY <1>1, <2>1, LogFacts
    <3>2. l # m => l \in DOMAIN R \ {GenesisHash} /\ l.signer = d
      BY <1>3, <2>1 DEF Adds
    <3> QED BY <1>2, <2>1, <3>1, <3>2 DEF AllOf
  <2>2. CASE k # m /\ l = m
    <3>1. k \in DOMAIN R \ {GenesisHash} /\ k.signer = d
      BY <1>3, <2>2 DEF Adds
    <3> QED BY <1>2, <2>2, <3>1 DEF AllOf
  <2>3. CASE k # m /\ l # m
    BY <1>3, <2>3 DEF Adds, TwoSign
  <2> QED BY <2>1, <2>2, <2>3
<1>4. ASSUME NEW k \in DOMAIN S \ {GenesisHash}
      PROVE  /\ k.signer \in O /\ k.rank \in Nat
             /\ S[k].branch # <<>> =>
                  /\ S[k].prev # GenesisHash /\ S[k].prev.signer # k.signer
                  /\ MergeWins(S[k].prev, Last(S[k].branch))
  <2>1. CASE k = m
    <3>1. CASE Changes(S, m, h)
      BY <2>1, <3>1 DEF Changes
    <3>2. CASE t \in DOMAIN R /\ Absorbs(S, C, m, h, t, f)
      <4>1. t # GenesisHash /\ t.signer # d
        BY <3>2, OtherWins DEF Absorbs, TwoSign
      <4> QED BY <2>1, <3>2, <4>1 DEF Absorbs
    <3> QED BY <3>1, <3>2
  <2>2. CASE k # m
    <3>1. k \in DOMAIN R \ {GenesisHash} /\ S[k] = R[k]
      BY <2>2 DEF Adds
    <3> QED BY <3>1 DEF TwoSign
  <2> QED BY <2>1, <2>2
<1> QED BY <1>3, <1>4 DEF TwoSign

\* The record m and an older one both account for just what one on both chains does.
LEMMA MeetNew ==
  ASSUME NEW R, NEW A, NEW C, IsLog(R, A, C), NEW O, AtMostTwo(O), TwoSign(R, A, O), Meet(R, A, C),
         NEW S, NEW B, NEW D, IsLog(S, B, D), NEW m, Adds(R, A, C, S, B, D, m), m # GenesisHash,
         NEW d \in O, m.signer = d, NEW h, AllOf(R, A, d, h),
         NEW t, NEW f, Changes(S, m, h) \/ (t \in DOMAIN R /\ Absorbs(S, C, m, h, t, f)),
         NEW k \in DOMAIN R, k \notin B[m]
  PROVE  \E l \in D[m] \cap C[k] : B[m] \cap A[k] \subseteq A[l]
<1>1. h \in DOMAIN R /\ m \in DOMAIN S \ {GenesisHash} /\ m \notin A[k] /\ A[k] \subseteq DOMAIN R
  <2>1. A[k] \subseteq DOMAIN R
    BY LogFacts
  <2> QED BY <2>1 DEF AllOf, Adds
<1>2. h \in A[k] => h \in C[k]
  BY <1>1, StaysOnChain DEF AllOf
<1>3. CASE Changes(S, m, h)
  <2>1. B[m] = A[h] \cup {m} /\ D[m] = C[h] \cup {m}
    <3>1. B[m] = B[h] \cup {m} /\ D[m] = D[h] \cup {m}
      BY <1>1, <1>3, LogUnfolds DEF Changes
    <3> QED BY <1>1, <3>1 DEF Adds
  <2>2. CASE h \in A[k]
    <3>1. h \in C[h]
      BY <1>1, LogFacts
    <3> QED BY <1>1, <1>2, <2>1, <2>2, <3>1
  <2>3. CASE h \notin A[k]
    <3>1. PICK l \in C[h] \cap C[k] : A[h] \cap A[k] \subseteq A[l]
      BY <1>1, <2>1, <2>3 DEF Meet
    <3> QED BY <1>1, <2>1, <3>1
  <2> QED BY <2>2, <2>3
<1>4. CASE t \in DOMAIN R /\ Absorbs(S, C, m, h, t, f)
  <2>1. B[m] = A[h] \cup {m} \cup A[t] /\ D[m] = C[t] \cup {m}
    <3>1. B[m] = B[t] \cup {m} \cup B[h] /\ D[m] = D[t] \cup {m}
      BY <1>1, <1>4 DEF IsLog, Absorbs
    <3> QED BY <1>1, <1>4, <3>1 DEF Adds
  <2>2. t # GenesisHash /\ t.signer \in O /\ t.signer # d /\ t \notin A[h] /\ h \notin A[t]
        /\ MergeWins(t, h) /\ t \notin C[h] /\ h \notin C[t]
    BY <1>4, OtherWins DEF Absorbs, TwoSign
  <2>3. k # GenesisHash /\ k \notin A[h] /\ k \notin A[t]
    BY <1>1, <2>1, LogFacts
  <2>4. t \in A[k]
    <3>1. k.signer # d /\ k.signer \in O
      BY <2>3 DEF AllOf, TwoSign
    <3>2. k.signer = t.signer
      BY <2>2, <3>1 DEF AtMostTwo
    <3> QED BY <1>4, <2>2, <2>3, <3>2 DEF TwoSign
  <2>5. t \in C[k]
    <3> SUFFICES ASSUME t \notin C[k] PROVE FALSE
      OBVIOUS
    <3>1. PICK n \in C[k] \ {GenesisHash} :
            R[n].branch # <<>> /\ t \in A[Last(R[n].branch)] /\ t \notin A[R[n].prev]
      BY <2>4, AbsorbedOnChain
    <3>2. n \in DOMAIN R \ {GenesisHash}
      BY <3>1, LogFacts
    <3>3. PICK u, e : u = R[n].prev /\ e = Last(R[n].branch)
      OBVIOUS
    <3>4. /\ u \in DOMAIN R \ {GenesisHash} /\ e \in DOMAIN R /\ A[n] = A[u] \cup {n} \cup A[e]
          /\ u.signer # n.signer /\ u.signer \in O /\ n.signer \in O /\ MergeWins(u, e)
      BY <3>1, <3>2, <3>3, MergeUnfolds
    <3>5. n.signer # d
      <4> SUFFICES ASSUME n.signer = d PROVE FALSE
        OBVIOUS
      <4>1. n \in A[h]
        BY <3>2 DEF AllOf
      <4>2. A[n] \subseteq A[h]
        BY <1>1, <4>1, LogFacts
      <4> QED BY <2>2, <3>1, <3>3, <3>4, <4>2
    <3>6. u \in A[h]
      <4>1. u.signer = d
        BY <2>2, <3>4, <3>5 DEF AtMostTwo
      <4> QED BY <3>4, <4>1 DEF AllOf
    <3>7. /\ u.seqno \in Nat /\ h.seqno \in Nat /\ u.seqno <= h.seqno /\ (u # h => u.seqno < h.seqno)
          /\ t.seqno \in Nat /\ e.seqno \in Nat /\ t.seqno <= e.seqno /\ (t # e => t.seqno < e.seqno)
      BY <1>1, <1>4, <3>1, <3>3, <3>4, <3>6, LogFacts
    <3>8. t.rank \in Nat /\ u.rank \in Nat
      BY <1>4, <2>2, <3>4 DEF TwoSign
    <3>9. u.seqno >= e.seqno /\ t.seqno >= h.seqno
      BY <2>2, <3>4, <3>7 DEF MergeWins
    <3>10. u = h /\ t = e /\ u.seqno = t.seqno
      BY <3>7, <3>9
    <3> QED BY <2>2, <3>4, <3>7, <3>8, <3>10 DEF MergeWins
  <2>6. h \notin A[k]
    <3> SUFFICES ASSUME h \in A[k] PROVE FALSE
      OBVIOUS
    <3> QED BY <1>2, <2>2, <2>5, OnOneChain
  <2>7. PICK l \in C[h] \cap C[k] : A[h] \cap A[k] \subseteq A[l]
    BY <1>1, <2>3, <2>6 DEF Meet
  <2>8. A[l] \subseteq A[t]
    <3>1. l \in C[t] \/ t \in C[l]
      BY <2>5, <2>7, OnOneChain
    <3>2. t \notin C[l]
      <4>1. C[l] \subseteq C[h]
        BY <1>1, <2>7, LogFacts
      <4> QED BY <2>2, <4>1
    <3> QED BY <1>4, <3>1, <3>2, LogFacts
  <2>9. t \in C[t]
    BY <1>4, LogFacts
  <2> QED BY <1>1, <2>1, <2>5, <2>7, <2>8, <2>9
<1> QED BY <1>3, <1>4

LEMMA MeetKept ==
  ASSUME NEW R, NEW A, NEW C, IsLog(R, A, C), NEW O, AtMostTwo(O), TwoSign(R, A, O), Meet(R, A, C),
         NEW S, NEW B, NEW D, IsLog(S, B, D), NEW m, Adds(R, A, C, S, B, D, m), m # GenesisHash,
         NEW d \in O, m.signer = d, NEW h, AllOf(R, A, d, h),
         NEW t, NEW f, Changes(S, m, h) \/ (t \in DOMAIN R /\ Absorbs(S, C, m, h, t, f))
  PROVE  Meet(S, B, D)
<1> SUFFICES ASSUME NEW k \in DOMAIN S, NEW l \in DOMAIN S, k \notin B[l], l \notin B[k]
             PROVE  \E g \in D[k] \cap D[l] : B[k] \cap B[l] \subseteq B[g]
  BY DEF Meet
<1>0. m \in B[m]
  BY LogFacts DEF Adds
<1>1. CASE k = m
  <2>1. l \in DOMAIN R
    BY <1>0, <1>1 DEF Adds
  <2>2. PICK g \in D[m] \cap C[l] : B[m] \cap A[l] \subseteq A[g]
    BY <1>1, <2>1, MeetNew
  <2>3. g \in DOMAIN R
    BY <2>1, <2>2, LogFacts
  <2> QED BY <1>1, <2>1, <2>2, <2>3 DEF Adds
<1>2. CASE l = m
  <2>1. k \in DOMAIN R
    BY <1>0, <1>2 DEF Adds
  <2>2. PICK g \in D[m] \cap C[k] : B[m] \cap A[k] \subseteq A[g]
    BY <1>2, <2>1, MeetNew
  <2>3. g \in DOMAIN R
    BY <2>1, <2>2, LogFacts
  <2> QED BY <1>2, <2>1, <2>2, <2>3 DEF Adds
<1>3. CASE k # m /\ l # m
  <2>1. k \in DOMAIN R /\ l \in DOMAIN R /\ B[k] = A[k] /\ B[l] = A[l] /\ D[k] = C[k] /\ D[l] = C[l]
    BY <1>3 DEF Adds
  <2>2. PICK g \in C[k] \cap C[l] : A[k] \cap A[l] \subseteq A[g]
    BY <2>1 DEF Meet
  <2>3. g \in DOMAIN R
    BY <2>1, <2>2, LogFacts
  <2> QED BY <2>1, <2>2, <2>3 DEF Adds
<1> QED BY <1>1, <1>2, <1>3

-----------------------------------------------------------------------------
(* Which change stands.                                                    *)

\* Where the chain from g to h does not set the role of p, it is the same at both.
LEMMA RoleStays ==
  ASSUME NEW R, NEW A, NEW C, IsLog(R, A, C), NEW p, NEW g,
         NEW h \in DOMAIN R, g \in C[h], \A k \in C[h] \ C[g] : ~sets(R, k, p)
  PROVE  R[h].config[p] = R[g].config[p]
<1> DEFINE S == DOMAIN R
           rank == [x \in S |-> x.seqno]
           T == {x \in S : g \in C[x] /\ (\A k \in C[x] \ C[g] : ~sets(R, k, p)) =>
                              R[x].config[p] = R[g].config[p]}
<1>1. rank \in [S -> Nat]
  BY LogFacts
<1>2. ASSUME NEW x \in S, \A y \in S : rank[y] < rank[x] => y \in T
      PROVE  x \in T
  <2> SUFFICES ASSUME g \in C[x], \A k \in C[x] \ C[g] : ~sets(R, k, p), x # g
               PROVE  R[x].config[p] = R[g].config[p]
    OBVIOUS
  <2>1. x # GenesisHash
    BY DEF IsLog
  <2> DEFINE y == R[x].prev
  <2>2. y \in S /\ C[x] = C[y] \cup {x} /\ x.seqno = y.seqno + 1 /\ y.seqno \in Nat
    <3>1. y \in S /\ C[x] = C[y] \cup {x} /\ x.seqno = y.seqno + 1
      BY <2>1 DEF IsLog
    <3> QED BY <3>1, LogFacts
  <2>3. y \in T
    BY <1>2, <2>2
  <2>4. x \notin C[g]
    <3>1. g.seqno < x.seqno /\ g \in S
      BY LogFacts
    <3>2. x \in C[g] => x.seqno <= g.seqno
      BY <3>1, LogFacts
    <3> QED BY <3>1, <3>2, LogFacts
  <2>5. R[x].config[p] = R[y].config[p]
    <3>1. x \in C[x]
      BY LogFacts
    <3> QED BY <2>4, <3>1 DEF sets
  <2>6. R[y].config[p] = R[g].config[p]
    BY <2>2, <2>3
  <2> QED BY <2>5, <2>6
<1> HIDE DEF T, rank
<1>3. S \subseteq T
  BY <1>1, <1>2, RankInduction
<1> QED BY <1>3 DEF T

LEMMA NewestIs ==
  ASSUME NEW R, NEW A, NEW h, NEW p, NEW k
  PROVE  k \in newest(R, A, h, p) <=>
           /\ k \in changesIn(R, A[h], p)
           /\ \A later \in changesIn(R, A[h], p) : k \notin A[R[later].prev]
  BY DEF newest

\* A change is a record that another follows directly or not at all.
LEMMA ChangeFacts ==
  ASSUME NEW R, NEW A, NEW C, IsLog(R, A, C), NEW h \in DOMAIN R, NEW p, NEW k \in changesIn(R, A[h], p)
  PROVE  /\ k \in DOMAIN R \ {GenesisHash} /\ k \in A[h] /\ A[k] \subseteq A[h]
         /\ R[k].prev \in DOMAIN R /\ A[k] = A[R[k].prev] \cup {k} /\ k \notin A[R[k].prev]
<1>1. k \in A[h] /\ k # GenesisHash /\ R[k].branch = <<>>
  BY DEF changesIn
<1>2. k \in DOMAIN R \ {GenesisHash} /\ A[k] \subseteq A[h]
  BY <1>1, LogFacts
<1> QED BY <1>1, <1>2, LogUnfolds

\* Changes stay what they are when a record is signed.
LEMMA ChangesStay ==
  ASSUME NEW R, NEW A, NEW C, IsLog(R, A, C), NEW S, NEW B, NEW D, NEW m, Adds(R, A, C, S, B, D, m),
         NEW p, NEW Z \in SUBSET DOMAIN R
  PROVE  /\ changesIn(S, Z, p) = changesIn(R, Z, p)
         /\ \A k \in Z \ {GenesisHash} : sets(S, k, p) = sets(R, k, p) /\ S[k].prev = R[k].prev /\ R[k].prev \in DOMAIN R
<1>1. ASSUME NEW k \in Z \ {GenesisHash}
      PROVE  /\ S[k] = R[k] /\ S[k].prev = R[k].prev /\ R[k].prev \in DOMAIN R /\ sets(S, k, p) = sets(R, k, p)
  <2>1. k \in DOMAIN R /\ S[k] = R[k] /\ R[k].prev \in DOMAIN R
    BY DEF Adds, IsLog
  <2>2. S[R[k].prev] = R[R[k].prev]
    BY <2>1 DEF Adds
  <2> QED BY <2>1, <2>2 DEF sets
<1> QED BY <1>1 DEF changesIn

\* Where m accounts for what h does, so do the changes, and the newest.
LEMMA OlderStanding ==
  ASSUME NEW R, NEW A, NEW C, IsLog(R, A, C), NEW S, NEW B, NEW D, NEW m, Adds(R, A, C, S, B, D, m),
         NEW p, NEW h \in DOMAIN R, Standing(R, A, C, h, p)
  PROVE  Standing(S, B, D, h, p)
<1>1. S[h] = R[h] /\ B[h] = A[h] /\ D[h] = C[h] /\ A[h] \subseteq DOMAIN R /\ C[h] \subseteq A[h]
      /\ S[GenesisHash] = R[GenesisHash]
  BY LogFacts DEF Adds, IsLog
<1>2. changesIn(S, B[h], p) = changesIn(R, A[h], p)
  BY <1>1, ChangesStay
<1>3. \A k \in changesIn(R, A[h], p) : S[k] = R[k] /\ S[k].prev = R[k].prev /\ B[S[k].prev] = A[R[k].prev]
  <2> TAKE k \in changesIn(R, A[h], p)
  <2>1. k \in DOMAIN R /\ R[k].prev \in DOMAIN R
    BY ChangeFacts
  <2> QED BY <2>1 DEF Adds
<1>4. newest(S, B, h, p) = newest(R, A, h, p) /\ newest(R, A, h, p) \subseteq changesIn(R, A[h], p)
  BY <1>2, <1>3 DEF newest
<1>5. ASSUME NEW g \in D[h], NEW k \in D[h] \ D[g], sets(S, k, p)
      PROVE  \E l \in newest(S, B, h, p) \ B[g] : S[l].config[p] = S[h].config[p]
  <2>1. g \in C[h] /\ g \in DOMAIN R /\ D[g] = C[g] /\ B[g] = A[g]
    BY <1>1, <1>5 DEF Adds
  <2>2. k \in C[h] \ C[g] /\ k # GenesisHash /\ k \in A[h]
    BY <1>1, <1>5, <2>1, LogFacts
  <2>3. sets(R, k, p)
    BY <1>1, <1>5, <2>2, ChangesStay
  <2>4. PICK l \in newest(R, A, h, p) \ A[g] : R[l].config[p] = R[h].config[p]
    BY <2>1, <2>2, <2>3 DEF Standing
  <2> QED BY <1>1, <1>3, <1>4, <2>1, <2>4
<1>6. changesIn(S, B[h], p) # {} => \E k \in newest(S, B, h, p) : S[k].config[p] = S[h].config[p]
  BY <1>1, <1>2, <1>3, <1>4 DEF Standing
<1>7. changesIn(S, B[h], p) = {} => S[h].config[p] = S[GenesisHash].config[p]
  BY <1>1, <1>2 DEF Standing
<1> QED BY <1>5, <1>6, <1>7 DEF Standing

\* A change of d stands where it sets the role, and else what stood.
LEMMA ChangeStands ==
  ASSUME NEW R, NEW A, NEW C, IsLog(R, A, C), NEW S, NEW B, NEW D, IsLog(S, B, D),
         NEW m, Adds(R, A, C, S, B, D, m), m # GenesisHash,
         NEW h \in DOMAIN R, Changes(S, m, h), NEW p, Standing(R, A, C, h, p)
  PROVE  Standing(S, B, D, m, p)
<1>1. m \in DOMAIN S \ {GenesisHash} /\ S[m].branch = <<>> /\ S[m].prev = h
      /\ S[h] = R[h] /\ B[h] = A[h] /\ D[h] = C[h] /\ S[GenesisHash] = R[GenesisHash]
  BY DEF Adds, Changes, IsLog
<1>2. B[m] = A[h] \cup {m} /\ D[m] = C[h] \cup {m} /\ m \notin A[h] /\ A[h] \subseteq DOMAIN R
  BY <1>1, LogUnfolds, LogFacts
<1>3. Standing(S, B, D, h, p)
  BY OlderStanding
<1>4. CASE sets(S, m, p)
  <2>1. m \in changesIn(S, B[m], p)
    BY <1>1, <1>2, <1>4 DEF changesIn
  <2>2. ASSUME NEW later \in changesIn(S, B[m], p) PROVE m \notin B[S[later].prev]
    <3>1. CASE later = m
      BY <1>1, <1>2, <3>1
    <3>2. CASE later # m
      <4>1. later \in DOMAIN R \ {GenesisHash}
        BY <1>2, <3>2 DEF changesIn
      <4>2. S[later].prev \in DOMAIN R /\ B[S[later].prev] = A[S[later].prev]
        BY <4>1 DEF Adds, IsLog
      <4>3. A[S[later].prev] \subseteq DOMAIN R
        BY <4>2, LogFacts
      <4> QED BY <4>2, <4>3 DEF Adds
    <3> QED BY <3>1, <3>2
  <2>3. m \in newest(S, B, m, p)
    BY <2>1, <2>2 DEF newest
  <2>4. ASSUME NEW g \in D[m], NEW k \in D[m] \ D[g] PROVE m \notin B[g]
    <3>1. CASE g = m
      BY <2>4, <3>1
    <3>2. CASE g # m
      <4>1. g \in DOMAIN R /\ B[g] = A[g]
        BY <1>2, <3>2, LogFacts DEF Adds
      <4> QED BY <4>1, LogFacts DEF Adds
    <3> QED BY <3>1, <3>2
  <2> QED BY <2>1, <2>3, <2>4 DEF Standing
<1>5. CASE ~sets(S, m, p)
  <2>1. changesIn(S, B[m], p) = changesIn(S, B[h], p) /\ S[m].config[p] = S[h].config[p]
    BY <1>1, <1>2, <1>5 DEF changesIn, sets
  <2>2. newest(S, B, m, p) = newest(S, B, h, p)
    BY <2>1 DEF newest
  <2>3. ASSUME NEW g \in D[m], NEW k \in D[m] \ D[g], sets(S, k, p)
        PROVE  \E l \in newest(S, B, m, p) \ B[g] : S[l].config[p] = S[m].config[p]
    <3>1. k # m /\ k \in D[h]
      BY <1>1, <1>2, <1>5, <2>3
    <3>2. g # m
      BY <2>3
    <3>3. g \in D[h]
      BY <1>1, <1>2, <3>2
    <3>4. \E l \in newest(S, B, h, p) \ B[g] : S[l].config[p] = S[h].config[p]
      BY <1>3, <2>3, <3>1, <3>3 DEF Standing
    <3> QED BY <2>1, <2>2, <3>4
  <2> QED BY <1>3, <2>1, <2>2, <2>3 DEF Standing
<1> QED BY <1>4, <1>5

\* A merge gives p the role that the absorbed branch set, and else the one at the winning head.
TakesRole(R, S, C, m, h, t, f, p) ==
  S[m].config[p] = IF \E b \in C[h] \ C[f] : sets(R, b, p) THEN R[h].config[p] ELSE R[t].config[p]

\* What two heads that d merges account for both, their fork does.
LEMMA ForkMeets ==
  ASSUME NEW R, NEW A, NEW C, IsLog(R, A, C), NEW O, AtMostTwo(O), TwoSign(R, A, O), Meet(R, A, C),
         NEW S, NEW m, NEW d \in O, NEW h, AllOf(R, A, d, h),
         NEW t \in DOMAIN R, NEW f, Absorbs(S, C, m, h, t, f)
  PROVE  /\ f \in DOMAIN R /\ A[h] \cap A[t] = A[f] /\ h \in DOMAIN R
         /\ t # GenesisHash /\ t.signer \in O /\ t.signer # d /\ t \notin A[h] /\ h \notin A[t]
<1>1. t # GenesisHash /\ t.signer \in O /\ t.signer # d /\ t \notin A[h] /\ h \notin A[t]
  BY OtherWins DEF Absorbs, TwoSign
<1>2. h \in DOMAIN R /\ f \in C[h] /\ f \in C[t] /\ \A l \in C[h] \cap C[t] : l \in C[f]
  BY DEF AllOf, Absorbs
<1>3. f \in DOMAIN R /\ A[f] \subseteq A[h] /\ A[f] \subseteq A[t]
  BY <1>2, LogFacts
<1>4. PICK l \in C[h] \cap C[t] : A[h] \cap A[t] \subseteq A[l]
  BY <1>1, <1>2 DEF Meet
<1>5. A[l] \subseteq A[f]
  BY <1>2, <1>3, <1>4, LogFacts
<1> QED BY <1>1, <1>2, <1>3, <1>4, <1>5

\* What is newest at one head, and unknown to the other, is newest at the merge.
LEMMA OneSide ==
  ASSUME NEW R, NEW A, NEW C, IsLog(R, A, C), NEW p, NEW h \in DOMAIN R, NEW t \in DOMAIN R,
         NEW k \in newest(R, A, h, p), k \notin A[t]
  PROVE  \A later \in changesIn(R, A[h] \cup A[t], p) : k \notin A[R[later].prev]
<1> SUFFICES ASSUME NEW later \in changesIn(R, A[h] \cup A[t], p), k \in A[R[later].prev] PROVE FALSE
  OBVIOUS
<1>1. later \notin changesIn(R, A[h], p)
  BY DEF newest
<1>2. later \in changesIn(R, A[t], p)
  BY <1>1 DEF changesIn
<1> QED BY <1>2, ChangeFacts

\* Of two changes, one newest at each head, one is newest at the merge.
LEMMA OneOfTwo ==
  ASSUME NEW R, NEW A, NEW C, IsLog(R, A, C), NEW O, AtMostTwo(O), TwoSign(R, A, O), NEW p,
         NEW d \in O, NEW h, AllOf(R, A, d, h), NEW t \in DOMAIN R \ {GenesisHash},
         t.signer \in O, t.signer # d, t \notin A[h],
         NEW f \in DOMAIN R, A[h] \cap A[t] = A[f],
         NEW k \in newest(R, A, h, p), NEW l \in newest(R, A, t, p)
  PROVE  \/ \A later \in changesIn(R, A[h] \cup A[t], p) : k \notin A[R[later].prev]
         \/ \A later \in changesIn(R, A[h] \cup A[t], p) : l \notin A[R[later].prev]
<1> SUFFICES ASSUME NEW x \in changesIn(R, A[h] \cup A[t], p), k \in A[R[x].prev],
                    NEW y \in changesIn(R, A[h] \cup A[t], p), l \in A[R[y].prev]
             PROVE  FALSE
  OBVIOUS
<1>1. h \in DOMAIN R /\ k \in changesIn(R, A[h], p) /\ l \in changesIn(R, A[t], p)
  BY DEF AllOf, newest
<1>2. x \notin changesIn(R, A[h], p) /\ y \notin changesIn(R, A[t], p)
  BY DEF newest
<1>3. x \in changesIn(R, A[t], p) /\ y \in changesIn(R, A[h], p) /\ x \notin A[h] /\ y \notin A[t]
  BY <1>2 DEF changesIn
<1>4. /\ x \in DOMAIN R \ {GenesisHash} /\ x \in A[t] /\ A[x] \subseteq A[t] /\ A[x] = A[R[x].prev] \cup {x}
      /\ y \in DOMAIN R \ {GenesisHash} /\ y \in A[h] /\ A[y] \subseteq A[h] /\ A[y] = A[R[y].prev] \cup {y}
  BY <1>1, <1>3, ChangeFacts
<1>5. k \in A[f] /\ l \in A[f] /\ k # GenesisHash
  <2>1. k \in A[h] /\ l \in A[t] /\ k # GenesisHash
    BY <1>1, ChangeFacts
  <2> QED BY <1>4, <2>1
<1>6. k \notin A[R[y].prev] /\ l \notin A[R[x].prev]
  BY <1>3 DEF newest
<1>7. x.signer # d /\ x.signer \in O /\ y.signer \in O
  BY <1>3, <1>4 DEF AllOf, TwoSign
<1>8. y.signer # t.signer
  <2> SUFFICES ASSUME y.signer = t.signer PROVE FALSE
    OBVIOUS
  <2>1. y \in A[t] \/ t \in A[y]
    BY <1>4 DEF TwoSign
  <2> QED BY <1>3, <1>4, <2>1
<1>9. f # GenesisHash
  BY <1>5 DEF IsLog
<1>10. f.signer \in O
  BY <1>9 DEF TwoSign
<1>11. x \notin A[f] /\ y \notin A[f] /\ x # f /\ y # f
  <2>1. f \in A[f]
    BY LogFacts
  <2> QED BY <1>3, <2>1
<1>12. f.signer # x.signer
  <2> SUFFICES ASSUME f.signer = x.signer PROVE FALSE
    OBVIOUS
  <2>1. f \in A[x]
    BY <1>4, <1>9, <1>11 DEF TwoSign
  <2>2. f \in A[R[x].prev] /\ R[x].prev \in DOMAIN R
    BY <1>4, <1>11, <2>1, LogUnfolds
  <2>3. A[f] \subseteq A[R[x].prev]
    BY <2>2, LogFacts
  <2> QED BY <1>5, <1>6, <2>3
<1>13. f.signer # y.signer
  <2> SUFFICES ASSUME f.signer = y.signer PROVE FALSE
    OBVIOUS
  <2>1. f \in A[y]
    BY <1>4, <1>9, <1>11 DEF TwoSign
  <2>2. f \in A[R[y].prev] /\ R[y].prev \in DOMAIN R
    BY <1>4, <1>11, <2>1, LogUnfolds
  <2>3. A[f] \subseteq A[R[y].prev]
    BY <2>2, LogFacts
  <2> QED BY <1>5, <1>6, <2>3
<1> QED BY <1>7, <1>8, <1>10, <1>12, <1>13 DEF AtMostTwo

\* What a merge accounts for, the changes among it, and what it sets.
LEMMA MergeHas ==
  ASSUME NEW R, NEW A, NEW C, IsLog(R, A, C), NEW S, NEW B, NEW D, IsLog(S, B, D),
         NEW m, Adds(R, A, C, S, B, D, m), m # GenesisHash, NEW p,
         NEW h \in DOMAIN R, NEW t \in DOMAIN R, NEW f, Absorbs(S, C, m, h, t, f)
  PROVE  /\ B[m] = A[h] \cup {m} \cup A[t] /\ D[m] = C[t] \cup {m}
         /\ changesIn(S, B[m], p) = changesIn(R, A[h] \cup A[t], p)
         /\ changesIn(S, B[m], p) = changesIn(R, A[h], p) \cup changesIn(R, A[t], p)
         /\ \A k \in changesIn(R, A[h] \cup A[t], p) :
              /\ S[k] = R[k]
              /\ k \in newest(S, B, m, p) <=> \A later \in changesIn(R, A[h] \cup A[t], p) : k \notin A[R[later].prev]
<1>1. B[m] = A[h] \cup {m} \cup A[t] /\ D[m] = C[t] \cup {m}
  <2>1. B[m] = B[t] \cup {m} \cup B[h] /\ D[m] = D[t] \cup {m}
    BY DEF IsLog, Absorbs, Adds
  <2> QED BY <2>1 DEF Adds
<1>2. A[h] \cup A[t] \in SUBSET DOMAIN R
  BY LogFacts
<1>3. changesIn(S, B[m], p) = changesIn(S, A[h] \cup A[t], p)
  BY <1>1 DEF changesIn, Absorbs
<1>4. changesIn(S, A[h] \cup A[t], p) = changesIn(R, A[h] \cup A[t], p)
  BY <1>2, ChangesStay
<1>5. changesIn(R, A[h] \cup A[t], p) = changesIn(R, A[h], p) \cup changesIn(R, A[t], p)
  BY DEF changesIn
<1>6. \A k \in changesIn(R, A[h] \cup A[t], p) : S[k] = R[k] /\ B[S[k].prev] = A[R[k].prev]
  <2> TAKE k \in changesIn(R, A[h] \cup A[t], p)
  <2>1. k \in DOMAIN R /\ R[k].prev \in DOMAIN R
    BY <1>5, ChangeFacts
  <2> QED BY <2>1 DEF Adds
<1> QED BY <1>1, <1>3, <1>4, <1>5, <1>6 DEF newest

\* A merge gives the role that one of the newest changes it accounts for set.
LEMMA MergeStands ==
  ASSUME NEW R, NEW A, NEW C, IsLog(R, A, C), NEW O, AtMostTwo(O), TwoSign(R, A, O), Meet(R, A, C),
         NEW S, NEW B, NEW D, IsLog(S, B, D), NEW m, Adds(R, A, C, S, B, D, m), m # GenesisHash,
         NEW d \in O, NEW h, AllOf(R, A, d, h),
         NEW t \in DOMAIN R, NEW f, Absorbs(S, C, m, h, t, f), NEW p, TakesRole(R, S, C, m, h, t, f, p),
         Standing(R, A, C, h, p), Standing(R, A, C, t, p)
  PROVE  Standing(S, B, D, m, p)
<1>1. /\ f \in DOMAIN R /\ A[h] \cap A[t] = A[f] /\ h \in DOMAIN R /\ f \in C[h] /\ f \in C[t]
      /\ t # GenesisHash /\ t.signer \in O /\ t.signer # d /\ t \notin A[h] /\ h \notin A[t]
  BY ForkMeets DEF Absorbs
<1>2. /\ B[m] = A[h] \cup {m} \cup A[t] /\ D[m] = C[t] \cup {m}
      /\ changesIn(S, B[m], p) = changesIn(R, A[h] \cup A[t], p)
      /\ changesIn(S, B[m], p) = changesIn(R, A[h], p) \cup changesIn(R, A[t], p)
      /\ \A k \in changesIn(R, A[h] \cup A[t], p) :
           /\ S[k] = R[k]
           /\ k \in newest(S, B, m, p) <=> \A later \in changesIn(R, A[h] \cup A[t], p) : k \notin A[R[later].prev]
  BY <1>1, MergeHas
<1>3. ASSUME NEW k \in changesIn(R, A[h] \cup A[t], p)
      PROVE  /\ S[k] = R[k]
             /\ k \in newest(S, B, m, p) <=> \A later \in changesIn(R, A[h] \cup A[t], p) : k \notin A[R[later].prev]
  BY <1>2
<1>4. ASSUME NEW k \in newest(R, A, h, p)
      PROVE  k \in changesIn(R, A[h] \cup A[t], p) /\ (k \notin A[t] => k \in newest(S, B, m, p)) /\ S[k] = R[k]
  <2>1. k \in changesIn(R, A[h] \cup A[t], p)
    BY DEF newest, changesIn
  <2> QED BY <1>1, <1>3, <2>1, OneSide
<1>5. ASSUME NEW k \in newest(R, A, t, p)
      PROVE  k \in changesIn(R, A[h] \cup A[t], p) /\ (k \notin A[h] => k \in newest(S, B, m, p)) /\ S[k] = R[k]
  <2>1. k \in changesIn(R, A[h] \cup A[t], p) /\ A[h] \cup A[t] = A[t] \cup A[h]
    BY DEF newest, changesIn
  <2>2. k \notin A[h] => \A later \in changesIn(R, A[t] \cup A[h], p) : k \notin A[R[later].prev]
    BY <1>1, OneSide
  <2> QED BY <1>3, <2>1, <2>2
<1>6. ASSUME NEW k \in newest(R, A, h, p), NEW l \in newest(R, A, t, p)
      PROVE  k \in newest(S, B, m, p) \/ l \in newest(S, B, m, p)
  <2>1. \/ \A later \in changesIn(R, A[h] \cup A[t], p) : k \notin A[R[later].prev]
        \/ \A later \in changesIn(R, A[h] \cup A[t], p) : l \notin A[R[later].prev]
    <3>1. t \in DOMAIN R \ {GenesisHash}
      BY <1>1
    <3> QED BY <1>1, <3>1, OneOfTwo
  <2>2. k \in changesIn(R, A[h] \cup A[t], p) /\ l \in changesIn(R, A[h] \cup A[t], p)
    BY <1>4, <1>5
  <2> QED BY <1>3, <2>1, <2>2
<1>7. S[GenesisHash] = R[GenesisHash] /\ S[t] = R[t] /\ S[m].prev = t
  BY DEF Adds, IsLog, Absorbs
\* What Standing asks of a record g of the chain, and of a change on it above g.
<1>8. ASSUME NEW g \in D[m], NEW k \in D[m] \ D[g], sets(S, k, p)
      PROVE  /\ g \in C[t] /\ g \in DOMAIN R /\ B[g] = A[g] /\ A[g] \subseteq A[t]
             /\ k = m \/ (k \in C[t] \ C[g] /\ sets(R, k, p))
  <2>1. g # m
    BY <1>8
  <2>2. g \in C[t] /\ g \in DOMAIN R /\ B[g] = A[g] /\ D[g] = C[g] /\ A[g] \subseteq A[t]
    BY <1>2, <2>1, LogFacts DEF Adds
  <2>3. CASE k # m
    <3>1. k \in C[t] \ C[g]
      BY <1>2, <1>8, <2>2, <2>3
    <3>2. k # GenesisHash /\ k \in A[t] /\ A[t] \in SUBSET DOMAIN R
      BY <2>2, <3>1, LogFacts
    <3>3. \A l \in A[t] \ {GenesisHash} : sets(S, l, p) = sets(R, l, p)
      BY <3>2, ChangesStay
    <3>4. sets(R, k, p)
      BY <1>8, <3>2, <3>3
    <3> QED BY <2>2, <3>1, <3>4
  <2> QED BY <2>2, <2>3
<1>9. CASE \E b \in C[h] \ C[f] : sets(R, b, p)
  <2>1. S[m].config[p] = R[h].config[p]
    BY <1>9 DEF TakesRole
  <2>2. PICK k \in newest(R, A, h, p) \ A[f] : R[k].config[p] = R[h].config[p]
    BY <1>1, <1>9 DEF Standing
  <2>3. k \notin A[t]
    <3>1. k \in A[h]
      BY <2>2 DEF newest, changesIn
    <3> QED BY <1>1, <2>2, <3>1
  <2>4. k \in newest(S, B, m, p) /\ S[k].config[p] = S[m].config[p] /\ k \in changesIn(S, B[m], p)
    BY <1>2, <1>4, <2>1, <2>2, <2>3
  <2>5. ASSUME NEW g \in D[m], NEW l \in D[m] \ D[g], sets(S, l, p)
        PROVE  k \notin B[g]
    BY <1>8, <2>3, <2>5
  <2> QED BY <2>4, <2>5 DEF Standing
<1>10. CASE ~\E b \in C[h] \ C[f] : sets(R, b, p)
  <2>1. S[m].config[p] = R[t].config[p] /\ R[h].config[p] = R[f].config[p] /\ ~sets(S, m, p)
    <3>1. S[m].config[p] = R[t].config[p]
      BY <1>10 DEF TakesRole
    <3>2. R[h].config[p] = R[f].config[p]
      BY <1>1, <1>10, RoleStays
    <3> QED BY <1>7, <3>1, <3>2 DEF sets
  <2>2. CASE \E b \in C[t] \ C[f] : sets(R, b, p)
    <3>1. PICK k \in newest(R, A, t, p) \ A[f] : R[k].config[p] = R[t].config[p]
      BY <1>1, <2>2 DEF Standing
    <3>2. ASSUME NEW l \in newest(R, A, t, p) \ A[f] PROVE l \notin A[h]
      <4>1. l \in A[t]
        BY DEF newest, changesIn
      <4> QED BY <1>1, <4>1
    <3>3. k \in newest(S, B, m, p) /\ S[k].config[p] = S[m].config[p] /\ k \in changesIn(S, B[m], p)
      BY <1>2, <1>5, <2>1, <3>1, <3>2
    <3>4. ASSUME NEW g \in D[m], NEW b \in D[m] \ D[g], sets(S, b, p)
          PROVE  \E l \in newest(S, B, m, p) \ B[g] : S[l].config[p] = S[m].config[p]
      <4>1. g \in C[t] /\ g \in DOMAIN R /\ B[g] = A[g] /\ b \in C[t] \ C[g] /\ sets(R, b, p)
        BY <1>8, <2>1, <3>4
      <4>2. CASE f \in C[g]
        <5>1. PICK l \in newest(R, A, t, p) \ A[g] : R[l].config[p] = R[t].config[p]
          BY <4>1 DEF Standing
        <5>2. A[f] \subseteq A[g]
          BY <4>1, <4>2, LogFacts
        <5>3. l \in newest(S, B, m, p) /\ S[l].config[p] = S[m].config[p]
          BY <1>5, <2>1, <3>2, <5>1, <5>2
        <5> QED BY <4>1, <5>1, <5>3
      <4>3. CASE g \in C[f]
        <5>1. A[g] \subseteq A[f]
          BY <1>1, <4>3, LogFacts
        <5> QED BY <3>1, <3>3, <4>1, <5>1
      <4>4. f \in C[g] \/ g \in C[f]
        BY <1>1, <4>1, OnOneChain
      <4> QED BY <4>2, <4>3, <4>4
    <3> QED BY <3>3, <3>4 DEF Standing
  <2>3. CASE ~\E b \in C[t] \ C[f] : sets(R, b, p)
    <3>1. R[t].config[p] = R[f].config[p]
      BY <1>1, <2>3, RoleStays
    <3>2. ASSUME changesIn(S, B[m], p) = {}
          PROVE  S[m].config[p] = S[GenesisHash].config[p]
      BY <1>2, <1>7, <2>1, <3>2 DEF Standing
    <3>3. ASSUME changesIn(S, B[m], p) # {}
          PROVE  \E k \in newest(S, B, m, p) : S[k].config[p] = S[m].config[p]
      <4>1. CASE changesIn(R, A[h], p) = {}
        <5>1. PICK k \in newest(R, A, t, p) : R[k].config[p] = R[t].config[p]
          BY <1>2, <3>3, <4>1 DEF Standing
        <5>2. changesIn(R, A[h] \cup A[t], p) = changesIn(R, A[t], p)
          BY <1>2, <4>1
        <5>3. k \in newest(S, B, m, p)
          <6>1. \A later \in changesIn(R, A[t], p) : k \notin A[R[later].prev]
            BY DEF newest
          <6> QED BY <1>3, <1>5, <5>2, <6>1
        <5> QED BY <1>5, <2>1, <5>1, <5>3
      <4>2. CASE changesIn(R, A[t], p) = {}
        <5>1. PICK k \in newest(R, A, h, p) : R[k].config[p] = R[h].config[p]
          BY <1>2, <3>3, <4>2 DEF Standing
        <5>2. changesIn(R, A[h] \cup A[t], p) = changesIn(R, A[h], p)
          BY <1>2, <4>2
        <5>3. k \in newest(S, B, m, p)
          <6>1. \A later \in changesIn(R, A[h], p) : k \notin A[R[later].prev]
            BY DEF newest
          <6> QED BY <1>3, <1>4, <5>2, <6>1
        <5> QED BY <1>4, <2>1, <3>1, <5>1, <5>3
      <4>3. CASE changesIn(R, A[h], p) # {} /\ changesIn(R, A[t], p) # {}
        <5>1. PICK k \in newest(R, A, h, p) : R[k].config[p] = R[h].config[p]
          BY <4>3 DEF Standing
        <5>2. PICK l \in newest(R, A, t, p) : R[l].config[p] = R[t].config[p]
          BY <4>3 DEF Standing
        <5> QED BY <1>4, <1>5, <1>6, <2>1, <3>1, <5>1, <5>2
      <4> QED BY <4>1, <4>2, <4>3
    <3>4. ASSUME NEW g \in D[m], NEW b \in D[m] \ D[g], sets(S, b, p)
          PROVE  \E l \in newest(S, B, m, p) \ B[g] : S[l].config[p] = S[m].config[p]
      <4>1. g \in C[t] /\ g \in DOMAIN R /\ B[g] = A[g] /\ b \in C[t] \ C[g] /\ sets(R, b, p)
        BY <1>8, <2>1, <3>4
      <4>2. b \in C[f]
        BY <2>3, <4>1
      <4>3. g \in C[f]
        <5>1. f \notin C[g]
          <6> SUFFICES ASSUME f \in C[g] PROVE FALSE
            OBVIOUS
          <6>1. C[f] \subseteq C[g]
            BY <4>1, LogFacts
          <6> QED BY <4>1, <4>2, <6>1
        <5> QED BY <1>1, <4>1, <5>1, OnOneChain
      <4>4. g \in C[h] /\ b \in C[h] \ C[g]
        BY <1>1, <4>1, <4>2, <4>3, LogFacts
      <4>5. PICK k \in newest(R, A, h, p) \ A[g] : R[k].config[p] = R[h].config[p]
        BY <4>1, <4>4 DEF Standing
      <4>6. PICK l \in newest(R, A, t, p) \ A[g] : R[l].config[p] = R[t].config[p]
        BY <4>1 DEF Standing
      <4> QED BY <1>4, <1>5, <1>6, <2>1, <3>1, <4>1, <4>5, <4>6
    <3> QED BY <3>2, <3>3, <3>4 DEF Standing
  <2> QED BY <2>2, <2>3
<1> QED BY <1>9, <1>10

-----------------------------------------------------------------------------
(* The records are a log.                                                  *)

LogInv == IsLog(records, accounts, chains)

\* What a merge accounts for: what the winning head does, and the absorbed one.
LEMMA BranchAccounted ==
  ASSUME ChainsOK, NEW m \in DOMAIN records \ {GenesisHash}, records[m].branch # <<>>,
         NEW e, e = Last(records[m].branch)
  PROVE  /\ e \in DOMAIN records
         /\ accounted(m) = accounted(records[m].prev) \cup {m} \cup accounted(e)
<1>1. PICK p, branch, fork : p = records[m].prev /\ branch = records[m].branch /\ fork = records[m].fork
  OBVIOUS
<1>2. /\ branch \in Seq(DOMAIN records) /\ p \in DOMAIN records
      /\ fork \in onChain(p) \cap onChain(e) /\ branch = ReadConfigBranch(e, fork.seqno)
  BY <1>1 DEF ChainsOK, Formed, Merging
<1>3. e \in DOMAIN records
  BY <1>1, <1>2, HeadInRange, RangeOfSeq DEF Range
<1>4. fork.seqno \in Nat /\ fork \in DOMAIN records
  BY <1>2, <1>3, OnChainBelow, Seqnos DEF ChainsOK
<1>5. direct(m) = {k \in onChain(e) : k.seqno > fork.seqno}
  BY <1>1, <1>2, <1>3, <1>4, RangeBranch DEF ChainsOK, direct
<1>6. absorbed(m) = direct(m) \cup UNION {absorbed(b) : b \in direct(m)}
  BY AbsorbedUnfolds DEF ChainsOK, AbsorptionUnfolds
<1>7. accounted(m) = accounted(p) \cup {m} \cup absorbed(m)
  BY <1>1, AccountedUnfolds DEF ChainsOK
<1>8. accounted(e) = onChain(e) \cup UNION {absorbed(k) : k \in onChain(e)}
  BY <1>3, AccountedUnfolds DEF ChainsOK
<1>9. accounted(p) = onChain(p) \cup UNION {absorbed(k) : k \in onChain(p)}
  BY <1>2, AccountedUnfolds DEF ChainsOK
<1>10. \A k \in onChain(e) : k \in direct(m) \/ k \in onChain(p)
  <2> TAKE k \in onChain(e)
  <2>1. k.seqno \in Nat
    BY <1>3, OnChainBelow, Seqnos DEF ChainsOK
  <2>2. k.seqno <= fork.seqno => k \in onChain(fork)
    BY <1>2, <1>3, OnChainPart DEF ChainsOK
  <2>3. onChain(fork) \subseteq onChain(p)
    BY <1>2, OnChainPart DEF ChainsOK
  <2> QED BY <1>4, <1>5, <2>1, <2>2, <2>3
<1>11. direct(m) \subseteq onChain(e)
  BY <1>5
<1>12. accounted(m) \subseteq accounted(p) \cup {m} \cup accounted(e)
  BY <1>6, <1>7, <1>8, <1>11
<1>13. accounted(e) \subseteq accounted(m)
  BY <1>6, <1>7, <1>8, <1>9, <1>10
<1> QED BY <1>1, <1>3, <1>7, <1>12, <1>13

LEMMA LogIs == ChainsOK => LogInv
<1> SUFFICES ASSUME ChainsOK PROVE LogInv
  OBVIOUS
<1>1. Formed /\ Merging /\ GenesisHash \in DOMAIN records /\ records[GenesisHash].branch = <<>>
  BY DEF ChainsOK, Formed
<1>2. \A h \in DOMAIN records : accounts[h] = accounted(h) /\ chains[h] = onChain(h)
  BY DEF accounts, chains
<1>3. onChain(GenesisHash) = {GenesisHash}
  BY <1>1, OnChainUnfolds
<1>4. accounted(GenesisHash) = {GenesisHash}
  <2>1. direct(GenesisHash) = {}
    BY <1>1 DEF direct, Range
  <2>2. absorbed(GenesisHash) = {}
    BY <1>1, <2>1, AbsorbedUnfolds DEF AbsorptionUnfolds
  <2> QED BY <1>1, <1>3, <2>2, AccountedUnfolds
<1>5. ASSUME NEW h \in DOMAIN records
      PROVE  /\ h.seqno \in Nat
             /\ {GenesisHash, h} \subseteq onChain(h) /\ onChain(h) \subseteq accounted(h) /\ accounted(h) \subseteq DOMAIN records
             /\ \A k \in accounted(h) : accounted(k) \subseteq accounted(h) /\ (k # h => k.seqno < h.seqno)
             /\ \A k \in onChain(h) : onChain(k) = {l \in onChain(h) : l.seqno <= k.seqno}
  <2>1. h.seqno \in Nat
    BY <1>1, Seqnos
  <2>2. {GenesisHash, h} \subseteq onChain(h) /\ onChain(h) \subseteq DOMAIN records
    BY <1>1, OnChainBelow
  <2>3. accounted(h) = onChain(h) \cup UNION {absorbed(k) : k \in onChain(h)} /\ accounted(h) \subseteq DOMAIN records
    BY <1>1, AccountedUnfolds
  <2>4. ASSUME NEW k \in accounted(h) PROVE accounted(k) \subseteq accounted(h) /\ (k # h => k.seqno < h.seqno)
    <3>1. accounted(k) \subseteq accounted(h)
      BY <1>1, AccountedClosed
    <3>2. CASE k \in onChain(h)
      <4>1. k.seqno <= h.seqno /\ (k.seqno = h.seqno => k = h) /\ k.seqno \in Nat
        BY <1>1, <2>2, <3>2, OnChainBelow, Seqnos
      <4> QED BY <2>1, <3>1, <4>1
    <3>3. ASSUME NEW l \in onChain(h), k \in absorbed(l) PROVE k.seqno < h.seqno
      <4>1. l \in DOMAIN records /\ l.seqno <= h.seqno /\ l.seqno \in Nat /\ k.seqno \in Nat
        BY <1>1, <2>2, <2>3, OnChainBelow, Seqnos
      <4>2. k.seqno < l.seqno
        BY <1>1, <3>3, <4>1, AbsorbedBelow
      <4> QED BY <2>1, <4>1, <4>2
    <3> QED BY <2>3, <3>1, <3>2, <3>3
  <2>5. \A k \in onChain(h) : onChain(k) = {l \in onChain(h) : l.seqno <= k.seqno}
    BY <1>1, OnChainPart
  <2> QED BY <2>1, <2>2, <2>3, <2>4, <2>5
<1>6. ASSUME NEW h \in DOMAIN records \ {GenesisHash}
      PROVE  /\ records[h].prev \in DOMAIN records /\ h.seqno = records[h].prev.seqno + 1
             /\ onChain(h) = onChain(records[h].prev) \cup {h}
             /\ records[h].branch = <<>> => accounted(h) = accounted(records[h].prev) \cup {h}
             /\ records[h].branch # <<>> =>
                  /\ Last(records[h].branch) \in DOMAIN records
                  /\ accounted(h) = accounted(records[h].prev) \cup {h} \cup accounted(Last(records[h].branch))
  <2>1. records[h].prev \in DOMAIN records /\ h.seqno = records[h].prev.seqno + 1
    BY <1>1 DEF Formed
  <2>2. onChain(h) = onChain(records[h].prev) \cup {h}
    BY <1>1, OnChainUnfolds
  <2>3. ASSUME records[h].branch = <<>> PROVE accounted(h) = accounted(records[h].prev) \cup {h}
    <3>1. direct(h) = {}
      BY <2>3 DEF direct, Range
    <3>2. absorbed(h) = {}
      BY <1>1, <3>1, AbsorbedUnfolds DEF AbsorptionUnfolds
    <3> QED BY <1>1, <3>2, AccountedUnfolds
  <2>4. ASSUME records[h].branch # <<>>
        PROVE  /\ Last(records[h].branch) \in DOMAIN records
               /\ accounted(h) = accounted(records[h].prev) \cup {h} \cup accounted(Last(records[h].branch))
    BY <2>4, BranchAccounted
  <2> QED BY <2>1, <2>2, <2>3, <2>4
<1>7. ASSUME NEW h \in DOMAIN records
      PROVE  /\ h.seqno \in Nat
             /\ {GenesisHash, h} \subseteq chains[h] /\ chains[h] \subseteq accounts[h] /\ accounts[h] \subseteq DOMAIN records
             /\ \A k \in accounts[h] : accounts[k] \subseteq accounts[h] /\ (k # h => k.seqno < h.seqno)
             /\ \A k \in chains[h] : chains[k] = {l \in chains[h] : l.seqno <= k.seqno}
  <2>1. \A k \in accounted(h) : k \in DOMAIN records
    BY <1>5
  <2>2. \A k \in onChain(h) : k \in DOMAIN records
    BY <1>5
  <2> QED BY <1>2, <1>5, <2>1, <2>2
<1>8. ASSUME NEW h \in DOMAIN records \ {GenesisHash}
      PROVE  /\ records[h].prev \in DOMAIN records /\ h.seqno = records[h].prev.seqno + 1
             /\ chains[h] = chains[records[h].prev] \cup {h}
             /\ records[h].branch = <<>> => accounts[h] = accounts[records[h].prev] \cup {h}
             /\ records[h].branch # <<>> =>
                  /\ Last(records[h].branch) \in DOMAIN records
                  /\ accounts[h] = accounts[records[h].prev] \cup {h} \cup accounts[Last(records[h].branch)]
  BY <1>2, <1>6
<1>9. accounts[GenesisHash] = {GenesisHash} /\ chains[GenesisHash] = {GenesisHash}
  BY <1>1, <1>2, <1>3, <1>4
<1> QED BY <1>1, <1>7, <1>8, <1>9 DEF LogInv, IsLog

\* The log grows by the record that a step signs.
LEMMA LogAdds ==
  ASSUME ChainsOK, Grows, NEW m, m \notin DOMAIN records, DOMAIN records' = DOMAIN records \cup {m}
  PROVE  /\ IsLog(records, accounts, chains) /\ IsLog(records', accounts', chains')
         /\ Adds(records, accounts, chains, records', accounts', chains', m)
<1>1. IsLog(records, accounts, chains)
  BY LogIs DEF LogInv
<1>2. IsLog(records', accounts', chains')
  <2>1. (ChainsOK => LogInv)'
    BY LogIs, PTL
  <2> QED BY <2>1 DEF Grows, LogInv
<1>3. ASSUME NEW h \in DOMAIN records
      PROVE  records'[h] = records[h] /\ accounts'[h] = accounts[h] /\ chains'[h] = chains[h]
  <2>1. h \in DOMAIN records' /\ records'[h] = records[h] /\ onChain(h)' = onChain(h) /\ accounted(h)' = accounted(h)
    BY GrowsFrom
  <2> QED BY <2>1 DEF accounts, chains
<1> QED BY <1>1, <1>2, <1>3 DEF Adds

-----------------------------------------------------------------------------
(* Forks.                                                                  *)

\* The fork is the last record that the held chain and the answered one share.
LEMMA ForkHighest ==
  ASSUME ChainsOK, Heads, Answers, WholeBranches, NEW d \in Devices, answer[d] # Nothing, isBranch(d),
         NEW fork \in forks(d), NEW z \in onChain(head[d]) \cap onChain(answer[d].target)
  PROVE  z \in onChain(fork)
<1> DEFINE held == ReadConfigBranch(head[d], CheckpointFloor(d))
           shared == ({cursor(held, head[d])} \cup Range(held))
                       \cap ({answer[d].cursor} \cup Range(answer[d].changes))
<1>1. /\ fork \in onChain(head[d]) \cap onChain(answer[d].target)
      /\ fork \in DOMAIN records /\ fork.seqno \in Nat /\ checkpoint[d].under \in onChain(fork)
  BY ForksShared
<1>2. head[d] \in DOMAIN records /\ CheckpointFloor(d) \in Nat /\ answer[d].target \in DOMAIN records
  BY FloorType DEF Answers, AnswerOK
<1>3. z \in DOMAIN records /\ z.seqno \in Nat
  BY <1>2, OnChainBelow, Seqnos DEF ChainsOK
<1>4. fork.seqno >= CheckpointFloor(d)
  BY <1>1, <1>2, OnChainBelow DEF ChainsOK, CheckpointFloor
<1>5. ASSUME z.seqno > fork.seqno PROVE FALSE
  <2>1. Range(held) = {k \in onChain(head[d]) : k.seqno > CheckpointFloor(d)}
    BY <1>2, RangeBranch DEF ChainsOK
  <2>2. z \in Range(held)
    BY <1>1, <1>2, <1>3, <1>4, <1>5, <2>1
  <2>3. forks(d) = {h \in shared : \A other \in shared : other.seqno <= h.seqno}
    BY DEF forks
  <2>4. fork \in {answer[d].cursor} \cup Range(answer[d].changes)
    BY <2>3
  <2>5. z \in Range(answer[d].changes)
    BY <1>5, <2>4 DEF WholeBranches
  <2>6. z \in shared
    BY <2>2, <2>5
  <2> HIDE DEF shared
  <2>7. z.seqno <= fork.seqno
    BY <2>3, <2>6
  <2> QED BY <1>1, <1>3, <1>5, <2>7
<1>6. onChain(fork) = {k \in onChain(head[d]) : k.seqno <= fork.seqno}
  BY <1>1, <1>2, OnChainPart DEF ChainsOK
<1> QED BY <1>1, <1>3, <1>5, <1>6

\* The records that a device absorbs onto the head that wins.
LEMMA MergeAbsorbs ==
  ASSUME ChainsOK, Heads, Answers, WholeBranches, NEW d \in Devices, answer[d] # Nothing, isToMerge(d),
         NEW fork \in forks(d)
  PROVE  /\ ours(d, fork) # <<>> /\ Last(ours(d, fork)) = head[d] /\ forks(d) = {fork}
         /\ answer[d].target \in DOMAIN records /\ head[d] \in DOMAIN records
         /\ answer[d].target \notin onChain(head[d]) /\ head[d] \notin onChain(answer[d].target)
         /\ MergeWins(answer[d].target, head[d])
         /\ fork \in onChain(head[d]) \cap onChain(answer[d].target)
         /\ \A z \in onChain(head[d]) \cap onChain(answer[d].target) : z \in onChain(fork)
<1>1. isBranch(d) /\ MergeWins(answer[d].target, head[d])
  BY DEF isToMerge
<1>2. /\ fork \in onChain(head[d]) \cap onChain(answer[d].target)
      /\ fork \in DOMAIN records /\ fork.seqno \in Nat /\ forks(d) = {fork}
  BY <1>1, ForksShared
<1>3. ours(d, fork) # <<>> /\ fork # answer[d].target
  BY <1>2 DEF isToMerge
<1>4. Last(ours(d, fork)) = head[d]
  BY <1>2, <1>3, OursFromFork
<1>5. head[d] \in DOMAIN records /\ answer[d].target \in DOMAIN records
  BY FloorType DEF Answers, AnswerOK
<1>6. \A z \in onChain(head[d]) \cap onChain(answer[d].target) : z \in onChain(fork)
  BY <1>1, ForkHighest
<1>7. answer[d].target \notin onChain(head[d])
  <2> SUFFICES ASSUME answer[d].target \in onChain(head[d]) PROVE FALSE
    OBVIOUS
  <2>1. answer[d].target \in onChain(fork)
    BY <1>5, <1>6, OnChainBelow DEF ChainsOK
  <2>2. /\ answer[d].target.seqno <= fork.seqno /\ fork.seqno <= answer[d].target.seqno
        /\ (fork.seqno = answer[d].target.seqno => fork = answer[d].target)
        /\ answer[d].target.seqno \in Nat
    BY <1>2, <1>5, <2>1, OnChainBelow, Seqnos DEF ChainsOK
  <2> QED BY <1>2, <1>3, <2>2
<1>8. head[d] \notin onChain(answer[d].target)
  <2> SUFFICES ASSUME head[d] \in onChain(answer[d].target) PROVE FALSE
    OBVIOUS
  <2>1. head[d] \in onChain(fork)
    BY <1>5, <1>6, OnChainBelow DEF ChainsOK
  <2>2. head[d].seqno <= fork.seqno
    BY <1>2, <2>1, OnChainBelow DEF ChainsOK
  <2>3. ours(d, fork) = <<>>
    BY <1>2, <1>5, <2>2, BranchUnfolds DEF ours, ChainsOK
  <2> QED BY <1>3, <2>3
<1> QED BY <1>1, <1>2, <1>3, <1>4, <1>5, <1>6, <1>7, <1>8

\* A branch on its way stays whole.
LEMMA WholeKept ==
  ASSUME ChainsOK, Grows, Answers, WholeBranches,
         \A d \in Devices : answer'[d] \in {answer[d], Nothing}
  PROVE  WholeBranches'
<1> SUFFICES ASSUME NEW d \in Devices, answer'[d] # Nothing, answer'[d].cursor # NoHash,
                    NEW h \in {answer'[d].cursor} \cup Range(answer'[d].changes),
                    NEW k \in onChain(answer[d].target)', k.seqno > h.seqno
             PROVE  k \in Range(answer'[d].changes)
  BY DEF WholeBranches, isBranch, NoHash, Nothing, Range
<1>1. answer'[d] = answer[d] /\ answer[d] # Nothing /\ answer[d].target \in DOMAIN records
  BY DEF Answers, AnswerOK
<1>2. PICK t : t = answer[d].target
  OBVIOUS
<1>3. onChain(t)' = onChain(t)
  BY <1>1, <1>2, GrowsFrom
<1>4. k \in onChain(answer[d].target)
  BY <1>1, <1>2, <1>3
<1> QED BY <1>1, <1>4 DEF WholeBranches, isBranch

LEMMA WholeRequest ==
  ASSUME ChainsOK, Grows, Heads, Answers, WholeBranches, NEW d \in Devices, NEW from \in Devices, RequestHistory(d, from)
  PROVE  WholeBranches'
<1> DEFINE suffix == ReadConfigSuffix(head[d], head[from])
           branch == ReadConfigBranch(head[from], CheckpointFloor(d))
           a == [from |-> from, target |-> head[from], checkpoint |-> checkpoint[from],
                 grants |-> grants[from],
                 changes |-> IF suffix = Nothing THEN branch ELSE suffix.changes,
                 cursor |-> IF suffix = Nothing THEN cursor(branch, head[from]) ELSE NoHash]
<1>1. UNCHANGED log /\ answer' = [answer EXCEPT ![d] = a] /\ head[from].seqno >= head[d].seqno
  BY DEF RequestHistory
<1>2. /\ head[d] \in DOMAIN records /\ head[from] \in DOMAIN records /\ CheckpointFloor(d) \in Nat
      /\ CheckpointFloor(d) <= head[d].seqno /\ head[d].seqno \in Nat /\ head[from].seqno \in Nat
  BY FloorType, OnChainBelow, Seqnos DEF ChainsOK, CheckpointFloor
<1>3. /\ Range(branch) = {k \in onChain(head[from]) : k.seqno > CheckpointFloor(d)}
      /\ cursor(branch, head[from]).seqno >= CheckpointFloor(d)
      /\ cursor(branch, head[from]) \in onChain(head[from])
  BY <1>1, <1>2, RangeBranch, CursorOnChain DEF ChainsOK
<1>4. ASSUME a.cursor # NoHash, NEW h \in {a.cursor} \cup Range(a.changes),
             NEW k \in onChain(a.target), k.seqno > h.seqno
      PROVE  k \in Range(a.changes)
  <2>1. suffix = Nothing
    BY <1>4
  <2>2. a.changes = branch /\ a.cursor = cursor(branch, head[from]) /\ a.target = head[from]
    BY <2>1
  <2> HIDE DEF a, branch, suffix
  <2>3. h \in onChain(head[from]) /\ h.seqno \in Nat /\ h.seqno >= CheckpointFloor(d)
    <3>1. h \in onChain(head[from])
      BY <1>3, <1>4, <2>2
    <3>2. h.seqno \in Nat
      BY <1>2, <3>1, OnChainBelow, Seqnos DEF ChainsOK
    <3>3. h = cursor(branch, head[from]) \/ h.seqno > CheckpointFloor(d)
      BY <1>3, <1>4, <2>2
    <3> QED BY <1>2, <1>3, <3>1, <3>2, <3>3
  <2>4. h.seqno \in Nat /\ k \in onChain(head[from]) /\ k.seqno \in Nat
    BY <1>2, <1>4, <2>2, <2>3, OnChainBelow, Seqnos DEF ChainsOK
  <2> QED BY <1>2, <1>3, <1>4, <2>2, <2>3, <2>4
<1>5. a.target \in DOMAIN records
  BY <1>2
<1> HIDE DEF a
<1> SUFFICES ASSUME NEW e \in Devices, answer'[e] # Nothing, answer'[e].cursor # NoHash,
                    NEW h \in {answer'[e].cursor} \cup Range(answer'[e].changes),
                    NEW k \in onChain(answer[e].target)', k.seqno > h.seqno
             PROVE  k \in Range(answer'[e].changes)
  BY DEF WholeBranches, isBranch, NoHash, Nothing, Range
<1>6. PICK b : b = answer'[e]
  OBVIOUS
<1>7. b = (IF e = d THEN a ELSE answer[e])
  BY <1>1, <1>6 DEF Answers
<1>8. b.target \in DOMAIN records
  BY <1>5, <1>6, <1>7 DEF Answers, AnswerOK
<1>9. PICK t : t = b.target
  OBVIOUS
<1>10. onChain(t)' = onChain(t)
  BY <1>8, <1>9, GrowsFrom
<1>11. k \in onChain(b.target)
  BY <1>6, <1>9, <1>10
<1> QED BY <1>4, <1>6, <1>7, <1>11 DEF WholeBranches, isBranch

LEMMA WholeStep == MergeInv /\ WholeBranches /\ [Next]_vars => WholeBranches'
<1> SUFFICES ASSUME MergeInv, WholeBranches, [Next]_vars PROVE WholeBranches'
  OBVIOUS
<1>1. ChainsOK /\ Heads /\ Answers /\ Grows
  BY NextStep DEF MergeInv
<1>2. ASSUME NEW d \in Devices, NEW from \in Devices, RequestHistory(d, from) PROVE WholeBranches'
  BY <1>1, <1>2, WholeRequest
<1>3. ASSUME NEW d \in Devices, ImportPeerSnapshot(d) \/ MergePeerBranch(d) \/ DeclineResponse(d)
      PROVE  WholeBranches'
  <2>1. answer' = [answer EXCEPT ![d] = Nothing]
    BY <1>3 DEF ImportPeerSnapshot, MergePeerBranch, DeclineResponse
  <2>2. \A e \in Devices : answer'[e] \in {answer[e], Nothing}
    BY <1>1, <2>1 DEF Answers
  <2> QED BY <1>1, <2>2, WholeKept
<1>4. UNCHANGED answer => WholeBranches'
  BY <1>1, WholeKept
<1> QED BY <1>2, <1>3, <1>4
        DEF Next, vars, AddSOParticipant, RemoveSOParticipants, BuildSOLeaveRequest, SignCheckpoint,
            acceptSharedObjectLeave, LeaveSharedObject, ImportPeerConfig, exchange

-----------------------------------------------------------------------------
(* The roles that a merge gives.                                           *)

\* Each record of a branch follows the one before it, and the last is its target.
Linked(h, floor) ==
  LET branch == ReadConfigBranch(h, floor) IN
  /\ branch # <<>> => branch[Len(branch)] = h
  /\ \A i \in 1..(Len(branch) - 1) : records[branch[i + 1]].prev = branch[i]

LEMMA BranchLinks ==
  Formed => \A floor \in Nat, h \in DOMAIN records : Linked(h, floor)
<1> SUFFICES ASSUME Formed, NEW floor \in Nat
             PROVE  DOMAIN records \subseteq {h \in DOMAIN records : Linked(h, floor)}
  OBVIOUS
<1> DEFINE S == DOMAIN records
           T == {h \in S : Linked(h, floor)}
<1>1. ASSUME NEW h \in S, \A k \in S : seqnos[k] < seqnos[h] => k \in T
      PROVE  h \in T
  <2>1. CASE h = GenesisHash \/ h.seqno <= floor
    <3>1. ReadConfigBranch(h, floor) = <<>>
      BY <2>1, BranchUnfolds
    <3>2. Len(<<>>) = 0
      OBVIOUS
    <3> QED BY <3>1, <3>2 DEF Linked
  <2>2. CASE ~(h = GenesisHash \/ h.seqno <= floor)
    <3>1. PICK p, before : p = records[h].prev /\ before = ReadConfigBranch(p, floor)
      OBVIOUS
    <3>2. p \in T /\ p \in S
      BY <1>1, <2>2, <3>1, Seqnos
    <3>3. ReadConfigBranch(h, floor) = Append(before, h)
      BY <2>2, <3>1, BranchUnfolds
    <3>4. before \in Seq(S)
      BY <3>1, <3>2, BranchType
    <3>5. PICK b : b = Append(before, h)
      OBVIOUS
    <3>6. PICK n : n = Len(before)
      OBVIOUS
    <3>7. /\ n \in Nat /\ Len(b) = n + 1 /\ b[n + 1] = h
          /\ \A i \in 1..n : b[i] = before[i]
      BY <3>4, <3>5, <3>6, AppendProperties, LenProperties
    <3>8. /\ before # <<>> => before[n] = p
          /\ \A i \in 1..(n - 1) : records[before[i + 1]].prev = before[i]
      BY <3>1, <3>2, <3>6 DEF Linked
    <3>9. ASSUME NEW i \in 1..n PROVE records[b[i + 1]].prev = b[i]
      <4>1. CASE i = n
        <5>1. before # <<>>
          BY <3>6, <4>1
        <5> QED BY <3>1, <3>7, <3>8, <4>1, <5>1
      <4>2. CASE i # n
        <5>1. i \in 1..(n - 1) /\ i + 1 \in 1..n
          BY <3>7, <4>2
        <5> QED BY <3>7, <3>8, <5>1
      <4> QED BY <4>1, <4>2
    <3>10. ReadConfigBranch(h, floor) = b /\ Len(b) - 1 = n
      BY <3>3, <3>5, <3>7
    <3>11. Linked(h, floor)
      BY <3>7, <3>9, <3>10 DEF Linked
    <3> QED BY <3>11
  <2> QED BY <2>1, <2>2
<1> HIDE DEF T
<1>2. S \subseteq T
  BY <1>1, Seqnos, RankInduction
<1> QED BY <1>2 DEF T

\* Whether one of the first n records of a branch sets the role of p.
setBy(branch, n, p) == \E j \in 1..n : sets(records, branch[j], p)

\* Where the signers of a branch are owners that stay, a merge of it gives each peer the
\* role that the branch set, and else the one it had.
LEMMA MergeTakes ==
  ASSUME ChainsOK, NEW t \in DOMAIN records, NEW branch \in Seq(DOMAIN records),
         \A i \in 1..(Len(branch) - 1) : records[branch[i + 1]].prev = branch[i],
         NEW O \in SUBSET Peers, \A k \in DOMAIN records, p \in Peers : config(k)[p] = "OWNER" <=> p \in O,
         \A i \in 1..Len(branch) : branch[i].signer \in O
  PROVE  \A p \in Peers : mergeConfigBranch(t, branch)[p] =
           IF setBy(branch, Len(branch), p) THEN config(branch[Len(branch)])[p] ELSE config(t)[p]
<1> DEFINE merged == CHOOSE f : IsMerged(f, t, branch)
           n == Len(branch)
<1>0. n \in Nat
  BY LenProperties
<1>1. PICK m \in [0..n -> [Peers -> Roles]] : IsMerged(m, t, branch)
  BY MergedExists DEF ChainsOK
<1>2. IsMerged(merged, t, branch)
  BY <1>1, Zenon
<1>3. mergeConfigBranch(t, branch) = merged[n]
  BY Zenon DEF mergeConfigBranch, IsMerged
<1> HIDE DEF merged
<1>4. \A i \in 0..n : merged[i] = mergedAt(t, branch, i, merged)
  BY <1>2 DEF IsMerged, mergedAt
<1> DEFINE takes(i, p) == merged[i][p] = IF setBy(branch, i, p) THEN config(branch[i])[p] ELSE config(t)[p]
           good(i) == merged[i] \in [Peers -> Roles] /\ (\A p \in Peers : takes(i, p))
                      /\ (\A p \in Peers : merged[i][p] = "OWNER" <=> p \in O)
           T == {i \in Nat : i <= n => good(i)}
<1>5. 0 \in T
  <2>1. merged[0] = config(t)
    BY <1>0, <1>4 DEF mergedAt
  <2>2. \A p : ~setBy(branch, 0, p)
    BY DEF setBy
  <2>3. config(t) \in [Peers -> Roles]
    BY DEF ChainsOK, Configs
  <2>4. \A p \in Peers : takes(0, p)
    BY <2>1, <2>2
  <2> QED BY <2>1, <2>3, <2>4
<1>6. ASSUME NEW i \in T PROVE i + 1 \in T
  <2> SUFFICES ASSUME i + 1 <= n PROVE good(i + 1)
    OBVIOUS
  <2>0. i \in Nat /\ i <= n /\ i + 1 \in 1..n /\ i + 1 \in 0..n /\ (i # 0 => i \in 1..(n - 1))
    BY <1>0
  <2>1. good(i)
    BY <2>0
  <2> HIDE DEF T
  <2>2. PICK before, k, q, next :
          before = merged[i] /\ k = branch[i + 1] /\ q = records[k].prev /\ next = applyConfigDelta(before, config(q), config(k))
    OBVIOUS
  <2>3. k \in DOMAIN records /\ k.signer \in O /\ (i # 0 => q = branch[i])
    BY <2>0, <2>2, ElementOfSeq
  <2>4. config(k) \in [Peers -> Roles] /\ before \in [Peers -> Roles]
    BY <2>1, <2>2, <2>3 DEF ChainsOK, Configs
  <2>5. next \in [Peers -> Roles] /\ \A p \in Peers : next[p] = IF config(q)[p] = config(k)[p] THEN before[p] ELSE config(k)[p]
    BY <2>2, <2>4 DEF applyConfigDelta
  <2>6. \A p \in Peers : next[p] = "OWNER" <=> p \in O
    BY <2>1, <2>2, <2>3, <2>5
  <2>7. isOwnerPeer(before, k.signer) /\ Valid(next)
    BY <2>1, <2>2, <2>3, <2>6 DEF isOwnerPeer, Valid
  <2>8. merged[i + 1] = next
    <3>1. (i + 1) - 1 = i /\ i + 1 # 0
      BY <2>0
    <3>2. merged[i + 1] = mergedAt(t, branch, i + 1, merged)
      BY <1>4, <2>0
    <3> QED BY <2>2, <2>7, <3>1, <3>2 DEF mergedAt
  <2>9. ASSUME NEW p \in Peers PROVE takes(i + 1, p)
    <3>1. before[p] = IF setBy(branch, i, p) THEN config(branch[i])[p] ELSE config(t)[p]
      BY <2>1, <2>2
    <3>2. sets(records, k, p) <=> config(k)[p] # config(q)[p]
      BY <2>2 DEF sets, config
    <3>3. setBy(branch, i + 1, p) <=> setBy(branch, i, p) \/ sets(records, k, p)
      <4>1. 1..(i + 1) = (1..i) \cup {i + 1}
        BY <2>0
      <4> QED BY <2>2, <4>1 DEF setBy
    <3>4. setBy(branch, i, p) => q = branch[i]
      BY <2>0, <2>3 DEF setBy
    <3>5. next[p] = IF setBy(branch, i + 1, p) THEN config(k)[p] ELSE config(t)[p]
      BY <2>5, <3>1, <3>2, <3>3, <3>4
    <3> QED BY <2>2, <2>8, <3>5
  <2> QED BY <2>5, <2>6, <2>8, <2>9
<1>7. T = Nat
  <2> HIDE DEF T
  <2>1. T \in SUBSET Nat
    BY DEF T
  <2> QED BY <1>5, <1>6, <2>1, NumberInduction
<1>8. good(n)
  BY <1>0, <1>7
<1> QED BY <1>3, <1>8

-----------------------------------------------------------------------------
(* The steps of two owners that stay.                                      *)

TwoLog ==
  /\ TwoSign(records, accounts, Founders) /\ Meet(records, accounts, chains)
  /\ \A h \in DOMAIN records, p \in Peers : Standing(records, accounts, chains, h, p)

\* d signs m and holds it: it changes the config of d's head, or absorbs the head onto t.
Signs(d, m, t, f) ==
  /\ d \in Founders /\ m.signer = d /\ m.rank \in Nat
  /\ m \notin DOMAIN records /\ DOMAIN records' = DOMAIN records \cup {m} /\ head'[d] = m
  /\ \A p \in Peers : records'[m].config[p] = "OWNER" <=> p \in Founders
  /\ \/ Changes(records', m, head[d])
     \/ /\ t \in DOMAIN records /\ Absorbs(records', chains, m, head[d], t, f)
        /\ \A p \in Peers : TakesRole(records, records', chains, m, head[d], t, f, p)

LEMMA SignedTwo ==
  ASSUME ChainsOK, Heads, Grows, scenario' = scenario, AtMostTwo(Founders), OwnersStay, TwoLog,
         NEW d \in Devices, NEW m, NEW t, NEW f, Signs(d, m, t, f)
  PROVE  TwoLog'
<1>1. PICK R, A, C, S, B, D, O, h :
        /\ R = records /\ A = accounts /\ C = chains /\ S = records' /\ B = accounts' /\ D = chains'
        /\ O = Founders /\ h = head[d]
  OBVIOUS
<1>2. IsLog(R, A, C) /\ IsLog(S, B, D) /\ Adds(R, A, C, S, B, D, m)
  BY <1>1, LogAdds DEF Signs
<1>3. d \in O /\ m.signer = d /\ m.rank \in Nat /\ AtMostTwo(O) /\ h \in DOMAIN R
  BY <1>1 DEF Signs, Heads
<1>4. m # GenesisHash /\ DOMAIN S = DOMAIN R \cup {m}
  BY <1>1 DEF Signs, ChainsOK, Formed
<1>5. AllOf(R, A, d, h)
  BY <1>1, <1>3 DEF AllOf, OwnersStay, accounts
<1>6. TwoSign(R, A, O) /\ Meet(R, A, C) /\ \A k \in DOMAIN R, p \in Peers : Standing(R, A, C, k, p)
  BY <1>1 DEF TwoLog
<1>7. \/ Changes(S, m, h)
      \/ t \in DOMAIN R /\ Absorbs(S, C, m, h, t, f) /\ \A p \in Peers : TakesRole(R, S, C, m, h, t, f, p)
  BY <1>1 DEF Signs
<1>8. TwoSign(S, B, O)
  BY <1>2, <1>3, <1>4, <1>5, <1>6, <1>7, TwoSignKept
<1>9. Meet(S, B, D)
  BY <1>2, <1>3, <1>4, <1>5, <1>6, <1>7, MeetKept
<1>10. ASSUME NEW k \in DOMAIN S, NEW p \in Peers PROVE Standing(S, B, D, k, p)
  <2>1. CASE k \in DOMAIN R
    <3>1. Standing(R, A, C, k, p)
      BY <1>6, <2>1
    <3> QED BY <1>2, <2>1, <3>1, OlderStanding
  <2>2. CASE k = m /\ Changes(S, m, h)
    <3>1. Standing(R, A, C, h, p)
      BY <1>3, <1>6
    <3>2. Standing(S, B, D, m, p)
      BY <1>2, <1>3, <1>4, <2>2, <3>1, ChangeStands
    <3> QED BY <2>2, <3>2
  <2>3. CASE k = m /\ ~Changes(S, m, h)
    <3>1. t \in DOMAIN R /\ Absorbs(S, C, m, h, t, f) /\ TakesRole(R, S, C, m, h, t, f, p)
      BY <1>7, <2>3
    <3>2. Standing(R, A, C, h, p) /\ Standing(R, A, C, t, p)
      BY <1>3, <1>6, <3>1
    <3>3. Standing(S, B, D, m, p)
      BY <1>2, <1>3, <1>4, <1>5, <1>6, <3>1, <3>2, MergeStands
    <3> QED BY <2>3, <3>3
  <2> QED BY <1>4, <2>1, <2>2, <2>3
<1>11. TwoSign(records', accounts', Founders)
  BY <1>1, <1>8
<1>12. Meet(records', accounts', chains')
  BY <1>1, <1>9
<1>13. \A k \in DOMAIN records', p \in Peers : Standing(records', accounts', chains', k, p)
  BY <1>1, <1>10
<1>14. Founders' = Founders
  BY DEF Founders
<1> QED BY <1>11, <1>12, <1>13, <1>14 DEF TwoLog

\* Where nothing is signed the log stays.
LEMMA UnsignedTwo ==
  ASSUME ChainsOK, Grows, UNCHANGED records, scenario' = scenario, TwoLog
  PROVE  TwoLog'
<1>1. \A h \in DOMAIN records : accounted(h)' = accounted(h) /\ onChain(h)' = onChain(h)
  BY GrowsFrom
<1>2. accounts' = accounts /\ chains' = chains
  BY <1>1 DEF accounts, chains
<1>3. Founders' = Founders
  BY DEF Founders
<1> QED BY <1>2, <1>3 DEF TwoLog

\* An owner that changes the roles of others signs on its head.
LEMMA ChangeSigns ==
  ASSUME MergeInv, OwnersStay, NEW d \in Devices, NEW next, NEW keysOf, NEW leave,
         ApplyConfigChange(d, next, keysOf, leave), \A p \in Peers : next[p] = "OWNER" <=> p \in Founders
  PROVE  \E m, t, f : Signs(d, m, t, f)
<1>1. PICK h \in newHashes(d, head[d]) :
        signing(head[d], h, next, NoHash, <<>>, leave) /\ holds(d, h, checkpoint[d], keysOf)
  BY DEF ApplyConfigChange
<1>2. head[d] \in DOMAIN records /\ Formed /\ scenario \in Scenarios /\ head \in [Devices -> DOMAIN records] /\ d \in Peers
  BY MergeAssumption DEF MergeInv, ChainsOK, Heads
<1>3. d \in Founders
  BY <1>2 DEF ApplyConfigChange, OwnersStay
<1>4. h \notin DOMAIN records
  BY <1>1, <1>2, NewHash
<1>5. h.signer = d /\ h.rank \in Nat
  BY <1>1, <1>2, MergeAssumption DEF newHashes, ScenarioOK
<1>6. /\ DOMAIN records' = DOMAIN records \cup {h} /\ records'[h].config = next
      /\ records'[h].branch = <<>> /\ records'[h].prev = head[d]
  BY <1>1 DEF signing
<1>7. head'[d] = h
  BY <1>1, <1>2 DEF holds
<1>8. \A p \in Peers : records'[h].config[p] = "OWNER" <=> p \in Founders
  BY <1>6
<1>9. Signs(d, h, h, h)
  BY <1>3, <1>4, <1>5, <1>6, <1>7, <1>8 DEF Signs, Changes
<1> QED BY <1>9

\* A merge keeps the owners, and takes the roles that the absorbed branch set.
LEMMA AbsorbSigns ==
  ASSUME MergeInv, OwnersStay, TwoLog, WholeBranches, NEW d \in Devices, MergePeerBranch(d)
  PROVE  \E m, t, f : Signs(d, m, t, f)
<1>1. answer[d] # Nothing /\ isToMerge(d) /\ isOwnerPeer(config(answer[d].target), d) /\ isBranch(d)
  BY DEF MergePeerBranch, current, absorbs, isToMerge
<1>2. PICK f \in forks(d), m \in newHashes(d, answer[d].target) :
        /\ signing(answer[d].target, m, nextConfig(d), f, ours(d, f), Nothing)
        /\ commitPeerSnapshot(d, m, nextConfig(d), answer[d].checkpoint, answer[d].grants)
  BY DEF MergePeerBranch
<1>3. PICK t, h, branch, cfg : t = answer[d].target /\ h = head[d] /\ branch = ours(d, f) /\ cfg = nextConfig(d)
  OBVIOUS
<1>4. ChainsOK /\ Heads /\ Answers /\ scenario \in Scenarios /\ head \in [Devices -> DOMAIN records] /\ d \in Peers
  BY MergeAssumption DEF MergeInv, Heads
<1>5. /\ branch # <<>> /\ Last(branch) = h /\ forks(d) = {f}
      /\ t \in DOMAIN records /\ h \in DOMAIN records
      /\ t \notin onChain(h) /\ h \notin onChain(t) /\ MergeWins(t, h)
      /\ f \in onChain(h) \cap onChain(t)
      /\ \A z \in onChain(h) \cap onChain(t) : z \in onChain(f)
  BY <1>1, <1>3, <1>4, MergeAbsorbs
<1>6. f \in DOMAIN records /\ f.seqno \in Nat /\ branch \in Seq(DOMAIN records) /\ branch = ReadConfigBranch(h, f.seqno)
  BY <1>3, <1>4, <1>5, OnChainBelow, Seqnos, OursFromFork DEF ChainsOK, ours
<1>7. Range(branch) = onChain(h) \ onChain(f)
  <2>1. Range(branch) = {k \in onChain(h) : k.seqno > f.seqno}
    BY <1>4, <1>5, <1>6, RangeBranch DEF ChainsOK
  <2>2. onChain(f) = {k \in onChain(h) : k.seqno <= f.seqno}
    BY <1>4, <1>5, OnChainPart DEF ChainsOK
  <2>3. \A k \in onChain(h) : k.seqno \in Nat
    BY <1>4, <1>5, OnChainBelow, Seqnos DEF ChainsOK
  <2> QED BY <1>6, <2>1, <2>2, <2>3
<1>8. cfg = mergeConfigBranch(t, branch)
  <2>1. ~follows(d)
    <3>1. ~extends(d)
      BY <1>3, <1>5 DEF extends
    <3> QED BY <1>1, <3>1 DEF follows
  <2>2. {mergeConfigBranch(answer[d].target, b) : b \in {ours(d, g) : g \in forks(d)}} = {mergeConfigBranch(t, branch)}
    BY <1>3, <1>5
  <2> QED BY <1>3, <2>1, <2>2 DEF nextConfig
<1>9. ASSUME NEW p \in Peers
      PROVE  /\ cfg[p] = IF \E b \in onChain(h) \ onChain(f) : sets(records, b, p) THEN config(h)[p] ELSE config(t)[p]
             /\ cfg[p] = "OWNER" <=> p \in Founders
  <2>1. Linked(h, f.seqno)
    BY <1>4, <1>5, <1>6, BranchLinks DEF ChainsOK
  <2>2. branch[Len(branch)] = h /\ \A i \in 1..(Len(branch) - 1) : records[branch[i + 1]].prev = branch[i]
    BY <1>5, <1>6, <2>1 DEF Linked
  <2>3. Founders \in SUBSET Peers /\ \A k \in DOMAIN records, q \in Peers : config(k)[q] = "OWNER" <=> q \in Founders
    BY DEF Founders, OwnersStay, isOwnerPeer
  <2>4. DOMAIN branch = 1..Len(branch)
    BY <1>6, LenProperties
  <2>5. ASSUME NEW i \in 1..Len(branch) PROVE branch[i].signer \in Founders
    <3>1. branch[i] \in DOMAIN records /\ branch[i] \in Range(branch)
      BY <1>6, <2>4, ElementOfSeq DEF Range
    <3>2. GenesisHash \in onChain(f)
      BY <1>4, <1>6, OnChainBelow DEF ChainsOK
    <3>3. branch[i] # GenesisHash
      BY <1>7, <3>1, <3>2
    <3> QED BY <3>1, <3>3 DEF TwoLog, TwoSign
  <2>6. cfg[p] = IF setBy(branch, Len(branch), p) THEN config(branch[Len(branch)])[p] ELSE config(t)[p]
    BY <1>4, <1>5, <1>6, <1>8, <2>2, <2>3, <2>5, MergeTakes
  <2>7. setBy(branch, Len(branch), p) <=> \E b \in Range(branch) : sets(records, b, p)
    BY <2>4 DEF setBy, Range
  <2>8. cfg[p] = IF \E b \in onChain(h) \ onChain(f) : sets(records, b, p) THEN config(h)[p] ELSE config(t)[p]
    BY <1>7, <2>2, <2>6, <2>7
  <2>9. cfg[p] = "OWNER" <=> p \in Founders
    BY <1>5, <2>3, <2>8
  <2> QED BY <2>8, <2>9
<1>10. m \notin DOMAIN records /\ m.signer = d /\ m.rank \in Nat
  <2>1. m \notin DOMAIN records
    BY <1>2, <1>3, <1>4, <1>5, NewHash DEF ChainsOK
  <2> QED BY <1>2, <1>4, <2>1, MergeAssumption DEF newHashes, ScenarioOK
<1>11. /\ DOMAIN records' = DOMAIN records \cup {m} /\ records'[m].config = cfg
       /\ records'[m].branch = branch /\ records'[m].prev = t
  BY <1>2, <1>3 DEF signing
<1>12. head'[d] = m /\ d \in Founders
  <2>1. head' = [head EXCEPT ![d] = m]
    BY <1>2 DEF commitPeerSnapshot, holds
  <2> QED BY <1>1, <1>3, <1>4, <1>5, <2>1 DEF OwnersStay
<1>13. Absorbs(records', chains, m, h, t, f)
  BY <1>5, <1>6, <1>11 DEF Absorbs, chains
<1>14. \A p \in Peers : TakesRole(records, records', chains, m, h, t, f, p)
  BY <1>5, <1>6, <1>9, <1>11 DEF TakesRole, chains, config
<1>15. \A p \in Peers : records'[m].config[p] = "OWNER" <=> p \in Founders
  BY <1>9, <1>11
<1>16. Signs(d, m, t, f)
  BY <1>3, <1>5, <1>10, <1>11, <1>12, <1>13, <1>14, <1>15 DEF Signs
<1> QED BY <1>16

\* Those that asked to leave are no owners.
LEMMA AsksStay ==
  ASSUME MergeInv, OwnersStay, [Next]_vars, NEW p \in Devices, request'[p] # Nothing
  PROVE  request'[p].peer = p /\ p \notin Founders
<1>1. request'[p] = request[p] => request'[p].peer = p /\ p \notin Founders
  BY DEF OwnersStay
<1>2. DOMAIN request = Devices
  BY DEF MergeInv, Requests
<1>3. ASSUME NEW d \in Devices, BuildSOLeaveRequest(d) PROVE request'[p].peer = p /\ p \notin Founders
  <2>1. request' = [request EXCEPT ![d] = [peer |-> d, at |-> head[d]]] /\ ~isOwnerPeer(config(head[d]), d)
    BY <1>3 DEF BuildSOLeaveRequest
  <2>2. d \notin Founders
    <3>1. head[d] \in DOMAIN records /\ d \in Peers
      BY MergeAssumption DEF MergeInv, Heads
    <3> QED BY <2>1, <3>1 DEF OwnersStay
  <2>3. CASE p = d
    BY <1>2, <2>1, <2>2, <2>3
  <2>4. CASE p # d
    BY <1>1, <1>2, <2>1, <2>4
  <2> QED BY <2>3, <2>4
<1>4. ASSUME NEW d \in Devices, NEW q \in Devices, LeaveSharedObject(q, d)
      PROVE  request'[p].peer = p /\ p \notin Founders
  <2>1. request' = [request EXCEPT ![q] = Nothing]
    BY <1>4 DEF LeaveSharedObject
  <2> QED BY <1>1, <1>2, <2>1
<1>5. CASE UNCHANGED vars
  BY <1>1, <1>5 DEF vars
<1> QED BY <1>1, <1>3, <1>4, <1>5
        DEF Next, AddSOParticipant, RemoveSOParticipants, SignCheckpoint, acceptSharedObjectLeave,
            RequestHistory, ImportPeerConfig, ImportPeerSnapshot, MergePeerBranch, DeclineResponse

\* A step signs nothing, or one record for one owner.
LEMMA StepSigns ==
  ASSUME MergeInv, WholeBranches, TwoOwners, OwnersStay, TwoLog, [Next]_vars
  PROVE  UNCHANGED records \/ \E d \in Devices : \E m, t, f : Signs(d, m, t, f)
<1>1. head \in [Devices -> DOMAIN records] /\ Configs /\ scenario \in Scenarios
  BY DEF MergeInv, Heads, ChainsOK
<1>2. \A d \in Devices :
        config(head[d]) \in [Peers -> Roles] /\ \A q \in Peers : config(head[d])[q] = "OWNER" <=> q \in Founders
  BY <1>1 DEF Configs, OwnersStay, isOwnerPeer
<1>3. ASSUME NEW d \in Devices, NEW p \in Peers, NEW kind, mayChange(d, kind, p) PROVE p \notin Founders
  <2>1. scenario.changes \in [Devices -> SUBSET ({"add", "remove"} \X Peers)]
    BY <1>1, MergeAssumption DEF ScenarioOK
  <2>2. PICK c : c = <<kind, p>>
    OBVIOUS
  <2>3. c \in scenario.changes[d] /\ c[2] = p
    BY <1>3, <2>2 DEF mayChange
  <2>4. scenario.changes[d] \in Range(scenario.changes)
    BY <2>1 DEF Range
  <2>5. c \in UNION Range(scenario.changes)
    BY <2>3, <2>4
  <2>6. p \in subjects
    BY <2>3, <2>5 DEF subjects
  <2> QED BY <2>6 DEF TwoOwners
<1>4. ASSUME NEW d \in Devices, AddSOParticipant(d) PROVE \E m, t, f : Signs(d, m, t, f)
  <2>1. PICK p \in Peers : mayChange(d, "add", p) /\
          ApplyConfigChange(d, [config(head[d]) EXCEPT ![p] = "READER"], [grants[d] EXCEPT ![p] = d], Nothing)
    BY <1>4 DEF AddSOParticipant
  <2>2. PICK next : next = [config(head[d]) EXCEPT ![p] = "READER"]
    OBVIOUS
  <2>3. p \notin Founders
    BY <1>3, <2>1
  <2>4. \A q \in Peers : next[q] = "OWNER" <=> q \in Founders
    <3>1. PICK cfg : cfg = config(head[d])
      OBVIOUS
    <3>2. cfg \in [Peers -> Roles] /\ \A q \in Peers : cfg[q] = "OWNER" <=> q \in Founders
      BY <1>2, <3>1
    <3> QED BY <2>2, <2>3, <3>1, <3>2
  <2> QED BY <2>1, <2>2, <2>4, ChangeSigns
<1>5. ASSUME NEW d \in Devices, RemoveSOParticipants(d) PROVE \E m, t, f : Signs(d, m, t, f)
  <2>1. PICK p \in Peers : mayChange(d, "remove", p) /\
          ApplyConfigChange(d, [config(head[d]) EXCEPT ![p] = "NONE"], pruneRemovedParticipants(d, p), Nothing)
    BY <1>5 DEF RemoveSOParticipants
  <2>2. PICK next : next = [config(head[d]) EXCEPT ![p] = "NONE"]
    OBVIOUS
  <2>3. p \notin Founders
    BY <1>3, <2>1
  <2>4. \A q \in Peers : next[q] = "OWNER" <=> q \in Founders
    <3>1. PICK cfg : cfg = config(head[d])
      OBVIOUS
    <3>2. cfg \in [Peers -> Roles] /\ \A q \in Peers : cfg[q] = "OWNER" <=> q \in Founders
      BY <1>2, <3>1
    <3> QED BY <2>2, <2>3, <3>1, <3>2
  <2> QED BY <2>1, <2>2, <2>4, ChangeSigns
<1>6. ASSUME NEW d \in Devices, NEW p \in Devices, acceptSharedObjectLeave(d, p) PROVE \E m, t, f : Signs(d, m, t, f)
  <2> DEFINE ask == request[p]
             outcome == LeaveSOParticipants(d, ask)
  <2>1. /\ "remove" \in DOMAIN outcome /\ ask # Nothing
        /\ ApplyConfigChange(d, outcome.remove, pruneRemovedParticipants(d, p), ask)
    BY <1>6 DEF acceptSharedObjectLeave
  <2>2. ask.peer = p /\ p \notin Founders
    BY <2>1 DEF OwnersStay
  <2>3. outcome = [remove |-> [config(head[d]) EXCEPT ![ask.peer] = "NONE"]]
    <3>1. \/ outcome = [refused |-> TRUE] \/ DOMAIN outcome = {"removed"}
          \/ outcome = [remove |-> [config(head[d]) EXCEPT ![ask.peer] = "NONE"]]
      BY DEF LeaveSOParticipants
    <3> HIDE DEF outcome
    <3>2. outcome # [refused |-> TRUE] /\ ~(DOMAIN outcome = {"removed"})
      BY <2>1
    <3> QED BY <3>1, <3>2
  <2> HIDE DEF outcome, ask
  <2>4. PICK next : next = [config(head[d]) EXCEPT ![p] = "NONE"]
    OBVIOUS
  <2>5. outcome.remove = next
    BY <2>2, <2>3, <2>4
  <2>6. \A q \in Peers : next[q] = "OWNER" <=> q \in Founders
    <3>1. PICK cfg : cfg = config(head[d])
      OBVIOUS
    <3>2. cfg \in [Peers -> Roles] /\ \A q \in Peers : cfg[q] = "OWNER" <=> q \in Founders
      BY <1>2, <3>1
    <3> QED BY <2>2, <2>4, <3>1, <3>2
  <2> QED BY <2>1, <2>5, <2>6, ChangeSigns
<1>7. ASSUME NEW d \in Devices, MergePeerBranch(d) PROVE \E m, t, f : Signs(d, m, t, f)
  BY <1>7, AbsorbSigns
<1>8. CASE UNCHANGED vars
  BY <1>8 DEF vars, log
<1> QED BY <1>4, <1>5, <1>6, <1>7, <1>8
        DEF Next, BuildSOLeaveRequest, SignCheckpoint, LeaveSharedObject, RequestHistory,
            ImportPeerConfig, ImportPeerSnapshot, DeclineResponse, log, exchange

LEMMA OwnersStep ==
  ASSUME MergeInv, WholeBranches, TwoOwners, OwnersStay, TwoLog, [Next]_vars, scenario' = scenario
  PROVE  OwnersStay'
<1>1. ChainsOK /\ Heads /\ Grows /\ Advances /\ head \in [Devices -> DOMAIN records] /\ GenesisHash \in DOMAIN records
  BY NextStep DEF MergeInv, Heads, ChainsOK, Formed
<1>2. Founders' = Founders
  BY DEF Founders
<1>3. records'[GenesisHash].config = scenario'.roles
  BY <1>1, GrowsFrom DEF OwnersStay
<1>4. \A p \in Devices : request'[p] # Nothing => request'[p].peer = p /\ p \notin Founders
  BY AsksStay
<1>5. ASSUME NEW h \in DOMAIN records
      PROVE  /\ records'[h].config = records[h].config
             /\ \A d \in Devices : h # GenesisHash /\ h.signer = d => h \in accounted(head[d])'
  <2>1. records'[h].config = records[h].config
    BY <1>1, GrowsFrom
  <2>2. \A d \in Devices : accounted(head[d]) \subseteq accounted(head[d])'
    BY <1>1 DEF Advances
  <2> QED BY <2>1, <2>2 DEF OwnersStay
<1>6. CASE UNCHANGED records
  <2>1. \A h \in DOMAIN records', p \in Peers : records'[h].config[p] = "OWNER" <=> p \in Founders
    BY <1>6 DEF OwnersStay, isOwnerPeer, config
  <2>2. \A d \in Devices : \A h \in DOMAIN records' \ {GenesisHash} : h.signer = d => h \in accounted(head[d])'
    BY <1>5, <1>6
  <2> QED BY <1>2, <1>3, <1>4, <2>1, <2>2 DEF OwnersStay, isOwnerPeer, config, Nothing, GenesisHash
<1>7. ASSUME NEW d \in Devices, NEW m, NEW t, NEW f, Signs(d, m, t, f) PROVE OwnersStay'
  <2>1. /\ DOMAIN records' = DOMAIN records \cup {m} /\ m.signer = d /\ head'[d] = m
        /\ \A p \in Peers : records'[m].config[p] = "OWNER" <=> p \in Founders
    BY <1>7 DEF Signs
  <2>2. \A h \in DOMAIN records', p \in Peers : records'[h].config[p] = "OWNER" <=> p \in Founders
    <3>1. \A h \in DOMAIN records, p \in Peers : records'[h].config[p] = "OWNER" <=> p \in Founders
      BY <1>5 DEF OwnersStay, isOwnerPeer, config
    <3> QED BY <2>1, <3>1
  <2>3. m \in accounted(m)'
    <3>1. (ChainsOK => LogInv)'
      BY LogIs, PTL
    <3>2. IsLog(records', accounts', chains') /\ m \in DOMAIN records'
      BY <1>1, <2>1, <3>1 DEF Grows, LogInv
    <3>3. m \in accounts'[m]
      BY <3>2, LogFacts
    <3> QED BY <3>2, <3>3 DEF accounts
  <2>4. m \in accounted(head[d])'
    BY <2>1, <2>3
  <2>5. \A e \in Devices : \A h \in DOMAIN records' \ {GenesisHash} : h.signer = e => h \in accounted(head[e])'
    BY <1>5, <2>1, <2>4
  <2> QED BY <1>2, <1>3, <1>4, <2>2, <2>5 DEF OwnersStay, isOwnerPeer, config, Nothing, GenesisHash
<1> QED BY <1>6, <1>7, StepSigns

LEMMA AtMostTwoOwners ==
  ASSUME scenario \in Scenarios, TwoOwners
  PROVE  AtMostTwo(Founders)
<1>1. IsFiniteSet(Founders)
  BY MergeAssumption, FS_Subset DEF Founders
<1>2. Cardinality(Founders) \in Nat /\ Cardinality(Founders) <= 2
  BY <1>1, FS_CardinalityType DEF TwoOwners
<1> SUFFICES ASSUME NEW a \in Founders, NEW b \in Founders, NEW c \in Founders, a # b, b # c, a # c
             PROVE  FALSE
  BY DEF AtMostTwo
<1>3. PICK A, B, C : A = {a} /\ B = A \cup {b} /\ C = B \cup {c}
  OBVIOUS
<1>4. IsFiniteSet(A) /\ Cardinality(A) = 1
  BY <1>3, FS_Singleton
<1>5. IsFiniteSet(B) /\ Cardinality(B) = 2
  BY <1>3, <1>4, FS_AddElement
<1>6. IsFiniteSet(C) /\ Cardinality(C) = 3
  BY <1>3, <1>5, FS_AddElement
<1>7. C \subseteq Founders
  BY <1>3
<1>8. Cardinality(C) <= Cardinality(Founders)
  BY <1>1, <1>7, FS_Subset
<1> QED BY <1>2, <1>6, <1>8

LEMMA TwoInvInit == Init => TwoInv
<1> SUFFICES ASSUME Init PROVE TwoInv
  OBVIOUS
<1>1. DOMAIN records = {GenesisHash} /\ records[GenesisHash].config = scenario.roles /\ ChainsOK /\ Formed
      /\ head = [d \in Devices |-> GenesisHash]
  BY MergeInvInit DEF Init, MergeInv, ChainsOK
<1>2. WholeBranches
  BY DEF Init, WholeBranches
<1>3. OwnersStay
  BY <1>1 DEF OwnersStay, Init, isOwnerPeer, config, Founders
<1>4. accounts[GenesisHash] = {GenesisHash} /\ chains[GenesisHash] = {GenesisHash} /\ GenesisHash \in DOMAIN records
  BY <1>1, LogIs DEF LogInv, IsLog
<1>5. TwoSign(records, accounts, Founders)
  BY <1>1 DEF TwoSign
<1>6. Meet(records, accounts, chains)
  BY <1>1, <1>4 DEF Meet
<1>7. \A p \in Peers : Standing(records, accounts, chains, GenesisHash, p)
  BY <1>4 DEF Standing, changesIn
<1> QED BY <1>1, <1>2, <1>3, <1>5, <1>6, <1>7 DEF TwoInv

LEMMA TwoInvStep == MergeInv /\ TwoInv /\ [Next]_vars => TwoInv'
<1> SUFFICES ASSUME MergeInv, TwoInv, [Next]_vars PROVE TwoInv'
  OBVIOUS
<1>1. ChainsOK /\ Heads /\ Grows /\ scenario \in Scenarios
  BY NextStep DEF MergeInv
<1>2. scenario' = scenario
  BY DEF Next, vars, AddSOParticipant, RemoveSOParticipants, BuildSOLeaveRequest, SignCheckpoint,
         acceptSharedObjectLeave, LeaveSharedObject, RequestHistory, ImportPeerConfig,
         ImportPeerSnapshot, MergePeerBranch, DeclineResponse
<1>3. WholeBranches'
  BY WholeStep DEF TwoInv
<1>4. TwoOwners' = TwoOwners
  BY <1>2 DEF TwoOwners, Founders, subjects, isOwnerPeer, Range
<1>5. ASSUME TwoOwners PROVE OwnersStay' /\ TwoLog'
  <2>1. WholeBranches /\ OwnersStay /\ TwoLog
    BY <1>5 DEF TwoInv, TwoLog
  <2>2. AtMostTwo(Founders)
    BY <1>1, <1>5, AtMostTwoOwners
  <2>3. OwnersStay'
    BY <1>2, <1>5, <2>1, OwnersStep
  <2>4. UNCHANGED records => TwoLog'
    BY <1>1, <1>2, <2>1, UnsignedTwo
  <2>5. ASSUME NEW d \in Devices, NEW m, NEW t, NEW f, Signs(d, m, t, f) PROVE TwoLog'
    BY <1>1, <1>2, <2>1, <2>2, <2>5, SignedTwo
  <2> QED BY <1>5, <2>1, <2>3, <2>4, <2>5, StepSigns
<1> QED BY <1>3, <1>4, <1>5 DEF TwoInv, TwoLog

\* While two owners sign and none loses its ownership, the role of a peer is the one that a
\* latest change of it set: a merge neither loses a change nor brings back what its owner had
\* seen and changed since (config-merge.go mergeConfigBranch, applyConfigDelta).
THEOREM LatestStands == Spec => []LatestChangeStands
<1>1. MergeInv /\ TwoInv => LatestChangeStands
  <2> SUFFICES ASSUME MergeInv, TwoInv, NEW d \in Devices, NEW p \in Peers,
                      Founders \cap subjects = {}, Cardinality(Founders) <= 2,
                      NEW changes, changes = changesOf(p, accounted(head[d])),
                      NEW latest, latest = {h \in changes : \A later \in changes : h \notin accounted(records[later].prev)}
               PROVE  config(head[d])[p] \in
                        (IF changes = {} THEN {scenario.roles[p]} ELSE {config(h)[p] : h \in latest})
    BY DEF LatestChangeStands, Founders
  <2>1. ChainsOK /\ head[d] \in DOMAIN records /\ IsLog(records, accounts, chains)
    BY LogIs DEF MergeInv, Heads, LogInv
  <2>2. Standing(records, accounts, chains, head[d], p) /\ records[GenesisHash].config = scenario.roles
    BY <2>1 DEF TwoInv, TwoOwners, OwnersStay
  <2>3. changes = changesIn(records, accounts[head[d]], p)
    BY <2>1 DEF changesOf, changesIn, sets, config, accounts
  <2>4. \A later \in changes : records[later].prev \in DOMAIN records
    BY <2>1, <2>3, ChangeFacts
  <2>5. \A later \in changes : accounts[records[later].prev] = accounted(records[later].prev)
    BY <2>4 DEF accounts
  <2>6. latest = newest(records, accounts, head[d], p)
    BY <2>3, <2>5 DEF newest
  <2>7. changes # {} => \E h \in latest : config(h)[p] = config(head[d])[p]
    BY <2>2, <2>3, <2>6 DEF Standing, config
  <2>8. changes = {} => config(head[d])[p] = scenario.roles[p]
    BY <2>2, <2>3 DEF Standing, config
  <2> QED BY <2>7, <2>8
<1> QED BY <1>1, TwoInvInit, TwoInvStep, Invariance, PTL DEF Spec
=============================================================================
