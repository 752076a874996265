------------------------ MODULE CheckpointLineProofs ------------------------
(***************************************************************************)
(* All devices follow one history, whatever group decides and whoever     *)
(* joins or leaves, in a history where one owner at a time signs.          *)
(***************************************************************************)
EXTENDS CheckpointChainProofs

(* What the code leaves to the participants: in each config that owners     *)
(* control one owner is not about to leave, the one that signs, and an      *)
(* owner hands over when it is not storing a checkpoint.                    *)

Signers(n) == Range(n.owners) \ n.departing

OneSigner(x) ==
  /\ ~ x.configOnly
  /\ \A n \in x.contents \cup {x.genesis} : ~ n.group => \E s : Signers(n) = {s}

IdleHandover ==
  \A d \in Devices :
    config'[d] # config[d] /\ d \in content(config'[d]).departing => storing[d] = {}

-----------------------------------------------------------------------------
(* The invariant: all configs are on one chain C, all checkpoints on one     *)
(* chain K.                                                                *)

\* c is what C is up to some length.
begins(c, C) ==
  /\ IsChain(c) /\ IsChain(C)
  /\ Len(c) <= Len(C)
  /\ \A i \in 1..Len(c) : c[i] = C[i]

\* The length of the config that entry k of a checkpoint was made under.
level(k) == Len(k.config)

\* Every entry of K was decided by the group that its config says controls, or
\* signed by the one owner that its config lets sign, which holds it.
Entries(C, K, held_by, D) ==
  \A i \in 1..Len(K) :
    /\ begins(K[i].config, C) /\ level(K[i]) >= 1
    /\ IF C[level(K[i])].content.group
       THEN /\ K[i].author = Group
            /\ \E x \in D : /\ x.key = [config |-> K[i].config, height |-> i]
                            /\ x.head.config = K[i].config
       ELSE /\ K[i].author \in Signers(C[level(K[i])].content)
            /\ i <= Len(held_by[K[i].author])

\* A record to or from a group's control seals just the entries made under the
\* configs before it, and a record that a group made was decided above them.
Seals(C, K, D) ==
  /\ \A n \in 1..Len(C) : \A Q \in C[n].seal : IsChain(Q) /\ \A i \in 1..Len(Q) : level(Q[i]) \in 0..n - 1
  /\ \A n \in 2..Len(C) : C[n - 1].content.group \/ C[n].content.group =>
       \E Q \in C[n].seal :
              /\ C[n].seal = {Q}
              /\ begins(Q, K)
              /\ \A i \in 1..Len(K) : i <= Len(Q) <=> level(K[i]) < n
              /\ C[n - 1].content.group =>
                   \E x \in D : /\ begins(x.key.config, C) /\ Len(x.key.config) = n - 1
                                /\ x.key = [config |-> x.key.config, height |-> Len(Q) + 1]
                                /\ Len(x.head.config) = n

\* The owner that may sign the next record has signed it where there is one.
Turns(C, configs) ==
  \A n \in 1..Len(C) :
    ~ C[n].content.group /\ n < Len(C) =>
      \A s \in Signers(C[n].content) : n < Len(configs[s])

\* A decision made a record or an entry of the line, and was the only one of its key.
Decided(C, K, D) ==
  /\ \A x \in D :
       /\ begins(x.key.config, C) /\ Len(x.key.config) >= 1
       /\ x.key.height \in Nat \ {0}
       /\ begins(x.head.config, C) /\ begins(x.head.checkpoint, K)
       /\ \/ /\ x.head.config = x.key.config
             /\ Len(x.head.checkpoint) = x.key.height
             /\ K[x.key.height].config = x.key.config
          \/ /\ Len(x.head.config) = Len(x.key.config) + 1
             /\ x.key.height = Len(x.head.checkpoint) + 1
             /\ C[Len(x.head.config)].seal = {x.head.checkpoint}
  /\ \A x, y \in D : x.key = y.key => x.head = y.head

\* What is endorsed continues the line.
Endorsed(C, K, E) ==
  \A e \in E :
    /\ begins(e.key.config, C) /\ e.key.config # <<>> /\ IsGroupControl(e.key.config)
    /\ \E k : /\ begins(k, K) /\ e.key.height = Len(k) + 1
              /\ \/ \E n : e.head = [config |-> follow(e.key.config, n, {k}), checkpoint |-> k]
                 \/ \E l : e.head = [config |-> e.key.config,
                      checkpoint |-> Append(k, [config |-> e.key.config, label |-> l,
                                                author |-> Group])]

OnLine(C, K) ==
  /\ C # <<>> /\ ~ C[1].content.group
  /\ \A d \in Devices : begins(config[d], C) /\ begins(checkpoint[d], K)
  /\ \E d \in Devices : config[d] = C
  /\ \E d \in Devices : checkpoint[d] = K

\* A device holds no entry made under a config that it does not hold, and a member
\* holds every entry made before the config that it holds.
UpToDate(K) ==
  \A d \in Devices : holds(d) =>
    /\ \A i \in 1..Len(checkpoint[d]) : level(checkpoint[d][i]) <= Len(config[d])
    /\ member(config[d], d) =>
         \A i \in 1..Len(K) : level(K[i]) < Len(config[d]) => i <= Len(checkpoint[d])

Vouched ==
  \A d \in Devices :
    /\ signatures[d] = {} \/ \E p : signatures[d] = {p}
    /\ admits(d, d) => ValidateAuthority(checkpoint[d], signatures[d], config[d])

\* An owner signs a change of a config in which it may, and stores no checkpoint
\* where it is to leave.
Background ==
  \A d \in Devices :
    /\ \A next \in signing[d] :
         \E c, n, k : /\ IsChain(c) /\ c # <<>> /\ ~ IsGroupControl(c)
                      /\ next = follow(c, n, k)
                      /\ mayChange(d, content(c), n)
                      /\ n \in scenario.contents
                      /\ IF n.group THEN \E q : k = {q} ELSE k = seal(c)
    /\ holds(d) /\ storing[d] # {} => d \notin content(config[d]).departing

Line(C, K) ==
  /\ OnLine(C, K)
  /\ Entries(C, K, checkpoint, decisions)
  /\ Seals(C, K, decisions)
  /\ Turns(C, config)
  /\ Decided(C, K, decisions)
  /\ Endorsed(C, K, endorsed)
  /\ UpToDate(K)
  /\ Vouched
  /\ Background

OneLine == \E C, K : Line(C, K)

-----------------------------------------------------------------------------
(* Chains that begin one chain.                                            *)

\* A chain is its records from the first to the last, which is what its holder goes by.
LEMMA ChainShape ==
  ASSUME NEW c, IsChain(c)
  PROVE  /\ Len(c) \in Nat /\ c = [i \in 1..Len(c) |-> c[i]]
         /\ c = <<>> <=> Len(c) = 0
         /\ content(c) = c[Len(c)].content /\ seal(c) = c[Len(c)].seal
<1>1. PICK S : c \in Seq(S)
  BY DEF IsChain
<1>2. Len(c) \in Nat /\ c = [i \in 1..Len(c) |-> c[i]]
  BY <1>1
<1>3. c = <<>> <=> Len(c) = 0
  BY <1>1
<1> QED BY <1>2, <1>3 DEF content, seal, Last

LEMMA BeginsItself ==
  ASSUME NEW c, IsChain(c)
  PROVE  begins(c, c)
  BY ChainShape DEF begins

LEMMA BeginsThrough ==
  ASSUME NEW c, NEW e, NEW C, begins(c, e), begins(e, C)
  PROVE  begins(c, C)
<1>1. Len(c) \in Nat /\ Len(e) \in Nat /\ Len(C) \in Nat
  BY ChainShape DEF begins
<1> QED BY <1>1 DEF begins

\* Of two beginnings of a chain the shorter begins the other, and two of one length
\* are the same.
LEMMA BeginningsCompare ==
  ASSUME NEW c, NEW e, NEW C, begins(c, C), begins(e, C)
  PROVE  /\ Len(c) \in Nat /\ Len(e) \in Nat /\ Len(C) \in Nat
         /\ Len(c) <= Len(e) => begins(c, e)
         /\ Len(c) = Len(e) => c = e
         /\ Len(c) = Len(C) => c = C
<1>1. /\ Len(c) \in Nat /\ Len(e) \in Nat /\ Len(C) \in Nat
      /\ c = [i \in 1..Len(c) |-> c[i]] /\ e = [i \in 1..Len(e) |-> e[i]]
      /\ C = [i \in 1..Len(C) |-> C[i]]
  BY ChainShape DEF begins
<1>2. Len(c) <= Len(e) => begins(c, e)
  BY <1>1 DEF begins
<1>3. Len(c) = Len(e) => c = e
  <2> SUFFICES ASSUME Len(c) = Len(e) PROVE c = e
    OBVIOUS
  <2>1. \A i \in 1..Len(c) : c[i] = e[i]
    BY <1>1 DEF begins
  <2> QED BY <1>1, <2>1
<1>4. Len(c) = Len(C) => c = C
  <2> SUFFICES ASSUME Len(c) = Len(C) PROVE c = C
    OBVIOUS
  <2>1. \A i \in 1..Len(c) : c[i] = C[i]
    BY <1>1 DEF begins
  <2> QED BY <1>1, <2>1
<1> QED BY <1>1, <1>2, <1>3, <1>4

\* To begin a chain is to be a prefix of it.
LEMMA BeginsIsPrefix ==
  ASSUME NEW c, NEW C, IsChain(c), IsChain(C)
  PROVE  begins(c, C) <=> IsPrefix(c, C)
<1>1. /\ Len(c) \in Nat /\ Len(C) \in Nat
      /\ c = [i \in 1..Len(c) |-> c[i]]
  BY ChainShape
<1>2. SubSeq(c, 1, Len(c)) = [i \in 1..Len(c) |-> c[i]]
      /\ SubSeq(C, 1, Len(c)) = [i \in 1..Len(c) |-> C[i]]
  BY <1>1
<1>3. begins(c, C) => IsPrefix(c, C)
  <2> SUFFICES ASSUME begins(c, C) PROVE IsPrefix(c, C)
    OBVIOUS
  <2>1. \A i \in 1..Len(c) : c[i] = C[i]
    BY DEF begins
  <2>2. [i \in 1..Len(c) |-> c[i]] = [i \in 1..Len(c) |-> C[i]]
    BY <2>1
  <2> QED BY <1>2, <2>2 DEF IsPrefix, begins
<1>4. IsPrefix(c, C) => begins(c, C)
  <2> SUFFICES ASSUME IsPrefix(c, C) PROVE begins(c, C)
    OBVIOUS
  <2>1. [i \in 1..Len(c) |-> c[i]] = [i \in 1..Len(c) |-> C[i]] /\ Len(c) <= Len(C)
    BY <1>2 DEF IsPrefix
  <2>2. \A i \in 1..Len(c) : c[i] = C[i]
    BY <2>1
  <2> QED BY <2>1, <2>2 DEF begins
<1> QED BY <1>3, <1>4

\* A chain begins the chain that one record more makes.
LEMMA BeginsLonger ==
  ASSUME NEW C, IsChain(C), NEW r
  PROVE  /\ IsChain(Append(C, r)) /\ begins(C, Append(C, r))
         /\ Len(C) \in Nat /\ Len(Append(C, r)) = Len(C) + 1 /\ Append(C, r)[Len(C) + 1] = r
         /\ \A i \in 1..Len(C) : Append(C, r)[i] = C[i]
         /\ Append(C, r) # <<>>
  BY AppendChain DEF begins

\* What a beginning of C says, C says at its length.
LEMMA SaidBy ==
  ASSUME NEW c, NEW C, begins(c, C), c # <<>>
  PROVE  /\ Len(c) \in 1..Len(C) /\ Len(C) \in Nat
         /\ content(c) = C[Len(c)].content
         /\ seal(c) = C[Len(c)].seal
         /\ c[Len(c)] = C[Len(c)]
<1>1. Len(c) \in Nat /\ Len(C) \in Nat /\ Len(c) # 0
  BY ChainShape DEF begins
<1>2. content(c) = c[Len(c)].content /\ seal(c) = c[Len(c)].seal
  BY ChainShape DEF begins
<1> QED BY <1>1, <1>2 DEF begins

\* What the scenario lets a config say.
KnownContent(n) ==
  /\ n.group \in BOOLEAN
  /\ n.members \subseteq Devices /\ IsFiniteSet(n.members)
  /\ Range(n.owners) \subseteq n.members /\ Range(n.owners) # {}
  /\ n.departing \subseteq Range(n.owners) /\ (n.group => n.departing = {})
  /\ n.voters \subseteq n.members

\* What the assumption on scenarios says of a content.
LEMMA ContentKnown ==
  ASSUME NEW x \in Scenarios, NEW n \in x.contents \cup {x.genesis}
  PROVE  KnownContent(n)
<1>1. /\ n.group \in BOOLEAN /\ n.owners \in Seq(Devices) /\ n.owners # <<>>
      /\ Range(n.owners) \cup n.voters \subseteq n.members /\ n.members \subseteq Devices
      /\ n.departing # {} => ~ n.group /\ n.departing \subseteq Range(n.owners)
  BY ChainAssumption DEF ScenarioOK
<1>2. IsFiniteSet(n.members)
  BY <1>1, ChainAssumption, FS_Subset
<1>3. Range(n.owners) # {}
  <2>1. Len(n.owners) \in Nat /\ DOMAIN n.owners = 1..Len(n.owners) /\ Len(n.owners) # 0
    BY <1>1
  <2>2. n.owners[1] \in Range(n.owners)
    BY <2>1 DEF Range
  <2> QED BY <2>2
<1> QED BY <1>1, <1>2, <1>3 DEF KnownContent

Known(C) == \A n \in 1..Len(C) : KnownContent(C[n].content)

\* The line holds contents of the scenario.
LEMMA LineKnown ==
  ASSUME IInv, NEW C, NEW K, OnLine(C, K)
  PROVE  Known(C) /\ \A n \in 1..Len(C) : C[n].content \in scenario.contents \cup {scenario.genesis}
<1>1. PICK d \in Devices : config[d] = C
  BY DEF OnLine
<1>2. \A n \in 1..Len(C) : C[n].content \in scenario.contents \cup {scenario.genesis}
  BY <1>1 DEF IInv, GoodConfigs, goodConfig
<1> QED BY <1>2, ContentKnown DEF Known, IInv, Shape

-----------------------------------------------------------------------------
(* What stays as devices move on and the line grows.                       *)

\* No device comes to hold less.
Grow(f, g) == \A d \in Devices : Len(f[d]) \in Nat /\ Len(g[d]) \in Nat /\ Len(f[d]) <= Len(g[d])

\* Entries stay justified as configs are added, devices move on and groups decide.
LEMMA EntriesStay ==
  ASSUME NEW C, NEW K, NEW f, NEW D, Entries(C, K, f, D), Known(C),
         NEW B, begins(C, B), NEW g, Grow(f, g), NEW E, D \subseteq E
  PROVE  Entries(B, K, g, E)
<1> SUFFICES ASSUME NEW i \in 1..Len(K)
             PROVE  /\ begins(K[i].config, B) /\ level(K[i]) >= 1
                    /\ IF B[level(K[i])].content.group
                       THEN /\ K[i].author = Group
                            /\ \E x \in E : /\ x.key = [config |-> K[i].config, height |-> i]
                                            /\ x.head.config = K[i].config
                       ELSE /\ K[i].author \in Signers(B[level(K[i])].content)
                            /\ i <= Len(g[K[i].author])
  BY DEF Entries
<1>1. begins(K[i].config, C) /\ level(K[i]) >= 1
  BY DEF Entries
<1>2. begins(K[i].config, B)
  BY <1>1, BeginsThrough
<1>3. level(K[i]) \in 1..Len(C)
  BY <1>1, BeginningsCompare DEF level, begins
<1>4. B[level(K[i])] = C[level(K[i])]
  BY <1>3 DEF begins
<1>5. CASE C[level(K[i])].content.group
  BY <1>1, <1>2, <1>4, <1>5 DEF Entries
<1>6. CASE ~ C[level(K[i])].content.group
  <2> DEFINE a == K[i].author
  <2>1. a \in Signers(C[level(K[i])].content) /\ i <= Len(f[a])
    BY <1>6 DEF Entries
  <2>2. a \in Devices
    BY <1>3, <2>1 DEF Known, KnownContent, Signers
  <2>3. i <= Len(g[a])
    <3> HIDE DEF a
    <3>1. Len(f[a]) \in Nat /\ Len(g[a]) \in Nat /\ Len(f[a]) <= Len(g[a])
      BY <2>2 DEF Grow
    <3> QED BY <2>1, <3>1
  <2> QED BY <1>1, <1>2, <1>4, <1>6, <2>1, <2>3
<1> QED BY <1>5, <1>6

LEMMA SealsStay ==
  ASSUME NEW C, NEW K, NEW D, Seals(C, K, D), NEW E, D \subseteq E
  PROVE  Seals(C, K, E)
  BY DEF Seals

LEMMA TurnsStay ==
  ASSUME NEW C, IsChain(C), NEW f, Turns(C, f), Known(C), NEW g, Grow(f, g)
  PROVE  Turns(C, g)
<1>0. Len(C) \in Nat
  BY ChainShape
<1> SUFFICES ASSUME NEW n \in 1..Len(C)
             PROVE  ~ C[n].content.group /\ n < Len(C) =>
                      \A s \in Signers(C[n].content) : n < Len(g[s])
  BY DEF Turns
<1>1. Signers(C[n].content) \subseteq Devices
  BY DEF Known, KnownContent, Signers
<1>2. \A d \in Devices : n < Len(f[d]) => n < Len(g[d])
  BY <1>0 DEF Grow
<1> QED BY <1>1, <1>2 DEF Turns

\* A decision stays on the line as the line grows.
LEMMA DecidedStays ==
  ASSUME NEW C, NEW K, NEW D, Decided(C, K, D), NEW B, begins(C, B), NEW L, begins(K, L)
  PROVE  Decided(B, L, D)
<1> SUFFICES ASSUME NEW x \in D
             PROVE  /\ begins(x.head.config, B) /\ begins(x.head.checkpoint, L)
                    /\ begins(x.key.config, B)
                    /\ \/ /\ x.head.config = x.key.config
                          /\ Len(x.head.checkpoint) = x.key.height
                          /\ L[x.key.height].config = x.key.config
                       \/ /\ Len(x.head.config) = Len(x.key.config) + 1
                          /\ x.key.height = Len(x.head.checkpoint) + 1
                          /\ B[Len(x.head.config)].seal = {x.head.checkpoint}
  BY DEF Decided
<1>1. /\ begins(x.key.config, C) /\ Len(x.key.config) >= 1 /\ x.key.height \in Nat \ {0}
      /\ begins(x.head.config, C) /\ begins(x.head.checkpoint, K)
  BY DEF Decided
<1>2. begins(x.key.config, B) /\ begins(x.head.config, B) /\ begins(x.head.checkpoint, L)
  BY <1>1, BeginsThrough
<1>3. /\ Len(x.head.config) \in Nat /\ Len(x.head.config) <= Len(C)
      /\ Len(x.key.config) \in Nat /\ Len(C) \in Nat
      /\ Len(x.head.checkpoint) <= Len(K) /\ Len(K) \in Nat
  BY <1>1, ChainShape DEF begins
<1>4. x.key.height <= Len(K) => L[x.key.height] = K[x.key.height]
  BY <1>1, <1>3 DEF begins
<1>5. Len(x.head.config) >= 1 => B[Len(x.head.config)] = C[Len(x.head.config)]
  BY <1>3 DEF begins
<1>6. CASE x.head.config = x.key.config /\ Len(x.head.checkpoint) = x.key.height
           /\ K[x.key.height].config = x.key.config
  BY <1>2, <1>3, <1>4, <1>6
<1>7. CASE /\ Len(x.head.config) = Len(x.key.config) + 1
           /\ x.key.height = Len(x.head.checkpoint) + 1
           /\ C[Len(x.head.config)].seal = {x.head.checkpoint}
  BY <1>2, <1>3, <1>5, <1>7
<1> QED BY <1>6, <1>7 DEF Decided

LEMMA EndorsedStays ==
  ASSUME NEW C, NEW K, NEW E, Endorsed(C, K, E), NEW B, begins(C, B), NEW L, begins(K, L)
  PROVE  Endorsed(B, L, E)
  BY BeginsThrough DEF Endorsed

\* A record r on top of C: it seals K, or what C seals where no group controls.
LEMMA SealsLonger ==
  ASSUME NEW C, IsChain(C), C # <<>>, NEW K, IsChain(K), NEW D, Seals(C, K, D),
         \A i \in 1..Len(K) : level(K[i]) \in 0..Len(C),
         NEW r, NEW E, D \subseteq E,
         \/ r.seal = {K}
         \/ r.seal = C[Len(C)].seal /\ ~ C[Len(C)].content.group /\ ~ r.content.group,
         C[Len(C)].content.group =>
           \E x \in E : /\ x.key = [config |-> C, height |-> Len(K) + 1]
                        /\ Len(x.head.config) = Len(C) + 1
  PROVE  Seals(Append(C, r), K, E)
<1> DEFINE B == Append(C, r)
           m == Len(C)
<1>1. /\ m \in Nat \ {0} /\ Len(B) = m + 1 /\ B[m + 1] = r /\ \A i \in 1..m : B[i] = C[i]
      /\ begins(C, B) /\ Len(K) \in Nat
  BY BeginsLonger, ChainShape
<1> HIDE DEF B, m
<1>2. ASSUME NEW n \in 1..Len(B), NEW Q \in B[n].seal
      PROVE  IsChain(Q) /\ \A i \in 1..Len(Q) : level(Q[i]) \in 0..n - 1
  <2>1. CASE n # m + 1
    <3>1. n \in 1..Len(C) /\ B[n] = C[n]
      BY <1>1, <2>1 DEF m
    <3> QED BY <1>2, <3>1 DEF Seals
  <2>2. CASE n = m + 1 /\ r.seal = {K}
    BY <1>1, <1>2, <2>2 DEF m
  <2>3. CASE n = m + 1 /\ r.seal = C[m].seal
    <3>1. m \in 1..Len(C) /\ Q \in C[m].seal
      BY <1>1, <1>2, <2>3 DEF m
    <3>2. IsChain(Q) /\ \A i \in 1..Len(Q) : level(Q[i]) \in 0..m - 1
      BY <3>1 DEF Seals
    <3> QED BY <1>1, <2>3, <3>2
  <2> QED BY <2>1, <2>2, <2>3 DEF m
<1>3. ASSUME NEW n \in 2..Len(B), B[n - 1].content.group \/ B[n].content.group
      PROVE  \E Q \in B[n].seal :
               /\ B[n].seal = {Q}
               /\ begins(Q, K)
               /\ \A i \in 1..Len(K) : i <= Len(Q) <=> level(K[i]) < n
               /\ B[n - 1].content.group =>
                    \E x \in E : /\ begins(x.key.config, B) /\ Len(x.key.config) = n - 1
                                 /\ x.key = [config |-> x.key.config, height |-> Len(Q) + 1]
                                 /\ Len(x.head.config) = n
  <2>1. CASE n # m + 1
    <3>1. n \in 2..Len(C) /\ B[n] = C[n] /\ B[n - 1] = C[n - 1]
      BY <1>1, <2>1 DEF m
    <3>2. PICK Q \in C[n].seal :
               /\ C[n].seal = {Q}
               /\ begins(Q, K)
               /\ \A i \in 1..Len(K) : i <= Len(Q) <=> level(K[i]) < n
               /\ C[n - 1].content.group =>
                    \E x \in D : /\ begins(x.key.config, C) /\ Len(x.key.config) = n - 1
                                 /\ x.key = [config |-> x.key.config, height |-> Len(Q) + 1]
                                 /\ Len(x.head.config) = n
      BY <1>3, <3>1 DEF Seals
    <3>3. C[n - 1].content.group =>
                    \E x \in E : /\ begins(x.key.config, B) /\ Len(x.key.config) = n - 1
                                 /\ x.key = [config |-> x.key.config, height |-> Len(Q) + 1]
                                 /\ Len(x.head.config) = n
      BY <1>1, <3>2, BeginsThrough
    <3> QED BY <3>1, <3>2, <3>3
  <2>2. CASE n = m + 1
    <3>1. B[n] = r /\ B[n - 1] = C[m] /\ m \in 1..m
      BY <1>1, <2>2
    <3>2. r.seal = {K}
      BY <1>3, <3>1 DEF m
    <3>3. begins(K, K) /\ \A i \in 1..Len(K) : i <= Len(K) <=> level(K[i]) < n
      BY <1>1, <2>2, BeginsItself DEF m
    <3>4. C[m].content.group =>
                    \E x \in E : /\ begins(x.key.config, B) /\ Len(x.key.config) = n - 1
                                 /\ x.key = [config |-> x.key.config, height |-> Len(K) + 1]
                                 /\ Len(x.head.config) = n
      BY <1>1, <2>2 DEF m
    <3> QED BY <3>1, <3>2, <3>3, <3>4
  <2> QED BY <2>1, <2>2
<1> QED BY <1>2, <1>3 DEF Seals, B

\* An entry e on top of K, made under C.
LEMMA SealsHigher ==
  ASSUME NEW C, IsChain(C), NEW K, IsChain(K), NEW D, Seals(C, K, D),
         NEW e, e.config = C, NEW E, D \subseteq E
  PROVE  Seals(C, Append(K, e), E)
<1> DEFINE L == Append(K, e)
<1>1. /\ Len(K) \in Nat /\ Len(L) = Len(K) + 1 /\ L[Len(K) + 1] = e
      /\ \A i \in 1..Len(K) : L[i] = K[i]
      /\ begins(K, L) /\ Len(C) \in Nat
  BY BeginsLonger, ChainShape
<1> HIDE DEF L
<1>2. ASSUME NEW n \in 2..Len(C), C[n - 1].content.group \/ C[n].content.group
      PROVE  \E Q \in C[n].seal :
               /\ C[n].seal = {Q}
               /\ begins(Q, L)
               /\ \A i \in 1..Len(L) : i <= Len(Q) <=> level(L[i]) < n
               /\ C[n - 1].content.group =>
                    \E x \in E : /\ begins(x.key.config, C) /\ Len(x.key.config) = n - 1
                                 /\ x.key = [config |-> x.key.config, height |-> Len(Q) + 1]
                                 /\ Len(x.head.config) = n
  <2>1. PICK Q \in C[n].seal :
               /\ C[n].seal = {Q}
               /\ begins(Q, K)
               /\ \A i \in 1..Len(K) : i <= Len(Q) <=> level(K[i]) < n
               /\ C[n - 1].content.group =>
                    \E x \in D : /\ begins(x.key.config, C) /\ Len(x.key.config) = n - 1
                                 /\ x.key = [config |-> x.key.config, height |-> Len(Q) + 1]
                                 /\ Len(x.head.config) = n
    BY <1>2 DEF Seals
  <2>2. begins(Q, L) /\ Len(Q) \in Nat /\ Len(Q) <= Len(K)
    BY <1>1, <2>1, BeginsThrough, ChainShape DEF begins
  <2>3. \A i \in 1..Len(L) : i <= Len(Q) <=> level(L[i]) < n
    <3> SUFFICES ASSUME NEW i \in 1..Len(L) PROVE i <= Len(Q) <=> level(L[i]) < n
      OBVIOUS
    <3>1. CASE i \in 1..Len(K)
      BY <1>1, <2>1, <3>1
    <3>2. CASE i = Len(K) + 1
      BY <1>1, <2>2, <3>2 DEF level
    <3> QED BY <1>1, <3>1, <3>2
  <2>4. C[n - 1].content.group =>
                    \E x \in E : /\ begins(x.key.config, C) /\ Len(x.key.config) = n - 1
                                 /\ x.key = [config |-> x.key.config, height |-> Len(Q) + 1]
                                 /\ Len(x.head.config) = n
    BY <2>1
  <2> QED BY <2>1, <2>2, <2>3, <2>4
<1> QED BY <1>2 DEF Seals, L

\* An entry on top of K that the group of the last config decided, or its one owner signed.
LEMMA EntriesHigher ==
  ASSUME NEW C, IsChain(C), C # <<>>, NEW K, IsChain(K), NEW f, NEW D, Entries(C, K, f, D),
         NEW e, e.config = C,
         IF C[Len(C)].content.group
         THEN /\ e.author = Group
              /\ \E x \in D : /\ x.key = [config |-> C, height |-> Len(K) + 1]
                              /\ x.head.config = C
         ELSE e.author \in Signers(C[Len(C)].content) /\ Len(K) + 1 <= Len(f[e.author])
  PROVE  Entries(C, Append(K, e), f, D)
<1> DEFINE L == Append(K, e)
<1>1. /\ Len(K) \in Nat /\ Len(L) = Len(K) + 1 /\ L[Len(K) + 1] = e
      /\ \A i \in 1..Len(K) : L[i] = K[i]
      /\ begins(C, C) /\ Len(C) \in Nat \ {0}
  BY BeginsLonger, BeginsItself, ChainShape
<1> HIDE DEF L
<1> SUFFICES ASSUME NEW i \in 1..Len(L)
             PROVE  /\ begins(L[i].config, C) /\ level(L[i]) >= 1
                    /\ IF C[level(L[i])].content.group
                       THEN /\ L[i].author = Group
                            /\ \E x \in D : /\ x.key = [config |-> L[i].config, height |-> i]
                                            /\ x.head.config = L[i].config
                       ELSE /\ L[i].author \in Signers(C[level(L[i])].content)
                            /\ i <= Len(f[L[i].author])
  BY DEF Entries, L
<1>2. CASE i \in 1..Len(K)
  <2>1. L[i] = K[i]
    BY <1>1, <1>2
  <2> QED BY <1>2, <2>1 DEF Entries
<1>3. CASE i = Len(K) + 1
  <2>1. L[i] = e /\ level(e) = Len(C)
    BY <1>1, <1>3 DEF level
  <2> QED BY <1>1, <1>3, <2>1
<1> QED BY <1>1, <1>2, <1>3

\* A record on top of C, where the one owner that may sign it holds it.
LEMMA TurnsLonger ==
  ASSUME NEW C, IsChain(C), C # <<>>, NEW f, Turns(C, f), NEW r,
         ~ C[Len(C)].content.group =>
           \A s \in Signers(C[Len(C)].content) : Len(C) < Len(f[s])
  PROVE  Turns(Append(C, r), f)
<1> DEFINE B == Append(C, r)
           m == Len(C)
<1>1. m \in Nat \ {0} /\ Len(B) = m + 1 /\ B[m + 1] = r /\ \A i \in 1..m : B[i] = C[i]
  BY BeginsLonger, ChainShape
<1> HIDE DEF B
<1> SUFFICES ASSUME NEW n \in 1..Len(B)
             PROVE  ~ B[n].content.group /\ n < Len(B) =>
                      \A s \in Signers(B[n].content) : n < Len(f[s])
  BY DEF Turns, B
<1>2. CASE n = m + 1
  BY <1>1, <1>2
<1>3. CASE n = m
  BY <1>1, <1>3 DEF Turns
<1>4. CASE n < m
  <2>1. n \in 1..Len(C) /\ n < Len(C) /\ B[n] = C[n]
    BY <1>1, <1>4
  <2> HIDE DEF m
  <2> QED BY <2>1 DEF Turns
<1> QED BY <1>1, <1>2, <1>3, <1>4

-----------------------------------------------------------------------------
(* Who holds all of the line.                                              *)

\* What the other lemmas read off the invariant: where each device is on the line.
LEMMA LineShape ==
  ASSUME IInv, NEW C, NEW K, Line(C, K)
  PROVE  /\ scenario \in Scenarios
         /\ IsChain(C) /\ IsChain(K) /\ C # <<>> /\ Len(C) \in Nat \ {0} /\ Len(K) \in Nat
         /\ \A d \in Devices :
              /\ begins(config[d], C) /\ IsChain(config[d]) /\ Len(config[d]) \in 0..Len(C)
              /\ begins(checkpoint[d], K) /\ IsChain(checkpoint[d])
              /\ Len(checkpoint[d]) \in 0..Len(K)
              /\ ~ holds(d) => checkpoint[d] = <<>>
              /\ holds(d) => /\ Len(config[d]) \in 1..Len(C)
                             /\ content(config[d]) = C[Len(config[d])].content
                             /\ seal(config[d]) = C[Len(config[d])].seal
                             /\ KnownContent(content(config[d]))
              /\ \A i \in 1..Len(checkpoint[d]) : checkpoint[d][i] = K[i]
         /\ \A i \in 1..Len(K) : begins(K[i].config, C) /\ level(K[i]) \in 1..Len(C)
<1> USE DEF Line
<1>1. C # <<>> /\ \A d \in Devices : begins(config[d], C) /\ begins(checkpoint[d], K)
  BY DEF OnLine
<1>2. PICK d0 \in Devices : config[d0] = C
  BY DEF OnLine
<1>3. IsChain(C) /\ IsChain(K) /\ Len(C) \in Nat \ {0} /\ Len(K) \in Nat
  BY <1>1, <1>2, ChainShape DEF begins
<1>4. ASSUME NEW d \in Devices
      PROVE  /\ begins(config[d], C) /\ IsChain(config[d]) /\ Len(config[d]) \in 0..Len(C)
             /\ begins(checkpoint[d], K) /\ IsChain(checkpoint[d])
             /\ Len(checkpoint[d]) \in 0..Len(K)
             /\ ~ holds(d) => checkpoint[d] = <<>>
             /\ \A i \in 1..Len(checkpoint[d]) : checkpoint[d][i] = K[i]
  <2>1. Len(config[d]) \in Nat /\ Len(checkpoint[d]) \in Nat
    BY <1>1, ChainShape DEF begins
  <2>2. Len(config[d]) <= Len(C) /\ Len(checkpoint[d]) <= Len(K)
    BY <1>1 DEF begins
  <2> QED BY <1>1, <1>3, <2>1, <2>2 DEF begins, IInv, GoodCheckpoints, holds
<1>5. ASSUME NEW d \in Devices, holds(d)
      PROVE  /\ Len(config[d]) \in 1..Len(C)
             /\ content(config[d]) = C[Len(config[d])].content
             /\ seal(config[d]) = C[Len(config[d])].seal
             /\ KnownContent(content(config[d]))
  <2>1. /\ Len(config[d]) \in 1..Len(C)
        /\ content(config[d]) = C[Len(config[d])].content
        /\ seal(config[d]) = C[Len(config[d])].seal
    BY <1>1, <1>5, SaidBy DEF holds
  <2>2. Known(C)
    BY LineKnown
  <2> QED BY <2>1, <2>2 DEF Known
<1>6. ASSUME NEW i \in 1..Len(K)
      PROVE  begins(K[i].config, C) /\ level(K[i]) \in 1..Len(C)
  <2>1. begins(K[i].config, C) /\ level(K[i]) >= 1
    BY DEF Entries
  <2>2. level(K[i]) \in Nat /\ level(K[i]) <= Len(C)
    BY <2>1, ChainShape DEF begins, level
  <2> QED BY <2>1, <2>2
<1> QED BY <1>1, <1>3, <1>4, <1>5, <1>6 DEF IInv, Shape

\* The owner that may sign the next change or checkpoint of the config it holds holds
\* the whole line: no device is ahead of it.
LEMMA SignerHoldsAll ==
  ASSUME IInv, NEW C, NEW K, Line(C, K), OneSigner(scenario),
         NEW d \in Devices, holds(d), ~ IsGroupControl(config[d]),
         d \in Signers(content(config[d]))
  PROVE  config[d] = C /\ checkpoint[d] = K
<1> DEFINE n == Len(config[d])
<1>1. /\ n \in 1..Len(C) /\ content(config[d]) = C[n].content /\ begins(config[d], C)
      /\ KnownContent(content(config[d])) /\ Len(C) \in Nat /\ Len(K) \in Nat
      /\ begins(checkpoint[d], K) /\ Len(checkpoint[d]) \in 0..Len(K)
      /\ \A i \in 1..Len(K) : level(K[i]) \in 1..Len(C)
  BY LineShape
<1>2. ~ C[n].content.group
  BY <1>1 DEF IsGroupControl
<1>3. n = Len(C)
  <2>1. n < Len(C) => n < Len(config[d])
    BY <1>1, <1>2 DEF Line, Turns
  <2> QED BY <1>1, <2>1
<1>4. config[d] = C
  BY <1>1, <1>3, BeginningsCompare
<1>5. \A s : s \in Signers(C[n].content) => s = d
  <2>1. C[n].content \in scenario.contents \cup {scenario.genesis}
    BY <1>1, LineKnown DEF Line
  <2> QED BY <1>1, <1>2, <2>1 DEF OneSigner
<1>6. member(config[d], d)
  BY <1>1 DEF KnownContent, Signers, member
<1>7. ASSUME NEW i \in 1..Len(K) PROVE i <= Len(checkpoint[d])
  <2>1. CASE level(K[i]) < n
    BY <1>6, <2>1 DEF Line, UpToDate
  <2>2. CASE level(K[i]) = n
    BY <1>2, <1>5, <2>2 DEF Line, Entries
  <2> QED BY <1>1, <1>3, <2>1, <2>2
<1>8. Len(checkpoint[d]) = Len(K)
  <2>1. CASE Len(K) = 0
    BY <1>1, <2>1
  <2>2. CASE Len(K) # 0
    <3>1. Len(K) \in 1..Len(K)
      BY <1>1, <2>2
    <3> HIDE DEF n
    <3>2. Len(K) <= Len(checkpoint[d])
      BY <1>7, <3>1
    <3> QED BY <1>1, <3>2
  <2> QED BY <2>1, <2>2
<1>9. checkpoint[d] = K
  BY <1>1, <1>8, BeginningsCompare
<1> QED BY <1>4, <1>9

\* The entries of K made under a group's config were decided, each once.
LEMMA DecidedAt ==
  ASSUME IInv, NEW C, NEW K, Line(C, K), NEW i \in 1..Len(K), NEW c, begins(c, C),
         Len(c) = level(K[i]), IsGroupControl(c)
  PROVE  /\ K[i].config = c /\ K[i].author = Group
         /\ \E x \in decisions : x.key = [config |-> c, height |-> i] /\ x.head.config = c
<1>1. K[i].config = c
  BY LineShape, BeginningsCompare DEF level
<1>2. c # <<>> /\ content(c) = C[level(K[i])].content
  <2>1. level(K[i]) \in 1..Len(C)
    BY LineShape
  <2>2. c # <<>>
    BY <2>1, ChainShape DEF begins
  <2> QED BY <2>2, SaidBy
<1> QED BY <1>1, <1>2 DEF Line, Entries, IsGroupControl

\* A voter whose decision is still open for everyone holds the whole line.
LEMMA OpenForAll ==
  ASSUME IInv, NEW C, NEW K, Line(C, K), NEW d \in Devices, votes(d),
         \A x \in decisions : x.key # key(d)
  PROVE  config[d] = C /\ checkpoint[d] = K
<1> DEFINE n == Len(config[d])
           h == Len(checkpoint[d])
<1>1. /\ n \in 1..Len(C) /\ content(config[d]) = C[n].content /\ begins(config[d], C)
      /\ Len(C) \in Nat /\ Len(K) \in Nat
      /\ begins(checkpoint[d], K) /\ h \in 0..Len(K)
      /\ \A i \in 1..Len(K) : level(K[i]) \in 1..Len(C)
      /\ \A i \in 1..h : checkpoint[d][i] = K[i]
      /\ KnownContent(content(config[d])) /\ holds(d)
  BY LineShape DEF votes
<1>2. C[n].content.group /\ IsGroupControl(config[d])
  BY <1>1 DEF votes, IsGroupControl
<1>3. member(config[d], d)
  BY <1>1 DEF votes, KnownContent, member
<1>4. /\ \A i \in 1..Len(K) : level(K[i]) < n => i <= h
      /\ \A i \in 1..h : level(K[i]) <= n
  BY <1>1, <1>3 DEF Line, UpToDate
<1>5. ~ (h + 1 \in 1..Len(K) /\ level(K[h + 1]) = n)
  <2> SUFFICES ASSUME h + 1 \in 1..Len(K), level(K[h + 1]) = n PROVE FALSE
    OBVIOUS
  <2> HIDE DEF h
  <2>1. Len(config[d]) = level(K[h + 1])
    OBVIOUS
  <2>2. \E x \in decisions : x.key = [config |-> config[d], height |-> h + 1]
    BY <1>1, <1>2, <2>1, DecidedAt
  <2> QED BY <2>2 DEF key, h
<1>6. n = Len(C)
  <2> SUFFICES ASSUME n < Len(C) PROVE FALSE
    BY <1>1
  <2>1. n + 1 \in 2..Len(C) /\ (n + 1) - 1 = n
    BY <1>1
  <2>0. C[(n + 1) - 1].content.group
    BY <1>2, <2>1
  <2> HIDE DEF n
  <2>2. PICK Q \in C[n + 1].seal :
          /\ begins(Q, K)
          /\ \A i \in 1..Len(K) : i <= Len(Q) <=> level(K[i]) < n + 1
          /\ \E x \in decisions : /\ begins(x.key.config, C) /\ Len(x.key.config) = n
                                  /\ x.key = [config |-> x.key.config, height |-> Len(Q) + 1]
                                  /\ Len(x.head.config) = n + 1
    <3> DEFINE m == n + 1
    <3>1. m \in 2..Len(C) /\ C[m - 1].content.group /\ m - 1 = n
      BY <2>0, <2>1
    <3> HIDE DEF m
    <3>2. PICK Q \in C[m].seal :
          /\ begins(Q, K)
          /\ \A i \in 1..Len(K) : i <= Len(Q) <=> level(K[i]) < m
          /\ \E x \in decisions : /\ begins(x.key.config, C) /\ Len(x.key.config) = m - 1
                                  /\ x.key = [config |-> x.key.config, height |-> Len(Q) + 1]
                                  /\ Len(x.head.config) = m
      BY <3>1 DEF Line, Seals
    <3> QED BY <3>1, <3>2 DEF m
  <2> USE DEF n
  <2>3. Len(Q) \in 0..Len(K)
    BY <1>1, <2>2, BeginningsCompare DEF begins
  <2>4. CASE Len(Q) = h
    <3>1. PICK x \in decisions : /\ begins(x.key.config, C) /\ Len(x.key.config) = n
                                 /\ x.key = [config |-> x.key.config, height |-> h + 1]
      BY <2>2, <2>4
    <3>2. x.key.config = config[d]
      BY <1>1, <3>1, BeginningsCompare
    <3> QED BY <3>1, <3>2 DEF key
  <2>5. CASE Len(Q) > h
    <3>1. h + 1 \in 1..Len(K) /\ h + 1 <= Len(Q)
      BY <1>1, <2>3, <2>5
    <3>2. level(K[h + 1]) < n + 1 /\ level(K[h + 1]) \in Nat
      BY <1>1, <2>2, <3>1
    <3>3. ~ level(K[h + 1]) < n
      BY <1>1, <1>4, <3>1
    <3>4. level(K[h + 1]) = n
      BY <1>1, <3>2, <3>3
    <3> QED BY <1>5, <3>1, <3>4
  <2>6. CASE Len(Q) < h
    <3>1. Len(Q) + 1 \in 1..h /\ Len(Q) + 1 \in 1..Len(K)
      BY <1>1, <2>3, <2>6
    <3>2. level(K[Len(Q) + 1]) <= n /\ level(K[Len(Q) + 1]) \in Nat
      BY <1>1, <1>4, <3>1
    <3>3. Len(Q) + 1 <= Len(Q)
      BY <1>1, <2>2, <3>1, <3>2
    <3> QED BY <2>3, <3>3
  <2> QED BY <1>1, <2>3, <2>4, <2>5, <2>6
<1>7. h = Len(K)
  <2> SUFFICES ASSUME h < Len(K) PROVE FALSE
    BY <1>1
  <2>1. h + 1 \in 1..Len(K) /\ ~ h + 1 <= h
    BY <1>1
  <2>2. ~ level(K[h + 1]) < n /\ level(K[h + 1]) \in 1..Len(C)
    BY <1>1, <1>4, <2>1
  <2>3. level(K[h + 1]) = n
    BY <1>1, <1>6, <2>2
  <2> QED BY <1>5, <2>1, <2>3
<1> QED BY <1>1, <1>6, <1>7, BeginningsCompare

-----------------------------------------------------------------------------
(* Steps.                                                                  *)

\* What is being signed stays what its signer may sign, by whatever step.
LEMMA BackgroundStep ==
  ASSUME IInv, Background, Next, IdleHandover
  PROVE  Background'
<1> USE DEF IInv, Shape
<1>1. scenario' = scenario
  BY StepShape
<1>2. ASSUME NEW d \in Devices, NEW next \in signing'[d]
      PROVE  \E c, n, k : /\ IsChain(c) /\ c # <<>> /\ ~ IsGroupControl(c)
                          /\ next = follow(c, n, k)
                          /\ mayChange(d, content(c), n)
                          /\ n \in scenario.contents
                          /\ IF n.group THEN \E q : k = {q} ELSE k = seal(c)
  <2>1. CASE next \in signing[d]
    BY <2>1 DEF Background
  <2>2. CASE next \notin signing[d]
    <3>1. PICK a \in Devices, new \in scenario.contents : SignChange(a, new)
      BY <1>2, <2>2 DEF Next, Agree, ApplyChange, StartCheckpoint, AdoptOwn, DropOwn, Endorse,
         Decide, ImportPeerSnapshot, ImportRemoval, ImportPeerConfig, InstallInviteSnapshot,
         MergeInviteSnapshot, mergeSnapshot, background
    <3>2. a = d /\ next = follow(config[d], new, IF new.group THEN {checkpoint[d]} ELSE seal(config[d]))
      BY <1>2, <2>2, <3>1 DEF SignChange
    <3>3. IsChain(config[d]) /\ config[d] # <<>> /\ ~ IsGroupControl(config[d])
          /\ mayChange(d, content(config[d]), new)
      BY <3>1, <3>2 DEF SignChange, holds, GoodConfigs, goodConfig
    <3> QED BY <3>2, <3>3
  <2> QED BY <2>1, <2>2
<1>3. ASSUME NEW d \in Devices, config'[d] # <<>>, storing'[d] # {}
      PROVE  d \notin content(config'[d]).departing
  <2>1. CASE storing[d] # {}
    <3>1. CASE config'[d] = config[d]
      BY <1>3, <2>1, <3>1 DEF Background, holds
    <3>2. CASE config'[d] # config[d]
      BY <2>1, <3>2 DEF IdleHandover
    <3> QED BY <3>1, <3>2
  <2>2. CASE storing[d] = {}
    <3>1. PICK a \in Devices, label \in Labels : StartCheckpoint(a, label)
      BY <1>3, <2>2 DEF Next, SignChange, Agree, ApplyChange, AdoptOwn, DropOwn, Endorse,
         Decide, ImportPeerSnapshot, ImportRemoval, ImportPeerConfig, InstallInviteSnapshot,
         MergeInviteSnapshot, mergeSnapshot, background
    <3>2. a = d
      BY <1>3, <2>2, <3>1 DEF StartCheckpoint
    <3> QED BY <3>1, <3>2 DEF StartCheckpoint
  <2> QED BY <2>1, <2>2
<1> QED BY <1>1, <1>2, <1>3 DEF Background, holds

\* The signatures S of at most one peer, which every config has room for.
single(S) == S = {} \/ \E p : S = {p}

\* One signature fits in what a checkpoint may carry.
LEMMA RoomForOne ==
  ASSUME NEW n, KnownContent(n), NEW S, single(S)
  PROVE  Cardinality(S) <= Cardinality(n.members)
<1>1. Cardinality(S) = 0 \/ Cardinality(S) = 1
  BY FS_EmptySet, FS_Singleton DEF single
<1>2. Cardinality(n.members) \in Nat /\ Cardinality(n.members) # 0
  <2>1. IsFiniteSet(n.members) /\ n.members # {}
    BY DEF KnownContent
  <2> QED BY <2>1, FS_CardinalityType, FS_EmptySet
<1> QED BY <1>1, <1>2

\* A merge keeps or takes a copy that the config it takes vouches for.
LEMMA MergeVouched ==
  ASSUME IInv, NEW C, NEW K, Line(C, K), NEW a \in Devices, NEW e \in Devices,
         mergeSnapshot(a, e), holds(a), admits(e, e), admits(a, a) \/ config[a] # config[e]
  PROVE  ValidateAuthority(checkpoint'[a], signatures'[a], config'[a])
<1> DEFINE k == checkpoint[a]
           next == checkpoint[e]
           c == config[e]
<1>1. /\ begins(config[a], C) /\ begins(c, C) /\ Len(config[a]) \in 1..Len(C) /\ Len(c) \in 1..Len(C)
      /\ Len(k) \in 0..Len(K) /\ Len(next) \in 0..Len(K) /\ Len(C) \in Nat /\ Len(K) \in Nat
      /\ \A i \in 1..Len(k) : k[i] = K[i]
      /\ \A i \in 1..Len(K) : level(K[i]) \in 1..Len(C)
  BY LineShape DEF admits
<1>2. ValidateAuthority(next, signatures[e], c)
  BY DEF Line, Vouched
<1>3. /\ config'[a] = c /\ ~ refuses(k, next, signatures[e], c)
      /\ checkpoint'[a] = IF replaces(a, next, signatures[e], c) THEN next ELSE k
      /\ signatures'[a] = IF replaces(a, next, signatures[e], c) THEN signatures[e] ELSE signatures[a]
  BY DEF mergeSnapshot, adoptCheckpoint, IInv, Shape
<1>4. CASE replaces(a, next, signatures[e], c)
  BY <1>2, <1>3, <1>4
<1>5. CASE ~ replaces(a, next, signatures[e], c) /\ Len(next) = Len(k)
  <2>1. next = k
    BY <1>3, <1>5 DEF refuses
  <2>2. ValidateAuthority(k, signatures[a], c)
    BY <1>2, <1>5, <2>1 DEF replaces
  <2> QED BY <1>3, <1>5, <2>2
<1>6. CASE ~ replaces(a, next, signatures[e], c) /\ Len(next) < Len(k)
  <2>1. config[a] = c
    <3> SUFFICES ASSUME config[a] # c PROVE FALSE
      OBVIOUS
    <3>1. IsPrefix(config[a], c)
      BY DEF mergeSnapshot
    <3>2. Len(config[a]) < Len(c)
      <4>1. Len(config[a]) <= Len(c)
        BY <3>1 DEF IsPrefix
      <4>2. Len(config[a]) # Len(c)
        BY <1>1, BeginningsCompare
      <4> QED BY <1>1, <4>1, <4>2
    <3>3. Len(k) \in 1..Len(k) /\ Len(k) \in 1..Len(K)
      BY <1>1, <1>6
    <3>4. level(k[Len(k)]) <= Len(config[a])
      BY <3>3 DEF Line, UpToDate
    <3>5. k[Len(k)] = K[Len(k)]
      BY <1>1, <3>3
    <3>6. level(K[Len(k)]) < Len(c)
      BY <1>1, <3>2, <3>3, <3>4, <3>5
    <3>7. Len(k) <= Len(next)
      BY <3>3, <3>6 DEF Line, UpToDate, admits
    <3> QED BY <1>1, <1>6, <3>7
  <2>2. ValidateAuthority(k, signatures[a], c)
    BY <2>1 DEF Line, Vouched
  <2> QED BY <1>3, <1>6, <2>2
<1>7. ~ Len(next) > Len(k) \/ replaces(a, next, signatures[e], c)
  BY DEF replaces
<1> QED BY <1>1, <1>4, <1>5, <1>6, <1>7

\* The owner that applies its change leaves a checkpoint that the new config vouches
\* for, signed by itself if by nobody else.
LEMMA ChangeVouched ==
  ASSUME IInv, NEW C, NEW K, Line(C, K), NEW d \in Devices, NEW next \in signing[d],
         applies(d, next), holds(d), ~ IsGroupControl(config[d])
  PROVE  /\ ValidateAuthority(checkpoint[d], coSigned(d, next), next)
         /\ single(coSigned(d, next))
<1> DEFINE old == content(config[d])
           kept == signatures[d] \ removed(d, next)
<1>1. PICK c, n, k : /\ IsChain(c) /\ c # <<>> /\ ~ IsGroupControl(c)
                     /\ next = follow(c, n, k)
                     /\ mayChange(d, content(c), n)
                     /\ n \in scenario.contents
                     /\ IF n.group THEN \E q : k = {q} ELSE k = seal(c)
  BY DEF Line, Background
<1>2. Front(next) = c /\ content(next) = n /\ seal(next) = k
  <2> DEFINE r == [content |-> n, seal |-> k]
  <2>1. next = Append(c, r) /\ r.content = n /\ r.seal = k
    BY <1>1 DEF follow
  <2> HIDE DEF r
  <2> QED BY <1>1, <2>1, PrefixOfAppend, BeginsLonger DEF content, seal, Last
<1>3. c = config[d] /\ mayChange(d, old, n)
  BY <1>1, <1>2 DEF applies
<1>4. KnownContent(n) /\ KnownContent(old)
  BY <1>1, ContentKnown, LineShape
<1>5. admits(d, d)
  BY <1>3, <1>4 DEF mayChange, owns, KnownContent, admits, member
<1>6. single(signatures[d]) /\ ValidateAuthority(checkpoint[d], signatures[d], config[d])
  BY <1>5 DEF Line, Vouched, single
<1>7. single(kept)
  BY <1>6 DEF single
<1>8. n.group => k = {checkpoint[d]}
  BY <1>1, <1>2 DEF applies, IsGroupControl
<1>9. \A S : single(S) /\ (checkpoint[d] \in k \/ (~ n.group /\ S \cap Range(n.owners) # {}))
             => ValidateAuthority(checkpoint[d], S, next)
  BY <1>2, <1>4, RoomForOne DEF ValidateAuthority, IsGroupControl, isOwnerPeer
<1>10. checkpoint[d] \in seal(config[d]) \/ signatures[d] \cap Range(old.owners) # {}
  BY <1>6 DEF ValidateAuthority, isOwnerPeer
<1>11. checkpoint[d] \in seal(config[d]) /\ ~ n.group => checkpoint[d] \in k
  BY <1>1, <1>3
<1>12. removed(d, next) = old.members \ n.members
  BY <1>2 DEF removed
<1>13. kept # {} => ValidateAuthority(checkpoint[d], kept, next)
  <2> SUFFICES ASSUME kept # {} PROVE ValidateAuthority(checkpoint[d], kept, next)
    OBVIOUS
  <2>1. CASE checkpoint[d] \in k
    <3> HIDE DEF kept
    <3> QED BY <1>7, <1>9, <2>1
  <2>2. CASE checkpoint[d] \notin k
    <3>1. ~ n.group /\ signatures[d] \cap Range(old.owners) # {}
      BY <1>8, <1>10, <1>11, <2>2
    <3>2. PICK p : signatures[d] = {p} /\ p \in Range(old.owners) /\ p \in kept
      BY <1>6, <3>1 DEF single
    <3>3. p \in Range(n.owners)
      BY <1>3, <1>4, <1>12, <3>2 DEF mayChange, KnownContent
    <3> QED BY <1>7, <1>9, <3>1, <3>2, <3>3
  <2> QED BY <2>1, <2>2
<1>14. removed(d, next) = {} /\ kept = {} => ValidateAuthority(checkpoint[d], kept, next)
  <2> SUFFICES ASSUME removed(d, next) = {}, kept = {}
               PROVE  ValidateAuthority(checkpoint[d], kept, next)
    OBVIOUS
  <2>1. signatures[d] = {}
    OBVIOUS
  <2>2. checkpoint[d] \in k
    BY <1>8, <1>10, <1>11, <2>1
  <2> HIDE DEF kept
  <2> QED BY <1>7, <1>9, <2>2
<1>15. d \in Range(n.owners)
  BY <1>3 DEF mayChange
<1>16. single({d}) /\ ValidateAuthority(checkpoint[d], {d}, next)
  <2>1. single({d})
    BY DEF single
  <2> QED BY <1>8, <1>9, <1>15, <2>1
<1> HIDE DEF kept
<1>17. kept = {} => kept \cup {d} = {d}
  OBVIOUS
<1> QED BY <1>7, <1>13, <1>14, <1>16, <1>17 DEF coSigned, kept

\* No step takes back what a device holds.
LEMMA GrowStep ==
  ASSUME IInv, Next
  PROVE  IInv' /\ Grow(config, config') /\ Grow(checkpoint, checkpoint')
<1>1. IInv'
  BY IInvStep
<1>2. ASSUME NEW d \in Devices
      PROVE  /\ Len(config[d]) \in Nat /\ Len(config'[d]) \in Nat
             /\ Len(checkpoint[d]) \in Nat /\ Len(checkpoint'[d]) \in Nat
  BY <1>1, ChainShape DEF IInv, GoodConfigs, goodConfig, GoodCheckpoints, goodCheckpoint
<1>3. ASSUME NEW d \in Devices
      PROVE  Len(config[d]) <= Len(config'[d]) /\ Len(checkpoint[d]) <= Len(checkpoint'[d])
  BY MovesOn DEF IsPrefix
<1> QED BY <1>1, <1>2, <1>3 DEF Grow

\* A step that stays on the line keeps it.
LEMMA StaysOnLine ==
  ASSUME IInv, NEW C, NEW K, Line(C, K), Next, IdleHandover,
         \A d \in Devices : begins(config'[d], C) /\ begins(checkpoint'[d], K),
         decisions \subseteq decisions', Decided(C, K, decisions'), Endorsed(C, K, endorsed'),
         UpToDate(K)', Vouched'
  PROVE  Line(C, K)'
<1> USE DEF Line
<1>1. Grow(config, config') /\ Grow(checkpoint, checkpoint')
  BY GrowStep
<1>2. IsChain(C) /\ IsChain(K) /\ Known(C) /\ begins(C, C) /\ Len(C) \in Nat /\ Len(K) \in Nat
  BY LineShape, LineKnown, BeginsItself
<1>3. \E d \in Devices : config'[d] = C
  <2>1. PICK d \in Devices : config[d] = C
    BY DEF OnLine
  <2>2. Len(config'[d]) = Len(C)
    BY <1>1, <1>2, <2>1 DEF Grow, begins
  <2> QED BY <2>2, BeginningsCompare
<1>4. \E d \in Devices : checkpoint'[d] = K
  <2>1. PICK d \in Devices : checkpoint[d] = K
    BY DEF OnLine
  <2>2. Len(checkpoint'[d]) = Len(K)
    BY <1>1, <1>2, <2>1 DEF Grow, begins
  <2> QED BY <2>2, BeginningsCompare
<1>5. OnLine(C, K)'
  BY <1>3, <1>4 DEF OnLine, Line
<1>6. Entries(C, K, checkpoint', decisions')
  BY <1>1, <1>2, EntriesStay
<1>7. Seals(C, K, decisions') /\ Turns(C, config')
  BY <1>1, <1>2, SealsStay, TurnsStay
<1>8. Background'
  BY BackgroundStep
<1> QED BY <1>5, <1>6, <1>7, <1>8

\* A judgment continues the line where its voter stands.
LEMMA EndorseOnLine ==
  ASSUME IInv, NEW C, NEW K, Line(C, K), NEW d \in Devices, NEW head, Endorse(d, head)
  PROVE  Endorsed(C, K, endorsed')
<1> DEFINE e == [voter |-> d, key |-> key(d), head |-> head]
<1>1. endorsed' = endorsed \cup {e} /\ votes(d) /\ head \in acceptable(d)
  BY DEF Endorse
<1>2. /\ e.key.config = config[d] /\ e.key.height = Len(checkpoint[d]) + 1 /\ e.head = head
  BY DEF key
<1>3. begins(config[d], C) /\ begins(checkpoint[d], K)
  BY LineShape
<1>4. \/ \E n : head = [config |-> follow(config[d], n, {checkpoint[d]}), checkpoint |-> checkpoint[d]]
      \/ \E l : head = [config |-> config[d],
                        checkpoint |-> Append(checkpoint[d], [config |-> config[d], label |-> l,
                                                              author |-> Group])]
  BY <1>1 DEF acceptable
<1> HIDE DEF e
<1>5. /\ begins(e.key.config, C) /\ e.key.config # <<>> /\ IsGroupControl(e.key.config)
      /\ \E k : /\ begins(k, K) /\ e.key.height = Len(k) + 1
                /\ \/ \E n : e.head = [config |-> follow(e.key.config, n, {k}), checkpoint |-> k]
                   \/ \E l : e.head = [config |-> e.key.config,
                        checkpoint |-> Append(k, [config |-> e.key.config, label |-> l,
                                                  author |-> Group])]
  BY <1>1, <1>2, <1>3, <1>4 DEF votes, holds
<1> QED BY <1>1, <1>5 DEF Line, Endorsed

\* Steps that change neither what a device holds nor what was decided.
LEMMA QuietStep ==
  ASSUME IInv, NEW C, NEW K, Line(C, K), Next, IdleHandover,
         UNCHANGED <<config, checkpoint, signatures, decisions>>
  PROVE  Line(C, K)'
<1>1. \A d \in Devices : begins(config'[d], C) /\ begins(checkpoint'[d], K)
  BY DEF Line, OnLine
<1>2. Endorsed(C, K, endorsed')
  <2>1. CASE endorsed' = endorsed
    BY <2>1 DEF Line
  <2>2. CASE endorsed' # endorsed
    <3>1. PICK d \in Devices : \E head \in acceptable(d) : Endorse(d, head)
      BY <2>2 DEF Next, SignChange, Agree, ApplyChange, StartCheckpoint, AdoptOwn, DropOwn,
         Decide, ImportPeerSnapshot, ImportRemoval, ImportPeerConfig, InstallInviteSnapshot,
         MergeInviteSnapshot, mergeSnapshot, past
    <3> QED BY <3>1, EndorseOnLine
  <2> QED BY <2>1, <2>2
<1>3. UpToDate(K)' /\ Vouched'
  BY DEF Line, UpToDate, Vouched, holds, member, admits
<1>4. Decided(C, K, decisions') /\ decisions \subseteq decisions'
  BY DEF Line
<1> QED BY <1>1, <1>2, <1>3, <1>4, StaysOnLine

-----------------------------------------------------------------------------
(* Imports.                                                                *)

\* Device a comes to hold e's config, and e's checkpoint where that is higher or a
\* is a member of that config.
LEMMA ImportUpToDate ==
  ASSUME IInv, NEW C, NEW K, Line(C, K), NEW a \in Devices, NEW e \in Devices, holds(e),
         config' = [config EXCEPT ![a] = config[e]],
         \A d \in Devices \ {a} : checkpoint'[d] = checkpoint[d],
         checkpoint'[a] \in {checkpoint[a], checkpoint[e]},
         Grow(config, config'), Grow(checkpoint, checkpoint'),
         member(config[e], a) => member(config[e], e) /\ Len(checkpoint[e]) <= Len(checkpoint'[a])
  PROVE  /\ UpToDate(K)'
         /\ \A d \in Devices : begins(config'[d], C) /\ begins(checkpoint'[d], K)
<1> USE DEF IInv, Shape
<1>1. config'[a] = config[e] /\ \A d \in Devices \ {a} : config'[d] = config[d]
  OBVIOUS
<1>2. /\ \A d \in Devices : begins(config[d], C) /\ begins(checkpoint[d], K)
      /\ \A d \in Devices : Len(checkpoint[d]) \in Nat /\ Len(config[d]) \in Nat
      /\ \A d \in Devices : ~ holds(d) => checkpoint[d] = <<>>
  BY LineShape
<1>3. \A d \in Devices : begins(config'[d], C) /\ begins(checkpoint'[d], K)
  BY <1>1, <1>2
<1>4. ASSUME NEW i \in 1..Len(checkpoint'[a])
      PROVE  level(checkpoint'[a][i]) <= Len(config[e])
  <2>1. CASE checkpoint'[a] = checkpoint[e]
    BY <1>4, <2>1 DEF Line, UpToDate
  <2>2. CASE checkpoint'[a] = checkpoint[a] /\ holds(a)
    <3>1. level(checkpoint[a][i]) <= Len(config[a])
      BY <1>4, <2>2 DEF Line, UpToDate
    <3>2. Len(config[a]) <= Len(config[e]) /\ Len(config[a]) \in Nat /\ Len(config[e]) \in Nat
      BY <1>1 DEF Grow
    <3>3. level(checkpoint[a][i]) \in Nat
      <4>1. i \in 1..Len(K) /\ checkpoint[a][i] = K[i]
        BY <1>4, <2>2, LineShape
      <4> QED BY <4>1, LineShape
    <3> QED BY <2>2, <3>1, <3>2, <3>3
  <2>3. CASE checkpoint'[a] = checkpoint[a] /\ ~ holds(a)
    <3>1. checkpoint'[a] = <<>>
      BY <1>2, <2>3
    <3>2. Len(checkpoint'[a]) = 0
      BY <3>1
    <3> QED BY <1>4, <3>2
  <2> QED BY <2>1, <2>2, <2>3
<1>5. ASSUME member(config[e], a), NEW i \in 1..Len(K), level(K[i]) < Len(config[e])
      PROVE  i <= Len(checkpoint'[a])
  <2>1. i <= Len(checkpoint[e]) /\ Len(checkpoint[e]) <= Len(checkpoint'[a])
    BY <1>5 DEF Line, UpToDate
  <2> QED BY <2>1, <1>2 DEF Grow
<1>6. UpToDate(K)'
  <2> SUFFICES ASSUME NEW d \in Devices, config'[d] # <<>>
               PROVE  /\ \A i \in 1..Len(checkpoint'[d]) :
                           level(checkpoint'[d][i]) <= Len(config'[d])
                      /\ member(config'[d], d) =>
                           \A i \in 1..Len(K) : level(K[i]) < Len(config'[d]) => i <= Len(checkpoint'[d])
    BY DEF UpToDate, holds
  <2>1. CASE d = a
    BY <1>1, <1>4, <1>5, <2>1
  <2>2. CASE d # a
    BY <1>1, <2>2 DEF Line, UpToDate, holds
  <2> QED BY <2>1, <2>2
<1> QED BY <1>3, <1>6

\* Vouched stays when one device moves on to a state that is vouched for.
LEMMA VouchedAfter ==
  ASSUME Vouched, NEW a \in Devices,
         \A d \in Devices \ {a} : /\ config'[d] = config[d] /\ checkpoint'[d] = checkpoint[d]
                                  /\ signatures'[d] = signatures[d],
         single(signatures'[a]),
         config'[a] # <<>> /\ member(config'[a], a) =>
           ValidateAuthority(checkpoint'[a], signatures'[a], config'[a])
  PROVE  Vouched'
<1> SUFFICES ASSUME NEW d \in Devices
             PROVE  /\ single(signatures'[d])
                    /\ config'[d] # <<>> /\ member(config'[d], d) =>
                         ValidateAuthority(checkpoint'[d], signatures'[d], config'[d])
  BY DEF Vouched, admits, holds, single
<1>1. CASE d = a
  BY <1>1
<1>2. CASE d # a
  BY <1>2 DEF Vouched, admits, holds, single
<1> QED BY <1>1, <1>2

\* To merge a snapshot moves one device along the line.
LEMMA MergeStep ==
  ASSUME IInv, NEW C, NEW K, Line(C, K), Next, IdleHandover, NEW a \in Devices, NEW e \in Devices,
         mergeSnapshot(a, e), holds(a), admits(e, e), admits(a, a) \/ ~ member(config[a], a)
  PROVE  Line(C, K)'
<1> USE DEF IInv, Shape
<1>1. /\ config' = [config EXCEPT ![a] = config[e]]
      /\ \A d \in Devices \ {a} : checkpoint'[d] = checkpoint[d] /\ signatures'[d] = signatures[d]
      /\ checkpoint'[a] \in {checkpoint[a], checkpoint[e]}
      /\ signatures'[a] \in {signatures[a], signatures[e]}
      /\ decisions' = decisions /\ endorsed' = endorsed
  BY DEF mergeSnapshot, adoptCheckpoint, past
<1>2. Grow(config, config') /\ Grow(checkpoint, checkpoint')
  BY GrowStep
<1>3. Len(checkpoint[e]) <= Len(checkpoint'[a])
  <2>1. CASE replaces(a, checkpoint[e], signatures[e], config[e])
    <3>1. checkpoint'[a] = checkpoint[e]
      BY <2>1 DEF mergeSnapshot, adoptCheckpoint
    <3> QED BY <1>2, <3>1 DEF Grow
  <2>2. CASE ~ replaces(a, checkpoint[e], signatures[e], config[e])
    <3>1. checkpoint'[a] = checkpoint[a] /\ ~ Len(checkpoint[e]) > Len(checkpoint[a])
      BY <2>2 DEF mergeSnapshot, adoptCheckpoint, replaces
    <3>2. Len(checkpoint[e]) \in Nat /\ Len(checkpoint[a]) \in Nat
      BY <1>2 DEF Grow
    <3> QED BY <3>1, <3>2
  <2> QED BY <2>1, <2>2
<1>4. /\ UpToDate(K)'
      /\ \A d \in Devices : begins(config'[d], C) /\ begins(checkpoint'[d], K)
  BY <1>1, <1>2, <1>3, ImportUpToDate DEF admits
<1>5. single(signatures'[a])
  BY <1>1 DEF Line, Vouched, single
<1>6. config'[a] # <<>> /\ member(config'[a], a) =>
        ValidateAuthority(checkpoint'[a], signatures'[a], config'[a])
  <2> SUFFICES ASSUME member(config'[a], a)
               PROVE  ValidateAuthority(checkpoint'[a], signatures'[a], config'[a])
    OBVIOUS
  <2>1. admits(a, a) \/ config[a] # config[e]
    BY <1>1
  <2> QED BY <2>1, MergeVouched
<1>7. Vouched'
  BY <1>1, <1>5, <1>6, VouchedAfter DEF Line
<1>8. Decided(C, K, decisions') /\ decisions \subseteq decisions' /\ Endorsed(C, K, endorsed')
  BY <1>1 DEF Line
<1> QED BY <1>4, <1>7, <1>8, StaysOnLine

\* So does every import of a snapshot, of a removal or of an invitation.
LEMMA ImportStep ==
  ASSUME IInv, NEW C, NEW K, Line(C, K), Next, IdleHandover, NEW a \in Devices,
         NEW e \in Devices \ {a},
         \/ ImportPeerSnapshot(a, e) \/ ImportRemoval(a, e)
         \/ InstallInviteSnapshot(a, e) \/ MergeInviteSnapshot(a, e)
  PROVE  Line(C, K)'
<1> USE DEF IInv, Shape
<1>0. Grow(config, config') /\ Grow(checkpoint, checkpoint')
  BY GrowStep
<1>1. CASE ImportPeerSnapshot(a, e)
  BY <1>1, MergeStep DEF ImportPeerSnapshot, admits
<1>2. CASE MergeInviteSnapshot(a, e)
  BY <1>2, MergeStep DEF MergeInviteSnapshot, invited, admits
<1>3. CASE ImportRemoval(a, e)
  <2>1. /\ config' = [config EXCEPT ![a] = config[e]] /\ ~ member(config[e], a)
        /\ checkpoint' = checkpoint /\ signatures' = signatures
        /\ decisions' = decisions /\ endorsed' = endorsed
    BY <1>3 DEF ImportRemoval, adoptConfig, held, past
  <2>2. holds(e)
    <3>1. Len(config[a]) <= Len(config[e]) /\ holds(a)
      BY <1>3 DEF ImportRemoval, IsStrictPrefix, IsPrefix
    <3>2. Len(config[a]) >= 1
      BY <3>1, LineShape
    <3>3. Len(<<>>) = 0
      OBVIOUS
    <3> QED BY <3>1, <3>2, <3>3 DEF holds
  <2>3. /\ UpToDate(K)'
        /\ \A d \in Devices : begins(config'[d], C) /\ begins(checkpoint'[d], K)
    BY <1>0, <2>1, <2>2, ImportUpToDate
  <2>4. single(signatures'[a]) /\ ~ member(config'[a], a)
    BY <2>1 DEF Line, Vouched, single
  <2>5. Vouched'
    BY <2>1, <2>4, VouchedAfter DEF Line
  <2>6. Decided(C, K, decisions') /\ decisions \subseteq decisions' /\ Endorsed(C, K, endorsed')
    BY <2>1 DEF Line
  <2> QED BY <2>3, <2>5, <2>6, StaysOnLine
<1>4. CASE InstallInviteSnapshot(a, e)
  <2>1. /\ config' = [config EXCEPT ![a] = config[e]] /\ admits(e, a)
        /\ ValidateAuthority(checkpoint[e], signatures[e], config[e])
        /\ checkpoint' = [checkpoint EXCEPT ![a] = checkpoint[e]]
        /\ signatures' = [signatures EXCEPT ![a] = signatures[e]]
        /\ decisions' = decisions /\ endorsed' = endorsed
    BY <1>4 DEF InstallInviteSnapshot, invited, past
  <2>2. holds(e) /\ member(config[e], e) /\ Len(checkpoint[e]) <= Len(checkpoint'[a])
    BY <1>0, <2>1 DEF admits, Grow
  <2>3. /\ UpToDate(K)'
        /\ \A d \in Devices : begins(config'[d], C) /\ begins(checkpoint'[d], K)
    BY <1>0, <2>1, <2>2, ImportUpToDate
  <2>4. single(signatures'[a])
    BY <2>1 DEF Line, Vouched, single
  <2>5. Vouched'
    BY <2>1, <2>4, VouchedAfter DEF Line
  <2>6. Decided(C, K, decisions') /\ decisions \subseteq decisions' /\ Endorsed(C, K, endorsed')
    BY <2>1 DEF Line
  <2> QED BY <2>3, <2>5, <2>6, StaysOnLine
<1> QED BY <1>1, <1>2, <1>3, <1>4

-----------------------------------------------------------------------------
(* The line grows.                                                         *)

\* Device d, which holds all of it, adds the record r.
LEMMA NewRecord ==
  ASSUME IInv, NEW C, NEW K, Line(C, K), Next, IdleHandover, NEW d \in Devices,
         config[d] = C, checkpoint[d] = K, NEW r, NEW B, B = Append(C, r),
         config' = [config EXCEPT ![d] = B], checkpoint' = checkpoint, endorsed' = endorsed,
         decisions \subseteq decisions', Decided(B, K, decisions'), Vouched',
         \/ r.seal = {K}
         \/ r.seal = C[Len(C)].seal /\ ~ C[Len(C)].content.group /\ ~ r.content.group,
         C[Len(C)].content.group =>
           \E x \in decisions' : /\ x.key = [config |-> C, height |-> Len(K) + 1]
                                 /\ Len(x.head.config) = Len(C) + 1,
         ~ C[Len(C)].content.group => Signers(C[Len(C)].content) \subseteq {d}
  PROVE  Line(B, K)'
<1> USE DEF Line, IInv, Shape
<1>1. Grow(config, config') /\ Grow(checkpoint, checkpoint')
  BY GrowStep
<1>2. /\ IsChain(C) /\ IsChain(K) /\ C # <<>> /\ Len(C) \in Nat \ {0} /\ Len(K) \in Nat /\ Known(C)
      /\ \A i \in 1..Len(K) : level(K[i]) \in 1..Len(C)
      /\ \A e \in Devices : begins(config[e], C) /\ begins(checkpoint[e], K)
      /\ \A e \in Devices : Len(config[e]) \in 0..Len(C)
  BY LineShape, LineKnown
<1>3. IsChain(B) /\ begins(C, B) /\ B # <<>> /\ Len(B) = Len(C) + 1 /\ B[1] = C[1]
  BY <1>2, BeginsLonger
<1>4. config'[d] = B /\ \A e \in Devices \ {d} : config'[e] = config[e]
  OBVIOUS
<1>5. OnLine(B, K)'
  <2>1. \A e \in Devices : begins(config'[e], B) /\ begins(checkpoint'[e], K)
    BY <1>2, <1>3, <1>4, BeginsThrough, BeginsItself
  <2>2. ~ B[1].content.group
    BY <1>3 DEF OnLine
  <2> QED BY <1>3, <1>4, <2>1, <2>2 DEF OnLine
<1>6. Entries(B, K, checkpoint', decisions')
  BY <1>1, <1>2, <1>3, EntriesStay
<1>7. Seals(B, K, decisions')
  <2>1. \A i \in 1..Len(K) : level(K[i]) \in 0..Len(C)
    BY <1>2
  <2> QED BY <1>2, <2>1, SealsLonger
<1>8. Turns(B, config')
  <2>1. Turns(C, config')
    BY <1>1, <1>2, TurnsStay
  <2>2. ~ C[Len(C)].content.group =>
           \A s \in Signers(C[Len(C)].content) : Len(C) < Len(config'[s])
    BY <1>2, <1>3, <1>4
  <2> QED BY <1>2, <2>1, <2>2, TurnsLonger
<1>9. Endorsed(B, K, endorsed')
  BY <1>2, <1>3, BeginsItself, EndorsedStays
<1>10. UpToDate(K)'
  <2> SUFFICES ASSUME NEW e \in Devices, config'[e] # <<>>
               PROVE  /\ \A i \in 1..Len(checkpoint[e]) :
                           level(checkpoint[e][i]) <= Len(config'[e])
                      /\ member(config'[e], e) =>
                           \A i \in 1..Len(K) : level(K[i]) < Len(config'[e]) => i <= Len(checkpoint[e])
    BY DEF UpToDate, holds
  <2>1. CASE e = d
    BY <1>2, <1>3, <1>4, <2>1
  <2>2. CASE e # d
    BY <1>4, <2>2 DEF UpToDate, holds
  <2> QED BY <2>1, <2>2
<1>11. Background'
  BY BackgroundStep
<1> QED BY <1>5, <1>6, <1>7, <1>8, <1>9, <1>10, <1>11

\* Device d, which holds all of it, adds the entry r to the checkpoint.
LEMMA NewEntry ==
  ASSUME IInv, NEW C, NEW K, Line(C, K), Next, IdleHandover, NEW d \in Devices,
         config[d] = C, checkpoint[d] = K, NEW r, NEW L, L = Append(K, r), r.config = C,
         config' = config, checkpoint' = [checkpoint EXCEPT ![d] = L], endorsed' = endorsed,
         decisions \subseteq decisions', Decided(C, L, decisions'), Vouched',
         IF C[Len(C)].content.group
         THEN /\ r.author = Group
              /\ \E x \in decisions' : /\ x.key = [config |-> C, height |-> Len(K) + 1]
                                       /\ x.head.config = C
         ELSE r.author \in Signers(C[Len(C)].content) /\ r.author = d
  PROVE  Line(C, L)'
<1> USE DEF Line, IInv, Shape
<1>1. Grow(config, config') /\ Grow(checkpoint, checkpoint')
  BY GrowStep
<1>2. /\ IsChain(C) /\ IsChain(K) /\ C # <<>> /\ Len(C) \in Nat \ {0} /\ Len(K) \in Nat /\ Known(C)
      /\ \A i \in 1..Len(K) : level(K[i]) \in 1..Len(C)
      /\ \A e \in Devices : begins(config[e], C) /\ begins(checkpoint[e], K)
      /\ \A e \in Devices : Len(config[e]) \in 0..Len(C) /\ Len(checkpoint[e]) \in 0..Len(K)
  BY LineShape, LineKnown
<1>3. /\ IsChain(L) /\ begins(K, L) /\ Len(L) = Len(K) + 1 /\ L[Len(K) + 1] = r
      /\ \A i \in 1..Len(K) : L[i] = K[i]
  BY <1>2, BeginsLonger
<1>4. checkpoint'[d] = L /\ \A e \in Devices \ {d} : checkpoint'[e] = checkpoint[e]
  OBVIOUS
<1>5. OnLine(C, L)'
  <2>1. \A e \in Devices : begins(config'[e], C) /\ begins(checkpoint'[e], L)
    BY <1>2, <1>3, <1>4, BeginsThrough, BeginsItself
  <2>2. ~ C[1].content.group
    BY DEF OnLine
  <2> QED BY <1>2, <1>4, <2>1, <2>2 DEF OnLine
<1>6. Entries(C, L, checkpoint', decisions')
  <2>1. Entries(C, K, checkpoint', decisions')
    BY <1>1, <1>2, BeginsItself, EntriesStay
  <2>2. Len(K) + 1 <= Len(checkpoint'[d])
    BY <1>2, <1>3, <1>4
  <2> QED BY <1>2, <2>1, <2>2, EntriesHigher
<1>7. Seals(C, L, decisions')
  BY <1>2, SealsHigher
<1>8. Turns(C, config') /\ Endorsed(C, L, endorsed')
  BY <1>2, <1>3, BeginsItself, EndorsedStays
<1>9. UpToDate(L)'
  <2> SUFFICES ASSUME NEW e \in Devices, holds(e)
               PROVE  /\ \A i \in 1..Len(checkpoint'[e]) :
                           level(checkpoint'[e][i]) <= Len(config[e])
                      /\ member(config[e], e) =>
                           \A i \in 1..Len(L) : level(L[i]) < Len(config[e]) => i <= Len(checkpoint'[e])
    BY DEF UpToDate, holds
  <2>1. ASSUME NEW i \in 1..Len(L) PROVE (i \in 1..Len(K) /\ L[i] = K[i]) \/ level(L[i]) = Len(C)
    BY <1>2, <1>3, <2>1 DEF level
  <2>2. CASE e = d
    BY <1>2, <1>3, <1>4, <2>1, <2>2
  <2>3. CASE e # d
    BY <1>2, <1>4, <2>1, <2>3 DEF UpToDate
  <2> QED BY <2>2, <2>3
<1>10. Background'
  BY BackgroundStep
<1> QED BY <1>5, <1>6, <1>7, <1>8, <1>9, <1>10

\* Only the one signer applies a change, and it applies it to the whole line.
LEMMA ApplyStep ==
  ASSUME IInv, NEW C, NEW K, Line(C, K), Next, IdleHandover, OneSigner(scenario),
         NEW d \in Devices, ApplyChange(d)
  PROVE  \E B : begins(C, B) /\ Line(B, K)'
<1> USE DEF IInv, Shape
<1>1. PICK next \in signing[d] :
        IF applies(d, next)
        THEN adoptConfig(d, next) /\ signatures' = [signatures EXCEPT ![d] = coSigned(d, next)]
        ELSE UNCHANGED <<config, agreements, signatures>>
  BY DEF ApplyChange
<1>2. checkpoint' = checkpoint /\ decisions' = decisions /\ endorsed' = endorsed
  BY DEF ApplyChange, past
<1>3. CASE ~ applies(d, next)
  <2>1. Line(C, K)'
    BY <1>1, <1>2, <1>3, QuietStep
  <2>2. begins(C, C)
    BY LineShape, BeginsItself
  <2> QED BY <2>1, <2>2
<1>4. CASE applies(d, next)
  <2>1. PICK c, n, k : /\ IsChain(c) /\ c # <<>> /\ ~ IsGroupControl(c)
                       /\ next = follow(c, n, k)
                       /\ mayChange(d, content(c), n)
                       /\ n \in scenario.contents
                       /\ IF n.group THEN \E q : k = {q} ELSE k = seal(c)
    BY DEF Line, Background
  <2> DEFINE r == [content |-> n, seal |-> k]
  <2>2. next = Append(c, r) /\ r.content = n /\ r.seal = k
    BY <2>1 DEF follow
  <2> HIDE DEF r
  <2>3. Front(next) = c /\ content(next) = n /\ seal(next) = k
    BY <2>1, <2>2, PrefixOfAppend, BeginsLonger DEF content, seal, Last
  <2>4. c = config[d] /\ holds(d) /\ ~ IsGroupControl(config[d])
        /\ d \in Signers(content(config[d]))
    BY <1>4, <2>1, <2>3 DEF applies, holds, mayChange, owns, Signers
  <2>5. config[d] = C /\ checkpoint[d] = K
    BY <2>4, SignerHoldsAll
  <2>6. content(C) = C[Len(C)].content /\ seal(C) = C[Len(C)].seal /\ Len(C) \in 1..Len(C)
    BY LineShape, ChainShape
  <2>7. config' = [config EXCEPT ![d] = next]
        /\ signatures' = [signatures EXCEPT ![d] = coSigned(d, next)]
    BY <1>1, <1>4 DEF adoptConfig
  <2>8. ValidateAuthority(checkpoint[d], coSigned(d, next), next) /\ single(coSigned(d, next))
    BY <1>4, <2>4, ChangeVouched
  <2>9. Vouched'
    BY <1>2, <2>7, <2>8, VouchedAfter DEF Line
  <2>10. \/ r.seal = {K}
         \/ r.seal = C[Len(C)].seal /\ ~ C[Len(C)].content.group /\ ~ r.content.group
    <3>1. n.group => checkpoint[d] \in k
      BY <1>4, <2>3 DEF applies, IsGroupControl
    <3> QED BY <2>1, <2>2, <2>4, <2>5, <2>6, <3>1 DEF IsGroupControl
  <2>11. ~ C[Len(C)].content.group
    BY <2>4, <2>5, <2>6 DEF IsGroupControl
  <2>12. Signers(C[Len(C)].content) \subseteq {d}
    <3>1. C[Len(C)].content \in scenario.contents \cup {scenario.genesis}
      BY <2>6, LineKnown DEF Line
    <3> QED BY <2>4, <2>5, <2>6, <2>11, <3>1 DEF OneSigner
  <2>13. Decided(next, K, decisions')
    BY <1>2, <2>2, <2>4, <2>5, LineShape, BeginsLonger, BeginsItself, DecidedStays DEF Line
  <2>14. PICK B : B = next
    OBVIOUS
  <2>15. Line(B, K)'
    BY <1>2, <2>2, <2>4, <2>5, <2>7, <2>9, <2>10, <2>11, <2>12, <2>13, <2>14, NewRecord
  <2>16. begins(C, B)
    BY <2>2, <2>4, <2>5, <2>14, LineShape, BeginsLonger
  <2> QED BY <2>15, <2>16
<1> QED BY <1>3, <1>4

\* The checkpoint d would sign is not one that its config seals.
LEMMA OwnNotSealed ==
  ASSUME IInv, NEW C, NEW K, Line(C, K), NEW d \in Devices, holds(d), NEW label
  PROVE  /\ own(d, label) \notin seal(config[d])
         /\ own(d, label) = Append(checkpoint[d], [config |-> config[d], label |-> label, author |-> d])
         /\ Last(own(d, label)) = [config |-> config[d], label |-> label, author |-> d]
<1> DEFINE r == [config |-> config[d], label |-> label, author |-> d]
<1>1. own(d, label) = Append(checkpoint[d], r) /\ r.config = config[d]
  BY DEF own
<1> HIDE DEF r
<1>2. /\ IsChain(checkpoint[d]) /\ Len(config[d]) \in 1..Len(C) /\ Len(C) \in Nat
      /\ seal(config[d]) = C[Len(config[d])].seal
  BY LineShape
<1>3. /\ Len(own(d, label)) = Len(checkpoint[d]) + 1 /\ Len(checkpoint[d]) \in Nat
      /\ own(d, label)[Len(checkpoint[d]) + 1] = r
  BY <1>1, <1>2, BeginsLonger
<1>4. Last(own(d, label)) = r
  BY <1>3 DEF Last
<1>5. own(d, label) \notin seal(config[d])
  <2> DEFINE Q == own(d, label)
             n == Len(config[d])
  <2> SUFFICES ASSUME Q \in C[n].seal PROVE FALSE
    BY <1>2
  <2> HIDE DEF Q
  <2>1. \A i \in 1..Len(Q) : level(Q[i]) \in 0..n - 1
    BY <1>2 DEF Line, Seals
  <2>2. Len(Q) \in 1..Len(Q) /\ Q[Len(Q)] = r
    BY <1>3 DEF Q
  <2>3. level(r) \in 0..n - 1
    BY <2>1, <2>2
  <2> QED BY <1>1, <1>2, <2>3 DEF level
<1> QED BY <1>1, <1>4, <1>5 DEF r

\* Only the one signer adopts a checkpoint it stored, and it is the next on the line.
LEMMA OwnStep ==
  ASSUME IInv, NEW C, NEW K, Line(C, K), Next, IdleHandover, OneSigner(scenario),
         NEW d \in Devices, AdoptOwn(d)
  PROVE  \E L : begins(K, L) /\ Line(C, L)'
<1> USE DEF IInv, Shape
<1>1. PICK work \in storing[d] : /\ current(d, work)
                                 /\ checkpoint' = [checkpoint EXCEPT ![d] = own(d, work.label)]
                                 /\ signatures' = [signatures EXCEPT ![d] = {d}]
  BY DEF AdoptOwn
<1>2. config' = config /\ decisions' = decisions /\ endorsed' = endorsed
  BY DEF AdoptOwn, past
<1>3. holds(d) /\ storing[d] # {}
  BY DEF GoodStoring
<1> DEFINE r == [config |-> config[d], label |-> work.label, author |-> d]
<1>4. /\ own(d, work.label) \notin seal(config[d])
      /\ own(d, work.label) = Append(checkpoint[d], r)
      /\ Last(own(d, work.label)) = r
  BY <1>3, OwnNotSealed
<1>5. r.config = config[d] /\ r.author = d
  OBVIOUS
<1> HIDE DEF r
<1>6. ~ IsGroupControl(config[d]) /\ d \in Range(content(config[d]).owners)
  <2>1. ValidateAuthority(own(d, work.label), {d}, config[d])
    BY <1>1 DEF current
  <2> QED BY <1>4, <1>5, <2>1, ChainAssumption DEF ValidateAuthority, isOwnerPeer
<1>7. d \in Signers(content(config[d]))
  BY <1>3, <1>6 DEF Line, Background, Signers
<1>8. config[d] = C /\ checkpoint[d] = K
  BY <1>3, <1>6, <1>7, SignerHoldsAll
<1>9. content(C) = C[Len(C)].content
  BY LineShape, ChainShape
<1>10. PICK L : L = own(d, work.label)
  OBVIOUS
<1>11. Decided(C, L, decisions')
  BY <1>2, <1>4, <1>8, <1>10, LineShape, BeginsLonger, BeginsItself, DecidedStays DEF Line
<1>12. Vouched'
  <2>1. single({d})
    BY DEF single
  <2>2. ValidateAuthority(own(d, work.label), {d}, config[d])
    BY <1>1 DEF current
  <2> QED BY <1>1, <1>2, <2>1, <2>2, VouchedAfter DEF Line
<1>13. Line(C, L)'
  BY <1>1, <1>2, <1>4, <1>5, <1>6, <1>7, <1>8, <1>9, <1>10, <1>11, <1>12, NewEntry
     DEF IsGroupControl
<1>14. begins(K, L)
  BY <1>4, <1>8, <1>10, LineShape, BeginsLonger
<1> QED BY <1>13, <1>14

-----------------------------------------------------------------------------
(* Decisions.                                                              *)

\* What a group decides continues what the voter that applies it holds.
LEMMA DecidedForms ==
  ASSUME IInv, NEW C, NEW K, Line(C, K), NEW d \in Devices, NEW head, Decide(d, head)
  PROVE  \/ \E n : head = [config |-> follow(config[d], n, {checkpoint[d]}),
                           checkpoint |-> checkpoint[d]]
         \/ \E l : head = [config |-> config[d],
                           checkpoint |-> Append(checkpoint[d], [config |-> config[d], label |-> l,
                                                                 author |-> Group])]
<1>1. HasQuorum(endorsersOf(d, head), config[d]) /\ holds(d)
  BY DEF Decide, votes
<1>2. endorsersOf(d, head) # {}
  BY <1>1, HeldContent, QuorumHasMember
<1>3. PICK e \in endorsed : keyOf(d, e) /\ e.head = head
  BY <1>2 DEF endorsersOf
<1>4. e.key.config = config[d] /\ e.key.height = Len(checkpoint[d]) + 1
  BY <1>3 DEF keyOf, key
<1>5. PICK k : /\ begins(k, K) /\ e.key.height = Len(k) + 1
               /\ \/ \E n : e.head = [config |-> follow(e.key.config, n, {k}), checkpoint |-> k]
                  \/ \E l : e.head = [config |-> e.key.config,
                       checkpoint |-> Append(k, [config |-> e.key.config, label |-> l,
                                                 author |-> Group])]
  BY DEF Line, Endorsed
<1>6. k = checkpoint[d]
  <2>1. begins(checkpoint[d], K)
    BY LineShape
  <2>2. Len(k) \in Nat /\ Len(checkpoint[d]) \in Nat
    BY <1>5, <2>1, BeginningsCompare
  <2>3. Len(k) = Len(checkpoint[d])
    BY <1>4, <1>5, <2>2
  <2> QED BY <1>5, <2>1, <2>3, BeginningsCompare
<1> QED BY <1>3, <1>4, <1>5, <1>6

\* A single signature never outnumbers the members of a config that is held.
LEMMA RoomAfter ==
  ASSUME IInv, Next, NEW d \in Devices, config'[d] # <<>>, NEW S, single(S)
  PROVE  Cardinality(S) <= Cardinality(content(config'[d]).members)
<1>1. IInv' /\ scenario' \in Scenarios
  BY GrowStep DEF IInv, Shape
<1>2. IsChain(config'[d])
      /\ \A i \in 1..Len(config'[d]) : config'[d][i].content \in scenario'.contents \cup {scenario'.genesis}
  BY <1>1 DEF IInv, GoodConfigs, goodConfig
<1>3. Len(config'[d]) \in 1..Len(config'[d]) /\ content(config'[d]) = config'[d][Len(config'[d])].content
  BY <1>2, ChainShape
<1> QED BY <1>1, <1>2, <1>3, ContentKnown, RoomForOne

\* The decided head that d applies, and what d holds then.
LEMMA DecideEffect ==
  ASSUME IInv, NEW C, NEW K, Line(C, K), Next, NEW d \in Devices, NEW head, Decide(d, head)
  PROVE  /\ votes(d) /\ endorsed' = endorsed
         /\ decisions' = decisions \cup {[key |-> key(d), head |-> head]}
         /\ \A x \in decisions : x.key = key(d) => x.head = head
         /\ Vouched'
         /\ \/ \E n : /\ head.config = Append(config[d], [content |-> n, seal |-> {checkpoint[d]}])
                      /\ head.checkpoint = checkpoint[d]
                      /\ config' = [config EXCEPT ![d] = head.config]
                      /\ checkpoint' = checkpoint
            \/ \E l : /\ head.config = config[d]
                      /\ head.checkpoint = Append(checkpoint[d], [config |-> config[d], label |-> l,
                                                                  author |-> Group])
                      /\ config' = config
                      /\ checkpoint' = [checkpoint EXCEPT ![d] = head.checkpoint]
<1> USE DEF IInv, Shape
<1>1. /\ votes(d) /\ endorsed' = endorsed
      /\ decisions' = decisions \cup {[key |-> key(d), head |-> head]}
      /\ \A x \in decisions : x.key = key(d) => x.head = head
  BY DEF Decide
<1>2. IsChain(config[d]) /\ IsChain(checkpoint[d]) /\ holds(d) /\ IsGroupControl(config[d])
  BY <1>1, LineShape DEF votes
<1>3. ASSUME NEW n, head = [config |-> follow(config[d], n, {checkpoint[d]}),
                            checkpoint |-> checkpoint[d]]
      PROVE  /\ Vouched'
             /\ head.config = Append(config[d], [content |-> n, seal |-> {checkpoint[d]}])
             /\ head.checkpoint = checkpoint[d]
             /\ config' = [config EXCEPT ![d] = head.config]
             /\ checkpoint' = checkpoint
  <2> DEFINE r == [content |-> n, seal |-> {checkpoint[d]}]
  <2>1. head.config = Append(config[d], r) /\ head.checkpoint = checkpoint[d]
        /\ r.seal = {checkpoint[d]}
    BY <1>3 DEF follow
  <2> HIDE DEF r
  <2>2. /\ Len(head.config) = Len(config[d]) + 1 /\ Len(config[d]) \in Nat
        /\ head.config[Len(config[d]) + 1] = r /\ head.config # <<>>
    BY <1>2, <2>1, BeginsLonger
  <2>3. head.config # config[d] /\ seal(head.config) = {checkpoint[d]}
    BY <2>1, <2>2 DEF seal, Last
  <2>4. config' = [config EXCEPT ![d] = head.config] /\ checkpoint' = checkpoint
        /\ signatures' = signatures
    BY <2>3 DEF Decide, adoptConfig, held
  <2>5. single(signatures[d])
    BY DEF Line, Vouched, single
  <2>6. Cardinality(signatures[d]) <= Cardinality(content(config'[d]).members)
    BY <2>2, <2>4, <2>5, RoomAfter
  <2>7. ValidateAuthority(checkpoint'[d], signatures'[d], config'[d])
    BY <2>3, <2>4, <2>6 DEF ValidateAuthority
  <2>8. Vouched'
    BY <2>4, <2>5, <2>7, VouchedAfter DEF Line
  <2> QED BY <2>1, <2>4, <2>8 DEF r
<1>4. ASSUME NEW l, head = [config |-> config[d],
                            checkpoint |-> Append(checkpoint[d], [config |-> config[d], label |-> l,
                                                                  author |-> Group])]
      PROVE  /\ Vouched'
             /\ head.config = config[d]
             /\ head.checkpoint = Append(checkpoint[d], [config |-> config[d], label |-> l,
                                                         author |-> Group])
             /\ config' = config
             /\ checkpoint' = [checkpoint EXCEPT ![d] = head.checkpoint]
  <2> DEFINE r == [config |-> config[d], label |-> l, author |-> Group]
  <2>1. head.config = config[d] /\ head.checkpoint = Append(checkpoint[d], r)
        /\ r.config = config[d] /\ r.author = Group
    BY <1>4
  <2> HIDE DEF r
  <2>2. /\ Len(head.checkpoint) = Len(checkpoint[d]) + 1 /\ Len(checkpoint[d]) \in Nat
        /\ head.checkpoint[Len(checkpoint[d]) + 1] = r /\ head.checkpoint # <<>>
    BY <1>2, <2>1, BeginsLonger
  <2>3. replaces(d, head.checkpoint, {}, config[d]) /\ Last(head.checkpoint) = r
    BY <2>2 DEF replaces, Last
  <2>4. config' = config /\ checkpoint' = [checkpoint EXCEPT ![d] = head.checkpoint]
        /\ signatures' = [signatures EXCEPT ![d] = {}]
    BY <2>1, <2>3 DEF Decide, adoptCheckpoint
  <2>5. single({})
    BY DEF single
  <2>6. Cardinality({}) <= Cardinality(content(config'[d]).members)
    BY <1>2, <2>4, <2>5, RoomAfter DEF holds
  <2>7. ValidateAuthority(checkpoint'[d], signatures'[d], config'[d])
    BY <1>2, <2>1, <2>2, <2>3, <2>4, <2>6 DEF ValidateAuthority
  <2>8. Vouched'
    BY <2>4, <2>5, <2>7, VouchedAfter DEF Line
  <2> QED BY <2>1, <2>4, <2>8 DEF r
<1>5. CASE \E n : head = [config |-> follow(config[d], n, {checkpoint[d]}),
                          checkpoint |-> checkpoint[d]]
  <2>1. PICK n : head = [config |-> follow(config[d], n, {checkpoint[d]}),
                         checkpoint |-> checkpoint[d]]
    BY <1>5
  <2>2. /\ Vouched'
        /\ head.config = Append(config[d], [content |-> n, seal |-> {checkpoint[d]}])
        /\ head.checkpoint = checkpoint[d]
        /\ config' = [config EXCEPT ![d] = head.config]
        /\ checkpoint' = checkpoint
    BY <1>3, <2>1
  <2> QED BY <1>1, <2>2
<1>6. CASE \E l : head = [config |-> config[d],
                          checkpoint |-> Append(checkpoint[d], [config |-> config[d], label |-> l,
                                                                author |-> Group])]
  <2>1. PICK l : head = [config |-> config[d],
                         checkpoint |-> Append(checkpoint[d], [config |-> config[d], label |-> l,
                                                               author |-> Group])]
    BY <1>6
  <2>2. /\ Vouched'
        /\ head.config = config[d]
        /\ head.checkpoint = Append(checkpoint[d], [config |-> config[d], label |-> l,
                                                    author |-> Group])
        /\ config' = config
        /\ checkpoint' = [checkpoint EXCEPT ![d] = head.checkpoint]
    BY <1>4, <2>1
  <2> QED BY <1>1, <2>2
<1> QED BY <1>5, <1>6, DecidedForms

\* A decision that agrees with those of its key may be added.
LEMMA DecidedAdd ==
  ASSUME NEW C, NEW K, NEW D, Decided(C, K, D), NEW y,
         /\ begins(y.key.config, C) /\ Len(y.key.config) >= 1
         /\ y.key.height \in Nat \ {0}
         /\ begins(y.head.config, C) /\ begins(y.head.checkpoint, K)
         /\ \/ /\ y.head.config = y.key.config
               /\ Len(y.head.checkpoint) = y.key.height
               /\ K[y.key.height].config = y.key.config
            \/ /\ Len(y.head.config) = Len(y.key.config) + 1
               /\ y.key.height = Len(y.head.checkpoint) + 1
               /\ C[Len(y.head.config)].seal = {y.head.checkpoint},
         \A x \in D : x.key = y.key => x.head = y.head
  PROVE  Decided(C, K, D \cup {y})
  BY DEF Decided

\* Another voter applied the decision before: d takes what the line has.
LEMMA DecideAgain ==
  ASSUME IInv, NEW C, NEW K, Line(C, K), Next, IdleHandover, NEW d \in Devices, NEW head,
         Decide(d, head), NEW x \in decisions, x.key = key(d)
  PROVE  Line(C, K)'
<1> USE DEF IInv, Shape
<1> DEFINE y == [key |-> key(d), head |-> head]
           n == Len(config[d])
<1>1. /\ votes(d) /\ endorsed' = endorsed /\ decisions' = decisions \cup {y}
      /\ x.head = head /\ Vouched'
      /\ \A z \in decisions : z.key = key(d) => z.head = head
  BY DecideEffect
<1>2. y.key = x.key /\ y.head = x.head
  BY <1>1
<1>3. Decided(C, K, decisions')
  <2> HIDE DEF y
  <2>1. \A z \in decisions : z.key = y.key => z.head = y.head
    BY <1>1, <1>2
  <2>2. /\ begins(y.key.config, C) /\ Len(y.key.config) >= 1
        /\ y.key.height \in Nat \ {0}
        /\ begins(y.head.config, C) /\ begins(y.head.checkpoint, K)
        /\ \/ /\ y.head.config = y.key.config
              /\ Len(y.head.checkpoint) = y.key.height
              /\ K[y.key.height].config = y.key.config
           \/ /\ Len(y.head.config) = Len(y.key.config) + 1
              /\ y.key.height = Len(y.head.checkpoint) + 1
              /\ C[Len(y.head.config)].seal = {y.head.checkpoint}
    BY <1>2 DEF Line, Decided
  <2> QED BY <1>1, <2>1, <2>2, DecidedAdd DEF Line
<1>4. /\ begins(head.config, C) /\ begins(head.checkpoint, K)
      /\ \/ head.config = config[d]
         \/ /\ Len(head.config) = n + 1
            /\ C[Len(head.config)].seal = {head.checkpoint}
  <2>1. x.key.config = config[d]
    BY DEF key
  <2>2. /\ begins(x.head.config, C) /\ begins(x.head.checkpoint, K)
        /\ \/ x.head.config = x.key.config
           \/ /\ Len(x.head.config) = Len(x.key.config) + 1
              /\ C[Len(x.head.config)].seal = {x.head.checkpoint}
    BY DEF Line, Decided
  <2> QED BY <1>1, <2>1, <2>2
<1>5. /\ IsChain(C) /\ Len(C) \in Nat /\ Len(K) \in Nat /\ holds(d)
      /\ \A e \in Devices : begins(config[e], C) /\ begins(checkpoint[e], K)
      /\ \A i \in 1..Len(K) : level(K[i]) \in 1..Len(C)
      /\ IsChain(checkpoint[d]) /\ n \in 1..Len(C) /\ content(config[d]) = C[n].content
      /\ IsGroupControl(config[d]) /\ KnownContent(content(config[d]))
      /\ Len(checkpoint[d]) \in 0..Len(K)
      /\ \A i \in 1..Len(checkpoint[d]) : checkpoint[d][i] = K[i]
  BY <1>1, LineShape DEF votes
<1>6. CASE \E m : /\ head.config = Append(config[d], [content |-> m, seal |-> {checkpoint[d]}])
                  /\ head.checkpoint = checkpoint[d]
                  /\ config' = [config EXCEPT ![d] = head.config]
                  /\ checkpoint' = checkpoint
  <2>1. config'[d] = head.config /\ \A e \in Devices \ {d} : config'[e] = config[e]
    BY <1>6
  <2>2. Len(head.config) = n + 1
    BY <1>5, <1>6, BeginsLonger DEF begins
  <2>3. C[n + 1].seal = {checkpoint[d]}
    BY <1>4, <1>6, <2>2
  <2>4. \A i \in 1..Len(K) : level(K[i]) < n + 1 => i <= Len(checkpoint[d])
    <3>1. n + 1 \in 2..Len(C) /\ (n + 1) - 1 = n
      BY <1>4, <1>5, <2>2 DEF begins
    <3> DEFINE m == n + 1
    <3>2. m \in 2..Len(C) /\ C[m - 1].content.group /\ C[m].seal = {checkpoint[d]}
      BY <1>5, <2>3, <3>1 DEF IsGroupControl
    <3> HIDE DEF m
    <3>3. \A i \in 1..Len(K) : i <= Len(checkpoint[d]) <=> level(K[i]) < m
      BY <3>2 DEF Line, Seals
    <3> QED BY <3>3 DEF m
  <2>5. \A e \in Devices : begins(config'[e], C) /\ begins(checkpoint'[e], K)
    BY <1>4, <1>5, <1>6, <2>1
  <2>6. UpToDate(K)'
    <3> SUFFICES ASSUME NEW e \in Devices, config'[e] # <<>>
                 PROVE  /\ \A i \in 1..Len(checkpoint[e]) :
                             level(checkpoint[e][i]) <= Len(config'[e])
                        /\ member(config'[e], e) =>
                             \A i \in 1..Len(K) : level(K[i]) < Len(config'[e]) => i <= Len(checkpoint[e])
      BY <1>6 DEF UpToDate, holds
    <3>1. CASE e # d
      BY <2>1, <3>1 DEF Line, UpToDate, holds
    <3>2. CASE e = d
      <4>1. ASSUME NEW i \in 1..Len(checkpoint[d]) PROVE level(checkpoint[d][i]) <= n + 1
        <5>1. level(checkpoint[d][i]) <= n
          BY <1>5 DEF Line, UpToDate
        <5>2. i \in 1..Len(K) /\ checkpoint[d][i] = K[i]
          BY <1>5
        <5>3. level(checkpoint[d][i]) \in Nat
          BY <1>5, <5>2
        <5> QED BY <1>5, <5>1, <5>3
      <4> QED BY <2>1, <2>2, <2>4, <3>2, <4>1
    <3> QED BY <3>1, <3>2
  <2>7. Endorsed(C, K, endorsed') /\ decisions \subseteq decisions'
    BY <1>1 DEF Line
  <2> QED BY <1>1, <1>3, <2>5, <2>6, <2>7, StaysOnLine
<1>7. CASE \E l : /\ head.config = config[d]
                  /\ head.checkpoint = Append(checkpoint[d], [config |-> config[d], label |-> l,
                                                              author |-> Group])
                  /\ config' = config
                  /\ checkpoint' = [checkpoint EXCEPT ![d] = head.checkpoint]
  <2>1. checkpoint'[d] = head.checkpoint /\ \A e \in Devices \ {d} : checkpoint'[e] = checkpoint[e]
    BY <1>7
  <2>2. PICK r : head.checkpoint = Append(checkpoint[d], r) /\ r.config = config[d]
    BY <1>7
  <2>3. /\ Len(head.checkpoint) = Len(checkpoint[d]) + 1 /\ Len(checkpoint[d]) \in Nat
        /\ head.checkpoint[Len(checkpoint[d]) + 1] = r
        /\ \A i \in 1..Len(checkpoint[d]) : head.checkpoint[i] = checkpoint[d][i]
    BY <1>5, <2>2, BeginsLonger
  <2>4. \A e \in Devices : begins(config'[e], C) /\ begins(checkpoint'[e], K)
    BY <1>4, <1>5, <1>7, <2>1
  <2>5. UpToDate(K)'
    <3> SUFFICES ASSUME NEW e \in Devices, holds(e)
                 PROVE  /\ \A i \in 1..Len(checkpoint'[e]) :
                             level(checkpoint'[e][i]) <= Len(config[e])
                        /\ member(config[e], e) =>
                             \A i \in 1..Len(K) : level(K[i]) < Len(config[e]) => i <= Len(checkpoint'[e])
      BY <1>7 DEF UpToDate, holds
    <3>1. CASE e # d
      BY <2>1, <3>1 DEF Line, UpToDate
    <3>2. CASE e = d
      <4>1. ASSUME NEW i \in 1..Len(head.checkpoint) PROVE level(head.checkpoint[i]) <= n
        <5>1. CASE i \in 1..Len(checkpoint[d])
          BY <1>5, <2>3, <5>1 DEF Line, UpToDate
        <5>2. CASE i = Len(checkpoint[d]) + 1
          BY <1>5, <2>2, <2>3, <5>2 DEF level
        <5> QED BY <2>3, <5>1, <5>2
      <4>2. ASSUME NEW i \in 1..Len(K), level(K[i]) < n, member(config[d], d)
            PROVE  i <= Len(head.checkpoint)
        <5>1. i <= Len(checkpoint[d])
          BY <1>5, <4>2 DEF Line, UpToDate
        <5> QED BY <2>3, <5>1
      <4> QED BY <2>1, <3>2, <4>1, <4>2
    <3> QED BY <3>1, <3>2
  <2>6. Endorsed(C, K, endorsed') /\ decisions \subseteq decisions'
    BY <1>1 DEF Line
  <2> QED BY <1>1, <1>3, <2>4, <2>5, <2>6, StaysOnLine
<1> QED BY <1>6, <1>7, DecideEffect

\* Nobody applied it before: d holds the whole line, and adds to it.
LEMMA DecideFirst ==
  ASSUME IInv, NEW C, NEW K, Line(C, K), Next, IdleHandover, NEW d \in Devices, NEW head,
         Decide(d, head), \A x \in decisions : x.key # key(d)
  PROVE  \E B, L : begins(C, B) /\ begins(K, L) /\ Line(B, L)'
<1> USE DEF IInv, Shape
<1> DEFINE y == [key |-> key(d), head |-> head]
<1>1. votes(d) /\ endorsed' = endorsed /\ decisions' = decisions \cup {y} /\ Vouched'
  BY DecideEffect
<1>2. config[d] = C /\ checkpoint[d] = K
  BY <1>1, OpenForAll
<1>3. y.key = [config |-> C, height |-> Len(K) + 1] /\ y.head = head
  BY <1>2 DEF key
<1>4. y \in decisions' /\ decisions \subseteq decisions'
      /\ \A x \in decisions : x.key = y.key => x.head = y.head
  BY <1>1
<1> HIDE DEF y
<1>5. /\ IsChain(C) /\ IsChain(K) /\ Len(C) \in Nat \ {0} /\ Len(K) \in Nat
      /\ C[Len(C)].content.group
  <2>1. content(config[d]).group /\ holds(d)
    BY <1>1 DEF votes, IsGroupControl
  <2> QED BY <1>2, <2>1, LineShape
<1>6. CASE \E n : /\ head.config = Append(config[d], [content |-> n, seal |-> {checkpoint[d]}])
                  /\ head.checkpoint = checkpoint[d]
                  /\ config' = [config EXCEPT ![d] = head.config]
                  /\ checkpoint' = checkpoint
  <2>1. PICK r : head.config = Append(C, r) /\ r.seal = {K} /\ head.checkpoint = K
                 /\ config' = [config EXCEPT ![d] = head.config] /\ checkpoint' = checkpoint
    <3>1. PICK n : /\ head.config = Append(config[d], [content |-> n, seal |-> {checkpoint[d]}])
                   /\ head.checkpoint = checkpoint[d]
                   /\ config' = [config EXCEPT ![d] = head.config]
                   /\ checkpoint' = checkpoint
      BY <1>6
    <3>2. PICK r : r = [content |-> n, seal |-> {checkpoint[d]}]
      OBVIOUS
    <3> QED BY <1>2, <3>1, <3>2
  <2>2. PICK B : B = head.config
    OBVIOUS
  <2>3. /\ begins(C, B) /\ IsChain(B) /\ Len(B) = Len(C) + 1 /\ B[Len(C) + 1] = r
    BY <1>5, <2>1, <2>2, BeginsLonger
  <2>4. Decided(B, K, decisions')
    <3>1. Decided(B, K, decisions)
      BY <1>5, <2>3, BeginsItself, DecidedStays DEF Line
    <3>2. /\ begins(y.key.config, B) /\ Len(y.key.config) >= 1
          /\ y.key.height \in Nat \ {0}
          /\ begins(y.head.config, B) /\ begins(y.head.checkpoint, K)
          /\ Len(y.head.config) = Len(y.key.config) + 1
          /\ y.key.height = Len(y.head.checkpoint) + 1
          /\ B[Len(y.head.config)].seal = {y.head.checkpoint}
      BY <1>3, <1>5, <2>1, <2>2, <2>3, BeginsItself
    <3> QED BY <1>1, <1>4, <3>1, <3>2, DecidedAdd
  <2>5. \E x \in decisions' : /\ x.key = [config |-> C, height |-> Len(K) + 1]
                              /\ Len(x.head.config) = Len(C) + 1
    BY <1>3, <1>4, <2>2, <2>3
  <2>6. Line(B, K)'
    BY <1>1, <1>2, <1>4, <1>5, <2>1, <2>2, <2>4, <2>5, NewRecord
  <2> QED BY <1>5, <2>3, <2>6, BeginsItself
<1>7. CASE \E l : /\ head.config = config[d]
                  /\ head.checkpoint = Append(checkpoint[d], [config |-> config[d], label |-> l,
                                                              author |-> Group])
                  /\ config' = config
                  /\ checkpoint' = [checkpoint EXCEPT ![d] = head.checkpoint]
  <2>1. PICK r : /\ head.checkpoint = Append(K, r) /\ r.config = C /\ r.author = Group
                 /\ head.config = C
                 /\ config' = config /\ checkpoint' = [checkpoint EXCEPT ![d] = head.checkpoint]
    <3>1. PICK l : /\ head.config = config[d]
                   /\ head.checkpoint = Append(checkpoint[d], [config |-> config[d], label |-> l,
                                                               author |-> Group])
                   /\ config' = config
                   /\ checkpoint' = [checkpoint EXCEPT ![d] = head.checkpoint]
      BY <1>7
    <3>2. PICK r : r = [config |-> config[d], label |-> l, author |-> Group]
      OBVIOUS
    <3> QED BY <1>2, <3>1, <3>2
  <2>2. PICK L : L = head.checkpoint
    OBVIOUS
  <2>3. /\ begins(K, L) /\ IsChain(L) /\ Len(L) = Len(K) + 1 /\ L[Len(K) + 1] = r
    BY <1>5, <2>1, <2>2, BeginsLonger
  <2>4. Decided(C, L, decisions')
    <3>1. Decided(C, L, decisions)
      BY <1>5, <2>3, BeginsItself, DecidedStays DEF Line
    <3>2. /\ begins(y.key.config, C) /\ Len(y.key.config) >= 1
          /\ y.key.height \in Nat \ {0}
          /\ begins(y.head.config, C) /\ begins(y.head.checkpoint, L)
          /\ y.head.config = y.key.config
          /\ Len(y.head.checkpoint) = y.key.height
          /\ L[y.key.height].config = y.key.config
      BY <1>3, <1>5, <2>1, <2>2, <2>3, BeginsItself
    <3> QED BY <1>1, <1>4, <3>1, <3>2, DecidedAdd
  <2>5. \E x \in decisions' : /\ x.key = [config |-> C, height |-> Len(K) + 1]
                              /\ x.head.config = C
    BY <1>3, <1>4, <2>1
  <2>6. Line(C, L)'
    BY <1>1, <1>2, <1>4, <1>5, <2>1, <2>2, <2>4, <2>5, NewEntry
  <2> QED BY <1>5, <2>3, <2>6, BeginsItself
<1> QED BY <1>6, <1>7, DecideEffect

-----------------------------------------------------------------------------
(* The invariant.                                                          *)

\* Every step keeps the line or adds one record or one entry to it.
LEMMA LineStep ==
  ASSUME IInv, NEW C, NEW K, Line(C, K), Next, IdleHandover, OneSigner(scenario)
  PROVE  \E B, L : begins(C, B) /\ begins(K, L) /\ Line(B, L)'
<1>0. begins(C, C) /\ begins(K, K)
  BY LineShape, BeginsItself
<1>1. ASSUME NEW d \in Devices, NEW new \in scenario.contents, SignChange(d, new) \/ Agree(d, new)
      PROVE  Line(C, K)'
  BY <1>1, QuietStep DEF SignChange, Agree, held, past
<1>2. ASSUME NEW d \in Devices, ApplyChange(d)
      PROVE  \E B, L : begins(C, B) /\ begins(K, L) /\ Line(B, L)'
  BY <1>0, <1>2, ApplyStep
<1>3. ASSUME NEW d \in Devices, NEW label \in Labels, StartCheckpoint(d, label)
      PROVE  Line(C, K)'
  BY <1>3, QuietStep DEF StartCheckpoint, held, past
<1>4. ASSUME NEW d \in Devices, DropOwn(d)
      PROVE  Line(C, K)'
  BY <1>4, QuietStep DEF DropOwn, held, past
<1>5. ASSUME NEW d \in Devices, AdoptOwn(d)
      PROVE  \E B, L : begins(C, B) /\ begins(K, L) /\ Line(B, L)'
  BY <1>0, <1>5, OwnStep
<1>6. ASSUME NEW d \in Devices, NEW head \in acceptable(d), Endorse(d, head)
      PROVE  Line(C, K)'
  BY <1>6, QuietStep DEF Endorse, held
<1>7. ASSUME NEW d \in Devices, NEW f \in endorsed, Decide(d, f.head)
      PROVE  \E B, L : begins(C, B) /\ begins(K, L) /\ Line(B, L)'
  <2>1. CASE \E x \in decisions : x.key = key(d)
    BY <1>0, <1>7, <2>1, DecideAgain
  <2>2. CASE \A x \in decisions : x.key # key(d)
    BY <1>7, <2>2, DecideFirst
  <2> QED BY <2>1, <2>2
<1>8. ASSUME NEW d \in Devices, NEW e \in Devices \ {d},
             \/ ImportPeerSnapshot(d, e) \/ ImportRemoval(d, e)
             \/ InstallInviteSnapshot(d, e) \/ MergeInviteSnapshot(d, e)
      PROVE  Line(C, K)'
  BY <1>8, ImportStep
<1>9. ASSUME NEW d \in Devices, NEW e \in Devices \ {d}, ImportPeerConfig(d, e)
      PROVE  FALSE
  BY <1>9 DEF ImportPeerConfig, OneSigner
<1> QED BY <1>0, <1>1, <1>2, <1>3, <1>4, <1>5, <1>6, <1>7, <1>8, <1>9 DEF Next

\* At first there is the config of the genesis and no checkpoint.
LEMMA LineInit == Init => OneLine
<1> SUFFICES ASSUME Init PROVE OneLine
  OBVIOUS
<1> DEFINE genesis == <<[content |-> scenario.genesis, seal |-> {}]>>
<1>1. PICK C : C = genesis
  OBVIOUS
<1>2. IInv /\ scenario \in Scenarios
  BY IInvInit DEF Init
<1>3. /\ Len(C) = 1 /\ C # <<>> /\ C[1].content = scenario.genesis /\ C[1].seal = {}
  BY <1>1
<1>4. \A d \in Devices : config[d] = IF d \in scenario.genesis.members THEN C ELSE <<>>
  BY <1>1 DEF Init
<1>5. /\ KnownContent(scenario.genesis) /\ ~ scenario.genesis.group
      /\ scenario.creator \in Range(scenario.genesis.owners)
  BY <1>2, ContentKnown, ChainAssumption DEF ScenarioOK
<1> HIDE DEF genesis
<1>6. PICK d0 \in Devices : config[d0] = C
  BY <1>4, <1>5 DEF KnownContent
<1>7. IsChain(C) /\ IsChain(<<>>) /\ Len(<<>>) = 0
  BY <1>2, <1>6, EmptyIsPrefix DEF IInv, GoodConfigs, goodConfig
<1>8. /\ content(C) = scenario.genesis /\ seal(C) = {}
  BY <1>3, <1>7, ChainShape
<1>9. OnLine(C, <<>>)
  <2>1. begins(C, C) /\ begins(<<>>, C) /\ begins(<<>>, <<>>)
    BY <1>3, <1>7 DEF begins
  <2>2. \A d \in Devices : checkpoint[d] = <<>>
    BY DEF Init
  <2> QED BY <1>3, <1>4, <1>5, <1>6, <2>1, <2>2 DEF OnLine
<1>10. Entries(C, <<>>, checkpoint, decisions) /\ Seals(C, <<>>, decisions) /\ Turns(C, config)
  BY <1>3, <1>7 DEF Entries, Seals, Turns
<1>11. Decided(C, <<>>, decisions) /\ Endorsed(C, <<>>, endorsed)
  BY DEF Init, Decided, Endorsed
<1>12. UpToDate(<<>>)
  BY <1>7 DEF Init, UpToDate
<1>13. Vouched
  <2> SUFFICES ASSUME NEW d \in Devices
               PROVE  /\ single(signatures[d])
                      /\ holds(d) => ValidateAuthority(checkpoint[d], signatures[d], config[d])
    BY DEF Vouched, admits, single
  <2>1. single(signatures[d])
    BY DEF Init, single
  <2>2. ASSUME holds(d) PROVE config[d] = C /\ signatures[d] = {scenario.creator}
    BY <1>4, <2>2 DEF Init, holds
  <2>3. Cardinality({scenario.creator}) <= Cardinality(scenario.genesis.members)
    BY <1>5, RoomForOne DEF single
  <2> QED BY <1>5, <1>8, <2>1, <2>2, <2>3 DEF ValidateAuthority, IsGroupControl, isOwnerPeer
<1>14. Background
  BY DEF Init, Background
<1> QED BY <1>9, <1>10, <1>11, <1>12, <1>13, <1>14 DEF Line, OneLine

-----------------------------------------------------------------------------
(* The theorems.                                                           *)

OneSignerAtATime == \A x \in Scenarios : OneSigner(x)

\* Where one owner at a time signs, and an owner hands over when it stores no
\* checkpoint, all that devices hold, sign, endorsed and decided is on one line.
THEOREM LineInvariant ==
  OneSignerAtATime => (Spec /\ [][IdleHandover]_vars => []OneLine)
<1> SUFFICES ASSUME OneSignerAtATime PROVE Spec /\ [][IdleHandover]_vars => []OneLine
  OBVIOUS
<1>1. IInv /\ OneLine /\ [Next]_vars /\ [IdleHandover]_vars => OneLine'
  <2> SUFFICES ASSUME IInv, OneLine, [Next]_vars, [IdleHandover]_vars PROVE OneLine'
    OBVIOUS
  <2>1. PICK C, K : Line(C, K)
    BY DEF OneLine
  <2>2. CASE UNCHANGED vars
    <3>1. Line(C, K)'
      BY <2>1, <2>2 DEF vars, held, background, past, Line, OnLine, UpToDate, Vouched, Background,
         holds, admits, member
    <3> QED BY <3>1 DEF OneLine
  <2>3. CASE Next /\ IdleHandover
    <3>1. OneSigner(scenario)
      BY DEF OneSignerAtATime, IInv, Shape
    <3>2. \E B, L : Line(B, L)'
      BY <2>1, <2>3, <3>1, LineStep
    <3> QED BY <3>2 DEF OneLine
  <2> QED BY <2>2, <2>3
<1> QED BY <1>1, LineInit, IInvInvariant, PTL DEF Spec

\* The config of a member vouches for the checkpoint it holds, whatever owners and
\* voters left since it was signed.
THEOREM MembersCanInvite ==
  OneSignerAtATime => (Spec /\ [][IdleHandover]_vars => []HeldVouched)
<1>1. OneLine => HeldVouched
  BY DEF OneLine, Line, Vouched, HeldVouched
<1> QED BY <1>1, LineInvariant, PTL

\* A voter votes above the checkpoint that its config sealed, and above nothing but
\* what its group decided since.
LEMMA VotesAboveSeal ==
  ASSUME IInv, NEW C, NEW K, Line(C, K), NEW d \in Devices, votes(d), NEW k \in seal(config[d])
  PROVE  /\ IsPrefix(k, checkpoint[d])
         /\ \A i \in Len(k)+1..Len(checkpoint[d]) :
              checkpoint[d][i].author = Group /\ checkpoint[d][i].config = config[d]
<1> DEFINE n == Len(config[d])
<1>1. /\ n \in 1..Len(C) /\ content(config[d]) = C[n].content /\ begins(config[d], C)
      /\ seal(config[d]) = C[n].seal
      /\ Len(C) \in Nat /\ Len(K) \in Nat
      /\ begins(checkpoint[d], K) /\ Len(checkpoint[d]) \in 0..Len(K)
      /\ \A i \in 1..Len(K) : level(K[i]) \in 1..Len(C)
      /\ \A i \in 1..Len(checkpoint[d]) : checkpoint[d][i] = K[i]
      /\ KnownContent(content(config[d])) /\ holds(d)
  BY LineShape DEF votes
<1>2. C[n].content.group /\ IsGroupControl(config[d]) /\ member(config[d], d)
  BY <1>1 DEF votes, IsGroupControl, KnownContent, member
<1>3. n \in 2..Len(C)
  <2>1. n # 1
    BY <1>2 DEF Line, OnLine
  <2>2. n \in 1..Len(C) /\ Len(C) \in Nat
    BY <1>1
  <2> HIDE DEF n
  <2> QED BY <2>1, <2>2
<1>4. begins(k, K) /\ \A i \in 1..Len(K) : i <= Len(k) <=> level(K[i]) < n
  <2>2. k \in C[n].seal
    BY <1>1
  <2> HIDE DEF n
  <2>1. PICK Q \in C[n].seal : /\ C[n].seal = {Q}
                               /\ begins(Q, K)
                               /\ \A i \in 1..Len(K) : i <= Len(Q) <=> level(K[i]) < n
    BY <1>2, <1>3 DEF Line, Seals
  <2> QED BY <2>1, <2>2
<1>5. Len(k) \in 0..Len(K)
  BY <1>4, BeginningsCompare DEF begins
<1>6. Len(k) <= Len(checkpoint[d])
  <2> SUFFICES ASSUME Len(k) > Len(checkpoint[d]) PROVE FALSE
    BY <1>1, <1>5
  <2>1. Len(k) \in 1..Len(K)
    BY <1>1, <1>5
  <2>2. level(K[Len(k)]) < n
    BY <1>4, <2>1, <1>5
  <2>3. Len(k) <= Len(checkpoint[d])
    BY <1>1, <1>2, <2>1, <2>2 DEF Line, UpToDate
  <2> QED BY <1>1, <1>5, <2>3
<1>7. IsPrefix(k, checkpoint[d])
  <2>1. begins(k, checkpoint[d])
    BY <1>1, <1>4, <1>6, BeginningsCompare
  <2> QED BY <2>1, BeginsIsPrefix DEF begins
<1>8. ASSUME NEW i \in Len(k)+1..Len(checkpoint[d])
      PROVE  checkpoint[d][i].author = Group /\ checkpoint[d][i].config = config[d]
  <2>1. i \in 1..Len(K) /\ i \in 1..Len(checkpoint[d]) /\ ~ i <= Len(k)
    BY <1>1, <1>5
  <2>2. checkpoint[d][i] = K[i] /\ level(K[i]) \in 1..Len(C) /\ ~ level(K[i]) < n
    BY <1>1, <1>4, <2>1
  <2>3. level(checkpoint[d][i]) <= n
    BY <1>1, <2>1 DEF Line, UpToDate
  <2>4. Len(config[d]) = level(K[i])
    BY <1>1, <2>2, <2>3
  <2>5. begins(config[d], C) /\ IsGroupControl(config[d]) /\ Len(config[d]) = level(K[i])
    BY <1>1, <1>2, <2>4
  <2>6. K[i].config = config[d]
    BY <1>1, <2>1, <2>5, LineShape, BeginningsCompare DEF level
  <2>7. C[level(K[i])].content.group
    BY <1>2, <2>4
  <2>8. K[i].author = Group
    BY <2>1, <2>7 DEF Line, Entries
  <2> QED BY <2>2, <2>6, <2>8
<1> QED BY <1>7, <1>8

\* Above the checkpoint that its config sealed a voter holds what the group of that
\* config decided and nothing else, whatever order configs and checkpoints reach it in.
THEOREM DecisionsStayAboveSeal ==
  OneSignerAtATime => (Spec /\ [][IdleHandover]_vars => []DecisionsFollowSeal)
<1>1. IInv /\ OneLine => DecisionsFollowSeal
  BY VotesAboveSeal DEF OneLine, DecisionsFollowSeal
<1> QED BY <1>1, IInvInvariant, LineInvariant, PTL

-----------------------------------------------------------------------------
(* The refinement.                                                         *)

LEMMA SamePrefix ==
  ASSUME NEW c, NEW e
  PROVE  History!IsPrefix(c, e) <=> IsPrefix(c, e)
BY DEF History!IsPrefix, IsPrefix

\* Two beginnings of one chain are comparable, as SharedHistory says it.
LEMMA OnOneLine ==
  ASSUME NEW C, NEW c, NEW e, begins(c, C), begins(e, C)
  PROVE  History!Comparable(c, e)
<1>1. Len(c) \in Nat /\ Len(e) \in Nat
  BY BeginningsCompare
<1>2. begins(c, e) \/ begins(e, c)
  BY <1>1, BeginningsCompare
<1>3. IsPrefix(c, e) \/ IsPrefix(e, c)
  BY <1>2, BeginsIsPrefix DEF begins
<1> QED BY <1>3, SamePrefix DEF History!Comparable

\* A step changes what one device holds.
LEMMA OneMoves ==
  ASSUME IInv, Next
  PROVE  \E d \in Devices : \A e \in Devices \ {d} : config'[e] = config[e] /\ checkpoint'[e] = checkpoint[e]
<1> USE DEF IInv, Shape, held, past
<1>1. PICK d \in Devices :
    \/ \E new \in scenario.contents : SignChange(d, new) \/ Agree(d, new)
    \/ ApplyChange(d)
    \/ \E label \in Labels : StartCheckpoint(d, label)
    \/ AdoptOwn(d)
    \/ DropOwn(d)
    \/ \E head \in acceptable(d) : Endorse(d, head)
    \/ \E f \in endorsed : Decide(d, f.head)
    \/ \E e \in Devices \ {d} :
         \/ ImportPeerSnapshot(d, e)
         \/ ImportRemoval(d, e)
         \/ ImportPeerConfig(d, e)
         \/ InstallInviteSnapshot(d, e)
         \/ MergeInviteSnapshot(d, e)
  BY DEF Next
<1>2. \A e \in Devices \ {d} : config'[e] = config[e]
  BY <1>1 DEF SignChange, Agree, ApplyChange, StartCheckpoint, AdoptOwn, DropOwn, Endorse, Decide,
     ImportPeerSnapshot, ImportRemoval, ImportPeerConfig, InstallInviteSnapshot,
     MergeInviteSnapshot, mergeSnapshot, adoptConfig
<1>3. \A e \in Devices \ {d} : checkpoint'[e] = checkpoint[e]
  BY <1>1 DEF SignChange, Agree, ApplyChange, StartCheckpoint, AdoptOwn, DropOwn, Endorse, Decide,
     ImportPeerSnapshot, ImportRemoval, ImportPeerConfig, InstallInviteSnapshot,
     MergeInviteSnapshot, mergeSnapshot, adoptCheckpoint
<1> QED BY <1>2, <1>3

\* Every step is a step of SharedHistory: one device moves on along the shared line.
LEMMA StepIsShared ==
  ASSUME IInv, OneLine, Next, IdleHandover, OneSigner(scenario)
  PROVE  History!Next
<1>1. PICK C, K : Line(C, K)
  BY DEF OneLine
<1>2. PICK B, L : begins(C, B) /\ begins(K, L) /\ Line(B, L)'
  BY <1>1, LineStep
<1>3. PICK d \in Devices : \A e \in Devices \ {d} : config'[e] = config[e] /\ checkpoint'[e] = checkpoint[e]
  BY OneMoves
<1>4. \A e \in Devices : /\ begins(config[e], B) /\ begins(checkpoint[e], L)
                         /\ begins(config'[e], B) /\ begins(checkpoint'[e], L)
  <2>1. \A e \in Devices : begins(config[e], C) /\ begins(checkpoint[e], K)
    BY <1>1 DEF Line, OnLine
  <2>2. \A e \in Devices : begins(config'[e], B) /\ begins(checkpoint'[e], L)
    BY <1>2 DEF Line, OnLine
  <2> QED BY <1>2, <2>1, <2>2, BeginsThrough
<1>5. IsPrefix(config[d], config'[d])
  BY MovesOn
<1>6. IsPrefix(checkpoint[d], checkpoint'[d])
  <2>1. Len(checkpoint[d]) <= Len(checkpoint'[d])
    BY MovesOn
  <2>2. begins(checkpoint[d], checkpoint'[d])
    BY <1>4, <2>1, BeginningsCompare
  <2> QED BY <2>2, BeginsIsPrefix DEF begins
<1>7. \A e \in Devices : /\ History!Comparable(config'[d], config[e])
                         /\ History!Comparable(checkpoint'[d], checkpoint[e])
  BY <1>4, OnOneLine
<1>8. History!Advance(d)
  BY <1>3, <1>5, <1>6, <1>7, SamePrefix DEF History!Advance
<1> QED BY <1>8 DEF History!Next

\* All devices follow one history of configs and checkpoints: CheckpointChain
\* implements SharedHistory.
THEOREM DevicesShareHistory ==
  OneSignerAtATime => (Spec /\ [][IdleHandover]_vars => FollowsHistory)
<1> SUFFICES ASSUME OneSignerAtATime PROVE Spec /\ [][IdleHandover]_vars => FollowsHistory
  OBVIOUS
<1>1. IInv /\ OneLine => History!Init
  <2> SUFFICES ASSUME IInv, OneLine PROVE History!Init
    OBVIOUS
  <2>1. PICK C, K : OnLine(C, K)
    BY DEF OneLine, Line
  <2>2. \A d, e \in Devices : /\ History!Comparable(config[d], config[e])
                              /\ History!Comparable(checkpoint[d], checkpoint[e])
    BY <2>1, OnOneLine DEF OnLine
  <2> QED BY <2>2 DEF History!Init
<1>2. IInv /\ OneLine /\ [Next]_vars /\ [IdleHandover]_vars => [History!Next]_<<config, checkpoint>>
  <2> SUFFICES ASSUME IInv, OneLine, [Next]_vars, [IdleHandover]_vars
               PROVE  [History!Next]_<<config, checkpoint>>
    OBVIOUS
  <2>1. CASE UNCHANGED vars
    BY <2>1 DEF vars, held
  <2>2. CASE Next /\ IdleHandover
    <3>1. OneSigner(scenario)
      BY DEF OneSignerAtATime, IInv, Shape
    <3> QED BY <2>2, <3>1, StepIsShared
  <2> QED BY <2>1, <2>2
<1>3. Spec /\ [][IdleHandover]_vars => []OneLine
  BY LineInvariant
<1> QED BY <1>1, <1>2, <1>3, IInvInvariant, PTL DEF Spec, FollowsHistory, History!Spec
=============================================================================
