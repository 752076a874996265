------------------------- MODULE OperationEditProofs -------------------------
(***************************************************************************)
(* What becomes of edits, proved of OperationLog for any devices,          *)
(* scenarios and bounds: a checkpoint carries the edits that it covers, a  *)
(* writer keeps its own, acknowledgments are bounded by what they answer,  *)
(* and a body comes to what replaying anew would.                          *)
(***************************************************************************)
EXTENDS OperationLogProofs

(* Marks. What replaying positions leaves on a body.                       *)

leavesMark(p) == ~ (p.op.ack \/ p.refused)

\* The recursion of replayed.
markAt(m, ps, i) ==
  IF i = 0 THEN <<>>
  ELSE IF ps[i].op.ack \/ ps[i].refused THEN m[i - 1]
  ELSE Append(m[i - 1], position(ps[i].op))
IsMarking(m, ps) ==
  m = [i \in 0..Len(ps) |->
         IF i = 0 THEN <<>>
         ELSE IF ps[i].op.ack \/ ps[i].refused THEN m[i - 1]
         ELSE Append(m[i - 1], position(ps[i].op))]

LEMMA Marking ==
  ASSUME NEW ps, Len(ps) \in Nat
  PROVE  \E m : /\ replayed(ps) = m[Len(ps)]
                /\ \A i \in 0..Len(ps) : m[i] = markAt(m, ps, i)
<1> DEFINE upTo(m, n) == m = [i \in 0..n |-> markAt(m, ps, i)]
           marks == CHOOSE m : IsMarking(m, ps)
<1>1. replayed(ps) = marks[Len(ps)]
  BY Zenon DEF replayed, IsMarking
<1>2. \A n \in Nat : \E m : upTo(m, n)
  <2> DEFINE T == {n \in Nat : \E m : upTo(m, n)}
  <2>1. 0 \in T
    <3>1. upTo([i \in 0..0 |-> <<>>], 0)
      BY DEF markAt
    <3> QED BY <3>1
  <2>2. ASSUME NEW n \in T PROVE n + 1 \in T
    <3>1. PICK m : upTo(m, n)
      OBVIOUS
    <3> DEFINE g == [i \in 0..n + 1 |-> IF i <= n THEN m[i] ELSE markAt(m, ps, i)]
    <3>2. \A i \in 0..n : m[i] = markAt(m, ps, i)
      BY <3>1
    <3>3. \A i \in 0..n + 1 : i = 0 \/ (i - 1 \in 0..n /\ g[i - 1] = m[i - 1])
      OBVIOUS
    <3>4. \A i \in 0..n + 1 : markAt(g, ps, i) = markAt(m, ps, i)
      BY <3>3 DEF markAt
    <3>5. \A i \in 0..n + 1 : g[i] = markAt(m, ps, i)
      <4>1. \A i \in 0..n + 1 : i <= n => i \in 0..n
        OBVIOUS
      <4> QED BY <3>2, <4>1
    <3>6. upTo(g, n + 1)
      BY <3>4, <3>5
    <3>7. n + 1 \in Nat
      OBVIOUS
    <3> HIDE DEF upTo, g
    <3> QED BY <3>6, <3>7
  <2>3. T \in SUBSET Nat
    OBVIOUS
  <2> HIDE DEF T
  <2>4. T = Nat
    BY <2>1, <2>2, <2>3, NumberInduction
  <2> QED BY <2>4 DEF T
<1>3. \E m : IsMarking(m, ps)
  <2>1. PICK m : upTo(m, Len(ps))
    BY <1>2
  <2>2. IsMarking(m, ps)
    BY <2>1, Zenon DEF IsMarking, markAt
  <2> QED BY <2>2
<1>4. IsMarking(marks, ps)
  BY <1>3, Zenon
<1> HIDE DEF marks
<1>5. \A i \in 0..Len(ps) : marks[i] = markAt(marks, ps, i)
  BY <1>4 DEF IsMarking, markAt
<1> QED BY <1>1, <1>5

\* q has the mark of each of the first n ps that leaves one, once, and no other.
MarksFirst(q, ps, n) ==
  /\ q \in Seq({position(ps[i].op) : i \in 1..n})
  /\ \A k \in 1..Len(q) : \E i \in 1..n :
       leavesMark(ps[i]) /\ q[k] = position(ps[i].op)
  /\ \A i \in 1..n : leavesMark(ps[i]) =>
       \E k \in 1..Len(q) : q[k] = position(ps[i].op)
  /\ (\A i, j \in 1..n : position(ps[i].op) = position(ps[j].op) => i = j) =>
       \A k, l \in 1..Len(q) : q[k] = q[l] => k = l

LEMMA MarkOnward ==
  ASSUME NEW ps, NEW n \in Nat, NEW q, MarksFirst(q, ps, n),
         leavesMark(ps[n + 1])
  PROVE  MarksFirst(Append(q, position(ps[n + 1].op)), ps, n + 1)
<1> DEFINE x == position(ps[n + 1].op)
           p == Append(q, x)
           P == {position(ps[i].op) : i \in 1..n}
           R == {position(ps[i].op) : i \in 1..n + 1}
<1>1. /\ q \in Seq(R) /\ x \in R
  <2>1. P \subseteq R /\ x \in R
    OBVIOUS
  <2>2. q \in Seq(P)
    BY DEF MarksFirst
  <2> HIDE DEF P, R, x
  <2> QED BY <2>1, <2>2, SeqMonotonic
<1>2. /\ p \in Seq(R) /\ Len(q) \in Nat /\ Len(p) = Len(q) + 1 /\ p[Len(q) + 1] = x
      /\ \A k \in 1..Len(q) : p[k] = q[k]
  <2> HIDE DEF R, x
  <2> QED BY <1>1
<1> HIDE DEF p, R
<1>3. \A k \in 1..Len(p) : k \in 1..Len(q) \/ k = Len(q) + 1
  BY <1>2
<1>4. \A i \in 1..n + 1 : i \in 1..n \/ i = n + 1
  OBVIOUS
<1>5. ASSUME NEW k \in 1..Len(p)
      PROVE  \E i \in 1..n + 1 : leavesMark(ps[i]) /\ p[k] = position(ps[i].op)
  <2>1. CASE k \in 1..Len(q)
    <3>1. PICK i \in 1..n : leavesMark(ps[i]) /\ q[k] = position(ps[i].op)
      BY <2>1 DEF MarksFirst
    <3>2. i \in 1..n + 1
      OBVIOUS
    <3> QED BY <1>2, <2>1, <3>1, <3>2
  <2>2. CASE k = Len(q) + 1
    <3>1. n + 1 \in 1..n + 1
      OBVIOUS
    <3> QED BY <1>2, <2>2, <3>1
  <2> QED BY <1>3, <2>1, <2>2
<1>6. ASSUME NEW i \in 1..n + 1, leavesMark(ps[i])
      PROVE  \E k \in 1..Len(p) : p[k] = position(ps[i].op)
  <2>1. CASE i \in 1..n
    <3>1. PICK k \in 1..Len(q) : q[k] = position(ps[i].op)
      BY <1>6, <2>1 DEF MarksFirst
    <3>2. k \in 1..Len(p)
      BY <1>2
    <3> QED BY <1>2, <3>1, <3>2
  <2>2. CASE i = n + 1
    <3>1. Len(q) + 1 \in 1..Len(p)
      BY <1>2
    <3> QED BY <1>2, <2>2, <3>1
  <2> QED BY <1>4, <2>1, <2>2
<1>7. ASSUME \A i, j \in 1..n + 1 : position(ps[i].op) = position(ps[j].op) => i = j,
             NEW k \in 1..Len(p), NEW l \in 1..Len(p), p[k] = p[l]
      PROVE  k = l
  <2>1. \A i, j \in 1..n : position(ps[i].op) = position(ps[j].op) => i = j
    BY <1>7
  <2>2. \A i, j \in 1..Len(q) : q[i] = q[j] => i = j
    BY <2>1 DEF MarksFirst
  <2>3. \A i \in 1..Len(q) : q[i] # x
    <3> SUFFICES ASSUME NEW i \in 1..Len(q), q[i] = x PROVE FALSE
      OBVIOUS
    <3>1. PICK j \in 1..n : q[i] = position(ps[j].op)
      BY DEF MarksFirst
    <3>2. j \in 1..n + 1 /\ n + 1 \in 1..n + 1
      OBVIOUS
    <3>3. position(ps[j].op) = position(ps[n + 1].op)
      BY <3>1 DEF x
    <3>4. j = n + 1
      BY <1>7, <3>2, <3>3
    <3> QED BY <3>4
  <2> QED BY <1>2, <1>3, <1>7, <2>2, <2>3
<1>8. p \in Seq({position(ps[i].op) : i \in 1..n + 1})
  BY <1>2 DEF R
<1> QED BY <1>5, <1>6, <1>7, <1>8 DEF MarksFirst, p

LEMMA ReplayedMarks ==
  ASSUME NEW ps, Len(ps) \in Nat
  PROVE  MarksFirst(replayed(ps), ps, Len(ps))
<1>1. PICK m : /\ replayed(ps) = m[Len(ps)]
               /\ \A i \in 0..Len(ps) : m[i] = markAt(m, ps, i)
  BY Marking
<1> DEFINE T == {n \in Nat : n <= Len(ps) => MarksFirst(m[n], ps, n)}
<1>2. 0 \in T
  <2>1. m[0] = <<>>
    BY <1>1 DEF markAt
  <2>2. MarksFirst(<<>>, ps, 0)
    BY DEF MarksFirst
  <2> QED BY <2>1, <2>2
<1>3. ASSUME NEW n \in T PROVE n + 1 \in T
  <2> SUFFICES ASSUME n + 1 <= Len(ps) PROVE MarksFirst(m[n + 1], ps, n + 1)
    OBVIOUS
  <2>1. MarksFirst(m[n], ps, n)
    OBVIOUS
  <2>2. m[n + 1] = markAt(m, ps, n + 1) /\ n + 1 # 0 /\ (n + 1) - 1 = n
    BY <1>1
  <2>3. CASE leavesMark(ps[n + 1])
    <3>1. m[n + 1] = Append(m[n], position(ps[n + 1].op))
      BY <2>2, <2>3 DEF markAt, leavesMark
    <3> QED BY <2>1, <2>3, <3>1, MarkOnward
  <2>4. CASE ~ leavesMark(ps[n + 1])
    <3>1. m[n + 1] = m[n]
      BY <2>2, <2>4 DEF markAt, leavesMark
    <3>2. {position(ps[i].op) : i \in 1..n} \subseteq {position(ps[i].op) : i \in 1..n + 1}
      OBVIOUS
    <3>3. m[n] \in Seq({position(ps[i].op) : i \in 1..n + 1})
      BY <2>1, <3>2, SeqMonotonic DEF MarksFirst
    <3>4. \A i \in 1..n + 1 : i \in 1..n \/ i = n + 1
      OBVIOUS
    <3>5. \A i \in 1..n : i \in 1..n + 1
      OBVIOUS
    <3>6. \A k \in 1..Len(m[n]) : \E i \in 1..n + 1 :
            leavesMark(ps[i]) /\ m[n][k] = position(ps[i].op)
      BY <2>1, <3>5 DEF MarksFirst
    <3>7. \A i \in 1..n + 1 : leavesMark(ps[i]) => \E k \in 1..Len(m[n]) : m[n][k] = position(ps[i].op)
      BY <2>1, <2>4, <3>4 DEF MarksFirst
    <3>8. (\A i, j \in 1..n + 1 : position(ps[i].op) = position(ps[j].op) => i = j) =>
            \A k, l \in 1..Len(m[n]) : m[n][k] = m[n][l] => k = l
      BY <2>1, <3>5 DEF MarksFirst
    <3> QED BY <3>1, <3>3, <3>6, <3>7, <3>8 DEF MarksFirst
  <2> QED BY <2>3, <2>4
<1>4. T \in SUBSET Nat
  OBVIOUS
<1> HIDE DEF T
<1>5. T = Nat
  BY <1>2, <1>3, <1>4, NumberInduction
<1> QED BY <1>1, <1>5 DEF T

-----------------------------------------------------------------------------
(* What a checkpoint carries.                                              *)

\* Whether replay is to apply what a writes, by the config c.
welcome(kinds, c, a) == "remove" \notin kinds \/ a \in Writers(c)

\* Single, of the operations W.
singleIn(op, W) ==
  \A other \in W : other.author = op.author /\ other.nonce = op.nonce => other = op

\* An author numbers from 1 on, each operation after the one that it builds on, and
\* hashes name operations.
Counted(W) ==
  /\ \A op \in W : op.prev.author = op.author /\ op.nonce = op.prev.nonce + 1
  /\ \A op \in W : \A n \in 1..op.nonce : \E w \in W : w.author = op.author /\ w.nonce = n
  /\ \A p, q \in W : p.hash = q.hash => p = q

\* A checkpoint has each mark once, and of an operation that it covers.
Marks(k, W) ==
  /\ k.data \in Seq({position(op) : op \in W})
  /\ \A i, j \in 1..Len(k.data) : k.data[i] = k.data[j] => i = j
  /\ \A i \in 1..Len(k.data) : Covers(k, k.data[i])

\* The checkpoint of s has the marks of the edits that it covers.
Carried(s, W, kinds) ==
  \A op \in W :
    ~ op.ack /\ singleIn(op, W) /\ Covers(s.checkpoint, position(op)) /\ welcome(kinds, s.config, op.author) =>
      \E i \in 1..Len(s.checkpoint.data) : s.checkpoint.data[i] = position(op)

\* If none is removed, the operations that s holds are of its writers.
Familiar(s, kinds) == "remove" \notin kinds => \A op \in s.ops : op.author \in Writers(s.config)

Carries(s, W, kinds) == Marks(s.checkpoint, W) /\ Carried(s, W, kinds) /\ Familiar(s, kinds)

LEMMA GenesisCarries ==
  ASSUME NEW W, GoodOperations(W), NEW c, NEW kinds
  PROVE  Carries(GenesisState(c), W, kinds)
<1> DEFINE s == GenesisState(c)
<1>1. /\ s.ops = {} /\ s.checkpoint = GenesisCheckpoint
      /\ GenesisCheckpoint.data = <<>> /\ \A a \in Devices : GenesisCheckpoint.authors[a].nonce = 0
  BY DEF GenesisState, GenesisCheckpoint, NoOperation
<1> HIDE DEF s
<1>2. Marks(s.checkpoint, W)
  BY <1>1 DEF Marks
<1>3. \A op \in W : ~ Covers(s.checkpoint, position(op))
  BY <1>1 DEF GoodOperations, Covers, position
<1>4. Carries(s, W, kinds)
  BY <1>1, <1>2, <1>3 DEF Carries, Carried, Familiar
<1> QED BY <1>4 DEF s

\* What is made of two states, under a config after those of both.
LEMMA MadeCarries ==
  ASSUME NEW W, NEW kinds, "add" \notin kinds \/ "remove" \notin kinds,
         NEW s, Carries(s, W, kinds), NEW c, Carries(c, W, kinds),
         NEW t, narrows(kinds, s.config, t.config), narrows(kinds, c.config, t.config),
         t.checkpoint = s.checkpoint \/ t.checkpoint = c.checkpoint, t.ops \subseteq s.ops \cup c.ops
  PROVE  Carries(t, W, kinds)
<1>1. \A a : welcome(kinds, t.config, a) => welcome(kinds, s.config, a) /\ welcome(kinds, c.config, a)
  BY DEF welcome, narrows
<1>2. Familiar(t, kinds)
  BY DEF Familiar, Carries, narrows
<1>3. CASE t.checkpoint = s.checkpoint
  BY <1>1, <1>2, <1>3 DEF Carries, Carried
<1>4. CASE t.checkpoint = c.checkpoint
  BY <1>1, <1>2, <1>4 DEF Carries, Carried
<1> QED BY <1>3, <1>4

\* d writes op, which no checkpoint covers unless op is not the only one of its number.
LEMMA GrownCarries ==
  ASSUME NEW W, GoodOperations(W), Counted(W), NEW kinds,
         NEW s, GoodState(s, W), Carries(s, W, kinds),
         NEW op, op \notin W, op.author \in Devices, op.nonce \in Nat \ {0}
  PROVE  Carries(s, W \cup {op}, kinds)
<1> DEFINE V == W \cup {op}
           P == {position(x) : x \in W}
           Q == {position(x) : x \in V}
           data == s.checkpoint.data
<1>1. Marks(s.checkpoint, V)
  <2>1. P \subseteq Q
    OBVIOUS
  <2>2. data \in Seq(P)
    BY DEF Carries, Marks
  <2>3. data \in Seq(Q)
    <3> HIDE DEF P, Q, data
    <3> QED BY <2>1, <2>2, SeqMonotonic
  <2> QED BY <2>3 DEF Carries, Marks
<1>2. ASSUME Covers(s.checkpoint, position(op)) PROVE ~ singleIn(op, V)
  <2> DEFINE h == s.checkpoint.authors[op.author]
  <2>1. op.nonce <= h.nonce /\ h \in headsOf(op.author, W)
    BY <1>2 DEF Covers, position, GoodState, GoodCheckpoint
  <2>2. h # NoOperation(op.author)
    BY <2>1 DEF NoOperation
  <2> HIDE DEF h
  <2>3. PICK x \in W : x.author = op.author /\ h = position(x)
    BY <2>1, <2>2 DEF headsOf
  <2>4. h.nonce = x.nonce /\ x.nonce \in Nat
    BY <2>3 DEF position, GoodOperations
  <2>5. op.nonce \in 1..x.nonce
    BY <2>1, <2>4
  <2>6. PICK w \in W : w.author = x.author /\ w.nonce = op.nonce
    BY <2>5 DEF Counted
  <2> QED BY <2>3, <2>6 DEF singleIn
<1>3. \A x \in W : singleIn(x, V) => singleIn(x, W)
  BY DEF singleIn
<1>4. Carried(s, V, kinds)
  <2> SUFFICES ASSUME NEW x \in V, ~ x.ack, singleIn(x, V), Covers(s.checkpoint, position(x)),
                      welcome(kinds, s.config, x.author)
               PROVE  \E i \in 1..Len(data) : data[i] = position(x)
    BY DEF Carried
  <2>1. x \in W
    BY <1>2
  <2> QED BY <1>3, <2>1 DEF Carries, Carried
<1> QED BY <1>1, <1>4 DEF Carries

Distinct(p) == \A i, j \in 1..Len(p) : p[i] = p[j] => i = j
Apart(p, q) == \A i \in 1..Len(p), j \in 1..Len(q) : p[i] # q[j]

\* r is of what p and q are of.
MadeOf(r, p, q) ==
  /\ \A k \in 1..Len(r) : \/ \E i \in 1..Len(p) : r[k] = p[i]
                          \/ \E j \in 1..Len(q) : r[k] = q[j]
  /\ \A i \in 1..Len(p) : \E k \in 1..Len(r) : r[k] = p[i]
  /\ \A j \in 1..Len(q) : \E k \in 1..Len(r) : r[k] = q[j]

\* Two sequences of different things, each with its own once.
LEMMA Joined ==
  ASSUME NEW P, NEW p \in Seq(P), NEW q \in Seq(P), Distinct(p), Distinct(q), Apart(p, q)
  PROVE  p \o q \in Seq(P) /\ Distinct(p \o q) /\ MadeOf(p \o q, p, q)
<1> DEFINE r == p \o q
           m == Len(p)
<1>1. /\ r \in Seq(P) /\ m \in Nat /\ Len(q) \in Nat /\ Len(r) = m + Len(q)
      /\ \A k \in 1..Len(r) : r[k] = IF k <= m THEN p[k] ELSE q[k - m]
  OBVIOUS
<1> HIDE DEF r
<1>2. \A k \in 1..Len(r) : \/ k \in 1..m /\ r[k] = p[k]
                           \/ k - m \in 1..Len(q) /\ r[k] = q[k - m]
  BY <1>1
<1>3. \A i \in 1..m : i \in 1..Len(r) /\ r[i] = p[i]
  BY <1>1
<1>4. ASSUME NEW j \in 1..Len(q) PROVE m + j \in 1..Len(r) /\ r[m + j] = q[j]
  <2>1. m + j \in 1..Len(r) /\ ~ (m + j <= m) /\ (m + j) - m = j
    BY <1>1
  <2> QED BY <1>1, <2>1
<1>5. ASSUME NEW k \in 1..Len(r), NEW l \in 1..Len(r), r[k] = r[l] PROVE k = l
  <2>1. CASE k \in 1..m /\ r[k] = p[k]
    <3>1. l \in 1..m /\ r[l] = p[l]
      BY <1>2, <1>5, <2>1 DEF Apart
    <3> QED BY <1>5, <2>1, <3>1 DEF Distinct
  <2>2. CASE k - m \in 1..Len(q) /\ r[k] = q[k - m]
    <3>1. l - m \in 1..Len(q) /\ r[l] = q[l - m]
      BY <1>2, <1>5, <2>2 DEF Apart
    <3>2. k - m = l - m
      BY <1>5, <2>2, <3>1 DEF Distinct
    <3> QED BY <1>1, <3>2
  <2> QED BY <1>2, <2>1, <2>2
<1>6. MadeOf(r, p, q)
  BY <1>2, <1>3, <1>4 DEF MadeOf
<1> QED BY <1>1, <1>5, <1>6 DEF r, Distinct

\* An edit alone at its number is in the prefix that a later one of its author is in,
\* as each operation is after the one that it builds on.
LEMMA EarlierInPrefix ==
  ASSUME NEW W, GoodOperations(W), Counted(W), NEW s, GoodState(s, W),
         NEW q \in Seq(s.ops), Linked(s, q), NEW n \in 0..Len(q),
         NEW op \in W, singleIn(op, W), ~ Covers(s.checkpoint, position(op)),
         NEW i \in 1..n, q[i].author = op.author, op.nonce <= q[i].nonce
  PROVE  \E j \in 1..n : q[j] = op
<1> DEFINE after == {k \in 1..n : q[k].author = op.author /\ op.nonce <= q[k].nonce}
           numbers == {q[k].nonce : k \in after}
<1>0. Len(q) \in Nat /\ \A k \in 1..n : k \in 1..Len(q) /\ q[k] \in s.ops
  OBVIOUS
<1>1. \A k \in 1..n : q[k] \in W /\ q[k].nonce \in Nat /\ q[k].author \in Devices
  BY <1>0, NumbersAreNatural
<1>2. op.nonce \in Nat \ {0} /\ op.author \in Devices
  BY DEF GoodOperations
<1>3. numbers \in SUBSET Nat /\ q[i].nonce \in numbers
  BY <1>1
<1>4. PICK least \in numbers : \A m \in numbers : least <= m
  BY <1>3, LeastNumber
<1>5. PICK k \in after : q[k].nonce = least
  BY <1>4
<1>6. /\ k \in 1..n /\ q[k].author = op.author /\ op.nonce <= q[k].nonce
      /\ \A l \in after : q[k].nonce <= q[l].nonce
  BY <1>4, <1>5
<1>7. CASE q[k].nonce = op.nonce
  BY <1>1, <1>6, <1>7 DEF singleIn
<1>8. CASE q[k].nonce # op.nonce
  <2> DEFINE prev == q[k].prev
  <2>1. prev.author = op.author /\ q[k].nonce = prev.nonce + 1 /\ prev \in Position
    BY <1>1, <1>6 DEF Counted, GoodOperations
  <2>2. prev.nonce \in Nat /\ op.nonce <= prev.nonce /\ prev.nonce # 0
    BY <1>1, <1>2, <1>6, <1>8, <2>1 DEF Position
  <2>3. s.checkpoint.authors[op.author].nonce \in Nat
    BY <1>2, NumbersAreNatural
  <2>4. ~ Covers(s.checkpoint, prev)
    BY <1>2, <2>1, <2>2, <2>3 DEF Covers, position
  <2>5. prev \in openLinks(s, q[k])
    BY <2>2, <2>4 DEF openLinks, links
  <2>6. k \in 1..Len(q)
    BY <1>0, <1>6
  <2>7. PICK l \in 1..(k - 1) : position(q[l]) = prev
    BY <2>5, <2>6 DEF Linked
  <2>8. l \in 1..n /\ q[l].author = op.author /\ q[l].nonce = prev.nonce
    BY <1>6, <2>1, <2>7 DEF position
  <2>9. l \in after
    BY <2>2, <2>8
  <2>10. q[k].nonce <= q[l].nonce
    BY <1>6, <2>9
  <2> HIDE DEF prev, after
  <2>11. FALSE
    BY <2>1, <2>2, <2>8, <2>10
  <2> QED BY <2>11
<1> QED BY <1>7, <1>8

\* Replay refuses an edit for a reason that lasts.
Deserved(kinds, c, W, op) == op.ack \/ ~ singleIn(op, W) \/ ~ welcome(kinds, c, op.author)

\* The positions of a prefix, as replay left them.
asReplayed(prefix, refused) == [i \in 1..Len(prefix) |-> [op |-> prefix[i], refused |-> refused[i]]]

\* c carries on from the checkpoint of s over its prefix.
CarriesOn(c, s, W, kinds) ==
  \E refused :
    /\ c.data = s.checkpoint.data \o replayed(asReplayed(c.prefix, refused))
    /\ \A i \in 1..Len(c.prefix) : refused[i] => Deserved(kinds, s.config, W, c.prefix[i])

\* data has the marks of s and those of a prefix, but for what was refused.
Onward(data, s, W, prefix, refused) ==
  /\ data \in Seq({position(op) : op \in W}) /\ Distinct(data)
  /\ \A k \in 1..Len(data) : \/ Covers(s.checkpoint, data[k])
                             \/ \E i \in 1..Len(prefix) : data[k] = position(prefix[i])
  /\ \A i \in 1..Len(s.checkpoint.data) : \E k \in 1..Len(data) : data[k] = s.checkpoint.data[i]
  /\ \A i \in 1..Len(prefix) :
       ~ prefix[i].ack /\ ~ refused[i] => \E k \in 1..Len(data) : data[k] = position(prefix[i])

\* What a checkpoint over a prefix of the order carries.
LEMMA PrefixMarks ==
  ASSUME NEW W, GoodOperations(W), Counted(W), NEW s, GoodState(s, W), NEW kinds,
         Carries(s, W, kinds), NEW q \in Seq(s.ops), Linked(s, q),
         NEW prefix \in Seq(W), Begins(prefix, q), NEW refused
  PROVE  Onward(s.checkpoint.data \o replayed(asReplayed(prefix, refused)), s, W, prefix, refused)
<1> DEFINE P == {position(op) : op \in W}
           old == s.checkpoint.data
           ps == asReplayed(prefix, refused)
           new == replayed(ps)
           n == Len(prefix)
<1>1. /\ n \in Nat /\ n <= Len(q)
      /\ \A i \in 1..n : prefix[i] \in W /\ prefix[i] = q[i] /\ i \in 1..Len(q) /\ q[i] \in s.ops
  BY DEF Begins
<1>2. /\ Len(ps) = n
      /\ \A i \in 1..n : ps[i].op = prefix[i] /\ ps[i].refused = refused[i]
  BY <1>1 DEF asReplayed
<1>3. MarksFirst(new, ps, n)
  <2> HIDE DEF ps
  <2> QED BY <1>1, <1>2, ReplayedMarks
<1> HIDE DEF ps, new
<1>4. \A i, j \in 1..n : position(ps[i].op) = position(ps[j].op) => i = j
  <2> SUFFICES ASSUME NEW i \in 1..n, NEW j \in 1..n, position(ps[i].op) = position(ps[j].op)
               PROVE  i = j
    OBVIOUS
  <2>1. prefix[i].hash = prefix[j].hash
    BY <1>2 DEF position
  <2>2. q[i] = q[j]
    BY <1>1, <2>1 DEF Counted
  <2> QED BY <1>1, <2>2 DEF Linked
<1>5. /\ old \in Seq(P) /\ Distinct(old)
      /\ \A i \in 1..Len(old) : Covers(s.checkpoint, old[i])
  BY DEF Carries, Marks, Distinct
<1>6. new \in Seq(P)
  <2> DEFINE R == {position(ps[i].op) : i \in 1..n}
  <2>1. R \subseteq P
    BY <1>1, <1>2
  <2>2. new \in Seq(R)
    BY <1>3 DEF MarksFirst
  <2> HIDE DEF R, P
  <2> QED BY <2>1, <2>2, SeqMonotonic
<1>7. ASSUME NEW k \in 1..Len(new) PROVE \E i \in 1..n : new[k] = position(prefix[i])
  <2>1. PICK i \in 1..n : new[k] = position(ps[i].op)
    BY <1>3 DEF MarksFirst
  <2> QED BY <1>2, <2>1
<1>8. \A i \in 1..n : ~ prefix[i].ack /\ ~ refused[i] => \E k \in 1..Len(new) : new[k] = position(prefix[i])
  BY <1>2, <1>3 DEF MarksFirst, leavesMark
<1>9. Distinct(new)
  BY <1>3, <1>4 DEF MarksFirst, Distinct
<1>10. \A i \in 1..n : ~ Covers(s.checkpoint, position(prefix[i]))
  BY <1>1 DEF GoodState, Above
<1>11. Apart(old, new)
  BY <1>5, <1>7, <1>10 DEF Apart
<1> HIDE DEF P, old
<1> DEFINE data == old \o new
<1>12. data \in Seq(P) /\ Distinct(data) /\ MadeOf(data, old, new)
  BY <1>5, <1>6, <1>9, <1>11, Joined, Zenon
<1> HIDE DEF data, n
<1>13. \A k \in 1..Len(data) : \/ Covers(s.checkpoint, data[k])
                               \/ \E i \in 1..n : data[k] = position(prefix[i])
  <2> SUFFICES ASSUME NEW k \in 1..Len(data)
               PROVE  Covers(s.checkpoint, data[k]) \/ \E i \in 1..n : data[k] = position(prefix[i])
    OBVIOUS
  <2>1. CASE \E i \in 1..Len(old) : data[k] = old[i]
    BY <1>5, <2>1
  <2>2. CASE \E j \in 1..Len(new) : data[k] = new[j]
    BY <1>7, <2>2
  <2> QED BY <1>12, <2>1, <2>2 DEF MadeOf
<1>14. \A i \in 1..n : ~ prefix[i].ack /\ ~ refused[i] => \E k \in 1..Len(data) : data[k] = position(prefix[i])
  <2> SUFFICES ASSUME NEW i \in 1..n, ~ prefix[i].ack, ~ refused[i]
               PROVE  \E k \in 1..Len(data) : data[k] = position(prefix[i])
    OBVIOUS
  <2>1. PICK j \in 1..Len(new) : new[j] = position(prefix[i])
    BY <1>8
  <2>2. PICK k \in 1..Len(data) : data[k] = new[j]
    BY <1>12 DEF MadeOf
  <2> QED BY <2>1, <2>2
<1>15. Onward(data, s, W, prefix, refused)
  BY <1>12, <1>13, <1>14 DEF Onward, MadeOf, P, old, n
<1> QED BY <1>15 DEF data, old, new, ps

\* Signing a checkpoint over a prefix of the order leaves what it covers carried.
LEMMA SignedCarries ==
  ASSUME NEW W, GoodOperations(W), Counted(W), NEW s, GoodState(s, W), NEW kinds,
         Carries(s, W, kinds), NEW c, c.prefix \in Seq(W), c.height = s.checkpoint.height,
         Begins(c.prefix, Order(s)), CarriesOn(c, s, W, kinds)
  PROVE  Carries(adoptCheckpoint(s, stableCheckpoint(s, c)), W, kinds)
<1> DEFINE k == stableCheckpoint(s, c)
           t == adoptCheckpoint(s, k)
           q == Order(s)
           prefix == c.prefix
           n == Len(prefix)
<1>1. s.checkpoint.height \in Nat /\ \A op \in W : op.nonce \in Nat /\ op.author \in Devices
  BY NumbersAreNatural DEF GoodOperations
<1>2. k.height = s.checkpoint.height + 1 /\ k.authors = cover(s, prefix) /\ k.data = c.data
  BY DEF stableCheckpoint
<1> HIDE DEF k
<1>3. /\ t.checkpoint = k /\ t.ops \subseteq s.ops /\ t.config = s.config
  <2>1. ~ (k.height <= s.checkpoint.height)
    BY <1>1, <1>2
  <2> QED BY <2>1 DEF adoptCheckpoint, GoodState, Fields
<1> HIDE DEF t
<1>4. q \in Seq(s.ops) /\ Linked(s, q)
  BY GoodIsPlaceable, OrderType
<1> HIDE DEF q
<1>5. /\ n \in 0..Len(q)
      /\ \A i \in 1..n : prefix[i] = q[i] /\ i \in 1..Len(q) /\ q[i] \in s.ops /\ prefix[i] \in W
                         /\ prefix[i] \in Range(prefix)
  <2>1. n \in Nat /\ n <= Len(q) /\ Len(q) \in Nat
        /\ \A i \in 1..n : prefix[i] = q[i] /\ i \in 1..Len(q) /\ q[i] \in s.ops /\ prefix[i] \in W
    BY <1>4 DEF Begins, q
  <2>2. DOMAIN prefix = 1..n
    OBVIOUS
  <2> QED BY <2>1, <2>2 DEF Range
<1>6. PICK refused : /\ c.data = s.checkpoint.data \o replayed(asReplayed(prefix, refused))
                     /\ \A i \in 1..n : refused[i] => Deserved(kinds, s.config, W, prefix[i])
  BY DEF CarriesOn
<1>7. \A a \in Devices : \/ k.authors[a] = s.checkpoint.authors[a] /\ \A i \in 1..n : prefix[i].author # a
                         \/ \E i \in 1..n : /\ prefix[i].author = a /\ k.authors[a] = position(prefix[i])
                                            /\ \A j \in 1..n : prefix[j].author = a => prefix[j].nonce <= prefix[i].nonce
  <2> SUFFICES ASSUME NEW a \in Devices
               PROVE  \/ k.authors[a] = s.checkpoint.authors[a] /\ \A i \in 1..n : prefix[i].author # a
                      \/ \E i \in 1..n : /\ prefix[i].author = a /\ k.authors[a] = position(prefix[i])
                                         /\ \A j \in 1..n : prefix[j].author = a => prefix[j].nonce <= prefix[i].nonce
    OBVIOUS
  <2>1. \A x \in Range(prefix) : \E i \in 1..n : x = prefix[i]
    BY DEF Range
  <2>2. \/ /\ \A op \in Range(prefix) : op.author # a
           /\ cover(s, prefix)[a] = s.checkpoint.authors[a]
        \/ \E op \in Range(prefix) :
             /\ op.author = a /\ cover(s, prefix)[a] = position(op)
             /\ \A o \in Range(prefix) : o.author = a => o.nonce <= op.nonce
    BY <1>1, CoverHead
  <2> HIDE DEF prefix, n
  <2>3. CASE \A op \in Range(prefix) : op.author # a
    <3>1. cover(s, prefix)[a] = s.checkpoint.authors[a]
      BY <2>2, <2>3
    <3>2. \A i \in 1..n : prefix[i].author # a
      BY <1>5, <2>3
    <3> QED BY <1>2, <3>1, <3>2
  <2>4. ASSUME NEW op \in Range(prefix), op.author = a, cover(s, prefix)[a] = position(op),
               \A o \in Range(prefix) : o.author = a => o.nonce <= op.nonce
        PROVE  \E i \in 1..n : /\ prefix[i].author = a /\ k.authors[a] = position(prefix[i])
                               /\ \A j \in 1..n : prefix[j].author = a => prefix[j].nonce <= prefix[i].nonce
    <3>1. PICK i \in 1..n : op = prefix[i]
      BY <2>1
    <3> QED BY <1>2, <1>5, <2>4, <3>1
  <2> QED BY <2>2, <2>3, <2>4
<1>8. \A a \in Devices : s.checkpoint.authors[a].nonce <= k.authors[a].nonce
  <2> SUFFICES ASSUME NEW a \in Devices PROVE s.checkpoint.authors[a].nonce <= k.authors[a].nonce
    OBVIOUS
  <2>1. s.checkpoint.authors[a].nonce \in Nat
    BY NumbersAreNatural
  <2>2. ASSUME NEW i \in 1..n, prefix[i].author = a, k.authors[a] = position(prefix[i])
        PROVE  s.checkpoint.authors[a].nonce <= k.authors[a].nonce
    <3>1. ~ Covers(s.checkpoint, position(prefix[i])) /\ prefix[i].nonce \in Nat
      BY <1>1, <1>5 DEF GoodState, Above
    <3> QED BY <2>1, <2>2, <3>1 DEF Covers, position
  <2> QED BY <1>7, <2>1, <2>2
<1>9. \A i \in 1..n : Covers(k, position(prefix[i]))
  <2> SUFFICES ASSUME NEW i \in 1..n PROVE prefix[i].nonce <= k.authors[prefix[i].author].nonce
    BY DEF Covers, position
  <2>1. prefix[i].author \in Devices
    BY <1>1, <1>5
  <2>2. PICK j \in 1..n : /\ prefix[j].author = prefix[i].author
                         /\ k.authors[prefix[i].author] = position(prefix[j])
                         /\ prefix[i].nonce <= prefix[j].nonce
    <3> HIDE DEF prefix, n
    <3> QED BY <1>7, <2>1
  <2> QED BY <2>2 DEF position
<1>10. \A op \in W : Covers(s.checkpoint, position(op)) => Covers(k, position(op))
  <2> SUFFICES ASSUME NEW op \in W, op.nonce <= s.checkpoint.authors[op.author].nonce
               PROVE  op.nonce <= k.authors[op.author].nonce
    BY DEF Covers, position
  <2>1. op.author \in Devices /\ op.nonce \in Nat
    BY <1>1
  <2>2. k.authors[op.author].nonce \in Nat /\ s.checkpoint.authors[op.author].nonce \in Nat
    <3>1. s.checkpoint.authors[op.author].nonce \in Nat
      BY <2>1, NumbersAreNatural
    <3>2. \A i \in 1..n : position(prefix[i]).nonce \in Nat
      BY <1>1, <1>5 DEF position
    <3> QED BY <1>7, <2>1, <3>1, <3>2
  <2> QED BY <1>8, <2>1, <2>2
<1> DEFINE data == s.checkpoint.data \o replayed(asReplayed(prefix, refused))
<1>11. Onward(data, s, W, prefix, refused)
  <2>1. prefix \in Seq(W) /\ Begins(prefix, q)
    BY DEF q
  <2> HIDE DEF prefix
  <2> QED BY <1>4, <2>1, PrefixMarks, Zenon
<1>12. k.data = data
  BY <1>2, <1>6
<1> HIDE DEF data
<1>13. Marks(k, W)
  <2>1. \A x \in 1..Len(data) : Covers(k, data[x])
    <3> SUFFICES ASSUME NEW x \in 1..Len(data) PROVE Covers(k, data[x])
      OBVIOUS
    <3>1. PICK op \in W : data[x] = position(op)
      BY <1>11 DEF Onward
    <3> QED BY <1>9, <1>10, <1>11, <3>1 DEF Onward
  <2> QED BY <1>11, <1>12, <2>1 DEF Marks, Onward, Distinct
<1>14. Carried(t, W, kinds)
  <2> SUFFICES ASSUME NEW op \in W, ~ op.ack, singleIn(op, W), Covers(k, position(op)),
                      welcome(kinds, s.config, op.author)
               PROVE  \E x \in 1..Len(data) : data[x] = position(op)
    BY <1>3, <1>12 DEF Carried
  <2>1. CASE Covers(s.checkpoint, position(op))
    <3>1. PICK i \in 1..Len(s.checkpoint.data) : s.checkpoint.data[i] = position(op)
      BY <2>1 DEF Carries, Carried
    <3> QED BY <1>11, <3>1 DEF Onward
  <2>2. CASE ~ Covers(s.checkpoint, position(op))
    <3>1. op.author \in Devices /\ op.nonce <= k.authors[op.author].nonce
      BY <1>1 DEF Covers, position
    <3>2. k.authors[op.author] # s.checkpoint.authors[op.author]
      BY <2>2, <3>1 DEF Covers, position
    <3>3. PICK i \in 1..n : prefix[i].author = op.author /\ k.authors[op.author] = position(prefix[i])
      BY <1>7, <3>1, <3>2
    <3>4. q[i].author = op.author /\ op.nonce <= q[i].nonce
      BY <1>5, <3>1, <3>3 DEF position
    <3>5. PICK j \in 1..n : q[j] = op
      BY <1>4, <1>5, <2>2, <3>4, EarlierInPrefix
    <3>6. prefix[j] = op
      BY <1>5, <3>5
    <3>7. ~ refused[j]
      BY <1>6, <3>6 DEF Deserved
    <3> QED BY <1>11, <3>6, <3>7 DEF Onward
  <2> QED BY <2>1, <2>2
<1>15. Familiar(t, kinds)
  BY <1>3 DEF Carries, Familiar
<1> QED BY <1>3, <1>13, <1>14, <1>15 DEF Carries, t, k

-----------------------------------------------------------------------------
(* What a step makes of what checkpoints carry.                            *)

LEMMA CountedStep ==
  ASSUME Types, Counted(written), [Next]_vars
  PROVE  Counted(written)'
<1>1. CASE written' = written
  BY <1>1
<1>2. ASSUME NEW d \in Devices, adds(d) PROVE Counted(written')
  <2>1. PICK prev, op :
           /\ prev \in headsOf(d, written)
           /\ op.author = d /\ op.nonce = prev.nonce + 1 /\ op.prev = prev
           /\ written' = written \cup {op} /\ \A w \in written : w.hash # op.hash
    BY <1>2 DEF adds
  <2>2. /\ GoodOperations(written) /\ \A w \in written : w.nonce \in Nat
    BY DEF Types, GoodOperations
  <2>3. prev.author = d /\ prev.nonce \in Nat /\ (prev.nonce # 0 => \E w \in written : prev = position(w))
    BY <2>1, <2>2 DEF headsOf, NoOperation, position
  <2>4. ASSUME NEW n \in 1..op.nonce PROVE \E w \in written' : w.author = d /\ w.nonce = n
    <3>1. CASE n = op.nonce
      BY <2>1, <3>1
    <3>2. CASE n # op.nonce
      <4>1. n \in 1..prev.nonce /\ prev.nonce # 0
        BY <2>1, <2>3, <3>2
      <4>2. PICK x \in written : prev = position(x)
        BY <2>3, <4>1
      <4>3. x.author = d /\ n \in 1..x.nonce
        BY <2>3, <4>1, <4>2 DEF position
      <4> QED BY <2>1, <4>3 DEF Counted
    <3> QED BY <3>1, <3>2
  <2>5. \A x \in written' : x.prev.author = x.author /\ x.nonce = x.prev.nonce + 1
    BY <2>1, <2>3 DEF Counted
  <2>6. \A x \in written' : \A n \in 1..x.nonce : \E w \in written' : w.author = x.author /\ w.nonce = n
    BY <2>1, <2>4 DEF Counted
  <2>7. \A x, y \in written' : x.hash = y.hash => x = y
    BY <2>1 DEF Counted
  <2> QED BY <2>5, <2>6, <2>7 DEF Counted
<1> QED BY <1>1, <1>2, WritesOne

LEMMA DeservedStays ==
  ASSUME NEW W, NEW V, W \subseteq V, NEW kinds, "add" \notin kinds \/ "remove" \notin kinds,
         NEW c, NEW n, narrows(kinds, c, n), NEW op, Deserved(kinds, c, W, op)
  PROVE  Deserved(kinds, n, V, op)
  BY DEF Deserved, singleIn, welcome, narrows

Carry(s) == Carries(s, written, scenario.changes)

StatesCarry == \A d \in Devices : Carry(state[d]) /\ Carry(durable[d])

\* What replay refused, it refused for a reason that lasts.
BodiesFair ==
  \A d \in Devices : \A i \in 1..Len(body[d].positions) :
    body[d].positions[i].refused =>
      Deserved(scenario.changes, state[d].config, written, body[d].positions[i].op)

\* A checkpoint that d stores is of one that d holds or held, and carries on from it.
StoringCarries ==
  \A d \in Devices : storing[d] # Nothing =>
    /\ storing[d].height \in Nat /\ storing[d].height <= state[d].checkpoint.height
    /\ storing[d].height = state[d].checkpoint.height =>
         CarriesOn(storing[d], state[d], written, scenario.changes)

\* What is written leaves what is carried.
LEMMA GrowthCarries ==
  ASSUME Types, Counted(written), [Next]_vars, NEW s, GoodState(s, written), Carry(s)
  PROVE  Carries(s, written', scenario.changes)
<1>1. CASE written' = written
  BY <1>1 DEF Carry
<1>2. ASSUME NEW d \in Devices, adds(d) PROVE Carries(s, written', scenario.changes)
  <2>1. PICK op : /\ op.author = d /\ written' = written \cup {op} /\ \A w \in written : w.hash # op.hash
    BY <1>2 DEF adds
  <2>2. op \notin written /\ op.nonce \in Nat \ {0} /\ GoodOperations(written)
    BY <2>1, WrittenStep DEF Types, GoodOperations
  <2> QED BY <2>1, <2>2, GrownCarries DEF Carry
<1> QED BY <1>1, <1>2, WritesOne

LEMMA StateCarriesStep ==
  ASSUME Types, ConfigsInLine, Counted(written), [Next]_vars, NoneReadmitted,
         StatesCarry, StoringCarries, NEW d \in Devices, heldMoves(d)
  PROVE  Carries(state'[d], written', scenario.changes) /\ Carries(durable'[d], written', scenario.changes)
<1> DEFINE kinds == scenario.changes
           s == state[d]
           t == state'[d]
           carries(x) == Carries(x, written', kinds)
<1>0. /\ \A e \in Devices : GoodState(state[e], written) /\ GoodState(durable[e], written)
      /\ GoodOperations(written) /\ GoodOperations(written')
      /\ "add" \notin kinds \/ "remove" \notin kinds
  BY WrittenStep DEF Types, StatesTyped, NoneReadmitted
<1>1. \A e \in Devices : carries(state[e]) /\ carries(durable[e])
  BY <1>0, GrowthCarries DEF StatesCarry
<1>2. carries(GenesisState(scenario.config))
  BY <1>0, GenesisCarries
<1>3. narrows(kinds, s.config, s.config)
  BY NarrowsItself
<1>4. ASSUME t.ops \subseteq s.ops, t.checkpoint = s.checkpoint PROVE carries(t)
  <2>1. CASE narrows(kinds, s.config, t.config)
    <3> HIDE DEF kinds, s, t
    <3>1. carries(s)
      BY <1>1 DEF s, kinds
    <3> QED BY <1>0, <1>4, <2>1, <3>1, MadeCarries
  <2>2. CASE t = GenesisState(scenario.config)
    BY <1>2, <2>2
  <2> QED BY <2>1, <2>2, ConfigMoves DEF forgetsConfig
<1>5. CASE stays(d) \/ leaves(d)
  <2>1. t.ops \subseteq s.ops /\ t.checkpoint = s.checkpoint /\ durable'[d] = durable[d]
    BY <1>5 DEF stays, leaves
  <2> QED BY <1>1, <1>4, <2>1
<1>6. CASE adds(d)
  <2>1. PICK op : /\ op.author = d /\ d \in Writers(s.config)
                  /\ t.checkpoint = s.checkpoint /\ t.config = s.config
                  /\ t.ops \subseteq s.ops \cup {op} /\ durable'[d] = durable[d]
    BY <1>6 DEF adds
  <2>2. carries(s) /\ carries(durable[d])
    BY <1>1
  <2> HIDE DEF s, t, kinds
  <2>3. carries(t)
    BY <2>1, <2>2 DEF Carries, Carried, Familiar
  <2> QED BY <2>1, <2>2, <2>3 DEF t, kinds
<1>7. CASE merges(d)
  <2>1. PICK from \in Devices :
          /\ t.ops \subseteq s.ops \cup shown(from).ops
          /\ t.checkpoint = IF shown(from).checkpoint.height <= s.checkpoint.height
                            THEN s.checkpoint ELSE shown(from).checkpoint
          /\ t.config = shown(from).config
          /\ shown(from).config.seqno >= s.config.seqno
          /\ durable'[d] = durable[d]
    BY <1>7 DEF merges
  <2> DEFINE c == shown(from)
  <2>2. s.config \in heldConfigs /\ c.config \in heldConfigs /\ s.config.seqno <= c.config.seqno
    BY <2>1, ShownConfig, ConfigsNumbered
  <2>3. narrows(kinds, s.config, t.config) /\ narrows(kinds, c.config, t.config)
    BY <2>1, <2>2, NarrowsItself DEF ConfigsInLine
  <2>4. carries(s) /\ carries(c) /\ carries(durable[d])
    BY <1>1 DEF shown
  <2>5. /\ t.checkpoint = s.checkpoint \/ t.checkpoint = c.checkpoint
        /\ t.ops \subseteq s.ops \cup c.ops /\ durable'[d] = durable[d]
    BY <2>1
  <2> HIDE DEF s, t, kinds, c
  <2>6. carries(t)
    BY <1>0, <2>3, <2>4, <2>5, MadeCarries
  <2> QED BY <2>4, <2>5, <2>6 DEF t, kinds
<1>8. CASE signs(d)
  <2> DEFINE c == storing[d]
             stable == StablePoint(s, Order(s))
  <2>1. /\ t = adoptCheckpoint(s, stableCheckpoint(s, c)) /\ c # Nothing
        /\ c.height = s.checkpoint.height /\ IsPrefix(c.prefix, stable)
        /\ written' = written /\ durable'[d] = durable[d]
    BY <1>8 DEF signs, current
  <2>2. c.prefix \in Seq(written)
    BY <2>1 DEF Types, StoringTyped
  <2>3. CarriesOn(c, s, written, kinds)
    BY <2>1 DEF StoringCarries
  <2>4. /\ stable \in Seq(s.ops) /\ Begins(stable, Order(s)) /\ GoodState(s, written)
        /\ Order(s) \in Seq(s.ops)
    BY <1>0, GoodIsPlaceable, StableType, OrderType
  <2>5. Carries(s, written, kinds) /\ carries(durable[d])
    BY <1>1 DEF StatesCarry, Carry
  <2> HIDE DEF s, t, kinds, c, stable
  <2>6. Begins(c.prefix, Order(s))
    <3>1. Begins(c.prefix, stable)
      BY <2>1, <2>2, <2>4, PrefixHeld
    <3> QED BY <2>2, <2>4, <3>1 DEF Begins
  <2>7. Carries(t, written, kinds)
    BY <1>0, <2>1, <2>2, <2>3, <2>4, <2>5, <2>6, SignedCarries
  <2> QED BY <2>1, <2>5, <2>7 DEF t, kinds
<1>9. CASE startsOver(d)
  BY <1>2, <1>9 DEF startsOver
<1>10. CASE losesPower(d) \/ flushes(d)
  BY <1>1, <1>10 DEF losesPower, flushes
<1> QED BY <1>5, <1>6, <1>7, <1>8, <1>9, <1>10 DEF heldMoves

LEMMA StatesCarryStep ==
  ASSUME Types, ConfigsInLine, Counted(written), [Next]_vars, NoneReadmitted, StatesCarry, StoringCarries
  PROVE  StatesCarry'
<1>0. \A e \in Devices : GoodState(state[e], written) /\ GoodState(durable[e], written)
  BY DEF Types, StatesTyped
<1>1. \A e \in Devices : /\ Carries(state[e], written', scenario.changes)
                         /\ Carries(durable[e], written', scenario.changes)
  BY <1>0, GrowthCarries DEF StatesCarry
<1>2. ASSUME NEW e \in Devices
      PROVE  /\ Carries(state'[e], written', scenario.changes)
             /\ Carries(durable'[e], written', scenario.changes)
  <2>1. CASE UNCHANGED <<state, durable, written>>
    BY <1>1, <2>1
  <2>2. ASSUME NEW d \in Devices, heldMoves(d)
        PROVE  /\ Carries(state'[e], written', scenario.changes)
               /\ Carries(durable'[e], written', scenario.changes)
    <3>1. CASE e = d
      BY <2>2, <3>1, StateCarriesStep
    <3>2. CASE e # d
      BY <1>1, <2>2, <3>2 DEF heldMoves, alone
    <3> QED BY <3>1, <3>2
  <2> QED BY <2>1, <2>2, HeldStep
<1>3. scenario' = scenario
  BY EnvironmentStep
<1> QED BY <1>2, <1>3 DEF StatesCarry, Carry

\* Installing a checkpoint keeps positions as they were applied, or drops them.
LEMMA InstalledPositions ==
  ASSUME NEW W, NEW x, GoodBody(x, W), NEW next
  PROVE  /\ install(x, next).installed = next
         /\ \A i \in 1..Len(install(x, next).positions) :
              \E j \in 1..Len(x.positions) : install(x, next).positions[i] = x.positions[j]
<1> DEFINE t == install(x, next)
<1>1. CASE x.installed = next
  <2>1. t = x
    BY <1>1 DEF install
  <2> HIDE DEF t
  <2> QED BY <1>1, <2>1 DEF t
<1>2. CASE x.installed # next
  <2> DEFINE n == CoveredPrefix([checkpoint |-> x.set], hashes(x), next)
             l == Len(x.positions)
             m == Max(kept(x, next)) + 1
             left == IF kept(x, next) = {} THEN <<>> ELSE SubSeq(x.positions, m, l)
  <2>1. t.positions = left /\ t.installed = next
    BY <1>2 DEF install, GoodBody
  <2>2. l \in Nat /\ DOMAIN x.positions = 1..l /\ x.positions \in Seq(Applied(W))
    BY DEF GoodBody
  <2>3. Len(hashes(x)) = l
    BY <2>2 DEF hashes
  <2>4. n \in -1..l
    BY <2>2, <2>3, CoveredPrefixType
  <2>5. kept(x, next) \subseteq {k \in {n} : k >= 0}
    BY DEF kept
  <2> HIDE DEF n, l
  <2>6. ASSUME NEW i \in 1..Len(left) PROVE \E j \in 1..l : left[i] = x.positions[j]
    <3>1. CASE kept(x, next) = {}
      BY <3>1
    <3>2. CASE kept(x, next) # {}
      <4>1. kept(x, next) \in SUBSET (0..l)
        BY <2>2, <2>4, <2>5
      <4>2. Max(kept(x, next)) \in 0..l
        BY <2>2, <3>2, <4>1, Extremes
      <4>3. m \in Int /\ m >= 1
        BY <2>2, <4>2
      <4>4. left = SubSeq(x.positions, m, l)
        BY <3>2
      <4> HIDE DEF m, left
      <4>5. i \in 1..(l - m + 1) /\ left[i] = x.positions[m + i - 1]
        BY <2>2, <2>6, <4>3, <4>4
      <4>6. m + i - 1 \in 1..l
        BY <2>2, <4>3, <4>5
      <4> QED BY <4>5, <4>6
    <3> QED BY <3>1, <3>2
  <2> HIDE DEF t, left
  <2> QED BY <2>1, <2>6 DEF t, l
<1> QED BY <1>1, <1>2

\* The refusals of the body x are deserved.
FairOf(x, s, W, kinds) ==
  \A i \in 1..Len(x.positions) : x.positions[i].refused => Deserved(kinds, s.config, W, x.positions[i].op)

\* Replay refuses what its author signed twice at one number, or wrote after its removal.
LEMMA AppliedFair ==
  ASSUME NEW W, NEW s, GoodState(s, W), NEW kinds, Familiar(s, kinds), NEW op \in s.ops,
         apply(s, op).refused
  PROVE  Deserved(kinds, s.config, W, op)
<1>1. Equivocated(s, op) \/ ~ AdmitsOperation(s.config, op)
  BY DEF apply
<1>2. CASE Equivocated(s, op)
  BY <1>2 DEF Equivocated, Deserved, singleIn, GoodState, Above
<1>3. CASE ~ AdmitsOperation(s.config, op)
  BY <1>3 DEF AdmitsOperation, Deserved, welcome, Familiar
<1> QED BY <1>1, <1>2, <1>3

\* Replaying leaves the operations of the order, fairly refused or applied.
LEMMA ReplayedFair ==
  ASSUME NEW W, NEW x, GoodBody(x, W), NEW s, GoodState(s, W), NEW kinds, Familiar(s, kinds),
         FairOf(x, s, W, kinds), NEW order \in Seq(s.ops),
         NEW n \in sharedPrefix(x, order)..Len(order)
  PROVE  LET t == replaying(x, s, order, sharedPrefix(x, order), n)
         IN /\ t.installed = x.installed /\ Len(t.positions) = n
            /\ \A i \in 1..n : t.positions[i].op = order[i]
            /\ FairOf(t, s, W, kinds)
<1> DEFINE keep == sharedPrefix(x, order)
           t == replaying(x, s, order, keep, n)
<1>1. /\ Len(order) \in Nat /\ Len(x.positions) \in Nat
      /\ \A i \in 1..Len(order) : order[i] \in s.ops
  BY DEF GoodBody
<1>2. /\ keep \in 0..Len(order) /\ keep <= Len(x.positions)
      /\ \A i \in 1..keep : x.positions[i].op = order[i]
  BY <1>1, SharedPrefixType
<1>3. /\ t.positions = [i \in 1..n |-> IF i <= keep THEN x.positions[i] ELSE apply(s, order[i])]
      /\ t.installed = x.installed
  BY DEF replaying, GoodBody
<1> HIDE DEF keep, t
<1>4. n \in Nat /\ n <= Len(order)
  BY <1>1, <1>2 DEF keep
<1>5. Len(t.positions) = n
  BY <1>3, <1>4
<1>6. ASSUME NEW i \in 1..n
      PROVE  /\ t.positions[i].op = order[i]
             /\ t.positions[i].refused => Deserved(kinds, s.config, W, t.positions[i].op)
  <2>1. CASE i <= keep
    <3>1. i \in 1..keep /\ i \in 1..Len(x.positions) /\ t.positions[i] = x.positions[i]
      BY <1>1, <1>2, <1>3, <2>1
    <3> QED BY <1>2, <3>1 DEF FairOf
  <2>2. CASE ~ (i <= keep)
    <3>1. t.positions[i] = apply(s, order[i]) /\ order[i] \in s.ops
      BY <1>1, <1>3, <1>4, <2>2
    <3>2. apply(s, order[i]).op = order[i]
      BY DEF apply
    <3> QED BY <3>1, <3>2, AppliedFair
  <2> QED BY <2>1, <2>2
<1> QED BY <1>3, <1>5, <1>6 DEF FairOf, t, keep

\* The state of a body after the stable prefix carries on from its checkpoint.
LEMMA RootCarriesOn ==
  ASSUME NEW W, NEW x, GoodBody(x, W), NEW s, NEW kinds, FairOf(x, s, W, kinds),
         x.installed = s.checkpoint, NEW S, NEW stable \in Seq(S), Len(stable) <= Len(x.positions),
         \A i \in 1..Len(stable) : x.positions[i].op = stable[i],
         NEW c, c.prefix = stable, c.data = Root(x, Len(stable))
  PROVE  CarriesOn(c, s, W, kinds)
<1> DEFINE refused == [i \in 1..Len(stable) |-> x.positions[i].refused]
           ps == SubSeq(x.positions, 1, Len(stable))
<1>1. /\ Len(stable) \in Nat /\ Len(x.positions) \in Nat
      /\ \A i \in 1..Len(stable) : i \in 1..Len(x.positions) /\ x.positions[i] \in Applied(W)
      /\ ps = [i \in 1..Len(stable) |-> x.positions[i]]
  BY DEF GoodBody
<1>2. \A i \in 1..Len(stable) : x.positions[i] = [op |-> stable[i], refused |-> refused[i]]
  <2> SUFFICES ASSUME NEW i \in 1..Len(stable)
               PROVE  x.positions[i] = [op |-> stable[i], refused |-> refused[i]]
    OBVIOUS
  <2>1. \A p \in Applied(W) : p = [op |-> p.op, refused |-> p.refused]
    BY DEF Applied
  <2> QED BY <1>1, <2>1
<1>3. ps = asReplayed(stable, refused)
  BY <1>1, <1>2 DEF asReplayed
<1> HIDE DEF ps
<1>4. c.data = s.checkpoint.data \o replayed(asReplayed(c.prefix, refused))
  BY <1>3 DEF Root, ps
<1>5. \A i \in 1..Len(c.prefix) : refused[i] => Deserved(kinds, s.config, W, c.prefix[i])
  BY <1>1 DEF FairOf
<1> HIDE DEF refused
<1> QED BY <1>4, <1>5 DEF CarriesOn

\* A step of d leaves its body fair, and stores a checkpoint that carries on.
LEMMA StepCarries ==
  ASSUME Types, StatesCarry, BodiesFair, NEW d \in Devices, Step(d)
  PROVE  /\ \E x : /\ body' = [body EXCEPT ![d] = x]
                   /\ FairOf(x, state[d], written, scenario.changes)
         /\ \/ UNCHANGED storing
            \/ \E c : /\ storing' = [storing EXCEPT ![d] = c]
                      /\ \/ c = storing[d]
                         \/ /\ c.height = state[d].checkpoint.height
                            /\ CarriesOn(c, state[d], written, scenario.changes)
<1> DEFINE s == state[d]
           kinds == scenario.changes
           x == install(body[d], s.checkpoint)
           order == Order(s)
           stable == StablePoint(s, order)
           goal == /\ \E y : body' = [body EXCEPT ![d] = y] /\ FairOf(y, s, written, kinds)
                   /\ \/ UNCHANGED storing
                      \/ \E c : /\ storing' = [storing EXCEPT ![d] = c]
                                /\ \/ c = storing[d]
                                   \/ c.height = s.checkpoint.height /\ CarriesOn(c, s, written, kinds)
<1>1. GoodState(s, written) /\ Placeable(s)
  BY GoodIsPlaceable DEF Types, StatesTyped
<1>2. Familiar(s, kinds) /\ GoodBody(body[d], written) /\ FairOf(body[d], s, written, kinds)
  BY DEF StatesCarry, Carry, Carries, Types, BodiesTyped, BodiesFair, FairOf
<1>3. /\ GoodBody(x, written) /\ x.installed = s.checkpoint /\ FairOf(x, s, written, kinds)
  <2>1. /\ GoodBody(x, written) /\ x.installed = s.checkpoint
        /\ \A i \in 1..Len(x.positions) :
             \E j \in 1..Len(body[d].positions) : x.positions[i] = body[d].positions[j]
    BY <1>2, InstalledBody, InstalledPositions
  <2> HIDE DEF x
  <2> QED BY <1>2, <2>1 DEF FairOf
<1>4. order \in Seq(s.ops) /\ stable \in Seq(s.ops) /\ Begins(stable, order)
  BY <1>1, OrderType, StableType
<1>5. \/ body' = [body EXCEPT ![d] = following(x)] /\ UNCHANGED storing
      \/ \E n \in sharedPrefix(x, order)..Len(order) :
         \E next \in {replaying(x, s, order, sharedPrefix(x, order), n)} :
           /\ body' = [body EXCEPT ![d] = next]
           /\ storing' = IF n < Len(order) THEN storing
                         ELSE [storing EXCEPT ![d] = checkpoint(s, stable, d, next)]
  BY DEF Step
<1> HIDE DEF x, order, stable, s, kinds
<1>6. ASSUME body' = [body EXCEPT ![d] = following(x)], UNCHANGED storing PROVE goal
  <2>1. following(x).positions = <<>>
    BY <1>3 DEF following, GoodBody
  <2>2. FairOf(following(x), s, written, kinds)
    BY <2>1 DEF FairOf
  <2> QED BY <1>6, <2>2
<1>7. ASSUME NEW n \in sharedPrefix(x, order)..Len(order), NEW next,
             next = replaying(x, s, order, sharedPrefix(x, order), n),
             body' = [body EXCEPT ![d] = next],
             storing' = IF n < Len(order) THEN storing
                        ELSE [storing EXCEPT ![d] = checkpoint(s, stable, d, next)]
      PROVE  goal
  <2>1. /\ next.installed = x.installed /\ Len(next.positions) = n
        /\ \A i \in 1..n : next.positions[i].op = order[i]
        /\ FairOf(next, s, written, kinds)
    BY <1>1, <1>2, <1>3, <1>4, <1>7, ReplayedFair
  <2>2. order \in Seq(written) /\ GoodBody(next, written)
    <3>1. order \in Seq(written)
      BY <1>1, <1>4, SeqMonotonic DEF GoodState, Above
    <3> QED BY <1>3, <1>7, <3>1, ReplayedBody
  <2>3. CASE n < Len(order)
    BY <1>7, <2>1, <2>3
  <2>4. CASE ~ (n < Len(order))
    <3> DEFINE c == checkpoint(s, stable, d, next)
    <3>1. storing' = [storing EXCEPT ![d] = c]
      BY <1>7, <2>4
    <3>2. n = Len(order) /\ Len(stable) <= n /\ \A i \in 1..Len(stable) : stable[i] = order[i] /\ i \in 1..n
      <4>1. Len(order) \in Nat /\ Len(stable) \in Nat /\ Len(x.positions) \in Nat
        BY <1>3, <1>4 DEF GoodBody
      <4>2. n \in Int /\ n <= Len(order)
        BY <4>1, SharedPrefixType
      <4> QED BY <1>4, <2>4, <4>1, <4>2 DEF Begins
    <3>3. CASE c = storing[d]
      BY <1>7, <2>1, <3>1, <3>3
    <3>4. CASE c # storing[d]
      <4>1. c = [prefix |-> stable, data |-> Root(next, Len(stable)), height |-> s.checkpoint.height]
        BY <3>4 DEF checkpoint
      <4>2. c.prefix = stable /\ c.data = Root(next, Len(stable)) /\ c.height = s.checkpoint.height
        BY <4>1
      <4>3. \A i \in 1..Len(stable) : next.positions[i].op = stable[i]
        BY <2>1, <3>2
      <4> HIDE DEF c
      <4>4. CarriesOn(c, s, written, kinds)
        BY <1>3, <1>4, <2>1, <2>2, <3>2, <4>2, <4>3, RootCarriesOn
      <4> QED BY <1>7, <2>1, <3>1, <4>2, <4>4
    <3> QED BY <3>3, <3>4
  <2> QED BY <2>3, <2>4
<1>8. goal
  BY <1>5, <1>6, <1>7
<1> QED BY <1>8 DEF s, kinds

\* What is stored carries on while the state it is of keeps its checkpoint.
LEMMA CarriesOnStays ==
  ASSUME NEW W, NEW V, W \subseteq V, NEW kinds, "add" \notin kinds \/ "remove" \notin kinds,
         NEW s, NEW t, t.checkpoint = s.checkpoint, narrows(kinds, s.config, t.config),
         NEW c, CarriesOn(c, s, W, kinds)
  PROVE  CarriesOn(c, t, V, kinds)
<1>1. PICK refused :
        /\ c.data = s.checkpoint.data \o replayed(asReplayed(c.prefix, refused))
        /\ \A i \in 1..Len(c.prefix) : refused[i] => Deserved(kinds, s.config, W, c.prefix[i])
  BY DEF CarriesOn
<1>2. \A i \in 1..Len(c.prefix) : refused[i] => Deserved(kinds, t.config, V, c.prefix[i])
  BY <1>1, DeservedStays
<1>3. c.data = t.checkpoint.data \o replayed(asReplayed(c.prefix, refused))
  BY <1>1
<1> QED BY <1>2, <1>3 DEF CarriesOn

\* A checkpoint gives way to a higher one only, but where the device starts anew.
LEMMA CheckpointMoves ==
  ASSUME Types, [Next]_vars, NEW e \in Devices
  PROVE  \/ state'[e].checkpoint = state[e].checkpoint
         \/ state'[e].checkpoint.height > state[e].checkpoint.height
         \/ storing'[e] = Nothing
<1> DEFINE moves(d) == \/ state'[d].checkpoint = state[d].checkpoint
                       \/ state'[d].checkpoint.height > state[d].checkpoint.height
                       \/ storing'[d] = Nothing
<1>0. \A d \in Devices : state[d].checkpoint.height \in Nat /\ shown(d).checkpoint.height \in Nat
  BY CheckpointsNumbered
<1>1. CASE UNCHANGED <<state, durable, written>>
  BY <1>1
<1>2. ASSUME NEW d \in Devices, heldMoves(d) PROVE moves(e)
  <2>1. CASE e # d
    BY <1>2, <2>1 DEF heldMoves, alone
  <2>2. CASE stays(d) \/ adds(d) \/ leaves(d) \/ flushes(d)
    <3>1. state'[d].checkpoint = state[d].checkpoint
      BY <2>2 DEF stays, adds, leaves, flushes
    <3> QED BY <2>1, <3>1
  <2>3. CASE merges(d)
    <3>1. PICK from \in Devices :
            state'[d].checkpoint = IF shown(from).checkpoint.height <= state[d].checkpoint.height
                                   THEN state[d].checkpoint ELSE shown(from).checkpoint
      BY <2>3 DEF merges
    <3>2. moves(d)
      BY <1>0, <3>1
    <3> QED BY <2>1, <3>2
  <2>4. CASE signs(d)
    <3>1. moves(d)
      BY <1>0, <2>4 DEF signs
    <3> QED BY <2>1, <3>1
  <2>5. CASE startsOver(d) \/ losesPower(d)
    <3>1. moves(d)
      BY <2>5 DEF startsOver, losesPower
    <3> QED BY <2>1, <3>1
  <2> QED BY <1>2, <2>2, <2>3, <2>4, <2>5 DEF heldMoves
<1> QED BY <1>1, <1>2, HeldStep

LEMMA BodiesFairStep ==
  ASSUME Types, ConfigsInLine, [Next]_vars, NoneReadmitted, StatesCarry, BodiesFair
  PROVE  BodiesFair'
<1>0. /\ scenario' = scenario /\ written \subseteq written'
      /\ "add" \notin scenario.changes \/ "remove" \notin scenario.changes
  BY EnvironmentStep, WrittenStep DEF NoneReadmitted
<1> DEFINE fair(x, e) == FairOf(x, state'[e], written', scenario.changes)
<1>1. ASSUME NEW e \in Devices, NEW x, FairOf(x, state[e], written, scenario.changes),
             narrows(scenario.changes, state[e].config, state'[e].config)
      PROVE  fair(x, e)
  BY <1>0, <1>1, DeservedStays DEF FairOf
<1>2. ASSUME NEW e \in Devices PROVE fair(body'[e], e)
  <2>0. FairOf(body[e], state[e], written, scenario.changes) /\ DOMAIN body = Devices
    BY DEF BodiesFair, FairOf, Types, BodiesTyped
  <2>1. CASE body'[e] = Detached
    BY <2>1 DEF Detached, FairOf
  <2>2. CASE body'[e] = body[e]
    BY <1>1, <2>0, <2>1, <2>2, ConfigMoves DEF forgetsConfig
  <2>3. ASSUME NEW d \in Devices, Step(d) PROVE fair(body'[e], e)
    <3>1. PICK x : body' = [body EXCEPT ![d] = x] /\ FairOf(x, state[d], written, scenario.changes)
      BY <2>3, StepCarries
    <3>2. CASE e # d
      BY <2>0, <2>2, <3>1, <3>2
    <3>3. CASE e = d
      <4>1. body'[e] = x /\ state'[e] = state[e]
        BY <2>0, <2>3, <3>1, <3>3 DEF Step
      <4> QED BY <1>1, <3>1, <3>3, <4>1, NarrowsItself
    <3> QED BY <3>2, <3>3
  <2>4. CASE \A d \in Devices : ~ Step(d)
    <3>1. UNCHANGED body \/ \E d \in Devices : body' = [body EXCEPT ![d] = Detached]
      BY <2>4, BodyStep
    <3>2. body'[e] = body[e] \/ body'[e] = Detached
      BY <2>0, <3>1
    <3> QED BY <2>1, <2>2, <3>2
  <2> QED BY <2>3, <2>4
<1> QED BY <1>0, <1>2 DEF BodiesFair, FairOf

LEMMA StoringStep ==
  ASSUME Types, ConfigsInLine, [Next]_vars, NoneReadmitted, StatesCarry, BodiesFair, StoringCarries
  PROVE  StoringCarries'
<1>0. /\ scenario' = scenario /\ written \subseteq written'
      /\ "add" \notin scenario.changes \/ "remove" \notin scenario.changes
  BY EnvironmentStep, WrittenStep DEF NoneReadmitted
<1>1. StatesTyped(state)'
  BY StateTypesStep
<1> DEFINE carriesOn(c, s) == CarriesOn(c, s, written', scenario.changes)
           good(e) == storing'[e] # Nothing =>
             /\ storing'[e].height \in Nat /\ storing'[e].height <= state'[e].checkpoint.height
             /\ storing'[e].height = state'[e].checkpoint.height => carriesOn(storing'[e], state'[e])
<1>2. ASSUME NEW e \in Devices PROVE good(e)
  <2>0. /\ DOMAIN storing = Devices /\ state[e].checkpoint.height \in Nat
        /\ state'[e].checkpoint.height \in Nat
    BY <1>1, CheckpointsNumbered DEF Types, StoringTyped, StatesTyped, GoodState, GoodCheckpoint
  <2>1. CASE storing'[e] = Nothing
    BY <2>1
  <2>2. CASE storing'[e] = storing[e] /\ storing[e] # Nothing /\ storing'[e] # Nothing
    <3>1. /\ storing[e].height \in Nat /\ storing[e].height <= state[e].checkpoint.height
          /\ storing[e].height = state[e].checkpoint.height =>
               CarriesOn(storing[e], state[e], written, scenario.changes)
      BY <2>2 DEF StoringCarries
    <3>2. CASE state'[e].checkpoint.height > state[e].checkpoint.height
      BY <2>0, <2>2, <3>1, <3>2
    <3>3. CASE state'[e].checkpoint = state[e].checkpoint
      <4>1. narrows(scenario.changes, state[e].config, state'[e].config)
        BY <2>2, ConfigMoves DEF forgetsConfig
      <4>2. storing[e].height = state[e].checkpoint.height => carriesOn(storing[e], state'[e])
        BY <1>0, <3>1, <3>3, <4>1, CarriesOnStays
      <4> QED BY <2>2, <3>1, <3>3, <4>2
    <3> QED BY <2>2, <3>2, <3>3, CheckpointMoves
  <2>3. ASSUME NEW d \in Devices, Step(d) PROVE good(e)
    <3>0. UNCHANGED <<state, written>>
      BY <2>3 DEF Step
    <3>1. CASE UNCHANGED storing
      BY <2>1, <2>2, <3>1
    <3>2. ASSUME NEW c, storing' = [storing EXCEPT ![d] = c],
                 \/ c = storing[d]
                 \/ /\ c.height = state[d].checkpoint.height
                    /\ CarriesOn(c, state[d], written, scenario.changes)
          PROVE  good(e)
      <4>1. CASE e # d \/ c = storing[d]
        <5>1. storing'[e] = storing[e]
          BY <2>0, <3>2, <4>1
        <5> QED BY <2>1, <2>2, <5>1
      <4>2. CASE e = d /\ c # storing[d]
        <5>1. storing'[e] = c
          BY <2>0, <3>2, <4>2
        <5> QED BY <2>0, <3>0, <3>2, <4>2, <5>1
      <4> QED BY <4>1, <4>2
    <3> HIDE DEF good
    <3> QED BY <2>3, <3>1, <3>2, StepCarries
  <2>4. CASE \A d \in Devices : ~ Step(d)
    <3>1. UNCHANGED storing \/ \E d \in Devices : storing' = [storing EXCEPT ![d] = Nothing]
      BY <2>4, BodyStep
    <3>2. storing'[e] = storing[e] \/ storing'[e] = Nothing
      BY <2>0, <3>1
    <3> QED BY <2>1, <2>2, <3>2
  <2> HIDE DEF good
  <2> QED BY <2>3, <2>4
<1> QED BY <1>0, <1>2 DEF StoringCarries

-----------------------------------------------------------------------------
(* Own edits. An author holds what it wrote, or a checkpoint over it.      *)

holds(s, op) == op \in s.ops \/ Covers(s.checkpoint, position(op))

OwnHeld ==
  \A op \in written :
    remembers(op.author) /\ op.author \notin scenario.losing =>
      holds(state[op.author], op) /\ Single(op)

LEMMA OwnKept ==
  ASSUME Types, [Next]_vars, ConfigsInLine, CheckpointsInLine, StrangersSilent,
         NEW a \in Devices, remembers(a)', a \notin scenario.losing, heldMoves(a),
         NEW op \in written, op.author = a, holds(state[a], op)
  PROVE  holds(state'[a], op)
<1>0. /\ op.nonce \in Nat /\ position(op).author = a /\ position(op).nonce = op.nonce
      /\ op \notin state[a].ops => op.nonce <= state[a].checkpoint.authors[a].nonce
  BY DEF Types, GoodOperations, position, holds, Covers
<1>1. scenario' = scenario /\ restored \subseteq restored' /\ a \notin restored'
  BY EnvironmentStep DEF remembers
<1>2. ASSUME Keeps(state[a], state'[a]),
             state[a].checkpoint.authors[a].nonce <= state'[a].checkpoint.authors[a].nonce,
             state[a].checkpoint.authors[a].nonce \in Nat, state'[a].checkpoint.authors[a].nonce \in Nat
      PROVE  holds(state'[a], op)
  BY <1>0, <1>2 DEF Keeps, holds, Covers
<1>3. CASE stays(a) \/ adds(a) \/ flushes(a)
  <2>1. state[a].ops \subseteq state'[a].ops /\ state'[a].checkpoint = state[a].checkpoint
    BY <1>3 DEF stays, adds, flushes
  <2> QED BY <2>1 DEF holds
<1>4. CASE merges(a)
  <2>1. PICK from \in Devices :
          state'[a].checkpoint = IF shown(from).checkpoint.height <= state[a].checkpoint.height
                                 THEN state[a].checkpoint ELSE shown(from).checkpoint
    BY <1>4 DEF merges
  <2>2. /\ state[a].checkpoint \in heldCheckpoints /\ shown(from).checkpoint \in heldCheckpoints
        /\ state[a].checkpoint.height \in Nat /\ shown(from).checkpoint.height \in Nat
        /\ state[a].checkpoint.authors[a].nonce \in Nat
        /\ shown(from).checkpoint.authors[a].nonce \in Nat
    BY CheckpointsNumbered
  <2>3. CASE shown(from).checkpoint.height <= state[a].checkpoint.height
    BY <1>2, <1>4, <2>1, <2>2, <2>3 DEF merges
  <2>4. CASE ~ (shown(from).checkpoint.height <= state[a].checkpoint.height)
    <3>1. state[a].checkpoint.authors[a].nonce <= shown(from).checkpoint.authors[a].nonce
      BY <2>2, <2>4 DEF CheckpointsInLine
    <3> QED BY <1>2, <1>4, <2>1, <2>2, <2>4, <3>1 DEF merges
  <2> QED BY <2>3, <2>4
<1>5. CASE signs(a)
  <2>1. GoodState(state'[a], written') /\ GoodOperations(written')
    BY StateTypesStep, WrittenStep DEF StatesTyped
  <2>2. state[a].checkpoint.authors[a].nonce \in Nat /\ state'[a].checkpoint.authors[a].nonce \in Nat
    BY <2>1, NumbersAreNatural, CheckpointsNumbered
  <2> QED BY <1>2, <1>5, <2>2 DEF signs
<1>6. ~ leaves(a)
  <2> SUFFICES ASSUME leaves(a) PROVE FALSE
    OBVIOUS
  <2>1. a \notin Writers(state'[a].config)
    BY DEF leaves
  <2>2. "remove" \notin scenario.changes
    BY <1>1, <2>1 DEF remembers
  <2>3. a \notin Writers(state[a].config)
    <3>1. narrows(scenario.changes, state[a].config, state'[a].config)
      BY <1>1, WritersMove
    <3> QED BY <2>1, <2>2, <3>1 DEF narrows
  <2> QED BY <1>1, <2>2, <2>3 DEF StrangersSilent
<1>7. ~ startsOver(a) /\ ~ losesPower(a)
  BY <1>1 DEF startsOver, losesPower
<1> QED BY <1>3, <1>4, <1>5, <1>6, <1>7 DEF heldMoves

\* An author that holds what it wrote gives no number twice.
LEMMA NumberedAnew ==
  ASSUME Types, OwnHeld, NEW d \in Devices, remembers(d), d \notin scenario.losing,
         NEW prev \in AuthorHeads(state[d], d), NEW op \in written, op.author = d
  PROVE  op.nonce # prev.nonce + 1
<1>1. holds(state[d], op) /\ op.nonce \in Nat /\ GoodState(state[d], written)
  BY DEF OwnHeld, Types, GoodOperations, StatesTyped
<1>2. reaches(state[d], d, op.nonce)
  BY <1>1 DEF holds, reaches, Covers, position
<1>3. ~ reaches(state[d], d, prev.nonce + 1)
  BY <1>1, NextNumber DEF Types
<1> QED BY <1>2, <1>3

LEMMA OwnHeldStep ==
  ASSUME Types, NumberInv, OneSigner, NoneReadmitted, OwnHeld, [Next]_vars
  PROVE  OwnHeld'
<1>1. ConfigsInLine /\ CheckpointsInLine /\ StrangersSilent
  BY DEF NumberInv, Numbered
<1>2. scenario' = scenario /\ written \subseteq written' /\ GoodOperations(written')
  BY EnvironmentStep, WrittenStep
<1> SUFFICES ASSUME NEW op \in written', remembers(op.author)', op.author \notin scenario.losing
             PROVE  holds(state'[op.author], op) /\ Single(op)'
  BY <1>2 DEF OwnHeld, holds
<1> DEFINE a == op.author
<1>3. a \in Devices /\ remembers(a)
  BY <1>1, <1>2, RememberedBefore DEF GoodOperations
<1>4. CASE op \in written
  <2>1. holds(state[a], op) /\ Single(op)
    BY <1>3, <1>4 DEF OwnHeld
  <2>2. holds(state'[a], op)
    <3>1. CASE UNCHANGED <<state, durable, written>>
      BY <2>1, <3>1
    <3>2. ASSUME NEW d \in Devices, heldMoves(d) PROVE holds(state'[a], op)
      <4>1. CASE d = a
        BY <1>1, <1>3, <1>4, <2>1, <3>2, <4>1, OwnKept
      <4>2. CASE d # a
        <5>1. state'[a] = state[a]
          BY <1>3, <3>2, <4>2 DEF heldMoves, alone
        <5> QED BY <2>1, <5>1
      <4> QED BY <4>1, <4>2
    <3> QED BY <3>1, <3>2, HeldStep
  <2>3. Single(op)'
    <3>1. CASE written' = written
      BY <2>1, <3>1 DEF Single
    <3>2. ASSUME NEW d \in Devices, adds(d) PROVE Single(op)'
      <4>1. PICK prev, new : /\ prev \in AuthorHeads(state[d], d) /\ written' = written \cup {new}
                             /\ new.author = d /\ new.nonce = prev.nonce + 1
        BY <3>2 DEF adds
      <4>2. ~ (new.author = a /\ new.nonce = op.nonce)
        BY <1>3, <1>4, <4>1, NumberedAnew
      <4> QED BY <2>1, <4>1, <4>2 DEF Single
    <3> QED BY <3>1, <3>2, WritesOne
  <2> QED BY <2>2, <2>3
<1>5. CASE op \notin written
  <2>1. PICK d \in Devices : adds(d)
    BY <1>5, WritesOne
  <2>2. PICK prev, new : /\ prev \in AuthorHeads(state[d], d) /\ written' = written \cup {new}
                         /\ new.author = d /\ new.nonce = prev.nonce + 1
                         /\ new \in state'[d].ops \/ Covers(state'[d].checkpoint, position(new))
    BY <2>1 DEF adds
  <2>3. new = op /\ d = a
    BY <1>5, <2>2
  <2>4. \A w \in written : ~ (w.author = a /\ w.nonce = op.nonce)
    BY <1>3, <2>2, <2>3, NumberedAnew
  <2>5. Single(op)'
    BY <2>2, <2>3, <2>4 DEF Single
  <2> QED BY <2>2, <2>3, <2>5 DEF holds
<1> QED BY <1>4, <1>5

-----------------------------------------------------------------------------
(* The invariant of edits, and what it shows.                              *)

CarryInv ==
  /\ Counted(written)
  /\ NoneReadmitted => StatesCarry /\ BodiesFair /\ StoringCarries

EditInv ==
  /\ Types /\ NumberInv /\ CarryInv
  /\ OneSigner /\ NoneReadmitted => OwnHeld

LEMMA EditInit == Init => EditInv
<1> SUFFICES ASSUME Init PROVE EditInv
  OBVIOUS
<1>1. Types /\ NumberInv
  BY TypesInit, NumberedInit
<1>2. written = {}
  BY DEF Init
<1>3. Counted(written) /\ OwnHeld
  BY <1>2 DEF Counted, OwnHeld
<1>4. \A d \in Devices : state[d] = GenesisState(scenario.config) /\ durable[d] = state[d]
  BY DEF Init
<1>5. StatesCarry
  BY <1>1, <1>4, GenesisCarries DEF StatesCarry, Carry, Types
<1>6. BodiesFair /\ StoringCarries
  BY DEF Init, BodiesFair, StoringCarries, Detached
<1> QED BY <1>1, <1>3, <1>5, <1>6 DEF EditInv, CarryInv

LEMMA EditStep == EditInv /\ [Next]_vars => EditInv'
<1> SUFFICES ASSUME EditInv, [Next]_vars PROVE EditInv'
  OBVIOUS
<1>1. Types /\ NumberInv /\ Counted(written) /\ ConfigsInLine
  BY DEF EditInv, CarryInv, NumberInv
<1>2. Types' /\ NumberInv' /\ Counted(written)'
  BY <1>1, TypesStep, NumberedStep, CountedStep
<1>3. NoneReadmitted' => NoneReadmitted
  BY <1>1, EnvironmentStep DEF NoneReadmitted
<1>4. NoneReadmitted' => StatesCarry' /\ BodiesFair' /\ StoringCarries'
  BY <1>1, <1>3, StatesCarryStep, BodiesFairStep, StoringStep DEF EditInv, CarryInv
<1>5. OneSigner' /\ NoneReadmitted' => OwnHeld'
  BY <1>1, <1>3, OneSignerStays, OwnHeldStep DEF EditInv
<1> QED BY <1>2, <1>4, <1>5 DEF EditInv, CarryInv

LEMMA EditInvariant == Spec => []EditInv
  BY EditInit, EditStep, PTL DEF Spec

LEMMA OneAtMost ==
  ASSUME NEW S, \A x, y \in S : x = y
  PROVE  Cardinality(S) <= 1
<1>1. CASE S = {}
  BY <1>1, FS_EmptySet
<1>2. CASE S # {}
  <2>1. PICK x \in S : S = {x}
    BY <1>2
  <2> QED BY <2>1, FS_Singleton
<1> QED BY <1>1, <1>2

\* Whatever devices import, lose or are restored from, and however many owners sign
\* checkpoints, provided nobody is removed and admitted anew, a checkpoint has the mark of
\* each edit of a writer that it covers, once, and of no other.
THEOREM CheckpointsCarryEdits == Spec => [](NoneReadmitted => CoversWhatItCarries)
<1>1. EditInv => (NoneReadmitted => CoversWhatItCarries)
  <2> SUFFICES ASSUME EditInv, NoneReadmitted,
                      NEW d \in Devices, NEW op \in written, ~ op.ack, Single(op)
               PROVE  LET carried == state[d].checkpoint
                          marks == {i \in DOMAIN carried.data : carried.data[i] = position(op)}
                      IN /\ Cardinality(marks) <= 1
                         /\ marks # {} => Covers(carried, position(op))
                         /\ Covers(carried, position(op)) /\ op.author \in Writers(state[d].config)
                              => marks # {}
    BY DEF CoversWhatItCarries
  <2> DEFINE carried == state[d].checkpoint
             data == carried.data
             marks == {i \in DOMAIN data : data[i] = position(op)}
  <2>1. Carries(state[d], written, scenario.changes)
    BY DEF EditInv, CarryInv, StatesCarry, Carry
  <2>2. DOMAIN data = 1..Len(data)
    BY <2>1 DEF Carries, Marks
  <2>3. \A i, j \in 1..Len(data) : data[i] = data[j] => i = j
    BY <2>1 DEF Carries, Marks
  <2>4. \A i \in 1..Len(data) : Covers(carried, data[i])
    BY <2>1 DEF Carries, Marks
  <2>5. Covers(carried, position(op)) /\ op.author \in Writers(state[d].config) =>
          \E i \in 1..Len(data) : data[i] = position(op)
    BY <2>1 DEF Carries, Carried, welcome, Single, singleIn
  <2> HIDE DEF carried, data
  <2>6. \A i, j \in marks : i = j
    BY <2>2, <2>3
  <2>7. Cardinality(marks) <= 1
    <3> HIDE DEF marks
    <3> QED BY <2>6, OneAtMost
  <2>8. marks # {} => Covers(carried, position(op))
    BY <2>2, <2>4
  <2>9. Covers(carried, position(op)) /\ op.author \in Writers(state[d].config) => marks # {}
    BY <2>2, <2>5
  <2> HIDE DEF marks
  <2> QED BY <2>7, <2>8, <2>9 DEF marks, data, carried
<1> QED BY <1>1, EditInvariant, PTL

\* Where one device signs the checkpoints and remembers them, and nobody is removed and
\* admitted anew, a writer that keeps its memory holds each edit that it wrote, or a
\* checkpoint that has its mark.
THEOREM WritersKeepEdits == Spec => [](OneSigner /\ NoneReadmitted => OwnEditsKept)
<1>1. EditInv => (OneSigner /\ NoneReadmitted => OwnEditsKept)
  <2> SUFFICES ASSUME EditInv, OneSigner, NoneReadmitted, NEW op \in written, ~ op.ack
               PROVE  LET s == state[op.author]
                      IN \/ op \in s.ops \/ position(op) \in Range(s.checkpoint.data)
                         \/ op.author \in restored \cup scenario.losing
                         \/ op.author \notin Writers(s.config)
    BY DEF OwnEditsKept
  <2> DEFINE a == op.author
             s == state[a]
             data == s.checkpoint.data
  <2> SUFFICES ASSUME op \notin s.ops, a \notin restored \cup scenario.losing, a \in Writers(s.config)
               PROVE  position(op) \in Range(data)
    OBVIOUS
  <2>1. a \in Devices
    BY DEF EditInv, Types, GoodOperations
  <2>2. holds(s, op) /\ Single(op)
    BY <2>1 DEF EditInv, OwnHeld, remembers
  <2>3. Carries(s, written, scenario.changes)
    BY <2>1 DEF EditInv, CarryInv, StatesCarry, Carry
  <2>4. PICK i \in 1..Len(data) : data[i] = position(op)
    BY <2>2, <2>3 DEF holds, Carries, Carried, welcome, Single, singleIn
  <2>5. DOMAIN data = 1..Len(data)
    BY <2>3 DEF Carries, Marks
  <2> HIDE DEF data
  <2>6. position(op) \in Range(data)
    BY <2>4, <2>5 DEF Range
  <2> QED BY <2>6 DEF data
<1> QED BY <1>1, EditInvariant, PTL
-----------------------------------------------------------------------------
(* Ancestors. What the walk down an order finds.                           *)

Walks(s, q) == [upTo : 0..Len(q), found : SUBSET s.ops]

\* What names the operation x, if one of these does.
parentOf(s, found, x) == {p \in {x} : \E y \in found : position(p) \in openLinks(s, y)}

IsDescent(below, s, q) ==
  below = [at \in Walks(s, q) |->
             IF at.upTo = 0 THEN at.found
             ELSE below[[upTo |-> at.upTo - 1,
                         found |-> at.found \cup parentOf(s, at.found, q[at.upTo])]]]

\* Of the operations after the place i, those that one of the found builds on are found.
FoundAbove(s, q, found, i) ==
  \A j \in 1..Len(q) : \A y \in found :
    j > i /\ position(q[j]) \in openLinks(s, y) => q[j] \in found

\* It has only what op links to, and what that links to, and so on.
FoundFrom(s, op, found) ==
  \A C \in SUBSET s.ops :
    op \in C /\ (\A y \in C : \A x \in s.ops : position(x) \in openLinks(s, y) => x \in C)
      => found \subseteq C

\* An operation of the order is found with each that it descends from.
LEMMA AncestorsFound ==
  ASSUME NEW s, NEW q \in Seq(s.ops), Linked(s, q),
         \A x, y \in s.ops : position(x) = position(y) => x = y, NEW op \in s.ops
  PROVE  LET found == Ancestors(s, q, op)
         IN op \in found /\ found \subseteq s.ops /\ FoundAbove(s, q, found, 0) /\ FoundFrom(s, op, found)
<1> DEFINE S == Walks(s, q)
           V == SUBSET s.ops
           onward(at) == [upTo |-> at.upTo - 1,
                          found |-> at.found \cup parentOf(s, at.found, q[at.upTo])]
           stop == {at \in S : at.upTo = 0}
           next == [at \in S |-> onward(at)]
           out == [at \in S |-> at.found]
           rank == [at \in S |-> at.upTo]
           first == [upTo |-> Len(q), found |-> {op}]
<1>0. /\ Len(q) \in Nat /\ \A i \in 1..Len(q) : q[i] \in s.ops
      /\ first \in S /\ \A at \in S : at.upTo \in 0..Len(q) /\ at.found \subseteq s.ops
  BY DEF Walks
<1>1. out \in [S -> V] /\ rank \in [S -> Nat] /\ V # {}
  <2>1. (\A at \in S : at.found \in SUBSET s.ops /\ at.upTo \in Nat) /\ {} \in SUBSET s.ops
    BY <1>0
  <2> HIDE DEF S
  <2> QED BY <2>1
<1>2. ASSUME NEW at \in S, at.upTo # 0
      PROVE  onward(at) \in S /\ onward(at).upTo = at.upTo - 1 /\ at.upTo \in 1..Len(q)
  <2>1. at.upTo \in 1..Len(q)
    BY <1>0, <1>2
  <2>2. q[at.upTo] \in s.ops
    BY <1>0, <2>1
  <2>3. parentOf(s, at.found, q[at.upTo]) \subseteq s.ops
    BY <2>2 DEF parentOf
  <2>4. at.upTo - 1 \in 0..Len(q) /\ at.found \cup parentOf(s, at.found, q[at.upTo]) \in SUBSET s.ops
    BY <1>0, <2>1, <2>3
  <2> QED BY <2>1, <2>4 DEF Walks
<1>3. Declines(S, stop, next, rank)
  <2>1. \A at \in S \ stop : next[at] = onward(at) /\ next[at] \in S /\ rank[next[at]] < rank[at]
    BY <1>0, <1>2
  <2> HIDE DEF S, stop, next, rank
  <2> QED BY <2>1 DEF Declines
<1>4. PICK f \in [S -> V] : Iterates(S, stop, next, out, f)
  <2> HIDE DEF S, stop, next, out, rank, V
  <2> QED BY <1>1, <1>3, Iteration
<1>5. IsDescent(f, s, q)
  <2>1. \A at \in S : f[at] = IF at.upTo = 0 THEN at.found ELSE f[onward(at)]
    <3> HIDE DEF S, onward
    <3> QED BY <1>4 DEF Iterates
  <2>2. f = [at \in S |-> f[at]]
    <3> HIDE DEF S
    <3> QED BY <1>4
  <2>3. f = [at \in S |-> IF at.upTo = 0 THEN at.found ELSE f[onward(at)]]
    <3> HIDE DEF S, onward
    <3> QED BY <2>1, <2>2
  <2> QED BY <2>3, Zenon DEF IsDescent
<1> DEFINE below == CHOOSE b : IsDescent(b, s, q)
<1>6. IsDescent(below, s, q)
  BY <1>5, Zenon
<1>7. Ancestors(s, q, op) = below[first]
  BY Zenon DEF Ancestors, IsDescent, Walks, parentOf
<1> HIDE DEF below
<1>8. Iterates(S, stop, next, out, below)
  <2>1. \A at \in S : below[at] = IF at.upTo = 0 THEN at.found ELSE below[onward(at)]
    BY <1>6 DEF IsDescent
  <2> HIDE DEF onward
  <2>2. \A at \in S : next[at] = onward(at) /\ out[at] = at.found /\ (at \in stop <=> at.upTo = 0)
    OBVIOUS
  <2> HIDE DEF S, stop, next, out
  <2> QED BY <2>1, <2>2 DEF Iterates
<1> DEFINE T == {at \in S : op \in at.found /\ FoundAbove(s, q, at.found, at.upTo) /\ FoundFrom(s, op, at.found)}
<1>9. ASSUME NEW at \in T, at.upTo # 0 PROVE onward(at) \in T
  <2> DEFINE i == at.upTo
             more == at.found \cup parentOf(s, at.found, q[i])
  <2>1. onward(at) \in S /\ onward(at).found = more /\ onward(at).upTo = i - 1 /\ i \in 1..Len(q)
    BY <1>2, <1>9
  <2>2. at.found \subseteq s.ops /\ q[i] \in s.ops
    BY <1>0, <2>1
  <2>3. ASSUME NEW j \in 1..Len(q), NEW y \in more, j > i - 1, position(q[j]) \in openLinks(s, y)
        PROVE  q[j] \in more
    <3>1. CASE y \in at.found /\ j > i
      BY <2>3, <3>1 DEF FoundAbove
    <3>2. CASE y \in at.found /\ j = i
      BY <2>3, <3>2 DEF parentOf
    <3>3. CASE y = q[i]
      <4>1. PICK k \in 1..(i - 1) : position(q[k]) = position(q[j])
        BY <2>1, <2>3, <3>3 DEF Linked
      <4>2. k \in 1..Len(q) /\ q[k] \in s.ops /\ q[j] \in s.ops
        BY <1>0, <2>1
      <4>3. k = j
        BY <4>1, <4>2 DEF Linked
      <4> QED BY <1>0, <2>1, <2>3, <4>3
    <3>4. y \in at.found \/ y = q[i]
      BY DEF parentOf
    <3> QED BY <1>0, <2>1, <2>3, <3>1, <3>2, <3>3, <3>4
  <2>4. FoundAbove(s, q, more, i - 1)
    BY <2>3 DEF FoundAbove
  <2>5. FoundFrom(s, op, more)
    <3> SUFFICES ASSUME NEW C \in SUBSET s.ops, op \in C,
                        \A y \in C : \A x \in s.ops : position(x) \in openLinks(s, y) => x \in C
                 PROVE  more \subseteq C
      BY DEF FoundFrom
    <3>1. at.found \subseteq C
      BY DEF FoundFrom
    <3>2. parentOf(s, at.found, q[i]) \subseteq C
      BY <2>2, <3>1 DEF parentOf
    <3> QED BY <3>1, <3>2
  <2> HIDE DEF onward, more, S
  <2> QED BY <2>1, <2>4, <2>5 DEF more
<1>10. first \in T
  <2>1. FoundAbove(s, q, {op}, Len(q)) /\ FoundFrom(s, op, {op})
    BY <1>0 DEF FoundAbove, FoundFrom
  <2> QED BY <1>0, <2>1
<1>11. \A at \in T : \E b \in T \cap stop : below[at] = out[b]
  <2>1. \A at \in T \ stop : next[at] \in T
    BY <1>9
  <2>2. T \in SUBSET S
    OBVIOUS
  <2> HIDE DEF S, T, stop, next, out, rank
  <2> QED BY <1>1, <1>3, <1>8, <2>1, <2>2, IterationEnds
<1>12. PICK b \in T \cap stop : below[first] = out[b]
  <2> HIDE DEF T, S, stop, first, out
  <2> QED BY <1>10, <1>11
<1>13. /\ below[first] = b.found /\ op \in b.found /\ b.found \subseteq s.ops
       /\ FoundAbove(s, q, b.found, 0) /\ FoundFrom(s, op, b.found)
  <2>1. b \in S /\ b.upTo = 0 /\ op \in b.found /\ FoundAbove(s, q, b.found, b.upTo) /\ FoundFrom(s, op, b.found)
    OBVIOUS
  <2>2. out[b] = b.found
    BY <2>1
  <2> QED BY <1>0, <1>12, <2>1, <2>2
<1> HIDE DEF first
<1> QED BY <1>7, <1>13


-----------------------------------------------------------------------------
(* Descent. What an operation comes from, among all that were written.     *)

\* C has what its members build on.
DescentClosed(C, W) == \A y \in C : \A x \in W : position(x) \in links(y) => x \in C

\* The operation and what it descends from, of W.
past(op, W) == {x \in W : \A C \in SUBSET W : op \in C /\ DescentClosed(C, W) => x \in C}

\* Operations build on operations, and an age tells them apart from those.
Ages(age, W) ==
  /\ age \in [W -> Nat]
  /\ \A x, y \in W : position(x) \in links(y) => age[x] < age[y]

Descending(W) ==
  /\ \A op \in W : links(op) \subseteq {position(w) : w \in W}
  /\ \E age : Ages(age, W)

LEMMA PastFacts ==
  ASSUME NEW W, NEW op \in W
  PROVE  /\ op \in past(op, W) /\ past(op, W) \subseteq W /\ DescentClosed(past(op, W), W)
         /\ \A x \in past(op, W) : past(x, W) \subseteq past(op, W)
         /\ \A C \in SUBSET W : op \in C /\ DescentClosed(C, W) => past(op, W) \subseteq C
<1>1. op \in past(op, W) /\ past(op, W) \subseteq W
      /\ \A C \in SUBSET W : op \in C /\ DescentClosed(C, W) => past(op, W) \subseteq C
  BY DEF past
<1>2. DescentClosed(past(op, W), W)
  <2> SUFFICES ASSUME NEW y \in past(op, W), NEW x \in W, position(x) \in links(y),
                      NEW C \in SUBSET W, op \in C, DescentClosed(C, W)
               PROVE  x \in C
    BY DEF DescentClosed, past
  <2> QED BY <1>1 DEF DescentClosed
<1>3. \A x \in past(op, W) : past(x, W) \subseteq past(op, W)
  <2> SUFFICES ASSUME NEW x \in past(op, W) PROVE past(x, W) \subseteq past(op, W)
    OBVIOUS
  <2> DEFINE C == past(op, W)
  <2>1. C \in SUBSET W /\ x \in C /\ DescentClosed(C, W)
    BY <1>1, <1>2
  <2> HIDE DEF C
  <2>2. past(x, W) \subseteq C
    BY <2>1 DEF past
  <2> QED BY <2>2 DEF C
<1> QED BY <1>1, <1>2, <1>3

\* A new operation is no ancestor of those before.
LEMMA PastStays ==
  ASSUME NEW W, GoodOperations(W), Descending(W), NEW new,
         \A w \in W : w.hash # new.hash, NEW op \in W
  PROVE  /\ past(op, W \cup {new}) = past(op, W)
         /\ position(new) \notin links(op)
<1> DEFINE V == W \cup {new}
<1>1. \A y \in W : position(new) \notin links(y)
  <2> SUFFICES ASSUME NEW y \in W, position(new) \in links(y) PROVE FALSE
    OBVIOUS
  <2>1. PICK w \in W : position(w) = position(new)
    BY DEF Descending
  <2> QED BY <2>1 DEF position
<1>2. W \in SUBSET V /\ DescentClosed(W, V)
  BY <1>1 DEF DescentClosed
<1>3. \A C \in SUBSET W : DescentClosed(C, W) => C \in SUBSET V /\ DescentClosed(C, V)
  BY <1>1 DEF DescentClosed
<1>4. \A C \in SUBSET V : DescentClosed(C, V) => DescentClosed(C \cap W, W)
  BY DEF DescentClosed
<1>5. past(op, V) \subseteq past(op, W)
  <2> SUFFICES ASSUME NEW x \in past(op, V),
                      NEW C \in SUBSET W, op \in C, DescentClosed(C, W)
               PROVE  x \in W /\ x \in C
    BY <1>2 DEF past
  <2>1. \A B \in SUBSET V : op \in B /\ DescentClosed(B, V) => x \in B
    BY DEF past
  <2> HIDE DEF V
  <2> QED BY <1>2, <1>3, <2>1
<1>6. past(op, W) \subseteq past(op, V)
  <2> SUFFICES ASSUME NEW x \in past(op, W),
                      NEW C \in SUBSET V, op \in C, DescentClosed(C, V)
               PROVE  x \in C
    BY DEF past
  <2>1. C \cap W \in SUBSET W /\ op \in C \cap W /\ DescentClosed(C \cap W, W)
    BY <1>4
  <2> QED BY <2>1 DEF past
<1> QED BY <1>1, <1>5, <1>6

\* Of some operations, one is not older than any other.
LEMMA Youngest ==
  ASSUME NEW W, GoodOperations(W), NEW age, Ages(age, W), NEW S \in SUBSET W, S # {}
  PROVE  \E x \in S : \A y \in S : age[y] <= age[x]
<1> DEFINE value == [x \in S |-> - age[x]]
<1>1. \A x \in S : age[x] \in Nat
  BY DEF Ages
<1>2. value \in [S -> Int] /\ IsFiniteSet(S)
  BY <1>1, FS_Subset DEF GoodOperations
<1>3. PICK x \in S : \A y \in S : value[x] <= value[y]
  <2> HIDE DEF value
  <2> QED BY <1>2, LowestElement
<1>4. \A y \in S : age[y] <= age[x]
  BY <1>1, <1>3
<1> QED BY <1>4

\* An author's operation comes from each of its earlier ones, where each is alone with
\* its number.
LEMMA OwnPast ==
  ASSUME NEW W, GoodOperations(W), Counted(W), Descending(W),
         NEW x \in W, singleIn(x, W), NEW y \in W, x.author = y.author, x.nonce <= y.nonce
  PROVE  x \in past(y, W)
<1> DEFINE after == {w \in past(y, W) : w.author = x.author /\ x.nonce <= w.nonce}
           numbers == {w.nonce : w \in after}
<1>1. y \in past(y, W) /\ past(y, W) \subseteq W /\ DescentClosed(past(y, W), W)
  BY PastFacts
<1>2. \A w \in W : w.nonce \in Nat \ {0} /\ w.prev \in Position
  BY DEF GoodOperations
<1>3. y \in after /\ numbers \in SUBSET Nat /\ numbers # {}
  BY <1>1, <1>2
<1>4. PICK least \in numbers : \A m \in numbers : least <= m
  BY <1>3, LeastNumber
<1>5. PICK w \in after : w.nonce = least
  BY <1>4
<1>6. w \in W /\ w.author = x.author /\ x.nonce <= w.nonce /\ \A o \in after : w.nonce <= o.nonce
  BY <1>1, <1>4, <1>5
<1>7. CASE w.nonce = x.nonce
  BY <1>5, <1>6, <1>7 DEF singleIn
<1>8. CASE w.nonce # x.nonce
  <2>1. /\ w.prev.author = w.author /\ w.nonce = w.prev.nonce + 1 /\ w.prev.nonce \in Nat
        /\ x.nonce <= w.prev.nonce /\ w.prev.nonce # 0
    BY <1>2, <1>6, <1>8 DEF Counted, Position
  <2>2. w.prev \in links(w)
    BY <2>1 DEF links
  <2>3. PICK o \in W : position(o) = w.prev
    BY <1>6, <2>2 DEF Descending
  <2>4. o \in past(y, W)
    BY <1>1, <1>5, <2>2, <2>3 DEF DescentClosed
  <2>5. o.author = x.author /\ o.nonce = w.prev.nonce
    BY <1>6, <2>1, <2>3 DEF position
  <2>6. o \in after
    BY <2>1, <2>4, <2>5
  <2>7. w.nonce <= o.nonce
    BY <1>6, <2>6
  <2> QED BY <2>1, <2>5, <2>7
<1> QED BY <1>7, <1>8


-----------------------------------------------------------------------------
(* What an acknowledgment answers.                                         *)

\* A checkpoint covers what the operations that it covers build on.
ClosedBelow(k, W) ==
  \A y, x \in W : Covers(k, position(y)) /\ position(x) \in links(y) => Covers(k, position(x))

\* Names are of one operation each.
Named(W) == \A x, y \in W : position(x) = position(y) => x = y

LEMMA CountedNamed ==
  ASSUME NEW W, Counted(W)
  PROVE  Named(W)
  BY DEF Counted, Named, position

\* An operation of the order comes with all that it builds on above the checkpoint.
LEMMA PlacedBefore ==
  ASSUME NEW W, Named(W), NEW s, s.ops \subseteq W, NEW q \in Seq(s.ops), Linked(s, q),
         NEW y \in Range(q), NEW x \in W, position(x) \in links(y), ~ Covers(s.checkpoint, position(x))
  PROVE  x \in Range(q)
<1>1. PICK i \in 1..Len(q) : q[i] = y
  BY DEF Range
<1>2. position(x) \in openLinks(s, q[i])
  BY <1>1 DEF openLinks
<1>3. PICK j \in 1..(i - 1) : position(q[j]) = position(x)
  BY <1>2 DEF Linked
<1>4. j \in 1..Len(q) /\ q[j] \in W
  BY <1>1, <1>3
<1>5. q[j] = x
  BY <1>3, <1>4 DEF Named
<1> QED BY <1>4, <1>5 DEF Range

\* An operation that none builds on is a head.
LEMMA HeadOrNamed ==
  ASSUME NEW s, NEW x \in s.ops, \A y \in s.ops : position(x) \notin links(y)
  PROVE  position(x) \in Heads(s)
  BY DEF Heads

\* Where each head has its place, each operation has one.
LEMMA AllPlaced ==
  ASSUME NEW W, GoodOperations(W), Counted(W), Descending(W), NEW s, GoodState(s, W),
         UnplacedHeads(s, Order(s)) = {}
  PROVE  Range(Order(s)) = s.ops
<1> DEFINE q == Order(s)
           missing == s.ops \ Range(q)
<1>1. /\ q \in Seq(s.ops) /\ Linked(s, q) /\ Named(W)
      /\ s.ops \subseteq W /\ \A x \in s.ops : ~ Covers(s.checkpoint, position(x))
  BY GoodIsPlaceable, OrderType, CountedNamed DEF GoodState, Above
<1>2. Range(q) \subseteq s.ops
  BY <1>1 DEF Range
<1> SUFFICES ASSUME missing # {} PROVE FALSE
  BY <1>2
<1>3. PICK age : Ages(age, W)
  BY DEF Descending
<1>4. missing \in SUBSET W
  BY <1>1
<1>5. PICK x \in missing : \A y \in missing : age[y] <= age[x]
  BY <1>3, <1>4, Youngest
<1>6. CASE \E y \in s.ops : position(x) \in links(y)
  <2>1. PICK y \in s.ops : position(x) \in links(y)
    BY <1>6
  <2>2. age[x] < age[y] /\ age[x] \in Nat /\ age[y] \in Nat
    BY <1>1, <1>3, <1>5, <2>1 DEF Ages
  <2>3. y \notin missing
    BY <1>5, <2>2
  <2>4. y \in Range(q)
    BY <2>1, <2>3
  <2> HIDE DEF q
  <2> QED BY <1>1, <1>5, <2>1, <2>4, PlacedBefore
<1>7. CASE ~ \E y \in s.ops : position(x) \in links(y)
  <2>1. position(x) \in Heads(s)
    BY <1>5, <1>7, HeadOrNamed
  <2>2. position(x) \in {position(op) : op \in Range(q)}
    BY <1>1, <1>5, <2>1 DEF UnplacedHeads
  <2>3. PICK y \in Range(q) : position(y) = position(x)
    BY <2>2
  <2>4. y = x
    BY <1>1, <1>2, <1>5, <2>3 DEF Named
  <2> QED BY <1>5, <2>3, <2>4
<1> QED BY <1>6, <1>7

\* What builds on all heads comes from all that is held.
LEMMA FromHeads ==
  ASSUME NEW W, GoodOperations(W), Counted(W), Descending(W), NEW s, GoodState(s, W),
         NEW new, \A w \in W : w.hash # new.hash,
         \A w \in W : position(w) \in Heads(s) => position(w) \in links(new), NEW x \in s.ops
  PROVE  x \in past(new, W \cup {new})
<1> DEFINE V == W \cup {new}
           from == {y \in s.ops : x \in past(y, W)}
<1>1. s.ops \subseteq W
  BY DEF GoodState, Above
<1>2. x \in from /\ from \in SUBSET W
  BY <1>1, PastFacts
<1>3. PICK age : Ages(age, W)
  BY DEF Descending
<1>4. PICK y \in from : \A z \in from : age[z] <= age[y]
  BY <1>2, <1>3, Youngest
<1>5. CASE \E z \in s.ops : position(y) \in links(z)
  <2>1. PICK z \in s.ops : position(y) \in links(z)
    BY <1>5
  <2>2. y \in past(z, W)
    BY <1>1, <1>4, <2>1, PastFacts DEF DescentClosed
  <2>3. z \in from
    BY <1>1, <1>4, <2>1, <2>2, PastFacts
  <2>4. age[y] < age[z] /\ age[y] \in Nat /\ age[z] \in Nat /\ age[z] <= age[y]
    BY <1>1, <1>3, <1>4, <2>1, <2>3 DEF Ages
  <2> QED BY <2>4
<1>6. CASE ~ \E z \in s.ops : position(y) \in links(z)
  <2>1. position(y) \in links(new)
    BY <1>1, <1>4, <1>6, HeadOrNamed
  <2>2. new \in past(new, V) /\ DescentClosed(past(new, V), V)
        /\ \A z \in past(new, V) : past(z, V) \subseteq past(new, V)
    BY PastFacts
  <2>3. y \in W /\ y \in V
    BY <1>1, <1>4
  <2>4. y \in past(new, V)
    BY <2>1, <2>2, <2>3 DEF DescentClosed
  <2>5. past(y, V) = past(y, W)
    BY <2>3, PastStays
  <2>6. x \in past(y, V)
    BY <1>4, <2>5
  <2> QED BY <2>2, <2>4, <2>6
<1> QED BY <1>5, <1>6

\* What an operation above the checkpoint comes from is below the checkpoint or in what
\* the walk down the order finds.
LEMMA PastFound ==
  ASSUME NEW W, GoodOperations(W), Counted(W), NEW s, GoodState(s, W), ClosedBelow(s.checkpoint, W),
         Range(Order(s)) = s.ops, NEW tip \in s.ops
  PROVE  \A x \in past(tip, W) : x \in Ancestors(s, Order(s), tip) \/ Covers(s.checkpoint, position(x))
<1> DEFINE q == Order(s)
           found == Ancestors(s, q, tip)
           C == found \cup {w \in W : Covers(s.checkpoint, position(w))}
<1>1. /\ q \in Seq(s.ops) /\ Linked(s, q) /\ Named(W) /\ s.ops \subseteq W
  BY GoodIsPlaceable, OrderType, CountedNamed DEF GoodState, Above
<1>2. tip \in found /\ found \subseteq s.ops /\ FoundAbove(s, q, found, 0)
  <2>1. \A x, y \in s.ops : position(x) = position(y) => x = y
    BY <1>1 DEF Named
  <2> HIDE DEF q
  <2> QED BY <1>1, <2>1, AncestorsFound
<1> HIDE DEF found
<1>3. ASSUME NEW y \in C, NEW x \in W, position(x) \in links(y) PROVE x \in C
  <2>1. CASE Covers(s.checkpoint, position(x))
    BY <2>1
  <2>2. CASE y \in found /\ ~ Covers(s.checkpoint, position(x))
    <3>1. y \in Range(q) /\ position(x) \in openLinks(s, y)
      BY <1>2, <1>3, <2>2 DEF openLinks
    <3>2. x \in Range(q)
      <4> HIDE DEF q
      <4> QED BY <1>1, <1>3, <2>2, <3>1, PlacedBefore
    <3>3. PICK j \in 1..Len(q) : q[j] = x
      BY <1>1, <3>2 DEF Range
    <3>4. x \in found
      BY <1>2, <2>2, <3>1, <3>3 DEF FoundAbove
    <3> QED BY <3>4
  <2>3. CASE y \notin found
    BY <1>3, <2>3 DEF ClosedBelow
  <2> QED BY <2>1, <2>2, <2>3
<1>4. C \in SUBSET W /\ DescentClosed(C, W) /\ tip \in C /\ tip \in W
  BY <1>1, <1>2, <1>3 DEF DescentClosed
<1>5. past(tip, W) \subseteq C
  <2> HIDE DEF C
  <2> QED BY <1>4, PastFacts
<1> QED BY <1>5 DEF found


\* The latest operation of a writer, where what it wrote before is held, is the one it
\* numbered last.
LEMMA BuiltOnLast ==
  ASSUME NEW W, GoodOperations(W), Counted(W), Descending(W), NEW s, GoodState(s, W),
         NEW q, Range(q) = s.ops, NEW d \in Devices,
         NEW p \in s.ops, p.author = d, \A o \in s.ops : o.author = d => o.nonce <= p.nonce,
         \A w \in W : w.author = d => singleIn(w, W) /\ (w.nonce <= p.nonce => holds(s, w))
  PROVE  builtOn(s, q, d) = Ancestors(s, q, p)
<1> DEFINE own == {op \in Range(q) : op.author = d}
<1>0. /\ s.ops \subseteq W /\ \A w \in W : w.nonce \in Nat \ {0}
      /\ \A x \in s.ops : ~ Covers(s.checkpoint, position(x))
      /\ s.checkpoint.authors[d].nonce \in Nat
  BY NumbersAreNatural DEF GoodState, Above, GoodOperations
<1>1. p \in latest(q, d)
  <2> SUFFICES ASSUME NEW later \in own, later.prev = position(p) PROVE FALSE
    BY DEF latest
  <2>1. later \in s.ops /\ later.author = d /\ later \in W /\ p \in W
    BY <1>0
  <2>2. later.nonce = p.nonce + 1
    BY <2>1 DEF Counted, position
  <2> QED BY <1>0, <2>1, <2>2
<1>2. ASSUME NEW o \in latest(q, d), o # p PROVE FALSE
  <2>1. o \in own /\ \A later \in own : later.prev # position(o)
    BY <1>2 DEF latest
  <2>2. o \in s.ops /\ o.author = d /\ o \in W /\ p \in W
    BY <1>0, <2>1
  <2>3. o.nonce <= p.nonce /\ o.nonce # p.nonce /\ o.nonce \in Nat \ {0} /\ p.nonce \in Nat \ {0}
    BY <1>0, <1>2, <2>2 DEF singleIn
  <2>4. o.nonce + 1 \in 1..p.nonce
    BY <2>3
  <2>5. PICK w \in W : w.author = d /\ w.nonce = o.nonce + 1
    BY <2>2, <2>4 DEF Counted
  <2>6. ~ Covers(s.checkpoint, position(w))
    BY <1>0, <2>2, <2>3, <2>5 DEF Covers, position
  <2>7. w \in own
    BY <2>4, <2>5, <2>6 DEF holds
  <2>8. /\ w.prev.author = d /\ w.prev.nonce = o.nonce
    <3>1. w.nonce = w.prev.nonce + 1 /\ w.prev.author = d /\ w.prev \in Position
      BY <2>5 DEF Counted, GoodOperations
    <3> QED BY <2>3, <2>5, <3>1 DEF Position
  <2>9. w.prev \in links(w)
    BY <2>3, <2>8 DEF links
  <2>10. PICK v \in W : position(v) = w.prev
    BY <2>5, <2>9 DEF Descending
  <2>11. v.author = d /\ v.nonce = o.nonce
    BY <2>8, <2>10 DEF position
  <2>12. v = o
    BY <2>2, <2>11 DEF singleIn
  <2> QED BY <2>1, <2>7, <2>10, <2>12
<1>3. latest(q, d) = {p}
  BY <1>1, <1>2
<1> QED BY <1>3 DEF builtOn

\* What a writer has not built on is of others, and its last operation does not come from it.
LEMMA MissedIsNew ==
  ASSUME NEW W, GoodOperations(W), Counted(W), Descending(W), NEW s, GoodState(s, W),
         ClosedBelow(s.checkpoint, W), Range(Order(s)) = s.ops, NEW d \in Devices,
         \A w \in W : w.author = d => singleIn(w, W) /\ holds(s, w),
         NEW prev \in AuthorHeads(s, d), NEW x \in s.ops, x \notin builtOn(s, Order(s), d)
  PROVE  x.author # d /\ \A p \in W : position(p) = prev => x \notin past(p, W)
<1> DEFINE own == {op \in s.ops : op.author = d}
           q == Order(s)
<1>0. /\ s.ops \subseteq W /\ ~ Covers(s.checkpoint, position(x)) /\ Named(W)
      /\ \A w \in W : w.nonce \in Nat
  BY CountedNamed DEF GoodState, Above, GoodOperations
<1>1. CASE own = {}
  <2>1. prev = s.checkpoint.authors[d]
    BY <1>1 DEF AuthorHeads
  <2> DEFINE C == {w \in W : Covers(s.checkpoint, position(w))}
  <2>2. C \in SUBSET W /\ DescentClosed(C, W) /\ x \notin C
    BY <1>0 DEF DescentClosed, ClosedBelow
  <2>3. ASSUME NEW p \in W, position(p) = prev PROVE x \notin past(p, W)
    <3>1. prev.author = d
      BY <2>1 DEF GoodState, GoodCheckpoint, headsOf, NoOperation, position
    <3>2. Covers(s.checkpoint, position(p))
      <4>1. s.checkpoint.authors[d].nonce \in Nat
        BY NumbersAreNatural
      <4> QED BY <2>1, <2>3, <3>1, <4>1 DEF Covers
    <3>3. p \in C
      BY <3>2
    <3> HIDE DEF C
    <3> QED BY <2>2, <3>3, PastFacts
  <2> QED BY <1>1, <2>3
<1>2. CASE own # {}
  <2>1. PICK p \in own : (\A other \in own : other.nonce <= p.nonce) /\ prev = position(p)
    BY <1>2 DEF AuthorHeads
  <2>2. p \in s.ops /\ p.author = d /\ p \in W /\ \A o \in s.ops : o.author = d => o.nonce <= p.nonce
    BY <1>0, <2>1
  <2>3. builtOn(s, q, d) = Ancestors(s, q, p)
    <3> HIDE DEF own
    <3> QED BY <2>2, BuiltOnLast
  <2>4. x \notin past(p, W)
    BY <1>0, <2>2, <2>3, PastFound
  <2>5. x.author # d
    <3> SUFFICES ASSUME x.author = d PROVE FALSE
      OBVIOUS
    <3>1. x \in W /\ singleIn(x, W) /\ x.nonce <= p.nonce
      BY <1>0, <2>2
    <3> QED BY <2>2, <2>4, <3>1, OwnPast
  <2>6. \A o \in W : position(o) = prev => o = p
    BY <1>0, <2>1, <2>2 DEF Named
  <2> QED BY <2>4, <2>5, <2>6
<1> QED BY <1>1, <1>2

\* x is what the acknowledgment A answers: A comes from x, but its author's operation
\* before it does not.
answered(A, x, W, checkpointer) ==
  /\ x \in past(A, W) /\ x.author # A.author /\ (~ x.ack \/ x.author = checkpointer)
  /\ \A p \in W : position(p) = A.prev => x \notin past(p, W)

LEMMA AnswerFound ==
  ASSUME NEW W, GoodOperations(W), Counted(W), Descending(W), NEW s, GoodState(s, W),
         ClosedBelow(s.checkpoint, W), NEW d \in Devices,
         \A w \in W : w.author = d => singleIn(w, W) /\ holds(s, w),
         NEW prev \in AuthorHeads(s, d), NeedsAcknowledgment(s, Order(s), d),
         NEW new, new.author = d, new.prev = prev, new.nonce = prev.nonce + 1,
         new.parents = Heads(s) \ {prev}, \A w \in W : w.hash # new.hash
  PROVE  \E x \in W : answered(new, x, W \cup {new}, Checkpointer(s.config))
<1> DEFINE q == Order(s)
           missed == Range(q) \ builtOn(s, q, d)
           V == W \cup {new}
<1>1. Range(q) = s.ops
  BY AllPlaced DEF NeedsAcknowledgment
<1>2. s.ops \subseteq W /\ \A w \in W : w.nonce \in Nat \ {0}
  BY DEF GoodState, Above, GoodOperations
<1>3. PICK x \in missed : x.author # d /\ (~ x.ack \/ x.author = Checkpointer(s.config))
  <2>1. CASE Cardinality({op \in missed : ~ op.ack}) >= AcknowledgmentLag
    <3>1. {op \in missed : ~ op.ack} # {}
      <4> SUFFICES ASSUME {op \in missed : ~ op.ack} = {} PROVE FALSE
        OBVIOUS
      <4>1. Cardinality({op \in missed : ~ op.ack}) = 0
        BY FS_EmptySet
      <4> HIDE DEF missed
      <4> QED BY <2>1, <4>1, OrderAssumption
    <3>2. PICK x \in missed : ~ x.ack
      BY <3>1
    <3>3. x \in s.ops /\ x \notin builtOn(s, Order(s), d)
      BY <1>1
    <3>4. x.author # d
      <4> HIDE DEF missed, q
      <4> QED BY <1>1, <3>3, MissedIsNew DEF q
    <3> QED BY <3>2, <3>4
  <2>2. CASE d # Checkpointer(s.config) /\ \E op \in missed : op.ack /\ op.author = Checkpointer(s.config)
    BY <2>2
  <2> QED BY <2>1, <2>2 DEF NeedsAcknowledgment
<1>4. x \in s.ops /\ x \notin builtOn(s, q, d) /\ x \in W
  BY <1>1, <1>2
<1>5. \A p \in W : position(p) = prev => x \notin past(p, W)
  BY <1>1, <1>4, MissedIsNew
<1>6. \A w \in W : position(w) \in Heads(s) => position(w) \in links(new)
  <2>1. \A w \in W : position(w).nonce # 0
    BY <1>2 DEF position
  <2> QED BY <2>1 DEF links
<1>7. x \in past(new, V)
  BY <1>4, <1>6, FromHeads
<1>8. prev.nonce \in Nat
  BY NextNumber
<1>9. ASSUME NEW p \in V, position(p) = prev PROVE x \notin past(p, V)
  <2>1. p # new
    BY <1>8, <1>9 DEF position
  <2>2. p \in W
    BY <2>1
  <2>3. past(p, V) = past(p, W)
    BY <2>2, PastStays
  <2> QED BY <1>5, <1>9, <2>2, <2>3
<1> QED BY <1>3, <1>4, <1>7, <1>9 DEF answered


\* What the checkpoint over a prefix covers: what the one before it does, and the prefix.
LEMMA SignedCovers ==
  ASSUME NEW W, GoodOperations(W), Counted(W), \A w \in W : singleIn(w, W),
         NEW s, GoodState(s, W), NEW c, c.prefix \in Seq(W), Begins(c.prefix, Order(s)),
         NEW w \in W, Covers(stableCheckpoint(s, c), position(w))
  PROVE  Covers(s.checkpoint, position(w)) \/ w \in Range(c.prefix)
<1> DEFINE prefix == c.prefix
           q == Order(s)
           a == w.author
<1>1. /\ \A op \in W : op.nonce \in Nat /\ op.author \in Devices
      /\ q \in Seq(s.ops) /\ Linked(s, q)
  BY GoodIsPlaceable, OrderType, NumbersAreNatural DEF GoodOperations
<1>2. /\ Len(prefix) \in 0..Len(q) /\ DOMAIN prefix = 1..Len(prefix)
      /\ \A i \in 1..Len(prefix) : prefix[i] = q[i] /\ prefix[i] \in W
  BY <1>1 DEF Begins
<1>3. w.nonce <= cover(s, prefix)[a].nonce
  BY DEF Covers, position, stableCheckpoint
<1>4. CASE cover(s, prefix)[a] = s.checkpoint.authors[a]
  BY <1>3, <1>4 DEF Covers, position
<1>5. ASSUME NEW op \in Range(prefix), op.author = a, cover(s, prefix)[a] = position(op)
      PROVE  Covers(s.checkpoint, position(w)) \/ w \in Range(prefix)
  <2>1. PICK i \in 1..Len(prefix) : op = prefix[i]
    BY <1>2 DEF Range
  <2>2. q[i].author = a /\ w.nonce <= q[i].nonce
    BY <1>2, <1>3, <1>5, <2>1 DEF position
  <2>3. CASE ~ Covers(s.checkpoint, position(w))
    <3>1. PICK j \in 1..Len(prefix) : q[j] = w
      BY <1>1, <1>2, <2>2, <2>3, EarlierInPrefix
    <3> QED BY <1>2, <3>1 DEF Range
  <2> QED BY <2>3
<1>6. \/ cover(s, prefix)[a] = s.checkpoint.authors[a]
      \/ \E op \in Range(prefix) : op.author = a /\ cover(s, prefix)[a] = position(op)
  BY <1>1, CoverHead
<1> QED BY <1>4, <1>5, <1>6

\* The checkpoint over a prefix covers the prefix.
LEMMA PrefixCovered ==
  ASSUME NEW W, GoodOperations(W), NEW s, NEW c, c.prefix \in Seq(W), NEW op \in Range(c.prefix)
  PROVE  Covers(stableCheckpoint(s, c), position(op))
<1> DEFINE prefix == c.prefix
           a == op.author
<1>1. op \in W /\ op.author \in Devices /\ \A w \in W : w.nonce \in Nat
  BY DEF Range, GoodOperations
<1>2. PICK top \in Range(prefix) : cover(s, prefix)[a] = position(top) /\ op.nonce <= top.nonce
  <2>1. \/ \A o \in Range(prefix) : o.author # a
        \/ \E o \in Range(prefix) :
             /\ o.author = a /\ cover(s, prefix)[a] = position(o)
             /\ \A other \in Range(prefix) : other.author = a => other.nonce <= o.nonce
    BY <1>1, CoverHead
  <2> HIDE DEF prefix
  <2>2. op \in Range(prefix) /\ op.author = a
    BY DEF prefix
  <2> QED BY <2>1, <2>2
<1>3. op.nonce <= cover(s, prefix)[op.author].nonce
  BY <1>2 DEF position
<1> QED BY <1>3 DEF Covers, position, stableCheckpoint

LEMMA SignedClosed ==
  ASSUME NEW W, GoodOperations(W), Counted(W), \A w \in W : singleIn(w, W),
         NEW s, GoodState(s, W), ClosedBelow(s.checkpoint, W),
         NEW c, c.prefix \in Seq(W), Begins(c.prefix, Order(s)),
         NEW k, k = stableCheckpoint(s, c),
         \A a \in Devices : s.checkpoint.authors[a].nonce <= k.authors[a].nonce,
         \A a \in Devices : k.authors[a].nonce \in Nat
  PROVE  ClosedBelow(k, W)
<1> DEFINE prefix == c.prefix
           q == Order(s)
<1>1. /\ \A op \in W : op.nonce \in Nat /\ op.author \in Devices
      /\ q \in Seq(s.ops) /\ Linked(s, q) /\ Named(W) /\ s.ops \subseteq W
  BY GoodIsPlaceable, OrderType, NumbersAreNatural, CountedNamed DEF GoodOperations, GoodState, Above
<1>2. /\ Len(prefix) \in 0..Len(q) /\ DOMAIN prefix = 1..Len(prefix)
      /\ \A i \in 1..Len(prefix) : prefix[i] = q[i] /\ prefix[i] \in W
  BY <1>1 DEF Begins
<1>3. \A op \in W : Covers(s.checkpoint, position(op)) => Covers(k, position(op))
  <2>1. \A a \in Devices : s.checkpoint.authors[a].nonce \in Nat
    BY NumbersAreNatural
  <2> QED BY <1>1, <2>1 DEF Covers, position
<1>0. \A op \in Range(prefix) : Covers(k, position(op))
  BY PrefixCovered
<1> SUFFICES ASSUME NEW y \in W, NEW x \in W, Covers(k, position(y)), position(x) \in links(y)
             PROVE  Covers(k, position(x))
  BY DEF ClosedBelow
<1>4. Covers(s.checkpoint, position(y)) \/ y \in Range(prefix)
  BY SignedCovers
<1>5. CASE Covers(s.checkpoint, position(x))
  BY <1>3, <1>5
<1>6. CASE y \in Range(prefix) /\ ~ Covers(s.checkpoint, position(x))
  <2>1. PICK i \in 1..Len(prefix) : y = prefix[i]
    BY <1>2, <1>6 DEF Range
  <2>2. position(x) \in openLinks(s, q[i]) /\ i \in 1..Len(q) /\ Len(q) \in Nat
    BY <1>1, <1>2, <1>6, <2>1 DEF openLinks
  <2>3. PICK j \in 1..(i - 1) : position(q[j]) = position(x)
    BY <1>1, <2>2 DEF Linked
  <2>4. j \in 1..Len(prefix) /\ prefix[j] = q[j] /\ q[j] \in W
    BY <1>2, <2>2, <2>3
  <2>5. q[j] = x
    BY <1>1, <2>3, <2>4 DEF Named
  <2>6. x \in Range(prefix)
    BY <1>2, <2>4, <2>5 DEF Range
  <2> QED BY <1>0, <2>6
<1> QED BY <1>4, <1>5, <1>6 DEF ClosedBelow

\* Who writes, and what.
LEMMA WritesFrom ==
  ASSUME Types, [Next]_vars, written' # written
  PROVE  \E d \in Devices : \E prev, new :
           /\ d \in Writers(state[d].config) /\ adds(d)
           /\ prev \in AuthorHeads(state[d], d) /\ prev \in headsOf(d, written)
           /\ written' = written \cup {new} /\ \A w \in written : w.hash # new.hash
           /\ new.author = d /\ new.nonce = prev.nonce + 1 /\ new.prev = prev
           /\ new.parents = Heads(state[d]) \ {prev}
           /\ new.ack => NeedsAcknowledgment(state[d], Order(state[d]), d)
<1>1. PICK d \in Devices : Write(d) \/ Acknowledge(d)
  <2>1. ASSUME NEW d \in Devices, SetSOSequencer(d) \/ MaintainRoster(d)
                                   \/ RemoveSOParticipant(d) \/ AddSOParticipant(d)
        PROVE  FALSE
    BY <2>1 DEF SetSOSequencer, MaintainRoster, RemoveSOParticipant, AddSOParticipant, Prepare
  <2>2. ASSUME NEW d \in Devices, SequenceOperations(d) \/ ApplyConfigChange(d) \/ Step(d)
                                   \/ AdoptCheckpoint(d) \/ Restart(d) \/ LosePower(d)
                                   \/ Flush(d) \/ Restore(d)
        PROVE  FALSE
    BY <2>2 DEF SequenceOperations, ApplyConfigChange, Step, AdoptCheckpoint, Restart, LosePower,
                Flush, Restore, log
  <2>3. ASSUME NEW d \in Devices, NEW from \in Devices,
               ImportPeerSnapshot(d, from) \/ ImportRemoval(d, from)
        PROVE  FALSE
    BY <2>3 DEF ImportPeerSnapshot, ImportRemoval
  <2>4. ~ UNCHANGED vars
    BY DEF vars, log
  <2> QED BY <2>1, <2>2, <2>3, <2>4 DEF Next
<1>2. PICK ack \in BOOLEAN : /\ AddLocalOperation(d, ack)
                             /\ ack => NeedsAcknowledgment(state[d], Order(state[d]), d)
  BY <1>1 DEF Write, Acknowledge
<1>3. PICK prev \in AuthorHeads(state[d], d), hash \in newHashes :
        \E op \in {[author |-> d, nonce |-> prev.nonce + 1, hash |-> hash, prev |-> prev,
                    parents |-> Heads(state[d]) \ {prev}, ack |-> ack]} :
          /\ written' = written \cup {op}
          /\ state' = [state EXCEPT ![d] = wrote(state[d], d, op)]
          /\ fits(state'[d])
  BY <1>2 DEF AddLocalOperation
<1> DEFINE new == [author |-> d, nonce |-> prev.nonce + 1, hash |-> hash, prev |-> prev,
                   parents |-> Heads(state[d]) \ {prev}, ack |-> ack]
<1>4. /\ written' = written \cup {new} /\ d \in Writers(state[d].config)
      /\ new.author = d /\ new.nonce = prev.nonce + 1 /\ new.prev = prev /\ new.hash = hash
      /\ new.parents = Heads(state[d]) \ {prev} /\ new.ack = ack
  BY <1>2, <1>3 DEF AddLocalOperation
<1> HIDE DEF new
<1>5. prev \in headsOf(d, written)
  BY HeadsTyped DEF Types, StatesTyped
<1>6. \A w \in written : w.hash # new.hash
  BY <1>4, NewHashes DEF Types
<1>7. new \notin written
  BY <1>6
<1>8. adds(d)
  <2>1. PICK e \in Devices : adds(e)
    BY WritesOne
  <2>2. PICK op : op.author = e /\ written' = written \cup {op} /\ op \notin written
    BY <2>1 DEF adds
  <2>3. op = new
    BY <1>4, <1>7, <2>2
  <2> QED BY <1>4, <2>1, <2>2, <2>3
<1> QED BY <1>2, <1>4, <1>5, <1>6, <1>8


-----------------------------------------------------------------------------
(* What a step makes of descent, where nothing is changed, lost or restored. *)

Quiet == restored \cup scenario.losing = {} /\ scenario.changes = {}

\* While it is so, what checkpoints cover is closed, and each acknowledgment answers something.
Answering ==
  /\ \A d \in Devices : ClosedBelow(state[d].checkpoint, written)
  /\ \A op \in {w \in written : w.ack} :
       \E x \in written : answered(op, x, written, Checkpointer(scenario.config))

DescentInv == EditInv /\ Descending(written) /\ (Quiet => Answering)

LEMMA QuietFacts ==
  ASSUME EditInv, Quiet
  PROVE  /\ \A w \in written : singleIn(w, written) /\ holds(state[w.author], w)
         /\ \A d \in Devices : state[d].config = scenario.config /\ remembers(d)
         /\ OwnHeld
<1>1. OneSigner /\ NoneReadmitted
  BY DEF Quiet, OneSigner, signers, NoneReadmitted
<1>2. OwnHeld
  BY <1>1 DEF EditInv
<1>3. \A d \in Devices : remembers(d) /\ d \notin scenario.losing
  BY DEF Quiet, remembers
<1>4. \A d \in Devices : state[d].config = scenario.config
  BY DEF EditInv, NumberInv, ConfigsInLine, Quiet
<1>5. \A w \in written : w.author \in Devices
  BY DEF EditInv, Types, GoodOperations
<1> QED BY <1>2, <1>3, <1>4, <1>5 DEF OwnHeld, Single, singleIn

LEMMA QuietBefore ==
  ASSUME Types, [Next]_vars, Quiet'
  PROVE  Quiet /\ scenario' = scenario
<1>1. scenario' = scenario /\ restored \subseteq restored'
  BY EnvironmentStep
<1> QED BY <1>1 DEF Quiet

\* A new operation builds on some that were written.
LEMMA LinksWritten ==
  ASSUME NEW W, GoodOperations(W), NEW s, GoodState(s, W), NEW d \in Devices,
         NEW prev \in headsOf(d, W), NEW new, new.prev = prev, new.parents \subseteq Heads(s)
  PROVE  links(new) \subseteq {position(w) : w \in W}
<1>1. \A a \in Devices : \A h \in headsOf(a, W) : h.nonce = 0 \/ h \in {position(w) : w \in W}
  BY DEF headsOf, NoOperation
<1>2. Heads(s) \subseteq {position(w) : w \in W}
  <2>1. \A a \in Devices : s.checkpoint.authors[a] \in headsOf(a, W)
    BY DEF GoodState, GoodCheckpoint
  <2>2. s.ops \subseteq W
    BY DEF GoodState, Above
  <2> QED BY <1>1, <2>1, <2>2 DEF Heads
<1> QED BY <1>1, <1>2 DEF links

LEMMA NewDescends ==
  ASSUME NEW W, GoodOperations(W), Descending(W), NEW new, \A w \in W : w.hash # new.hash,
         links(new) \subseteq {position(w) : w \in W}
  PROVE  Descending(W \cup {new})
<1> DEFINE V == W \cup {new}
<1>1. PICK age : Ages(age, W)
  BY DEF Descending
<1>2. PICK top \in Nat : \A w \in W : age[w] < top
  <2>1. CASE W = {}
    BY <2>1
  <2>2. CASE W # {}
    <3>1. PICK x \in W : \A y \in W : age[y] <= age[x]
      BY <1>1, <2>2, Youngest
    <3>2. age[x] + 1 \in Nat /\ \A y \in W : age[y] < age[x] + 1
      BY <1>1, <3>1 DEF Ages
    <3> QED BY <3>2
  <2> QED BY <2>1, <2>2
<1> DEFINE older == [w \in V |-> IF w = new THEN top ELSE age[w]]
<1>3. older \in [V -> Nat] /\ older[new] = top /\ \A w \in W : older[w] = age[w]
  BY <1>1, <1>2 DEF Ages
<1> HIDE DEF older
<1>4. ASSUME NEW x \in V, NEW y \in V, position(x) \in links(y) PROVE older[x] < older[y]
  <2>1. \A w \in W : position(w) # position(new)
    BY DEF position
  <2>2. position(new) \notin links(new)
    BY <2>1
  <2>3. \A w \in W : position(new) \notin links(w)
    BY PastStays
  <2>4. x \in W
    BY <1>4, <2>2, <2>3
  <2>5. CASE y = new
    BY <1>2, <1>3, <2>4, <2>5
  <2>6. CASE y \in W
    BY <1>1, <1>3, <1>4, <2>4, <2>6 DEF Ages
  <2> QED BY <2>5, <2>6
<1>5. Ages(older, V)
  BY <1>3, <1>4 DEF Ages
<1>6. \A op \in V : links(op) \subseteq {position(w) : w \in V}
  BY DEF Descending
<1> QED BY <1>5, <1>6 DEF Descending

LEMMA ClosedGrows ==
  ASSUME NEW W, GoodOperations(W), Descending(W), NEW new, \A w \in W : w.hash # new.hash,
         NEW k, ClosedBelow(k, W), ~ Covers(k, position(new))
  PROVE  ClosedBelow(k, W \cup {new})
  BY PastStays DEF ClosedBelow

LEMMA AnsweredStays ==
  ASSUME NEW W, GoodOperations(W), Descending(W), NEW new, \A w \in W : w.hash # new.hash,
         new.nonce # 0, NEW op \in W, NEW x \in W, NEW checkpointer, answered(op, x, W, checkpointer)
  PROVE  answered(op, x, W \cup {new}, checkpointer)
<1> DEFINE V == W \cup {new}
<1>1. \A y \in W : past(y, V) = past(y, W) /\ position(new) \notin links(y)
  BY PastStays
<1>2. position(new) # op.prev
  <2>1. op.prev.nonce # 0 => op.prev \in links(op)
    BY DEF links
  <2>2. position(new).nonce = new.nonce
    BY DEF position
  <2> QED BY <1>1, <2>1, <2>2
<1>3. ASSUME NEW p \in V, position(p) = op.prev PROVE x \notin past(p, V)
  BY <1>1, <1>2, <1>3 DEF answered
<1> QED BY <1>1, <1>3 DEF answered


\* A number that d gives anew is above every checkpoint.
LEMMA NewAbove ==
  ASSUME EditInv, Quiet, NEW d \in Devices, NEW prev \in AuthorHeads(state[d], d), prev.nonce \in Nat,
         NEW new, new.author = d, new.nonce = prev.nonce + 1, NEW e \in Devices
  PROVE  ~ Covers(state[e].checkpoint, position(new))
<1> SUFFICES ASSUME Covers(state[e].checkpoint, position(new)) PROVE FALSE
  OBVIOUS
<1>1. /\ GoodState(state[e], written) /\ \A w \in written : w.nonce \in Nat
      /\ Types /\ Counted(written)
  BY DEF EditInv, CarryInv, Types, StatesTyped, GoodOperations
<1>2. /\ state[e].checkpoint.authors[d] \in headsOf(d, written)
      /\ new.nonce <= state[e].checkpoint.authors[d].nonce
  BY <1>1 DEF GoodState, GoodCheckpoint, Covers, position
<1>3. PICK w \in written : w.author = d /\ new.nonce <= w.nonce
  BY <1>2 DEF headsOf, NoOperation, position
<1>4. new.nonce \in 1..w.nonce
  BY <1>1, <1>3
<1>5. PICK v \in written : v.author = d /\ v.nonce = new.nonce
  BY <1>1, <1>3, <1>4 DEF Counted
<1>6. OwnHeld /\ remembers(d) /\ d \notin scenario.losing
  BY QuietFacts DEF Quiet
<1> QED BY <1>1, <1>5, <1>6, NumberedAnew

LEMMA NewestDescends ==
  ASSUME EditInv, Descending(written), [Next]_vars, written' # written
  PROVE  Descending(written')
<1>1. Types /\ GoodOperations(written) /\ \A d \in Devices : GoodState(state[d], written)
  BY DEF EditInv, Types, StatesTyped
<1>2. PICK d \in Devices : \E prev, new :
           /\ prev \in headsOf(d, written)
           /\ written' = written \cup {new} /\ \A w \in written : w.hash # new.hash
           /\ new.prev = prev /\ new.parents \subseteq Heads(state[d])
  BY <1>1, WritesFrom
<1>3. PICK prev, new :
           /\ prev \in headsOf(d, written)
           /\ written' = written \cup {new} /\ \A w \in written : w.hash # new.hash
           /\ new.prev = prev /\ new.parents \subseteq Heads(state[d])
  BY <1>2
<1>4. links(new) \subseteq {position(w) : w \in written}
  BY <1>1, <1>3, LinksWritten
<1> QED BY <1>1, <1>3, <1>4, NewDescends

\* What is written then, if it acknowledges, answers something.
LEMMA WrittenAnswers ==
  ASSUME DescentInv, Quiet, [Next]_vars, written' # written
  PROVE  /\ \A d \in Devices : ClosedBelow(state[d].checkpoint, written')
         /\ \A op \in {w \in written' : w.ack} :
              \E x \in written' : answered(op, x, written', Checkpointer(scenario.config))
<1>1. /\ Types /\ GoodOperations(written) /\ GoodOperations(written') /\ Counted(written) /\ Descending(written)
      /\ \A d \in Devices : GoodState(state[d], written) /\ ClosedBelow(state[d].checkpoint, written)
      /\ EditInv
  BY WrittenStep DEF DescentInv, Answering, EditInv, CarryInv, Types, StatesTyped
<1>2. PICK d \in Devices : \E prev, new :
           /\ prev \in AuthorHeads(state[d], d) /\ prev \in headsOf(d, written)
           /\ written' = written \cup {new} /\ \A w \in written : w.hash # new.hash
           /\ new.author = d /\ new.nonce = prev.nonce + 1 /\ new.prev = prev
           /\ new.parents = Heads(state[d]) \ {prev}
           /\ new.ack => NeedsAcknowledgment(state[d], Order(state[d]), d)
  BY <1>1, WritesFrom
<1>3. PICK prev, new :
           /\ prev \in AuthorHeads(state[d], d) /\ prev \in headsOf(d, written)
           /\ written' = written \cup {new} /\ \A w \in written : w.hash # new.hash
           /\ new.author = d /\ new.nonce = prev.nonce + 1 /\ new.prev = prev
           /\ new.parents = Heads(state[d]) \ {prev}
           /\ new.ack => NeedsAcknowledgment(state[d], Order(state[d]), d)
  BY <1>2
<1>4. prev.nonce \in Nat /\ new.nonce # 0
  BY <1>1, <1>3 DEF headsOf, NoOperation, position, GoodOperations
<1>5. ASSUME NEW e \in Devices PROVE ClosedBelow(state[e].checkpoint, written')
  <2>1. ~ Covers(state[e].checkpoint, position(new))
    BY <1>1, <1>3, <1>4, NewAbove
  <2> QED BY <1>1, <1>3, <2>1, ClosedGrows
<1>6. ASSUME NEW op \in written', op.ack
      PROVE  \E x \in written' : answered(op, x, written', Checkpointer(scenario.config))
  <2>1. CASE op \in written
    <3>1. PICK x \in written : answered(op, x, written, Checkpointer(scenario.config))
      BY <1>6, <2>1 DEF DescentInv, Answering
    <3>2. answered(op, x, written', Checkpointer(scenario.config))
      BY <1>1, <1>3, <1>4, <2>1, <3>1, AnsweredStays
    <3> QED BY <1>3, <3>2
  <2>2. CASE op \notin written
    <3>1. op = new /\ NeedsAcknowledgment(state[d], Order(state[d]), d)
      BY <1>3, <1>6, <2>2
    <3>2. /\ state[d].config = scenario.config
          /\ \A w \in written : w.author = d => singleIn(w, written) /\ holds(state[d], w)
      BY <1>1, QuietFacts
    <3>3. \E x \in written : answered(new, x, written \cup {new}, Checkpointer(state[d].config))
      BY <1>1, <1>3, <3>1, <3>2, AnswerFound
    <3> QED BY <1>3, <3>1, <3>2, <3>3
  <2> QED BY <2>1, <2>2
<1> QED BY <1>5, <1>6

\* Checkpoints stay closed.
LEMMA CheckpointsClosed ==
  ASSUME DescentInv, Quiet', [Next]_vars, written' = written, NEW d \in Devices
  PROVE  ClosedBelow(state'[d].checkpoint, written)
<1>1. /\ Types /\ GoodOperations(written) /\ Counted(written)
      /\ \A e \in Devices : GoodState(state[e], written) /\ ClosedBelow(state[e].checkpoint, written)
      /\ EditInv /\ Quiet /\ restored' = {} /\ scenario.losing = {} /\ scenario' = scenario
  BY QuietBefore DEF DescentInv, Answering, EditInv, CarryInv, Types, StatesTyped, Quiet
<1>2. CASE state'[d].checkpoint = state[d].checkpoint
  BY <1>1, <1>2
<1>3. CASE heldMoves(d)
  <2>1. CASE stays(d) \/ adds(d) \/ leaves(d) \/ flushes(d)
    BY <1>2, <2>1 DEF stays, adds, leaves, flushes
  <2>2. CASE merges(d)
    <3>1. \A e \in Devices : shown(e) = state[e]
      BY <1>1 DEF shown
    <3> QED BY <1>1, <2>2, <3>1 DEF merges
  <2>3. CASE signs(d)
    <3> DEFINE s == state[d]
               c == storing[d]
               stable == StablePoint(s, Order(s))
               k == stableCheckpoint(s, c)
    <3>1. /\ state'[d] = adoptCheckpoint(s, k) /\ c # Nothing
          /\ c.height = s.checkpoint.height /\ IsPrefix(c.prefix, stable)
          /\ \A a \in Devices : s.checkpoint.authors[a].nonce <= state'[d].checkpoint.authors[a].nonce
      BY <2>3 DEF signs, current
    <3>2. c.prefix \in Seq(written)
      BY <1>1, <3>1 DEF Types, StoringTyped
    <3>3. /\ stable \in Seq(s.ops) /\ Begins(stable, Order(s)) /\ GoodState(s, written)
          /\ Order(s) \in Seq(s.ops)
      BY <1>1, GoodIsPlaceable, StableType, OrderType
    <3>4. state'[d].checkpoint = k
      <4>1. k.height = c.height + 1 /\ s.checkpoint.height \in Nat
        BY <3>3 DEF stableCheckpoint, GoodState, GoodCheckpoint
      <4>2. ~ (k.height <= s.checkpoint.height)
        BY <3>1, <4>1
      <4> HIDE DEF k
      <4> QED BY <1>1, <3>1, <4>2 DEF adoptCheckpoint, GoodState, Fields
    <3>5. GoodState(state'[d], written')
      BY <1>1, StateTypesStep DEF StatesTyped
    <3>6. \A a \in Devices : k.authors[a].nonce \in Nat
      <4> HIDE DEF k
      <4> QED BY <1>1, <3>4, <3>5, NumbersAreNatural
    <3> HIDE DEF s, c, stable
    <3>7. Begins(c.prefix, Order(s))
      <4>1. Begins(c.prefix, stable)
        BY <3>1, <3>2, <3>3, PrefixHeld
      <4> QED BY <3>2, <3>3, <4>1 DEF Begins
    <3>8. ClosedBelow(s.checkpoint, written) /\ \A w \in written : singleIn(w, written)
      BY <1>1, QuietFacts DEF s
    <3> QED BY <1>1, <3>1, <3>2, <3>3, <3>4, <3>6, <3>7, <3>8, SignedClosed
  <2>4. ~ startsOver(d) /\ ~ losesPower(d)
    BY <1>1 DEF startsOver, losesPower
  <2> QED BY <1>3, <2>1, <2>2, <2>3, <2>4 DEF heldMoves
<1>4. ASSUME NEW e \in Devices, heldMoves(e), e # d PROVE state'[d].checkpoint = state[d].checkpoint
  BY <1>4 DEF heldMoves, alone
<1> QED BY <1>1, <1>2, <1>3, <1>4, HeldStep

LEMMA DescentInit == Init => DescentInv
<1> SUFFICES ASSUME Init PROVE DescentInv
  OBVIOUS
<1>1. written = {}
  BY DEF Init
<1>2. Ages([w \in {} |-> 0], {})
  BY DEF Ages
<1>3. Descending(written) /\ Answering
  BY <1>1, <1>2 DEF Descending, Answering, ClosedBelow
<1> QED BY <1>3, EditInit DEF DescentInv

LEMMA DescentStep == DescentInv /\ [Next]_vars => DescentInv'
<1> SUFFICES ASSUME DescentInv, [Next]_vars PROVE DescentInv'
  OBVIOUS
<1>1. EditInv /\ Types /\ EditInv'
  BY EditStep DEF DescentInv, EditInv
<1>2. CASE written' = written
  <2>1. ASSUME Quiet' PROVE Answering'
    <3>1. Answering /\ scenario' = scenario
      BY <1>1, <2>1, QuietBefore DEF DescentInv
    <3>2. \A d \in Devices : ClosedBelow(state'[d].checkpoint, written)
      BY <1>2, <2>1, CheckpointsClosed
    <3> QED BY <1>2, <3>1, <3>2 DEF Answering
  <2> QED BY <1>1, <1>2, <2>1 DEF DescentInv
<1>3. CASE written' # written
  <2>1. Descending(written')
    BY <1>1, <1>3, NewestDescends DEF DescentInv
  <2>2. ASSUME Quiet' PROVE Answering'
    <3>1. Quiet /\ scenario' = scenario
      BY <1>1, <2>2, QuietBefore
    <3>2. \A d \in Devices : state'[d].checkpoint = state[d].checkpoint
      <4>1. PICK e \in Devices : adds(e) /\ alone(e)
        BY <1>1, <1>3, HeldStep DEF heldMoves, stays, merges, leaves, signs, startsOver, losesPower, flushes
      <4> QED BY <4>1 DEF adds, alone
    <3> QED BY <1>3, <3>1, <3>2, WrittenAnswers DEF Answering
  <2> QED BY <1>1, <2>1, <2>2 DEF DescentInv
<1> QED BY <1>2, <1>3


\* Two acknowledgments of an author answer something different.
LEMMA AnswersApart ==
  ASSUME NEW W, GoodOperations(W), Counted(W), Descending(W), \A w \in W : singleIn(w, W),
         NEW a \in W, NEW b \in W, a.author = b.author, a.nonce < b.nonce,
         NEW x \in W, NEW checkpointer, answered(a, x, W, checkpointer)
  PROVE  ~ answered(b, x, W, checkpointer)
<1>1. /\ a.nonce \in Nat \ {0} /\ b.prev \in Position
      /\ b.prev.author = b.author /\ b.nonce = b.prev.nonce + 1
  BY DEF GoodOperations, Counted
<1>2. b.prev.nonce \in Nat /\ b.prev.nonce # 0 /\ a.nonce <= b.prev.nonce
  BY <1>1 DEF Position
<1>3. b.prev \in links(b)
  BY <1>2 DEF links
<1>4. PICK p \in W : position(p) = b.prev
  BY <1>3 DEF Descending
<1>5. p.author = a.author /\ a.nonce <= p.nonce
  BY <1>1, <1>2, <1>4 DEF position
<1>6. a \in past(p, W)
  BY <1>5, OwnPast
<1>7. x \in past(p, W)
  BY <1>6, PastFacts DEF answered
<1> QED BY <1>4, <1>7 DEF answered

\* Where the configuration stays and no device loses its memory, however many edits are
\* written, imported, checkpointed and replayed, a device acknowledges at most once for
\* each edit of another and each acknowledgment of the checkpointer.
THEOREM AcknowledgingEnds == Spec => []AnswersBounded
<1>1. DescentInv => AnswersBounded
  <2> SUFFICES ASSUME DescentInv, Quiet, NEW d \in Devices
               PROVE  LET answers == {op \in written : op.ack /\ op.author = d}
                          asked == {op \in written : op.author # d /\
                                      (~op.ack \/ op.author = Checkpointer(state[d].config))}
                      IN Cardinality(answers) <= Cardinality(asked)
    BY DEF AnswersBounded, Quiet
  <2> DEFINE checkpointer == Checkpointer(scenario.config)
             answers == {op \in written : op.ack /\ op.author = d}
             asked == {op \in written : op.author # d /\ (~op.ack \/ op.author = checkpointer)}
             answering == [op \in answers |-> CHOOSE x \in written : answered(op, x, written, checkpointer)]
  <2>1. /\ GoodOperations(written) /\ Counted(written) /\ Descending(written)
        /\ \A w \in written : singleIn(w, written)
        /\ state[d].config = scenario.config
    BY QuietFacts DEF DescentInv, EditInv, CarryInv, Types
  <2>2. ASSUME NEW op \in answers
        PROVE  answering[op] \in written /\ answered(op, answering[op], written, checkpointer)
    <3>1. \E x \in written : answered(op, x, written, checkpointer)
      BY DEF DescentInv, Answering
    <3> QED BY <3>1
  <2> HIDE DEF answering
  <2>3. ASSUME NEW op \in answers PROVE answering[op] \in asked
    BY <2>2 DEF answered
  <2>4. DOMAIN answering = answers /\ answering = [op \in answers |-> answering[op]]
    BY DEF answering
  <2>5. ASSUME NEW a \in answers, NEW b \in answers, answering[a] = answering[b] PROVE a = b
    <3>1. ~ (a.nonce < b.nonce) /\ ~ (b.nonce < a.nonce)
      BY <2>1, <2>2, <2>5, AnswersApart
    <3>2. a.nonce \in Nat /\ b.nonce \in Nat
      BY <2>1 DEF GoodOperations
    <3>3. a.nonce = b.nonce
      BY <3>1, <3>2
    <3> QED BY <2>1, <3>3 DEF singleIn
  <2>6. IsFiniteSet(asked) /\ IsFiniteSet(answers)
    BY <2>1, FS_Subset DEF GoodOperations
  <2>7. answering \in Injection(answers, asked)
    BY <2>3, <2>4, <2>5 DEF Injection, IsInjective
  <2>8. Cardinality(answers) <= Cardinality(asked)
    BY <2>6, <2>7, FS_Injection
  <2> QED BY <2>1, <2>8
<1>2. Spec => []DescentInv
  BY DescentInit, DescentStep, PTL DEF Spec
<1> QED BY <1>1, <1>2, PTL

-----------------------------------------------------------------------------
(* Replay. A body comes to what replaying anew would.                      *)

\* One device signs the checkpoints.
SoleSigner == \A m, n \in signers : m = n

\* It does, none lost its memory, and no writer is removed.
AllWelcome == SoleSigner /\ calm({"remove"})

LEMMA WelcomeAlone ==
  ASSUME AllWelcome
  PROVE  OneSigner /\ NoneReadmitted
  BY DEF AllWelcome, SoleSigner, OneSigner, calm, NoneReadmitted

\* Replay refuses nothing then.
LEMMA NothingRefused ==
  ASSUME EditInv, AllWelcome, NEW d \in Devices, NEW op \in state[d].ops
  PROVE  apply(state[d], op) = [op |-> op, refused |-> FALSE]
<1>1. /\ Unique /\ Familiar(state[d], scenario.changes) /\ "remove" \notin scenario.changes
      /\ restored = {} /\ Counted(written) /\ state[d].ops \subseteq written
  BY WelcomeAlone DEF AllWelcome, calm, EditInv, NumberInv, Numbered, CarryInv, StatesCarry, Carry,
         Carries, Types, StatesTyped, GoodState, Above
<1>2. ~ Equivocated(state[d], op)
  <2> SUFFICES ASSUME NEW other \in state[d].ops, other # op, other.author = op.author, other.nonce = op.nonce
               PROVE  FALSE
    BY DEF Equivocated
  <2>1. position(op) \in everywhere /\ position(other) \in everywhere
    BY DEF everywhere, names, named
  <2>2. position(op) = position(other)
    BY <1>1, <2>1 DEF Unique, position
  <2>3. op.hash = other.hash
    BY <2>2 DEF position
  <2> QED BY <1>1, <2>3 DEF Counted
<1>3. AdmitsOperation(state[d].config, op)
  BY <1>1 DEF Familiar, AdmitsOperation
<1> QED BY <1>2, <1>3 DEF apply

\* No body has refused anything then.
NoneRefused ==
  AllWelcome => \A d \in Devices : \A i \in 1..Len(body[d].positions) : ~ body[d].positions[i].refused

\* What a step makes of a body.
LEMMA StepReplays ==
  ASSUME EditInv, AllWelcome, NoneRefused, NEW d \in Devices, Step(d)
  PROVE  \E x :
           /\ body' = [body EXCEPT ![d] = x] /\ GoodBody(x, written)
           /\ \A i \in 1..Len(x.positions) : ~ x.positions[i].refused
           /\ Len(x.positions) <= Len(Order(state[d]))
           /\ \A i \in 1..Len(x.positions) : x.positions[i].op = Order(state[d])[i]
<1> DEFINE s == state[d]
           order == Order(s)
           x == install(body[d], s.checkpoint)
<1>1. /\ GoodState(s, written) /\ order \in Seq(s.ops) /\ s.ops \subseteq written
      /\ \A op \in s.ops : apply(s, op) = [op |-> op, refused |-> FALSE]
  BY GoodIsPlaceable, OrderType, NothingRefused DEF EditInv, Types, StatesTyped, GoodState, Above
<1>2. GoodBody(body[d], written) /\ GoodBody(x, written)
  BY InstalledBody DEF EditInv, Types, BodiesTyped
<1>3. \A i \in 1..Len(x.positions) : ~ x.positions[i].refused
  BY <1>2, InstalledPositions DEF NoneRefused
<1>4. \/ body' = [body EXCEPT ![d] = following(x)]
      \/ \E n \in sharedPrefix(x, order)..Len(order) :
           body' = [body EXCEPT ![d] = replaying(x, s, order, sharedPrefix(x, order), n)]
  BY DEF Step
<1> HIDE DEF x, s, order
<1>5. CASE body' = [body EXCEPT ![d] = following(x)]
  <2>1. /\ DOMAIN following(x) = {"installed", "set", "positions"}
        /\ following(x).positions = <<>>
    BY <1>2 DEF following, GoodBody
  <2>2. GoodBody(following(x), written)
    BY <2>1 DEF GoodBody
  <2>3. Len(order) \in Nat /\ Len(following(x).positions) = 0
    BY <1>1, <2>1
  <2>4. /\ Len(following(x).positions) <= Len(order)
        /\ \A i \in 1..Len(following(x).positions) : FALSE
    BY <2>3
  <2> QED BY <1>5, <2>2, <2>4, Zenon DEF order, s
<1>6. ASSUME NEW n \in sharedPrefix(x, order)..Len(order),
             body' = [body EXCEPT ![d] = replaying(x, s, order, sharedPrefix(x, order), n)]
      PROVE  \E y :
               /\ body' = [body EXCEPT ![d] = y] /\ GoodBody(y, written)
               /\ \A i \in 1..Len(y.positions) : ~ y.positions[i].refused
               /\ Len(y.positions) <= Len(order)
               /\ \A i \in 1..Len(y.positions) : y.positions[i].op = order[i]
  <2> DEFINE keep == sharedPrefix(x, order)
             t == replaying(x, s, order, keep, n)
  <2>1. /\ Len(order) \in Nat /\ Len(x.positions) \in Nat /\ order \in Seq(written)
        /\ \A i \in 1..Len(order) : order[i] \in s.ops
    BY <1>1, <1>2 DEF GoodBody
  <2>2. /\ keep \in 0..Len(order) /\ keep <= Len(x.positions)
        /\ \A i \in 1..keep : x.positions[i].op = order[i]
    BY <2>1, SharedPrefixType
  <2>3. t.positions = [i \in 1..n |-> IF i <= keep THEN x.positions[i] ELSE apply(s, order[i])]
    BY <1>2 DEF replaying, GoodBody
  <2>4. GoodBody(t, written)
    BY <1>2, <2>1, ReplayedBody
  <2> HIDE DEF keep, t
  <2>5. n \in Nat /\ n <= Len(order)
    BY <2>1, <2>2 DEF keep
  <2>6. Len(t.positions) = n
    BY <2>3, <2>5
  <2>7. ASSUME NEW i \in 1..n PROVE t.positions[i].op = order[i] /\ ~ t.positions[i].refused
    <3>1. CASE i <= keep
      BY <1>3, <2>1, <2>2, <2>3, <3>1
    <3>2. CASE ~ (i <= keep)
      <4>1. t.positions[i] = apply(s, order[i]) /\ order[i] \in s.ops
        BY <2>1, <2>3, <2>5, <3>2
      <4> QED BY <1>1, <4>1
    <3> QED BY <3>1, <3>2
  <2> QED BY <1>6, <2>4, <2>5, <2>6, <2>7 DEF t, keep
<1> QED BY <1>4, <1>5, <1>6 DEF order, s

LEMMA WelcomeBefore ==
  ASSUME EditInv, [Next]_vars, AllWelcome'
  PROVE  AllWelcome
<1>1. scenario' = scenario /\ restored \subseteq restored'
  BY EnvironmentStep DEF EditInv
<1> QED BY <1>1 DEF AllWelcome, SoleSigner, signers, calm

LEMMA NoneRefusedStep ==
  ASSUME EditInv, NoneRefused, [Next]_vars
  PROVE  NoneRefused'
<1> SUFFICES ASSUME AllWelcome',
                    NEW d \in Devices, NEW i \in 1..Len(body'[d].positions)
             PROVE  ~ body'[d].positions[i].refused
  BY DEF NoneRefused
<1>1. AllWelcome /\ DOMAIN body = Devices
  BY WelcomeBefore DEF EditInv, Types, BodiesTyped
<1>2. ASSUME NEW e \in Devices, Step(e) PROVE ~ body'[d].positions[i].refused
  <2>1. PICK x : /\ body' = [body EXCEPT ![e] = x]
                 /\ \A j \in 1..Len(x.positions) : ~ x.positions[j].refused
    BY <1>1, <1>2, StepReplays
  <2> QED BY <1>1, <2>1 DEF NoneRefused
<1>3. CASE \A e \in Devices : ~ Step(e)
  <2>1. UNCHANGED body \/ \E e \in Devices : body' = [body EXCEPT ![e] = Detached]
    BY <1>3, BodyStep DEF EditInv
  <2>2. body'[d] = body[d] \/ body'[d] = Detached
    BY <1>1, <2>1
  <2> QED BY <1>1, <2>2 DEF NoneRefused, Detached
<1> QED BY <1>2, <1>3

\* Unrefused operations of the whole order leave what replaying the state leaves.
LEMMA WholeOrderReplayed ==
  ASSUME EditInv, AllWelcome, NEW d \in Devices, NEW x, GoodBody(x, written), Replayed(d, x),
         \A i \in 1..Len(x.positions) : ~ x.positions[i].refused,
         \A i \in 1..Len(x.positions) : x.positions[i].op = Order(state[d])[i]
  PROVE  Root(x, Len(x.positions)) = replay(state[d])
<1> DEFINE s == state[d]
           order == Order(s)
           n == Len(x.positions)
           anew == [i \in DOMAIN order |-> apply(s, order[i])]
<1>1. /\ order \in Seq(s.ops) /\ \A op \in s.ops : apply(s, op) = [op |-> op, refused |-> FALSE]
      /\ x.positions \in Seq(Applied(written))
  BY GoodIsPlaceable, OrderType, NothingRefused DEF EditInv, Types, StatesTyped, GoodBody
<1>2. n \in Nat /\ n = Len(order) /\ DOMAIN order = 1..n
  BY <1>1 DEF Replayed
<1> HIDE DEF order
<1>3. SubSeq(x.positions, 1, n) = [i \in 1..n |-> x.positions[i]]
  BY <1>1, <1>2
<1>4. ASSUME NEW i \in 1..n PROVE x.positions[i] = apply(s, order[i])
  <2>1. x.positions[i] \in Applied(written) /\ order[i] \in s.ops
    BY <1>1, <1>2
  <2>2. x.positions[i].op = order[i] /\ x.positions[i].refused = FALSE
    BY <2>1 DEF Applied, order
  <2>3. x.positions[i] = [op |-> x.positions[i].op, refused |-> x.positions[i].refused]
    BY <2>1 DEF Applied
  <2> QED BY <1>1, <2>1, <2>2, <2>3
<1>5. SubSeq(x.positions, 1, n) = anew
  <2>1. [i \in 1..n |-> x.positions[i]] = [i \in 1..n |-> apply(s, order[i])]
    BY <1>4
  <2> QED BY <1>2, <1>3, <2>1
<1>6. x.installed.data = s.checkpoint.data
  BY DEF Replayed
<1>7. Root(x, n) = s.checkpoint.data \o replayed(anew)
  BY <1>5, <1>6 DEF Root
<1>8. replay(s) = s.checkpoint.data \o replayed(anew)
  BY DEF replay, order
<1> QED BY <1>7, <1>8

\* Where one device signs the checkpoints, whatever a body applied, kept across a
\* checkpoint or a new order and replayed before, a step that leaves it with the whole
\* order leaves it where replaying anew from the checkpoint would.
THEOREM StepsReplay == Spec /\ []SoleSigner => StepIsReplay
<1>1. EditInv /\ NoneRefused /\ SoleSigner /\ [Next]_vars =>
        [\A d \in Devices :
           \E b \in {body'[d]} :
             b # body[d] /\ Replayed(d, b) /\ calm({"remove"})
               => Root(b, Len(b.positions)) = replay(state[d])]_vars
  <2> SUFFICES ASSUME EditInv, NoneRefused, SoleSigner, [Next]_vars, calm({"remove"}),
                      NEW d \in Devices, body'[d] # body[d], Replayed(d, body'[d])
               PROVE  Root(body'[d], Len(body'[d].positions)) = replay(state[d])
    OBVIOUS
  <2>1. AllWelcome /\ DOMAIN body = Devices
    BY DEF AllWelcome, EditInv, Types, BodiesTyped
  <2>2. ASSUME NEW e \in Devices, Step(e)
        PROVE  Root(body'[d], Len(body'[d].positions)) = replay(state[d])
    <3>1. PICK x : /\ body' = [body EXCEPT ![e] = x] /\ GoodBody(x, written)
                   /\ \A i \in 1..Len(x.positions) : ~ x.positions[i].refused
                   /\ \A i \in 1..Len(x.positions) : x.positions[i].op = Order(state[e])[i]
      BY <2>1, <2>2, StepReplays
    <3>2. e = d /\ body'[d] = x
      BY <2>1, <3>1
    <3> QED BY <2>1, <3>1, <3>2, WholeOrderReplayed
  <2>3. CASE \A e \in Devices : ~ Step(e)
    <3>1. UNCHANGED body \/ \E e \in Devices : body' = [body EXCEPT ![e] = Detached]
      BY <2>3, BodyStep DEF EditInv
    <3>2. body'[d] = Detached
      BY <2>1, <3>1
    <3>3. Len(Detached.positions) = 0
      BY DEF Detached
    <3>4. \A i \in 1..Len(Detached.positions) : FALSE
      BY <3>3
    <3> QED BY <2>1, <3>2, <3>4, DetachedGood, WholeOrderReplayed
  <2> QED BY <2>2, <2>3
<1>2. Init => NoneRefused
  BY DEF Init, NoneRefused, Detached
<1>3. EditInv /\ NoneRefused /\ [Next]_vars => NoneRefused'
  BY NoneRefusedStep
<1> QED BY <1>1, <1>2, <1>3, EditInvariant, PTL DEF Spec, StepIsReplay
=============================================================================
