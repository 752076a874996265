------------------------ MODULE OperationAgreeProofs ------------------------
(***************************************************************************)
(* Agreement on the stable order, proved of OperationLog for any devices,  *)
(* scenarios and bounds where the configuration stays: what is stable on   *)
(* any device begins one order of all the operations written, by hashes    *)
(* where the order is merged, else as the sequencer signed, and stays      *)
(* there.                                                                  *)
(***************************************************************************)
EXTENDS OperationEditProofs

-----------------------------------------------------------------------------
(* Agreement. Where the order is merged, what is stable on any device is   *)
(* the beginning of one order of all operations written.                   *)

\* What may come after C if all of W is held.
comes(W, C) == {y \in W \ C : \A l \in links(y) : \E x \in C : position(x) = l}

\* P begins the order of W: each of its operations is the one with the lowest hash that
\* may come next.
Greedy(P, W) ==
  /\ P \in Seq(W)
  /\ \A i \in 1..Len(P) :
       P[i] \in comes(W, preceding(P, i)) /\ \A y \in comes(W, preceding(P, i)) : P[i].hash <= y.hash

LEMMA OneOrder ==
  ASSUME NEW W, GoodOperations(W), Counted(W), NEW P, Greedy(P, W), NEW Q, Greedy(Q, W),
         Len(P) <= Len(Q)
  PROVE  Begins(P, Q)
<1>0. Len(P) \in Nat /\ Len(Q) \in Nat
  BY DEF Greedy
<1> SUFFICES ASSUME NEW k \in 1..Len(P), P[k] # Q[k] PROVE FALSE
  BY DEF Begins
<1> DEFINE D == {i \in Nat : i \in 1..Len(P) /\ P[i] # Q[i]}
<1>1. D \in SUBSET Nat /\ D # {}
  BY <1>0
<1>2. PICK i \in D : \A j \in D : i <= j
  <2> HIDE DEF D
  <2> QED BY <1>1, LeastNumber
<1>3. i \in 1..Len(P) /\ i \in 1..Len(Q) /\ P[i] # Q[i]
  BY <1>0, <1>2
<1>4. \A j \in 1..(i - 1) : P[j] = Q[j]
  <2>1. \A j \in 1..(i - 1) : j \in Nat /\ j \in 1..Len(P) /\ ~ (i <= j)
    BY <1>0, <1>3
  <2> QED BY <1>2, <2>1
<1>5. preceding(P, i) = preceding(Q, i)
  BY <1>4 DEF preceding
<1>6. P[i] \in comes(W, preceding(P, i)) /\ Q[i] \in comes(W, preceding(P, i))
  BY <1>3, <1>5 DEF Greedy
<1>7. P[i].hash <= Q[i].hash /\ Q[i].hash <= P[i].hash
  BY <1>3, <1>5, <1>6 DEF Greedy
<1>8. P[i] \in W /\ Q[i] \in W
  BY <1>6 DEF comes
<1>9. P[i].hash = Q[i].hash
  BY <1>7, <1>8 DEF GoodOperations
<1> QED BY <1>3, <1>8, <1>9 DEF Counted

\* What comes first of an order is closed under links, and has each operation once.
LEMMA GreedyClosed ==
  ASSUME NEW W, Named(W), NEW P, Greedy(P, W), NEW i \in 1..Len(P) + 1
  PROVE  preceding(P, i) \in SUBSET W /\ DescentClosed(preceding(P, i), W)
<1>0. Len(P) \in Nat /\ \A j \in 1..Len(P) : P[j] \in W
  BY DEF Greedy
<1>1. \A j \in 1..(i - 1) : j \in 1..Len(P)
  BY <1>0
<1>2. preceding(P, i) \in SUBSET W
  BY <1>0, <1>1 DEF preceding
<1>3. ASSUME NEW y \in preceding(P, i), NEW x \in W, position(x) \in links(y) PROVE x \in preceding(P, i)
  <2>1. PICK j \in 1..(i - 1) : y = P[j]
    BY DEF preceding
  <2>2. y \in comes(W, preceding(P, j))
    BY <1>1, <2>1 DEF Greedy
  <2>3. PICK z \in preceding(P, j) : position(z) = position(x)
    BY <1>3, <2>2 DEF comes
  <2>4. PICK k \in 1..(j - 1) : z = P[k]
    BY <2>3 DEF preceding
  <2>5. k \in 1..(i - 1) /\ z \in W
    BY <1>0, <1>1, <2>1, <2>4
  <2>6. z = x
    BY <2>3, <2>5 DEF Named
  <2> QED BY <2>4, <2>5, <2>6 DEF preceding
<1> QED BY <1>2, <1>3 DEF DescentClosed

LEMMA GreedyDistinct ==
  ASSUME NEW W, NEW P, Greedy(P, W), NEW i \in 1..Len(P), NEW j \in 1..Len(P), P[i] = P[j]
  PROVE  i = j
<1>0. Len(P) \in Nat
  BY DEF Greedy
<1>1. ASSUME NEW m \in 1..Len(P), NEW n \in 1..Len(P), m < n PROVE P[m] # P[n]
  <2>1. P[m] \in preceding(P, n)
    BY <1>0, <1>1 DEF preceding
  <2>2. P[n] \notin preceding(P, n)
    BY DEF Greedy, comes
  <2> QED BY <2>1, <2>2
<1>2. i < j \/ j < i \/ i = j
  BY <1>0
<1> QED BY <1>1, <1>2

\* What may come after C comes from C.
LEMMA PastOfNext ==
  ASSUME NEW W, Named(W), NEW C \in SUBSET W, DescentClosed(C, W), NEW y \in comes(W, C)
  PROVE  past(y, W) \subseteq C \cup {y}
<1>1. y \in W
  BY DEF comes
<1>2. DescentClosed(C \cup {y}, W)
  <2> SUFFICES ASSUME NEW z \in C \cup {y}, NEW x \in W, position(x) \in links(z) PROVE x \in C
    BY DEF DescentClosed
  <2>1. CASE z \in C
    BY <2>1 DEF DescentClosed
  <2>2. CASE z = y
    <3>1. PICK w \in C : position(w) = position(x)
      BY <2>2 DEF comes
    <3> QED BY <3>1 DEF Named
  <2> QED BY <2>1, <2>2
<1>3. C \cup {y} \in SUBSET W /\ y \in C \cup {y}
  BY <1>1
<1> QED BY <1>1, <1>2, <1>3, PastFacts

\* An operation that comes from all of an order is placed after it.
LEMMA GreedyGrows ==
  ASSUME NEW W, GoodOperations(W), Named(W), NEW new, \A w \in W : w.hash # new.hash,
         NEW P, Greedy(P, W), \A i \in 1..Len(P) : P[i] \in past(new, W \cup {new})
  PROVE  Greedy(P, W \cup {new})
<1> DEFINE V == W \cup {new}
<1>0. /\ new \notin W /\ Len(P) \in Nat /\ P \in Seq(V) /\ Named(V)
      /\ \A i \in 1..Len(P) : P[i] \in W
  <2>1. \A w \in W : position(w) # position(new)
    BY DEF position
  <2> QED BY <2>1 DEF Greedy, Named
<1>1. ASSUME NEW i \in 1..Len(P) PROVE comes(V, preceding(P, i)) = comes(W, preceding(P, i))
  <2> DEFINE C == preceding(P, i)
  <2>1. C \in SUBSET W /\ DescentClosed(C, W)
    BY <1>0, GreedyClosed
  <2>2. new \notin comes(V, C)
    <3> SUFFICES ASSUME new \in comes(V, C) PROVE FALSE
      OBVIOUS
    <3> HIDE DEF C
    <3>1. DescentClosed(C, V)
      <4> SUFFICES ASSUME NEW y \in C, position(new) \in links(y) PROVE new \in C
        BY <2>1 DEF DescentClosed
      <4>1. PICK k \in 1..(i - 1) : y = P[k]
        BY DEF preceding, C
      <4>2. k \in 1..Len(P)
        BY <1>0
      <4>3. PICK z \in preceding(P, k) : position(z) = position(new)
        BY <4>1, <4>2 DEF Greedy, comes
      <4>4. preceding(P, k) \in SUBSET W
        BY <1>0, <4>2, GreedyClosed
      <4> QED BY <1>0, <4>3, <4>4 DEF Named
    <3>2. past(new, V) \subseteq C \cup {new}
      BY <1>0, <2>1, <3>1, PastOfNext
    <3>3. P[i] \in C
      BY <1>0, <3>2
    <3> QED BY <3>3 DEF Greedy, comes, C
  <2> QED BY <2>2 DEF comes
<1> QED BY <1>0, <1>1 DEF Greedy

LEMMA GreedyJoins ==
  ASSUME NEW W, NEW P, Greedy(P, W), NEW q \in Seq(W),
         \A i \in 1..Len(q) :
           LET C == preceding(P, Len(P) + 1) \cup preceding(q, i)
           IN q[i] \in comes(W, C) /\ \A y \in comes(W, C) : q[i].hash <= y.hash
  PROVE  Greedy(P \o q, W)
<1> DEFINE r == P \o q
<1>0. /\ Len(P) \in Nat /\ Len(q) \in Nat /\ P \in Seq(W)
      /\ r \in Seq(W) /\ Len(r) = Len(P) + Len(q)
      /\ \A i \in 1..Len(P) : r[i] = P[i]
      /\ \A i \in 1..Len(q) : r[Len(P) + i] = q[i]
  BY DEF Greedy
<1> HIDE DEF r
<1>1. ASSUME NEW i \in 1..Len(r)
      PROVE  r[i] \in comes(W, preceding(r, i)) /\ \A y \in comes(W, preceding(r, i)) : r[i].hash <= y.hash
  <2>1. CASE i <= Len(P)
    <3>1. \A j \in 1..(i - 1) : r[j] = P[j]
      BY <1>0, <2>1
    <3>2. preceding(r, i) = preceding(P, i)
      BY <3>1 DEF preceding
    <3>3. i \in 1..Len(P) /\ r[i] = P[i]
      BY <1>0, <2>1
    <3> QED BY <3>2, <3>3 DEF Greedy
  <2>2. CASE i > Len(P)
    <3> DEFINE k == i - Len(P)
    <3>1. k \in 1..Len(q) /\ i = Len(P) + k
      BY <1>0, <2>2
    <3> HIDE DEF k
    <3>2. \A j \in 1..(i - 1) : \/ j \in 1..Len(P) /\ r[j] = P[j]
                                \/ \E m \in 1..(k - 1) : j = Len(P) + m /\ r[j] = q[m]
      <4> TAKE j \in 1..(i - 1)
      <4>1. CASE j <= Len(P)
        BY <1>0, <4>1
      <4>2. CASE j > Len(P)
        <5>1. (j - Len(P)) \in 1..(k - 1) /\ (j - Len(P)) \in 1..Len(q) /\ j = Len(P) + (j - Len(P))
          BY <1>0, <3>1, <4>2
        <5> QED BY <1>0, <5>1
      <4> QED BY <1>0, <4>1, <4>2
    <3>3. \A m \in 1..(k - 1) : Len(P) + m \in 1..(i - 1) /\ r[Len(P) + m] = q[m]
      BY <1>0, <3>1
    <3>4. \A j \in 1..Len(P) : j \in 1..(i - 1) /\ r[j] = P[j]
      BY <1>0, <2>2
    <3>5. preceding(P, Len(P) + 1) = {P[j] : j \in 1..Len(P)}
      <4>1. (Len(P) + 1) - 1 = Len(P)
        BY <1>0
      <4> QED BY <4>1 DEF preceding
    <3>6. preceding(r, i) = preceding(P, Len(P) + 1) \cup preceding(q, k)
      <4>1. \A x \in preceding(r, i) : x \in {P[j] : j \in 1..Len(P)} \cup preceding(q, k)
        BY <3>2 DEF preceding
      <4>2. \A x \in preceding(q, k) : x \in preceding(r, i)
        BY <3>3 DEF preceding
      <4>3. \A j \in 1..Len(P) : P[j] \in preceding(r, i)
        BY <3>4 DEF preceding
      <4> QED BY <3>5, <4>1, <4>2, <4>3
    <3>7. r[i] = q[k]
      BY <1>0, <3>1
    <3> QED BY <3>1, <3>6, <3>7
  <2> QED BY <1>0, <2>1, <2>2
<1> QED BY <1>0, <1>1 DEF Greedy, r

\* The marks of operations that replay admits.
admitted(P) == [i \in 1..Len(P) |-> [op |-> P[i], refused |-> FALSE]]
marked(P) == replayed(admitted(P))

\* Marks are those of what leaves one.
LEMMA SameMarks ==
  ASSUME NEW ps, NEW qs, Len(ps) \in Nat, Len(qs) = Len(ps),
         \A i \in 1..Len(ps) : /\ ps[i].op = qs[i].op
                               /\ (ps[i].op.ack \/ ps[i].refused) <=> (qs[i].op.ack \/ qs[i].refused)
  PROVE  replayed(ps) = replayed(qs)
<1> DEFINE n == Len(ps)
<1>1. PICK m : replayed(ps) = m[n] /\ \A i \in 0..n : m[i] = markAt(m, ps, i)
  BY Marking
<1>2. PICK k : replayed(qs) = k[n] /\ \A i \in 0..n : k[i] = markAt(k, qs, i)
  BY Marking
<1> DEFINE T == {i \in Nat : i <= n => m[i] = k[i]}
<1>3. 0 \in T
  BY <1>1, <1>2 DEF markAt
<1>4. ASSUME NEW i \in T PROVE i + 1 \in T
  <2> SUFFICES ASSUME i + 1 <= n PROVE m[i + 1] = k[i + 1]
    OBVIOUS
  <2>1. i + 1 \in 1..n /\ i + 1 \in 0..n /\ i + 1 # 0 /\ (i + 1) - 1 = i /\ m[i] = k[i]
    OBVIOUS
  <2>2. m[i + 1] = markAt(m, ps, i + 1) /\ k[i + 1] = markAt(k, qs, i + 1)
    BY <1>1, <1>2, <2>1
  <2> QED BY <2>1, <2>2 DEF markAt
<1>5. T \in SUBSET Nat
  OBVIOUS
<1>6. T = Nat
  <2> HIDE DEF T
  <2> QED BY <1>3, <1>4, <1>5, NumberInduction
<1>7. n \in T
  BY <1>6
<1> QED BY <1>1, <1>2, <1>7

LEMMA MarkedJoins ==
  ASSUME NEW W, NEW P \in Seq(W), NEW q \in Seq(W)
  PROVE  marked(P \o q) = marked(P) \o marked(q)
<1> DEFINE r == P \o q
           a == Len(P)
           b == Len(q)
           S == Seq({position(op) : op \in W})
<1>0. /\ a \in Nat /\ b \in Nat /\ Len(r) = a + b
      /\ \A i \in 1..a : r[i] = P[i] /\ P[i] \in W
      /\ \A i \in 1..b : r[a + i] = q[i] /\ q[i] \in W
  OBVIOUS
<1> HIDE DEF r
<1>1. /\ Len(admitted(r)) = a + b /\ Len(admitted(P)) = a /\ Len(admitted(q)) = b
      /\ \A i \in 1..a + b : admitted(r)[i] = [op |-> r[i], refused |-> FALSE]
      /\ \A i \in 1..a : admitted(P)[i] = [op |-> P[i], refused |-> FALSE]
      /\ \A i \in 1..b : admitted(q)[i] = [op |-> q[i], refused |-> FALSE]
  BY <1>0 DEF admitted
<1> HIDE DEF a, b
<1>2. PICK m : marked(r) = m[a + b] /\ \A i \in 0..a + b : m[i] = markAt(m, admitted(r), i)
  <2>1. Len(admitted(r)) \in Nat /\ Len(admitted(r)) = a + b
    BY <1>0, <1>1
  <2>2. \E g : replayed(admitted(r)) = g[Len(admitted(r))] /\ \A i \in 0..Len(admitted(r)) : g[i] = markAt(g, admitted(r), i)
    BY <2>1, Marking
  <2> QED BY <2>1, <2>2 DEF marked
<1>3. PICK k : marked(P) = k[a] /\ \A i \in 0..a : k[i] = markAt(k, admitted(P), i)
  <2>1. Len(admitted(P)) \in Nat /\ Len(admitted(P)) = a
    BY <1>0, <1>1
  <2>2. \E g : replayed(admitted(P)) = g[Len(admitted(P))] /\ \A i \in 0..Len(admitted(P)) : g[i] = markAt(g, admitted(P), i)
    BY <2>1, Marking
  <2> QED BY <2>1, <2>2 DEF marked
<1>4. PICK l : marked(q) = l[b] /\ \A i \in 0..b : l[i] = markAt(l, admitted(q), i)
  <2>1. Len(admitted(q)) \in Nat /\ Len(admitted(q)) = b
    BY <1>0, <1>1
  <2>2. \E g : replayed(admitted(q)) = g[Len(admitted(q))] /\ \A i \in 0..Len(admitted(q)) : g[i] = markAt(g, admitted(q), i)
    BY <2>1, Marking
  <2> QED BY <2>1, <2>2 DEF marked
<1> DEFINE T == {i \in Nat : i <= a => m[i] = k[i] /\ m[i] \in S}
<1>5. a \in T
  <2>1. 0 \in T
    <3>1. 0 \in 0..a /\ 0 \in 0..a + b
      BY <1>0
    <3>2. m[0] = <<>> /\ k[0] = <<>>
      BY <1>2, <1>3, <3>1 DEF markAt
    <3>3. <<>> \in S
      OBVIOUS
    <3> HIDE DEF S
    <3> QED BY <3>2, <3>3
  <2>2. ASSUME NEW i \in T PROVE i + 1 \in T
    <3> SUFFICES ASSUME i + 1 <= a PROVE m[i + 1] = k[i + 1] /\ m[i + 1] \in S
      OBVIOUS
    <3>1. /\ i + 1 \in 1..a /\ i + 1 \in 0..a /\ i + 1 \in 0..a + b /\ i + 1 \in 1..a + b
          /\ i + 1 # 0 /\ (i + 1) - 1 = i /\ m[i] = k[i] /\ m[i] \in S
      BY <1>0
    <3>2. m[i + 1] = markAt(m, admitted(r), i + 1) /\ k[i + 1] = markAt(k, admitted(P), i + 1)
      BY <1>2, <1>3, <3>1
    <3>3. admitted(r)[i + 1] = [op |-> P[i + 1], refused |-> FALSE] /\ admitted(P)[i + 1] = [op |-> P[i + 1], refused |-> FALSE]
      BY <1>0, <1>1, <3>1
    <3>4. position(P[i + 1]) \in {position(op) : op \in W}
      BY <1>0, <3>1
    <3> QED BY <3>1, <3>2, <3>3, <3>4 DEF markAt
  <2>3. T \in SUBSET Nat
    OBVIOUS
  <2>4. T = Nat
    <3> HIDE DEF T
    <3> QED BY <2>1, <2>2, <2>3, NumberInduction
  <2> QED BY <1>0, <2>4
<1>6. m[a] = k[a] /\ m[a] \in S
  BY <1>0, <1>5
<1> DEFINE goes(i) == m[a + i] = m[a] \o l[i] /\ l[i] \in S
           R == {i \in Nat : i <= b => goes(i)}
<1>7. b \in R
  <2>1. 0 \in R
    <3>1. l[0] = <<>> /\ a + 0 = a
      <4>1. 0 \in 0..b
        BY <1>0
      <4>2. l[0] = markAt(l, admitted(q), 0)
        BY <1>4, <4>1
      <4> QED BY <1>0, <4>2 DEF markAt
    <3> HIDE DEF S
    <3>2. m[a] \o <<>> = m[a]
      BY <1>6 DEF S
    <3>3. <<>> \in S
      BY DEF S
    <3>4. goes(0)
      BY <3>1, <3>2, <3>3
    <3> HIDE DEF goes
    <3> QED BY <3>4
  <2>2. ASSUME NEW i \in R PROVE i + 1 \in R
    <3>0. i \in Nat /\ (i <= b => goes(i))
      <4> HIDE DEF goes
      <4> QED OBVIOUS
    <3> SUFFICES ASSUME i + 1 <= b PROVE goes(i + 1)
      <4> HIDE DEF goes
      <4> QED BY <3>0
    <3> HIDE DEF S, R
    <3>1. /\ i + 1 \in 1..b /\ i + 1 \in 0..b /\ a + (i + 1) \in 0..a + b /\ a + (i + 1) \in 1..a + b
          /\ i + 1 # 0 /\ (i + 1) - 1 = i /\ a + (i + 1) # 0 /\ (a + (i + 1)) - 1 = a + i
          /\ goes(i)
      <4> HIDE DEF goes
      <4>1. a \in Nat /\ b \in Nat /\ i \in Nat /\ i + 1 <= b
        BY <1>0, <3>0
      <4>2. i <= b
        BY <4>1
      <4>3. /\ i + 1 \in 1..b /\ i + 1 \in 0..b /\ a + (i + 1) \in 0..a + b /\ a + (i + 1) \in 1..a + b
            /\ i + 1 # 0 /\ (i + 1) - 1 = i /\ a + (i + 1) # 0 /\ (a + (i + 1)) - 1 = a + i
        BY <4>1
      <4> QED BY <3>0, <4>2, <4>3
    <3>2. m[a + (i + 1)] = markAt(m, admitted(r), a + (i + 1)) /\ l[i + 1] = markAt(l, admitted(q), i + 1)
      BY <1>2, <1>4, <3>1
    <3>3. admitted(r)[a + (i + 1)] = [op |-> q[i + 1], refused |-> FALSE] /\ admitted(q)[i + 1] = [op |-> q[i + 1], refused |-> FALSE]
      BY <1>0, <1>1, <3>1
    <3> DEFINE x == position(q[i + 1])
    <3>4. x \in {position(op) : op \in W}
      BY <1>0, <3>1
    <3>5. m[a + (i + 1)] = IF q[i + 1].ack THEN m[a] \o l[i] ELSE Append(m[a] \o l[i], x)
      <4>1. m[a + (i + 1)] = IF q[i + 1].ack THEN m[a + i] ELSE Append(m[a + i], x)
        <5>1. a + (i + 1) # 0 /\ (a + (i + 1)) - 1 = a + i
          BY <3>1
        <5> DEFINE z == a + (i + 1)
        <5>2. m[z] = markAt(m, admitted(r), z) /\ admitted(r)[z] = [op |-> q[i + 1], refused |-> FALSE]
          BY <3>2, <3>3
        <5>3. z # 0 /\ z - 1 = a + i
          BY <5>1
        <5> HIDE DEF z
        <5>4. m[z] = IF q[i + 1].ack THEN m[a + i] ELSE Append(m[a + i], x)
          BY <5>2, <5>3 DEF markAt
        <5> QED BY <5>4 DEF z
      <4> QED BY <3>1, <4>1
    <3>6. l[i + 1] = IF q[i + 1].ack THEN l[i] ELSE Append(l[i], x)
      BY <3>1, <3>2, <3>3 DEF markAt
    <3> HIDE DEF x
    <3>7. Append(m[a] \o l[i], x) = m[a] \o Append(l[i], x) /\ Append(l[i], x) \in S
      <4>1. m[a] \in Seq({position(op) : op \in W}) /\ l[i] \in Seq({position(op) : op \in W})
        BY <1>6, <3>1 DEF S
      <4> DEFINE V == {position(op) : op \in W}
      <4>2. m[a] \in Seq(V) /\ l[i] \in Seq(V) /\ x \in V
        BY <3>4, <4>1
      <4> HIDE DEF V
      <4>3. Append(m[a] \o l[i], x) = m[a] \o Append(l[i], x) /\ Append(l[i], x) \in Seq(V)
        <5> DEFINE u == m[a]
                   v == l[i]
        <5>1. u \in Seq(V) /\ v \in Seq(V)
          BY <4>2
        <5> HIDE DEF u, v
        <5>2. Append(u \o v, x) = u \o Append(v, x) /\ Append(v, x) \in Seq(V)
          <6>1. x \in V
            BY <4>2
          <6> HIDE DEF goes, T
          <6>2. Append(v, x) \in Seq(V) /\ Append(v, x) = v \o <<x>> /\ <<x>> \in Seq(V)
            BY <5>1, <6>1
          <6>3. u \o v \in Seq(V)
            BY <5>1
          <6>4. Append(u \o v, x) = (u \o v) \o <<x>>
            BY <6>1, <6>3
          <6>5. (u \o v) \o <<x>> = u \o (v \o <<x>>)
            BY <5>1, <6>2
          <6> QED BY <6>2, <6>4, <6>5
        <5> QED BY <5>2 DEF u, v
      <4> QED BY <4>3 DEF V, S
    <3> HIDE DEF S
    <3> QED BY <3>1, <3>5, <3>6, <3>7
  <2>3. R \in SUBSET Nat
    OBVIOUS
  <2>4. R = Nat
    <3> HIDE DEF R
    <3> QED BY <2>1, <2>2, <2>3, NumberInduction
  <2> QED BY <1>0, <2>4
<1>8. m[a + b] = m[a] \o l[b]
  <2>1. goes(b)
    <3> HIDE DEF goes
    <3> QED BY <1>0, <1>7
  <2> QED BY <2>1
<1> QED BY <1>2, <1>3, <1>4, <1>6, <1>8 DEF r

LEMMA MarkedType ==
  ASSUME NEW W, NEW P \in Seq(W)
  PROVE  marked(P) \in Seq({position(op) : op \in W})
<1>1. /\ Len(P) \in Nat /\ Len(admitted(P)) = Len(P)
      /\ \A i \in 1..Len(P) : admitted(P)[i].op = P[i] /\ P[i] \in W
  BY DEF admitted
<1> DEFINE S == {position(admitted(P)[i].op) : i \in 1..Len(P)}
<1>2. marked(P) \in Seq(S)
  BY <1>1, ReplayedMarks DEF MarksFirst, marked
<1>3. S \subseteq {position(op) : op \in W}
  BY <1>1
<1> HIDE DEF S
<1> QED BY <1>2, <1>3

LEMMA MarkedBegins ==
  ASSUME NEW W, NEW P \in Seq(W), NEW Q \in Seq(W), Begins(P, Q)
  PROVE  IsPrefix(marked(P), marked(Q))
<1> DEFINE q == SubSeq(Q, Len(P) + 1, Len(Q))
<1>1. Len(P) \in Nat /\ Len(Q) \in Nat /\ Len(P) <= Len(Q) /\ \A i \in 1..Len(P) : P[i] = Q[i]
  BY DEF Begins
<1>2. q \in Seq(W) /\ Len(q) = Len(Q) - Len(P)
  <2>1. Len(P) + 1 \in Int /\ Len(P) + 1 >= 1 /\ Len(Q) \in Int /\ Len(Q) <= Len(Q)
    BY <1>1
  <2>2. q \in Seq(W)
    BY <1>1, <2>1, PartOfSequence
  <2> QED BY <1>1, <2>2
<1>3. \A i \in 1..Len(q) : q[i] = Q[Len(P) + i]
  BY <1>1, <1>2
<1> HIDE DEF q
<1>4. P \o q = Q
  <2>1. P \o q \in Seq(W) /\ Len(P \o q) = Len(Q)
    BY <1>1, <1>2
  <2>3. Q \in Seq(W)
    OBVIOUS
  <2>2. ASSUME NEW i \in 1..Len(Q) PROVE (P \o q)[i] = Q[i]
    <3>1. CASE i <= Len(P)
      <4>1. i \in 1..Len(P) /\ (P \o q)[i] = P[i]
        BY <1>1, <1>2, <3>1
      <4> QED BY <1>1, <4>1
    <3>2. CASE i > Len(P)
      <4> DEFINE k == i - Len(P)
      <4>1. k \in 1..Len(q) /\ Len(P) + k = i
        BY <1>1, <1>2, <3>2
      <4>2. (P \o q)[i] = q[k]
        BY <1>1, <1>2, <3>2
      <4> HIDE DEF k
      <4>3. q[k] = Q[Len(P) + k]
        BY <1>3, <4>1
      <4> QED BY <4>1, <4>2, <4>3
    <3>3. i <= Len(P) \/ i > Len(P)
      BY <1>1
    <3> QED BY <3>1, <3>2, <3>3
  <2> DEFINE r == P \o q
  <2> HIDE DEF r
  <2>4. \A i \in 1..Len(r) : r[i] = Q[i]
    BY <2>1, <2>2 DEF r
  <2>5. r = Q
    BY <2>1, <2>3, <2>4, SeqEqual DEF r
  <2> QED BY <2>5 DEF r
<1>5. marked(Q) = marked(P) \o marked(q)
  BY <1>2, <1>4, MarkedJoins
<1>6. marked(P) \in Seq({position(op) : op \in W}) /\ marked(q) \in Seq({position(op) : op \in W})
  BY <1>2, MarkedType
<1> QED BY <1>5, <1>6 DEF IsPrefix

\* What the ancestors of an operation are, it comes from.
LEMMA AncestorsPast ==
  ASSUME NEW W, Named(W), NEW s, s.ops \subseteq W, NEW q \in Seq(s.ops), Linked(s, q), NEW tip \in s.ops
  PROVE  Ancestors(s, q, tip) \subseteq past(tip, W)
<1> DEFINE C == past(tip, W) \cap s.ops
<1>1. tip \in past(tip, W) /\ DescentClosed(past(tip, W), W)
  BY PastFacts
<1>2. tip \in C /\ \A y \in C : \A x \in s.ops : position(x) \in openLinks(s, y) => x \in C
  BY <1>1 DEF DescentClosed, openLinks
<1>3. \A x, y \in s.ops : position(x) = position(y) => x = y
  BY DEF Named
<1>4. FoundFrom(s, tip, Ancestors(s, q, tip))
  BY <1>3, AncestorsFound
<1>5. C \in SUBSET s.ops
  OBVIOUS
<1>6. Ancestors(s, q, tip) \subseteq C
  <2> HIDE DEF C
  <2> QED BY <1>2, <1>4, <1>5 DEF FoundFrom
<1> QED BY <1>6

\* The config merges, and drops nobody.
Merged(s) == s.config.sequencer = None /\ s.config.start.height = 0 /\ s.config.dropped = {}

LEMMA MergedOrder ==
  ASSUME NEW W, GoodOperations(W), NEW s, GoodState(s, W), Merged(s)
  PROVE  sequenced(s).order = <<>> /\ ~ sequenceOpen(s)
<1> DEFINE resolved == resolveSequence(s)
<1>1. Placeable(s) /\ base(s).height \in Nat
  BY GoodIsPlaceable DEF GoodState, GoodCheckpoint, base
<1>2. resolved \in Seq(s.sequence) /\ Climbs(s, resolved)
  BY <1>1, Resolved
<1>3. nextPositions(s, base(s)) = {}
  BY <1>1 DEF nextPositions, Merged, start
<1>4. Len(resolved) = 0
  <2> HIDE DEF resolved
  <2>1. Len(resolved) \in Nat
    BY <1>2
  <2> SUFFICES ASSUME Len(resolved) # 0 PROVE FALSE
    OBVIOUS
  <2>2. 1 \in 1..Len(resolved)
    BY <2>1
  <2> QED BY <1>2, <1>3, <2>2 DEF Climbs
<1>5. resolved = <<>>
  <2> HIDE DEF resolved
  <2> QED BY <1>2, <1>4
<1>6. Fresh(s)
  BY <1>4 DEF Fresh
<1>7. PICK n \in 0..Len(resolved) : InTurn(s, n, sequenced(s).order)
  BY <1>1, <1>6, SequencedType
<1>8. sequenced(s).order \in Seq(s.ops) /\ Len(sequenced(s).order) = 0
  BY <1>1, <1>4, <1>7, SequencedType DEF InTurn, Sequenced
<1>9. sequenced(s).order = <<>>
  BY <1>8
<1>10. SequenceTail(s) = base(s)
  BY <1>5 DEF SequenceTail
<1> QED BY <1>1, <1>9, <1>10 DEF sequenceOpen, Merged, start

\* How far the order is stable.
LEMMA StableExtent ==
  ASSUME NEW W, GoodOperations(W), NEW s, GoodState(s, W), Merged(s)
  PROVE  /\ \A i \in 1..Len(StablePoint(s, Order(s))) : \A d \in Writers(s.config) :
              Order(s)[i] \in builtOn(s, Order(s), d)
         /\ \A n \in 0..Len(Order(s)) :
              (\A i \in 1..n : \A d \in Writers(s.config) : Order(s)[i] \in builtOn(s, Order(s), d))
                => n <= Len(StablePoint(s, Order(s)))
<1> DEFINE order == Order(s)
           built == {builtOn(s, order, d) : d \in OnRoster(s.config)}
           unstable == {i \in DOMAIN order : \E b \in built : order[i] \notin b}
           stable == StablePoint(s, order)
<1>1. /\ order \in Seq(s.ops) /\ Len(order) \in Nat /\ DOMAIN order = 1..Len(order)
      /\ OnRoster(s.config) = Writers(s.config)
  BY GoodIsPlaceable, OrderType DEF Merged, OnRoster
<1>2. stable = IF unstable = {} THEN order ELSE SubSeq(order, 1, Min(unstable) - 1)
  <2> HIDE DEF order
  <2> QED BY MergedOrder, Zenon DEF StablePoint
<1> HIDE DEF order, stable
<1>3. unstable \in SUBSET (0..Len(order))
  BY <1>1
<1>4. \A i \in 1..Len(order) : i \notin unstable <=> \A d \in Writers(s.config) : order[i] \in builtOn(s, order, d)
  BY <1>1
<1> HIDE DEF unstable
<1>5. CASE unstable = {}
  BY <1>1, <1>2, <1>4, <1>5 DEF order, stable
<1>6. CASE unstable # {}
  <2> DEFINE m == Min(unstable)
  <2>1. m \in unstable /\ \A x \in unstable : m <= x
    BY <1>1, <1>3, <1>6, Extremes
  <2> HIDE DEF m
  <2>2. m \in 1..Len(order)
    BY <1>1, <2>1 DEF unstable
  <2>3. Len(stable) = m - 1
    <3>1. stable = SubSeq(order, 1, m - 1)
      BY <1>2, <1>6 DEF m
    <3> QED BY <1>1, <2>2, <3>1
  <2>4. \A i \in 1..(m - 1) : i \in 1..Len(order) /\ i \notin unstable
    BY <1>1, <2>1, <2>2
  <2>5. ASSUME NEW n \in 0..Len(order),
               \A i \in 1..n : \A d \in Writers(s.config) : order[i] \in builtOn(s, order, d)
        PROVE  n <= m - 1
    <3> SUFFICES ASSUME ~ (n <= m - 1) PROVE FALSE
      OBVIOUS
    <3>1. m \in 1..n
      BY <1>1, <2>2
    <3> QED BY <1>4, <2>1, <2>2, <2>5, <3>1
  <2> QED BY <1>4, <2>3, <2>4, <2>5 DEF order, stable
<1> QED BY <1>5, <1>6

\* What a writer has built on, an operation of its comes from.
LEMMA BuiltAnchored ==
  ASSUME NEW W, GoodOperations(W), Named(W), NEW s, GoodState(s, W), NEW d,
         NEW x \in builtOn(s, Order(s), d)
  PROVE  \E t \in s.ops : t.author = d /\ t \in Range(Order(s)) /\ x \in past(t, W)
<1> DEFINE q == Order(s)
<1>1. q \in Seq(s.ops) /\ Linked(s, q) /\ s.ops \subseteq W /\ Range(q) \subseteq s.ops
  <2>1. q \in Seq(s.ops) /\ Linked(s, q)
    BY GoodIsPlaceable, OrderType
  <2> HIDE DEF q
  <2> QED BY <2>1, SequenceFacts DEF GoodState, Above, Range
<1> HIDE DEF q
<1>2. PICK t \in latest(q, d) : x \in Ancestors(s, q, t)
  BY DEF builtOn, q
<1>3. t \in Range(q) /\ t.author = d /\ t \in s.ops
  BY <1>1, <1>2 DEF latest
<1> QED BY <1>1, <1>2, <1>3, AncestorsPast DEF q

\* A state that holds an operation holds what it links to.
HeldClosed(s, W) == \A y, x \in W : holds(s, y) /\ position(x) \in links(y) => holds(s, x)

\* The checkpoint k covers what P begins the order with, and carries its marks.
CoversOrder(k, P, W) ==
  /\ Greedy(P, W)
  /\ \A w \in W : Covers(k, position(w)) <=> w \in preceding(P, Len(P) + 1)
  /\ k.data = marked(P)

\* Each of the authors has built on x.
Anchored(x, authors, W) == \A a \in authors : \E t \in W : t.author = a /\ x \in past(t, W)

\* What a state with this config, that holds what its operations link to, may know of W.
Ordered(s, P, W) ==
  /\ Merged(s) /\ HeldClosed(s, W) /\ CoversOrder(s.checkpoint, P, W)
  /\ \A w \in W : w.author \in Writers(s.config)

LEMMA PlacedClosed ==
  ASSUME NEW W, GoodOperations(W), Counted(W), Descending(W), NEW s, GoodState(s, W),
         NEW P, CoversOrder(s.checkpoint, P, W), NEW i \in 1..Len(Order(s))
  PROVE  LET C == preceding(P, Len(P) + 1) \cup preceding(Order(s), i)
         IN /\ C \in SUBSET W /\ DescentClosed(C, W)
            /\ Order(s)[i] \in comes(W, C) /\ Order(s)[i] \in s.ops
<1> DEFINE q == Order(s)
           B == preceding(P, Len(P) + 1)
           C == B \cup preceding(q, i)
<1>1. /\ q \in Seq(s.ops) /\ Linked(s, q) /\ Len(q) \in Nat /\ \A j \in 1..Len(q) : q[j] \in s.ops
      /\ s.ops \subseteq W /\ Named(W) /\ \A x \in s.ops : ~ Covers(s.checkpoint, position(x))
  BY GoodIsPlaceable, OrderType, CountedNamed DEF GoodState, Above
<1>2. B \in SUBSET W /\ DescentClosed(B, W) /\ \A w \in W : Covers(s.checkpoint, position(w)) <=> w \in B
  <2>1. Len(P) + 1 \in 1..Len(P) + 1
    BY DEF CoversOrder, Greedy
  <2> QED BY <1>1, <2>1, GreedyClosed DEF CoversOrder
<1> HIDE DEF q, B
<1>3. C \in SUBSET W
  BY <1>1, <1>2 DEF preceding, q
<1>4. ASSUME NEW j \in 1..i, NEW l \in links(q[j])
      PROVE  \E x \in B \cup preceding(q, j) : position(x) = l
  <2>1. j \in 1..Len(q) /\ q[j] \in s.ops /\ q[j] \in W
    BY <1>1 DEF q
  <2>2. CASE Covers(s.checkpoint, l)
    <3>1. PICK w \in W : position(w) = l
      BY <1>4, <2>1 DEF Descending
    <3> QED BY <1>2, <2>2, <3>1
  <2>3. CASE ~ Covers(s.checkpoint, l)
    <3>1. PICK k \in 1..(j - 1) : position(q[k]) = l
      BY <1>1, <1>4, <2>1, <2>3 DEF Linked, openLinks
    <3> QED BY <3>1 DEF preceding
  <2> QED BY <2>2, <2>3
<1>5. DescentClosed(C, W)
  <2> SUFFICES ASSUME NEW y \in C, NEW x \in W, position(x) \in links(y) PROVE x \in C
    BY DEF DescentClosed
  <2>1. CASE y \in B
    BY <1>2, <2>1 DEF DescentClosed
  <2>2. CASE y \in preceding(q, i)
    <3>1. PICK j \in 1..(i - 1) : y = q[j]
      BY <2>2 DEF preceding
    <3>2. PICK z \in B \cup preceding(q, j) : position(z) = position(x)
      BY <1>4, <3>1
    <3>3. preceding(q, j) \subseteq preceding(q, i)
      BY <3>1 DEF preceding
    <3>4. z = x
      BY <1>1, <1>3, <3>2, <3>3 DEF Named
    <3> QED BY <3>2, <3>3, <3>4
  <2> QED BY <2>1, <2>2
<1>6. q[i] \in s.ops /\ q[i] \in W /\ i \in 1..i
  BY <1>1 DEF q
<1>7. q[i] \notin C
  <2>1. q[i] \notin B
    BY <1>1, <1>2, <1>6
  <2>2. q[i] \notin preceding(q, i)
    BY <1>1 DEF preceding, Linked, q
  <2> QED BY <2>1, <2>2
<1>8. q[i] \in comes(W, C)
  BY <1>4, <1>6, <1>7 DEF comes
<1> QED BY <1>3, <1>5, <1>6, <1>8 DEF q, B

\* What a state lacks comes from all that each writer has built on, as far as it knows.
LEMMA UnknownComesLater ==
  ASSUME NEW W, GoodOperations(W), Counted(W), Descending(W), \A w \in W : singleIn(w, W),
         NEW s, GoodState(s, W), HeldClosed(s, W),
         NEW y \in W, ~ holds(s, y), NEW x \in builtOn(s, Order(s), y.author)
  PROVE  x \in past(y, W)
<1>1. PICK t \in s.ops : t.author = y.author /\ x \in past(t, W)
  BY CountedNamed, BuiltAnchored
<1>2. t \in W /\ t.nonce \in Nat /\ y.nonce \in Nat
  BY DEF GoodState, Above, GoodOperations
<1>3. ~ (y.nonce <= t.nonce)
  <2> SUFFICES ASSUME y.nonce <= t.nonce PROVE FALSE
    OBVIOUS
  <2>1. y \in past(t, W)
    BY <1>1, <1>2, OwnPast
  <2> DEFINE H == {w \in W : holds(s, w)}
  <2>2. H \in SUBSET W /\ DescentClosed(H, W) /\ t \in H
    BY <1>2 DEF HeldClosed, DescentClosed, holds
  <2>3. past(t, W) \subseteq H
    <3> HIDE DEF H
    <3> QED BY <1>2, <2>2, PastFacts
  <2> QED BY <2>1, <2>3
<1>4. t.nonce <= y.nonce
  BY <1>2, <1>3
<1>5. t \in past(y, W)
  BY <1>1, <1>2, <1>4, OwnPast
<1> QED BY <1>1, <1>5, PastFacts

\* What a checkpoint covers and what is stable above it begin the order of all.
LEMMA StableOpens ==
  ASSUME NEW W, GoodOperations(W), Counted(W), Descending(W), \A w \in W : singleIn(w, W),
         NEW s, GoodState(s, W), NEW P, Ordered(s, P, W),
         NEW prefix \in Seq(W), Begins(prefix, StablePoint(s, Order(s)))
  PROVE  /\ Greedy(P \o prefix, W)
         /\ \A i \in 1..Len(prefix) : Anchored(prefix[i], Writers(s.config), W)
<1> DEFINE q == Order(s)
           B == preceding(P, Len(P) + 1)
           stable == StablePoint(s, q)
<1>1. /\ q \in Seq(s.ops) /\ Linked(s, q) /\ Lowest(s, 0, q) /\ stable \in Seq(s.ops) /\ Begins(stable, q)
      /\ s.ops \subseteq W /\ Named(W)
  <2>1. Placeable(s) /\ Len(sequenced(s).order) = 0
    BY GoodIsPlaceable, MergedOrder DEF Ordered
  <2> QED BY <2>1, OrderType, StableType, CountedNamed DEF GoodState, Above
<1>2. /\ Len(prefix) \in Nat /\ Len(prefix) <= Len(q) /\ Len(q) \in Nat
      /\ \A i \in 1..Len(prefix) : i \in 1..Len(q) /\ i \in 1..Len(stable) /\ prefix[i] = q[i]
  <2> HIDE DEF q, stable
  <2>1. Len(stable) \in Nat /\ Len(q) \in Nat /\ Len(prefix) \in Nat
    BY <1>1
  <2>2. Len(prefix) <= Len(stable) /\ Len(stable) <= Len(q)
    BY <1>1 DEF Begins, stable, q
  <2>3. \A i \in 1..Len(prefix) : i \in 1..Len(stable) /\ i \in 1..Len(q)
    BY <2>1, <2>2
  <2> QED BY <1>1, <2>1, <2>2, <2>3 DEF Begins, stable, q
<1>3. \A i \in 1..Len(prefix) : \A d \in Writers(s.config) : q[i] \in builtOn(s, q, d)
  BY <1>2, StableExtent DEF Ordered
<1>4. ASSUME NEW i \in 1..Len(prefix)
      PROVE  LET C == B \cup preceding(prefix, i)
             IN prefix[i] \in comes(W, C) /\ \A y \in comes(W, C) : prefix[i].hash <= y.hash
  <2> DEFINE C == B \cup preceding(q, i)
  <2>1. preceding(prefix, i) = preceding(q, i)
    <3>1. \A j \in 1..(i - 1) : j \in 1..Len(prefix)
      BY <1>2
    <3> HIDE DEF q
    <3> QED BY <1>2, <3>1 DEF preceding
  <2>2. C \in SUBSET W /\ DescentClosed(C, W) /\ q[i] \in comes(W, C) /\ q[i] \in s.ops
    BY <1>2, PlacedClosed DEF Ordered
  <2>3. ASSUME NEW y \in comes(W, C) PROVE q[i].hash <= y.hash
    <3>1. y \in W /\ y \notin C /\ \A l \in links(y) : \E x \in C : position(x) = l
      BY DEF comes
    <3>2. \A w \in W : Covers(s.checkpoint, position(w)) <=> w \in B
      BY DEF Ordered, CoversOrder
    <3> HIDE DEF B, q
    <3>3. CASE y \in s.ops
      <4>1. \A l \in openLinks(s, y) : \E x \in preceding(q, i) : position(x) = l
        BY <2>2, <3>1, <3>2 DEF openLinks
      <4>2. y \in mayFollow(s, preceding(q, i))
        BY <3>1, <3>3, <4>1 DEF mayFollow
      <4>3. i \in 0 + 1..Len(q)
        BY <1>2
      <4> QED BY <1>1, <4>2, <4>3 DEF Lowest
    <3>4. CASE y \notin s.ops
      <4>1. ~ holds(s, y)
        BY <3>1, <3>2, <3>4 DEF holds
      <4>2. q[i] \in builtOn(s, q, y.author)
        BY <1>3, <3>1 DEF Ordered
      <4>3. q[i] \in past(y, W)
        BY <3>1, <4>1, <4>2, UnknownComesLater DEF Ordered, q
      <4>4. past(y, W) \subseteq C \cup {y}
        <5> HIDE DEF C
        <5> QED BY <1>1, <2>2, PastOfNext
      <4>5. q[i] \notin C
        BY <2>2 DEF comes
      <4> QED BY <2>2, <3>4, <4>3, <4>4, <4>5
    <3> QED BY <3>3, <3>4
  <2>4. prefix[i] = q[i]
    BY <1>2
  <2> HIDE DEF q, B
  <2> QED BY <2>1, <2>2, <2>3, <2>4
<1>5. Greedy(P, W)
  BY DEF Ordered, CoversOrder
<1>6. Greedy(P \o prefix, W)
  BY <1>4, <1>5, GreedyJoins
<1>7. ASSUME NEW i \in 1..Len(prefix) PROVE Anchored(prefix[i], Writers(s.config), W)
  <2> SUFFICES ASSUME NEW a \in Writers(s.config)
               PROVE  \E t \in W : t.author = a /\ prefix[i] \in past(t, W)
    BY DEF Anchored
  <2>1. q[i] \in builtOn(s, q, a) /\ prefix[i] = q[i]
    BY <1>2, <1>3
  <2>2. PICK t \in s.ops : t.author = a /\ q[i] \in past(t, W)
    BY <1>1, <2>1, BuiltAnchored
  <2> QED BY <1>1, <2>1, <2>2
<1> QED BY <1>6, <1>7

\* What begins the order that the checkpoint k covers, each author has built on.
Opened(k, authors, W) ==
  \E P : CoversOrder(k, P, W) /\ \A i \in 1..Len(P) : Anchored(P[i], authors, W)

\* The order is merged, the configuration stays, and no device loses its memory.
Merging == Quiet /\ scenario.config.sequencer = None

Agreeing ==
  \A d \in Devices :
    /\ HeldClosed(state[d], written)
    /\ Opened(state[d].checkpoint, Writers(scenario.config), written)

AgreeInv == DescentInv /\ (Merging => Agreeing)

LEMMA MergingFacts ==
  ASSUME EditInv, Merging
  PROVE  /\ \A d \in Devices : Merged(state[d]) /\ state[d].config = scenario.config
         /\ \A w \in written : w.author \in Writers(scenario.config)
<1>1. \A d \in Devices : state[d].config = scenario.config
  BY QuietFacts DEF Merging
<1>2. GenesisConfig(scenario.config)
  BY LogAssumption DEF EditInv, Types, EnvironmentTyped, ScenarioOK
<1>3. scenario.config.start.height = 0 /\ scenario.config.dropped = {}
  BY <1>2 DEF GenesisConfig
<1>4. StrangersSilent /\ restored = {} /\ "remove" \notin scenario.changes
  BY DEF Merging, Quiet, OneSigner, signers, NoneReadmitted, EditInv, NumberInv, Numbered
<1>5. \A w \in written : w.author \in Devices
  BY DEF EditInv, Types, GoodOperations
<1> QED BY <1>1, <1>3, <1>4, <1>5 DEF Merging, Merged, StrangersSilent

\* The heads of a state are of operations that it holds.
LEMMA HeadsHeld ==
  ASSUME NEW W, GoodOperations(W), Named(W), NEW s, GoodState(s, W), NEW d \in Devices,
         NEW new, new.prev \in AuthorHeads(s, d), new.parents \subseteq Heads(s),
         NEW x \in W, position(x) \in links(new)
  PROVE  holds(s, x)
<1>1. /\ s.ops \subseteq W /\ \A a \in Devices : s.checkpoint.authors[a].author = a
      /\ \A a \in Devices : s.checkpoint.authors[a].nonce \in Nat
      /\ x.nonce \in Nat
  BY NumbersAreNatural DEF GoodState, GoodCheckpoint, headsOf, NoOperation, position, Above, GoodOperations
<1>2. \/ \E op \in s.ops : position(x) = position(op)
      \/ \E a \in Devices : position(x) = s.checkpoint.authors[a]
  BY DEF links, Heads, AuthorHeads
<1>3. CASE \E op \in s.ops : position(x) = position(op)
  BY <1>1, <1>3 DEF Named, holds
<1>4. ASSUME NEW a \in Devices, position(x) = s.checkpoint.authors[a] PROVE holds(s, x)
  BY <1>1, <1>4 DEF holds, Covers, position
<1> QED BY <1>2, <1>3, <1>4

LEMMA AnchoredStays ==
  ASSUME NEW W, GoodOperations(W), Descending(W), NEW new, \A w \in W : w.hash # new.hash,
         NEW x, NEW authors, Anchored(x, authors, W)
  PROVE  Anchored(x, authors, W \cup {new})
<1> SUFFICES ASSUME NEW a \in authors
             PROVE  \E t \in W \cup {new} : t.author = a /\ x \in past(t, W \cup {new})
  BY DEF Anchored
<1>1. PICK t \in W : t.author = a /\ x \in past(t, W)
  BY DEF Anchored
<1>2. past(t, W \cup {new}) = past(t, W)
  BY <1>1, PastStays
<1> QED BY <1>1, <1>2

\* What begins the order, and each author has built on, begins it when one of them writes.
LEMMA GreedyStays ==
  ASSUME NEW W, GoodOperations(W), Descending(W), Named(W), NEW new, \A w \in W : w.hash # new.hash,
         NEW authors, new.author \in authors,
         \A t \in W : t.author = new.author => t \in past(new, W \cup {new}),
         NEW P, Greedy(P, W), \A i \in 1..Len(P) : Anchored(P[i], authors, W)
  PROVE  /\ Greedy(P, W \cup {new})
         /\ \A i \in 1..Len(P) : Anchored(P[i], authors, W \cup {new})
<1> DEFINE V == W \cup {new}
<1>1. \A i \in 1..Len(P) : Anchored(P[i], authors, V)
  BY AnchoredStays
<1>2. ASSUME NEW i \in 1..Len(P) PROVE P[i] \in past(new, V)
  <2>1. PICK t \in W : t.author = new.author /\ P[i] \in past(t, W)
    BY DEF Anchored
  <2>2. past(t, V) = past(t, W) /\ t \in past(new, V)
    BY <2>1, PastStays
  <2>3. past(t, V) \subseteq past(new, V)
    <3>1. new \in V
      OBVIOUS
    <3> HIDE DEF V
    <3> QED BY <2>2, <3>1, PastFacts
  <2> QED BY <2>1, <2>2, <2>3
<1>3. Greedy(P, V)
  BY <1>2, GreedyGrows
<1> QED BY <1>1, <1>3

\* What opens the order stays what does, when one of the authors writes.
LEMMA OpenedStays ==
  ASSUME NEW W, GoodOperations(W), Descending(W), Named(W), NEW new, \A w \in W : w.hash # new.hash,
         NEW authors, new.author \in authors,
         \A t \in W : t.author = new.author => t \in past(new, W \cup {new}),
         NEW k, ~ Covers(k, position(new)), Opened(k, authors, W)
  PROVE  Opened(k, authors, W \cup {new})
<1> DEFINE V == W \cup {new}
<1>1. PICK P : CoversOrder(k, P, W) /\ \A i \in 1..Len(P) : Anchored(P[i], authors, W)
  BY DEF Opened
<1>2. Greedy(P, V) /\ \A i \in 1..Len(P) : Anchored(P[i], authors, V)
  BY <1>1, GreedyStays DEF CoversOrder
<1>3. new \notin preceding(P, Len(P) + 1)
  <2>1. Len(P) + 1 \in 1..Len(P) + 1 /\ new \notin W
    BY <1>1 DEF CoversOrder, Greedy
  <2> QED BY <1>1, <2>1, GreedyClosed DEF CoversOrder
<1>4. CoversOrder(k, P, V)
  BY <1>1, <1>2, <1>3 DEF CoversOrder
<1> QED BY <1>2, <1>4 DEF Opened

\* d writes new, which builds on what d wrote before, and is above every checkpoint.
writesNew(d, new) ==
  /\ d \in Writers(scenario.config) /\ new.author = d
  /\ written' = written \cup {new} /\ new \notin written /\ \A w \in written : w.hash # new.hash
  /\ new.prev \in AuthorHeads(state[d], d) /\ new.prev \in headsOf(d, written)
  /\ new.parents \subseteq Heads(state[d])
  /\ \A e \in Devices : ~ Covers(state[e].checkpoint, position(new))
  /\ \A e \in Devices : /\ state'[e].checkpoint = state[e].checkpoint
                        /\ state[e].ops \subseteq state'[e].ops /\ state'[e].ops \subseteq state[e].ops \cup {new}
                        /\ e # d => state'[e].ops = state[e].ops
  /\ \A t \in written : t.author = d => t \in past(new, written')

LEMMA WritingNew ==
  ASSUME DescentInv, Quiet, [Next]_vars, Quiet', written' # written
  PROVE  \E d \in Devices : \E new : writesNew(d, new)
<1>1. /\ Types /\ GoodOperations(written) /\ Counted(written) /\ Descending(written) /\ Named(written)
      /\ EditInv /\ scenario' = scenario
      /\ \A d \in Devices : GoodState(state[d], written)
  BY CountedNamed, QuietBefore DEF DescentInv, EditInv, CarryInv, Types, StatesTyped
<1>2. GoodOperations(written') /\ Counted(written') /\ Descending(written')
  BY <1>1, WrittenStep, CountedStep, NewestDescends
<1>3. PICK d \in Devices : \E prev, new :
           /\ d \in Writers(state[d].config) /\ adds(d)
           /\ prev \in AuthorHeads(state[d], d) /\ prev \in headsOf(d, written)
           /\ written' = written \cup {new} /\ \A w \in written : w.hash # new.hash
           /\ new.author = d /\ new.nonce = prev.nonce + 1 /\ new.prev = prev
           /\ new.parents = Heads(state[d]) \ {prev}
  BY <1>1, WritesFrom
<1>4. PICK prev, new :
           /\ d \in Writers(state[d].config) /\ adds(d)
           /\ prev \in AuthorHeads(state[d], d) /\ prev \in headsOf(d, written)
           /\ written' = written \cup {new} /\ \A w \in written : w.hash # new.hash
           /\ new.author = d /\ new.nonce = prev.nonce + 1 /\ new.prev = prev
           /\ new.parents = Heads(state[d]) \ {prev}
  BY <1>3
<1>5. /\ new \notin written /\ d \in Writers(scenario.config) /\ prev.nonce \in Nat
      /\ \A w \in written : position(w) # position(new)
  BY <1>1, <1>4, QuietFacts DEF headsOf, NoOperation, position, GoodOperations
<1>6. \A e \in Devices : ~ Covers(state[e].checkpoint, position(new))
  BY <1>1, <1>4, <1>5, NewAbove
<1>7. /\ \A e \in Devices \ {d} : state'[e] = state[e]
      /\ state'[d].checkpoint = state[d].checkpoint
      /\ state[d].ops \subseteq state'[d].ops /\ state'[d].ops \subseteq state[d].ops \cup {new}
  <2>1. PICK op : /\ written' = written \cup {op} /\ \A w \in written : w.hash # op.hash
                  /\ state'[d].checkpoint = state[d].checkpoint
                  /\ state[d].ops \subseteq state'[d].ops /\ state'[d].ops \subseteq state[d].ops \cup {op}
    BY <1>4 DEF adds
  <2>2. op = new
    BY <1>4, <1>5, <2>1
  <2>3. \E e \in Devices : heldMoves(e) /\ adds(e)
    BY <1>1, HeldStep DEF heldMoves, stays, merges, leaves, signs, startsOver, losesPower, flushes
  <2>4. PICK e \in Devices : alone(e) /\ adds(e)
    BY <2>3 DEF heldMoves
  <2>5. e = d
    <3>1. PICK o : o.author = e /\ written' = written \cup {o} /\ o \notin written
      BY <2>4 DEF adds
    <3>2. o = new
      BY <1>4, <1>5, <3>1
    <3> QED BY <1>4, <3>1, <3>2
  <2> QED BY <2>1, <2>2, <2>4, <2>5 DEF alone
<1>8. \A e \in Devices : /\ state'[e].checkpoint = state[e].checkpoint
                         /\ state[e].ops \subseteq state'[e].ops /\ state'[e].ops \subseteq state[e].ops \cup {new}
                         /\ e # d => state'[e].ops = state[e].ops
  BY <1>7
<1>0. \A w \in written' : singleIn(w, written')
  <2>1. OwnHeld /\ remembers(d) /\ d \notin scenario.losing /\ \A w \in written : singleIn(w, written)
    BY <1>1, QuietFacts DEF Quiet
  <2>2. \A w \in written : ~ (w.author = new.author /\ w.nonce = new.nonce)
    BY <1>1, <1>4, <2>1, NumberedAnew
  <2> QED BY <1>4, <2>1, <2>2 DEF singleIn
<1>10. ASSUME NEW t \in written, t.author = d PROVE t \in past(new, written')
  <2>1. t.nonce \in Nat /\ new \in written' /\ t \in written' /\ new.nonce \in Nat
    BY <1>1, <1>4, <1>5 DEF GoodOperations
  <2>2. t.nonce <= new.nonce
    <3> SUFFICES ASSUME ~ (t.nonce <= new.nonce) PROVE FALSE
      OBVIOUS
    <3>1. new.nonce \in 1..t.nonce
      BY <1>4, <1>5, <2>1
    <3>2. PICK v \in written : v.author = d /\ v.nonce = new.nonce
      BY <1>1, <1>10, <3>1 DEF Counted
    <3>3. OwnHeld /\ remembers(d) /\ d \notin scenario.losing
      BY <1>1, QuietFacts DEF Quiet
    <3> QED BY <1>1, <1>4, <3>2, <3>3, NumberedAnew
  <2> QED BY <1>0, <1>2, <1>4, <1>10, <2>1, <2>2, OwnPast
<1>11. new.prev \in AuthorHeads(state[d], d) /\ new.prev \in headsOf(d, written) /\ new.parents \subseteq Heads(state[d])
  BY <1>4
<1>12. writesNew(d, new)
  BY <1>4, <1>5, <1>6, <1>8, <1>10, <1>11 DEF writesNew
<1> QED BY <1>12

\* Whatever d writes leaves the order open as it was.
LEMMA WritingAgrees ==
  ASSUME AgreeInv, Merging, [Next]_vars, Quiet', written' # written
  PROVE  Agreeing'
<1>1. /\ Types /\ GoodOperations(written) /\ Descending(written) /\ Named(written)
      /\ Agreeing /\ scenario' = scenario
      /\ \A d \in Devices : GoodState(state[d], written)
  BY CountedNamed, QuietBefore DEF AgreeInv, DescentInv, EditInv, CarryInv, Types, StatesTyped
<1>3. PICK d \in Devices : \E new : writesNew(d, new)
  BY WritingNew DEF AgreeInv, Merging
<1>2. PICK new : writesNew(d, new)
  BY <1>3
<1>4. /\ d \in Writers(scenario.config) /\ new.author = d
      /\ written' = written \cup {new} /\ new \notin written /\ \A w \in written : w.hash # new.hash
      /\ new.prev \in AuthorHeads(state[d], d) /\ new.prev \in headsOf(d, written)
      /\ new.parents \subseteq Heads(state[d])
      /\ \A e \in Devices : ~ Covers(state[e].checkpoint, position(new))
  BY <1>2 DEF writesNew
<1>8. \A e \in Devices : /\ state'[e].checkpoint = state[e].checkpoint
                         /\ state[e].ops \subseteq state'[e].ops /\ state'[e].ops \subseteq state[e].ops \cup {new}
                         /\ e # d => state'[e].ops = state[e].ops
  BY <1>2 DEF writesNew
<1>10. \A t \in written : t.author = d => t \in past(new, written')
  BY <1>2 DEF writesNew
<1>9. ASSUME NEW e \in Devices PROVE HeldClosed(state'[e], written')
  <2> SUFFICES ASSUME NEW y \in written', NEW x \in written', holds(state'[e], y), position(x) \in links(y)
               PROVE  holds(state'[e], x)
    BY DEF HeldClosed
  <2>1. CASE y \in written
    <3>1. position(new) \notin links(y)
      BY <1>1, <1>4, <2>1, PastStays
    <3>2. x \in written
      BY <1>4, <3>1
    <3>3. holds(state[e], y)
      BY <1>4, <1>8, <2>1 DEF holds
    <3>4. holds(state[e], x)
      BY <1>1, <2>1, <3>2, <3>3 DEF Agreeing, HeldClosed
    <3> QED BY <1>8, <3>4 DEF holds
  <2>2. CASE y = new
    <3>1. e = d
      <4>1. state[e].ops \subseteq written
        BY <1>1 DEF GoodState, Above
      <4> QED BY <1>4, <1>8, <2>2, <4>1 DEF holds
    <3>2. x \in written
      <4>1. links(new) \subseteq {position(w) : w \in written}
        BY <1>1, <1>4, LinksWritten
      <4>2. \A w \in written : position(w) # position(new)
        BY <1>4 DEF position
      <4>3. x = new \/ x \in written
        BY <1>4
      <4>4. position(x) \in {position(w) : w \in written}
        BY <2>2, <4>1
      <4> QED BY <4>2, <4>3, <4>4
    <3>3. holds(state[d], x)
      BY <1>1, <1>4, <2>2, <3>2, HeadsHeld
    <3> QED BY <1>8, <3>1, <3>3 DEF holds
  <2> QED BY <1>4, <2>1, <2>2
<1>11. ASSUME NEW e \in Devices PROVE Opened(state'[e].checkpoint, Writers(scenario.config), written')
  <2>1. Opened(state[e].checkpoint, Writers(scenario.config), written)
    BY <1>1 DEF Agreeing
  <2>2. Opened(state[e].checkpoint, Writers(scenario.config), written \cup {new})
    BY <1>1, <1>4, <1>10, <2>1, OpenedStays
  <2> QED BY <1>4, <1>8, <2>2
<1> QED BY <1>1, <1>9, <1>11 DEF Agreeing

\* A state that holds what two do is closed as they are.
LEMMA ClosedTogether ==
  ASSUME NEW W, NEW s, HeldClosed(s, W), NEW c, HeldClosed(c, W), NEW t,
         \A x \in W : holds(t, x) <=> holds(s, x) \/ holds(c, x)
  PROVE  HeldClosed(t, W)
  BY DEF HeldClosed

\* d imports what a peer holds.
LEMMA MergingAgrees ==
  ASSUME AgreeInv, Merging, NEW d \in Devices, merges(d)
  PROVE  /\ HeldClosed(state'[d], written)
         /\ Opened(state'[d].checkpoint, Writers(scenario.config), written)
<1>1. /\ Types /\ GoodOperations(written) /\ EditInv /\ CheckpointsInLine /\ Agreeing
      /\ \A e \in Devices : GoodState(state[e], written) /\ shown(e) = state[e]
  <2>1. OneSigner /\ scenario.losing = {}
    BY DEF Merging, Quiet, OneSigner, signers
  <2> QED BY <2>1 DEF AgreeInv, DescentInv, EditInv, NumberInv, Types, StatesTyped, shown
<1>2. PICK from \in Devices :
        /\ state'[d].ops \subseteq state[d].ops \cup state[from].ops
        /\ state'[d].checkpoint = IF state[from].checkpoint.height <= state[d].checkpoint.height
                                  THEN state[d].checkpoint ELSE state[from].checkpoint
        /\ Keeps(state[d], state'[d]) /\ Keeps(state[from], state'[d])
  BY <1>1 DEF merges
<1>3. /\ state[d].checkpoint \in heldCheckpoints /\ state[from].checkpoint \in heldCheckpoints
      /\ state'[d].checkpoint \in {state[d].checkpoint, state[from].checkpoint}
      /\ state[d].checkpoint.height <= state'[d].checkpoint.height
      /\ state[from].checkpoint.height <= state'[d].checkpoint.height
  BY <1>1, <1>2, CheckpointsNumbered
<1>4. \A a \in Devices : /\ state[d].checkpoint.authors[a].nonce <= state'[d].checkpoint.authors[a].nonce
                         /\ state[from].checkpoint.authors[a].nonce <= state'[d].checkpoint.authors[a].nonce
                         /\ state[d].checkpoint.authors[a].nonce \in Nat
                         /\ state[from].checkpoint.authors[a].nonce \in Nat
                         /\ state'[d].checkpoint.authors[a].nonce \in Nat
  BY <1>1, <1>3, CheckpointsNumbered DEF CheckpointsInLine
<1>5. \A x \in written : holds(state'[d], x) <=> holds(state[d], x) \/ holds(state[from], x)
  <2> SUFFICES ASSUME NEW x \in written
               PROVE  holds(state'[d], x) <=> holds(state[d], x) \/ holds(state[from], x)
    OBVIOUS
  <2>1. x.author \in Devices /\ x.nonce \in Nat /\ position(x).author = x.author /\ position(x).nonce = x.nonce
    BY <1>1 DEF GoodOperations, position
  <2>2. holds(state'[d], x) => holds(state[d], x) \/ holds(state[from], x)
    BY <1>2, <1>3 DEF holds
  <2>3. Covers(state[d].checkpoint, position(x)) \/ Covers(state[from].checkpoint, position(x))
          => Covers(state'[d].checkpoint, position(x))
    BY <1>4, <2>1 DEF Covers
  <2> QED BY <1>2, <2>2, <2>3 DEF holds, Keeps
<1> QED BY <1>1, <1>3, <1>5, ClosedTogether DEF Agreeing

\* Over nothing that replay refused, a checkpoint carries the marks of the prefix.
LEMMA OpenedData ==
  ASSUME NEW W, NEW prefix \in Seq(W), NEW refused,
         \A i \in 1..Len(prefix) : refused[i] => prefix[i].ack
  PROVE  replayed(asReplayed(prefix, refused)) = marked(prefix)
<1> DEFINE ps == asReplayed(prefix, refused)
           qs == admitted(prefix)
<1>1. /\ Len(prefix) \in Nat /\ Len(ps) = Len(prefix) /\ Len(qs) = Len(prefix)
      /\ \A i \in 1..Len(prefix) : ps[i] = [op |-> prefix[i], refused |-> refused[i]]
      /\ \A i \in 1..Len(prefix) : qs[i] = [op |-> prefix[i], refused |-> FALSE]
  BY DEF asReplayed, admitted
<1> HIDE DEF ps, qs
<1>2. \A i \in 1..Len(ps) : /\ ps[i].op = qs[i].op
                            /\ (ps[i].op.ack \/ ps[i].refused) <=> (qs[i].op.ack \/ qs[i].refused)
  <2> SUFFICES ASSUME NEW i \in 1..Len(prefix)
               PROVE  /\ ps[i].op = qs[i].op
                      /\ (ps[i].op.ack \/ ps[i].refused) <=> (qs[i].op.ack \/ qs[i].refused)
    BY <1>1
  <2>1. ps[i] = [op |-> prefix[i], refused |-> refused[i]] /\ qs[i] = [op |-> prefix[i], refused |-> FALSE]
    BY <1>1
  <2>2. ps[i].op = prefix[i] /\ ps[i].refused = refused[i] /\ qs[i].op = prefix[i] /\ qs[i].refused = FALSE
    BY <2>1
  <2>3. refused[i] => prefix[i].ack
    OBVIOUS
  <2> QED BY <2>2, <2>3, Zenon
<1>3. replayed(ps) = replayed(qs)
  BY <1>1, <1>2, SameMarks
<1> QED BY <1>3 DEF ps, qs, marked

\* The checkpointer signs what is stable.
LEMMA SigningAgrees ==
  ASSUME AgreeInv, Merging, [Next]_vars, written' = written, NEW d \in Devices, signs(d)
  PROVE  /\ HeldClosed(state'[d], written)
         /\ Opened(state'[d].checkpoint, Writers(scenario.config), written)
<1> DEFINE W == written
           s == state[d]
           t == state'[d]
           c == storing[d]
           k == stableCheckpoint(s, c)
           stable == StablePoint(s, Order(s))
           authors == Writers(scenario.config)
<1>1. /\ Types /\ GoodOperations(W) /\ Counted(W) /\ Descending(W) /\ Named(W) /\ EditInv /\ Quiet
      /\ GoodState(s, W) /\ HeldClosed(s, W) /\ Opened(s.checkpoint, authors, W)
      /\ \A w \in W : singleIn(w, W)
      /\ Merged(s) /\ s.config = scenario.config /\ \A w \in W : w.author \in authors
  <2>1. EditInv /\ Quiet
    BY DEF AgreeInv, DescentInv, Merging
  <2> QED BY <2>1, QuietFacts, MergingFacts, CountedNamed
          DEF AgreeInv, Agreeing, DescentInv, EditInv, CarryInv, Types, StatesTyped
<1>2. /\ t = adoptCheckpoint(s, k) /\ c # Nothing
      /\ c.height = s.checkpoint.height /\ IsPrefix(c.prefix, stable)
      /\ \A a \in Devices : s.checkpoint.authors[a].nonce <= t.checkpoint.authors[a].nonce
      /\ t.ops \subseteq s.ops /\ Keeps(s, t)
  BY DEF signs, current
<1>3. c.prefix \in Seq(W)
  BY <1>1, <1>2 DEF Types, StoringTyped
<1>4. /\ stable \in Seq(s.ops) /\ Begins(stable, Order(s)) /\ Order(s) \in Seq(s.ops)
  BY <1>1, GoodIsPlaceable, StableType, OrderType
<1>5. t.checkpoint = k
  <2>1. k.height = c.height + 1 /\ s.checkpoint.height \in Nat
    BY <1>1 DEF stableCheckpoint, GoodState, GoodCheckpoint
  <2>2. ~ (k.height <= s.checkpoint.height)
    BY <1>2, <2>1
  <2> HIDE DEF k
  <2> QED BY <1>1, <1>2, <2>2 DEF adoptCheckpoint, GoodState, Fields
<1>6. CarriesOn(c, s, W, scenario.changes)
  <2>1. NoneReadmitted
    BY <1>1 DEF Quiet, NoneReadmitted
  <2> QED BY <1>1, <1>2, <2>1 DEF EditInv, CarryInv, StoringCarries
<1>7. \A a \in Devices : s.checkpoint.authors[a].nonce \in Nat /\ k.authors[a].nonce \in Nat
  <2>1. GoodState(t, written')
    BY <1>1, StateTypesStep DEF StatesTyped
  <2>2. GoodOperations(written')
    BY <1>1
  <2>3. \A a \in Devices : t.checkpoint.authors[a].nonce \in Nat
    <3> HIDE DEF t
    <3> QED BY <2>1, <2>2, NumbersAreNatural
  <2>4. \A a \in Devices : s.checkpoint.authors[a].nonce \in Nat
    BY <1>1, NumbersAreNatural
  <2> QED BY <1>5, <2>3, <2>4
<1>8. Begins(c.prefix, stable) /\ Begins(c.prefix, Order(s)) /\ Range(c.prefix) \subseteq s.ops
  <2> HIDE DEF stable, c, s
  <2>1. Begins(c.prefix, stable) /\ Range(c.prefix) \subseteq s.ops
    BY <1>2, <1>3, <1>4, PrefixHeld
  <2>2. Len(stable) \in Nat /\ Len(Order(s)) \in Nat /\ Len(c.prefix) \in Nat
    BY <1>3, <1>4
  <2> QED BY <1>4, <2>1, <2>2 DEF Begins
<1> HIDE DEF k, s, c, t, stable, authors, W
<1>9. \A w \in W : Covers(k, position(w)) <=> Covers(s.checkpoint, position(w)) \/ w \in Range(c.prefix)
  <2> SUFFICES ASSUME NEW w \in W
               PROVE  Covers(k, position(w)) <=> Covers(s.checkpoint, position(w)) \/ w \in Range(c.prefix)
    OBVIOUS
  <2>1. Covers(k, position(w)) => Covers(s.checkpoint, position(w)) \/ w \in Range(c.prefix)
    BY <1>1, <1>3, <1>8, SignedCovers DEF k
  <2>2. Covers(s.checkpoint, position(w)) => Covers(k, position(w))
    <3>1. w.author \in Devices /\ w.nonce \in Nat
      BY <1>1 DEF GoodOperations
    <3> QED BY <1>2, <1>5, <1>7, <3>1 DEF Covers, position
  <2>3. w \in Range(c.prefix) => Covers(k, position(w))
    BY <1>1, <1>3, PrefixCovered DEF k
  <2> QED BY <2>1, <2>2, <2>3
<1>10. HeldClosed(t, W)
  <2>1. \A x \in W : holds(t, x) <=> holds(s, x)
    BY <1>2, <1>5, <1>8, <1>9 DEF holds, Keeps
  <2> QED BY <1>1, <2>1, ClosedTogether
<1>11. Opened(k, authors, W)
  <2>1. PICK P : CoversOrder(s.checkpoint, P, W) /\ \A i \in 1..Len(P) : Anchored(P[i], authors, W)
    BY <1>1 DEF Opened
  <2> DEFINE R == P \o c.prefix
  <2>2. Ordered(s, P, W)
    BY <1>1, <2>1 DEF Ordered, authors
  <2>3. Greedy(R, W) /\ \A i \in 1..Len(c.prefix) : Anchored(c.prefix[i], Writers(s.config), W)
    BY <1>1, <1>3, <1>8, <2>2, StableOpens DEF stable
  <2>4. P \in Seq(W) /\ \A w \in W : Covers(s.checkpoint, position(w)) <=> w \in preceding(P, Len(P) + 1)
    BY <2>1 DEF CoversOrder, Greedy
  <2>5. /\ Len(P) \in Nat /\ Len(c.prefix) \in Nat /\ Len(R) = Len(P) + Len(c.prefix)
        /\ \A i \in 1..Len(P) : R[i] = P[i]
        /\ \A i \in 1..Len(c.prefix) : R[Len(P) + i] = c.prefix[i]
    BY <1>3, <2>4
  <2> HIDE DEF R
  <2>6. \A i \in 1..Len(R) : \/ i \in 1..Len(P) /\ R[i] = P[i]
                             \/ \E j \in 1..Len(c.prefix) : R[i] = c.prefix[j]
    <3> SUFFICES ASSUME NEW i \in 1..Len(R), ~ (i <= Len(P))
                 PROVE  \E j \in 1..Len(c.prefix) : R[i] = c.prefix[j]
      BY <2>5
    <3>1. (i - Len(P)) \in 1..Len(c.prefix) /\ Len(P) + (i - Len(P)) = i
      BY <2>5
    <3> QED BY <2>5, <3>1
  <2>7. \A i \in 1..Len(R) : Anchored(R[i], authors, W)
    BY <1>1, <2>1, <2>3, <2>6 DEF authors
  <2>8. \A w : w \in preceding(R, Len(R) + 1) <=> w \in preceding(P, Len(P) + 1) \/ w \in Range(c.prefix)
    <3>1. preceding(R, Len(R) + 1) = {R[i] : i \in 1..Len(R)} /\ preceding(P, Len(P) + 1) = {P[i] : i \in 1..Len(P)}
      <4>1. (Len(R) + 1) - 1 = Len(R) /\ (Len(P) + 1) - 1 = Len(P)
        BY <2>5
      <4> QED BY <4>1 DEF preceding
    <3>2. Range(c.prefix) = {c.prefix[i] : i \in 1..Len(c.prefix)}
      <4>1. DOMAIN c.prefix = 1..Len(c.prefix)
        BY <1>3
      <4> QED BY <4>1 DEF Range
    <3>3. \A i \in 1..Len(c.prefix) : Len(P) + i \in 1..Len(R)
      BY <2>5
    <3>4. \A i \in 1..Len(P) : i \in 1..Len(R)
      BY <2>5
    <3>5. ASSUME NEW w \in preceding(R, Len(R) + 1) PROVE w \in preceding(P, Len(P) + 1) \/ w \in Range(c.prefix)
      <4>1. PICK i \in 1..Len(R) : w = R[i]
        BY <3>1
      <4>2. CASE i \in 1..Len(P) /\ R[i] = P[i]
        BY <3>1, <4>1, <4>2
      <4>3. CASE \E j \in 1..Len(c.prefix) : R[i] = c.prefix[j]
        BY <3>2, <4>1, <4>3
      <4> QED BY <2>6, <4>2, <4>3
    <3>6. ASSUME NEW w \in preceding(P, Len(P) + 1) PROVE w \in preceding(R, Len(R) + 1)
      BY <2>5, <3>1, <3>4
    <3>7. ASSUME NEW w \in Range(c.prefix) PROVE w \in preceding(R, Len(R) + 1)
      BY <2>5, <3>1, <3>2, <3>3
    <3> QED BY <3>5, <3>6, <3>7
  <2>9. k.data = marked(R)
    <3>1. PICK refused : /\ c.data = s.checkpoint.data \o replayed(asReplayed(c.prefix, refused))
                         /\ \A i \in 1..Len(c.prefix) : refused[i] => Deserved(scenario.changes, s.config, W, c.prefix[i])
      BY <1>6 DEF CarriesOn
    <3>2. \A i \in 1..Len(c.prefix) : c.prefix[i] \in W
      BY <1>3
    <3>3. \A i \in 1..Len(c.prefix) : refused[i] => c.prefix[i].ack
      BY <1>1, <3>1, <3>2 DEF Deserved, welcome, Quiet
    <3>4. replayed(asReplayed(c.prefix, refused)) = marked(c.prefix)
      BY <1>3, <3>3, OpenedData
    <3>5. s.checkpoint.data = marked(P)
      BY <2>1 DEF CoversOrder
    <3>6. k.data = c.data
      BY DEF k, stableCheckpoint
    <3>7. marked(R) = marked(P) \o marked(c.prefix)
      BY <1>3, <2>4, MarkedJoins DEF R
    <3>8. k.data = marked(P) \o marked(c.prefix)
      <4>1. k.data = s.checkpoint.data \o replayed(asReplayed(c.prefix, refused))
        BY <3>1, <3>6
      <4> QED BY <3>4, <3>5, <4>1
    <3> QED BY <3>7, <3>8
  <2>10. CoversOrder(k, R, W)
    BY <1>9, <2>3, <2>4, <2>8, <2>9 DEF CoversOrder
  <2> QED BY <2>7, <2>10 DEF Opened
<1> QED BY <1>5, <1>10, <1>11 DEF t, authors, W

LEMMA AgreeInit == Init => AgreeInv
<1> SUFFICES ASSUME Init PROVE AgreeInv
  OBVIOUS
<1>1. written = {} /\ \A d \in Devices : state[d].checkpoint = GenesisCheckpoint
  BY DEF Init, GenesisState
<1>2. Greedy(<<>>, {}) /\ Len(<<>>) = 0 /\ marked(<<>>) = <<>>
  <2>1. admitted(<<>>) = <<>>
    BY DEF admitted
  <2>2. Len(<<>>) = 0 /\ Len(<<>>) \in Nat
    OBVIOUS
  <2>3. PICK m : replayed(<<>>) = m[0] /\ \A i \in 0..0 : m[i] = markAt(m, <<>>, i)
    BY <2>2, Marking
  <2>4. m[0] = <<>>
    BY <2>3 DEF markAt
  <2> QED BY <2>1, <2>3, <2>4 DEF marked, Greedy
<1>3. GenesisCheckpoint.data = <<>>
  BY DEF GenesisCheckpoint
<1>4. CoversOrder(GenesisCheckpoint, <<>>, {})
  BY <1>2, <1>3 DEF CoversOrder
<1>5. \A authors : Opened(GenesisCheckpoint, authors, {})
  BY <1>2, <1>4 DEF Opened
<1>6. \A s : HeldClosed(s, {})
  BY DEF HeldClosed
<1> QED BY <1>1, <1>5, <1>6, DescentInit DEF AgreeInv, Agreeing

LEMMA AgreeStep == AgreeInv /\ [Next]_vars => AgreeInv'
<1> SUFFICES ASSUME AgreeInv, [Next]_vars PROVE AgreeInv'
  OBVIOUS
<1>1. DescentInv' /\ Types
  BY DescentStep DEF AgreeInv, DescentInv, EditInv
<1> SUFFICES ASSUME Merging' PROVE Agreeing'
  BY <1>1 DEF AgreeInv
<1>2. /\ Merging /\ Quiet' /\ Agreeing /\ scenario' = scenario
      /\ restored' = {} /\ scenario.losing = {} /\ \A d \in Devices : state[d].config = scenario.config
  <2>1. Quiet' /\ scenario' = scenario /\ Quiet
    BY <1>1, QuietBefore DEF Merging
  <2>2. Merging
    BY <2>1 DEF Merging
  <2> QED BY <1>1, <2>1, <2>2, QuietFacts DEF Merging, Quiet, AgreeInv, DescentInv
<1>3. CASE written' # written
  BY <1>2, <1>3, WritingAgrees
<1>4. CASE written' = written
  <2> SUFFICES ASSUME NEW d \in Devices
               PROVE  /\ HeldClosed(state'[d], written)
                      /\ Opened(state'[d].checkpoint, Writers(scenario.config), written)
    BY <1>2, <1>4 DEF Agreeing
  <2>1. CASE state'[d].ops = state[d].ops /\ state'[d].checkpoint = state[d].checkpoint
    <3>1. \A x : holds(state'[d], x) <=> holds(state[d], x)
      BY <2>1 DEF holds
    <3> QED BY <1>2, <2>1, <3>1 DEF Agreeing, HeldClosed
  <2>2. CASE heldMoves(d)
    <3>1. CASE stays(d) \/ flushes(d)
      BY <2>1, <3>1 DEF stays, flushes
    <3>2. CASE merges(d)
      BY <1>2, <3>2, MergingAgrees
    <3>3. CASE signs(d)
      BY <1>2, <1>4, <3>3, SigningAgrees
    <3>4. ~ leaves(d)
      <4> SUFFICES ASSUME leaves(d) PROVE FALSE
        OBVIOUS
      <4>1. PICK from \in Devices : shown(from).config.seqno > state[d].config.seqno
        BY DEF leaves
      <4>2. shown(from) = state[from]
        BY <1>2 DEF shown
      <4>3. state[d].config.seqno \in Nat
        BY <1>1 DEF Types, StatesTyped, GoodState, GoodConfig
      <4> QED BY <1>2, <4>1, <4>2, <4>3
    <3>5. ~ adds(d)
      BY <1>4 DEF adds
    <3>6. ~ startsOver(d) /\ ~ losesPower(d)
      BY <1>2 DEF startsOver, losesPower
    <3> QED BY <2>2, <3>1, <3>2, <3>3, <3>4, <3>5, <3>6 DEF heldMoves
  <2>3. ASSUME NEW e \in Devices, heldMoves(e), e # d PROVE state'[d] = state[d]
    BY <2>3 DEF heldMoves, alone
  <2> QED BY <1>1, <2>1, <2>2, <2>3, HeldStep
<1> QED BY <1>3, <1>4

LEMMA AgreeInvariant == Spec => []AgreeInv
  BY AgreeInit, AgreeStep, PTL DEF Spec

\* Operations as they are written where no device loses its memory.
World(W) ==
  GoodOperations(W) /\ Counted(W) /\ Descending(W) /\ \A w \in W : singleIn(w, W)

\* A state that orders by merging, and that no operation of W is unfamiliar to.
Knowing(s, W) ==
  /\ GoodState(s, W) /\ Merged(s) /\ HeldClosed(s, W)
  /\ Opened(s.checkpoint, Writers(s.config), W)
  /\ \A w \in W : w.author \in Writers(s.config)
  /\ \A op \in s.ops : apply(s, op) = [op |-> op, refused |-> FALSE]

AllKnow ==
  World(written) /\ \A d \in Devices : Knowing(state[d], written) /\ state[d].config = scenario.config

LEMMA AgreeingKnow == AgreeInv /\ Merging => AllKnow
<1> SUFFICES ASSUME AgreeInv, Merging PROVE AllKnow
  OBVIOUS
<1>1. EditInv /\ Quiet /\ Agreeing /\ Descending(written)
  BY DEF AgreeInv, DescentInv, Merging
<1>2. World(written)
  BY <1>1, QuietFacts DEF EditInv, CarryInv, Types, World
<1>3. AllWelcome
  BY <1>1 DEF AllWelcome, SoleSigner, signers, calm, Quiet
<1>4. ASSUME NEW d \in Devices PROVE Knowing(state[d], written) /\ state[d].config = scenario.config
  <2>1. GoodState(state[d], written)
    BY <1>1 DEF EditInv, Types, StatesTyped
  <2>2. Merged(state[d]) /\ state[d].config = scenario.config
        /\ \A w \in written : w.author \in Writers(state[d].config)
    BY <1>1, MergingFacts
  <2>3. \A op \in state[d].ops : apply(state[d], op) = [op |-> op, refused |-> FALSE]
    BY <1>1, <1>3, NothingRefused
  <2> QED BY <1>1, <2>1, <2>2, <2>3 DEF Knowing, Agreeing
<1> QED BY <1>2, <1>4 DEF AllKnow

\* s holds what begins the order of W as settled: what its checkpoint covers, P, and what is
\* stable above it.
Settles(s, P, W) ==
  LET T == P \o StablePoint(s, Order(s))
  IN /\ Ordered(s, P, W) /\ Greedy(T, W) /\ settled(s) = marked(T)
     /\ \A i \in 1..Len(T) : Anchored(T[i], Writers(s.config), W)

\* What a device holds as settled are the marks of what begins the order.
LEMMA SettledMarks ==
  ASSUME NEW W, World(W), NEW s, Knowing(s, W)
  PROVE  \E P : Settles(s, P, W)
<1> DEFINE stable == StablePoint(s, Order(s))
<1>1. PICK P : /\ CoversOrder(s.checkpoint, P, W)
               /\ \A i \in 1..Len(P) : Anchored(P[i], Writers(s.config), W)
  BY DEF Knowing, Opened
<1>2. GoodOperations(W) /\ Counted(W) /\ Descending(W) /\ (\A w \in W : singleIn(w, W)) /\ GoodState(s, W)
  BY DEF World, Knowing
<1>3. stable \in Seq(s.ops) /\ s.ops \subseteq W
  BY <1>2, GoodIsPlaceable, StableType DEF GoodState, Above
<1>4. Ordered(s, P, W)
  BY <1>1 DEF Ordered, Knowing
<1> HIDE DEF stable
<1>5. [i \in DOMAIN stable |-> apply(s, stable[i])] = admitted(stable)
  <2>1. DOMAIN stable = 1..Len(stable) /\ \A i \in 1..Len(stable) : stable[i] \in s.ops
    BY <1>3
  <2>2. \A i \in 1..Len(stable) : apply(s, stable[i]) = [op |-> stable[i], refused |-> FALSE]
    BY <2>1 DEF Knowing
  <2> QED BY <2>1, <2>2 DEF admitted
<1>6. stable \in Seq(W) /\ P \in Seq(W)
  <2>1. stable \in Seq(W)
    BY <1>3, SeqMonotonic
  <2> QED BY <1>1, <2>1 DEF CoversOrder, Greedy
<1>7. settled(s) = marked(P) \o marked(stable)
  BY <1>1, <1>5 DEF settled, stable, marked, CoversOrder
<1>8. settled(s) = marked(P \o stable)
  BY <1>6, <1>7, MarkedJoins
<1>9. Begins(stable, stable)
  <2>1. Len(stable) \in Nat
    BY <1>6
  <2> QED BY <2>1 DEF Begins
<1>10. /\ Greedy(P \o stable, W)
       /\ \A i \in 1..Len(stable) : Anchored(stable[i], Writers(s.config), W)
  BY <1>2, <1>4, <1>6, <1>9, StableOpens DEF stable
<1> DEFINE T == P \o stable
<1>11. ASSUME NEW i \in 1..Len(T) PROVE Anchored(T[i], Writers(s.config), W)
  <2>1. /\ Len(P) \in Nat /\ Len(stable) \in Nat /\ Len(T) = Len(P) + Len(stable)
        /\ \A j \in 1..Len(P) : T[j] = P[j]
        /\ \A j \in 1..Len(stable) : T[Len(P) + j] = stable[j]
    BY <1>6
  <2> HIDE DEF T
  <2>2. CASE i <= Len(P)
    <3>1. i \in 1..Len(P)
      BY <2>1, <2>2
    <3> QED BY <1>1, <2>1, <3>1
  <2>3. CASE ~ (i <= Len(P))
    <3>1. (i - Len(P)) \in 1..Len(stable) /\ Len(P) + (i - Len(P)) = i
      BY <2>1, <2>3
    <3>2. T[i] = stable[i - Len(P)]
      BY <2>1, <3>1
    <3> QED BY <1>10, <3>1, <3>2
  <2> QED BY <2>2, <2>3
<1> QED BY <1>4, <1>8, <1>10, <1>11 DEF Settles, stable

\* Of two such orders one begins the other, and so do the marks.
LEMMA SettledBegins ==
  ASSUME NEW W, World(W), NEW P, Greedy(P, W), NEW Q, Greedy(Q, W), Len(P) <= Len(Q)
  PROVE  IsPrefix(marked(P), marked(Q))
<1>1. Begins(P, Q)
  BY OneOrder DEF World
<1> QED BY <1>1, MarkedBegins DEF Greedy

LEMMA MergedAgrees == Spec => [](Merging => StableAgree)
<1>1. AllKnow => StableAgree
  <2> SUFFICES ASSUME AllKnow, NEW d \in Devices, NEW e \in Devices
               PROVE  \/ IsPrefix(settled(state[d]), settled(state[e]))
                      \/ IsPrefix(settled(state[e]), settled(state[d]))
    BY DEF StableAgree, SettledAgree
  <2>1. World(written) /\ Knowing(state[d], written) /\ Knowing(state[e], written)
    BY DEF AllKnow
  <2>2. PICK P : Greedy(P, written) /\ settled(state[d]) = marked(P)
    BY <2>1, SettledMarks DEF Settles
  <2>3. PICK Q : Greedy(Q, written) /\ settled(state[e]) = marked(Q)
    BY <2>1, SettledMarks DEF Settles
  <2>4. Len(P) \in Nat /\ Len(Q) \in Nat
    BY <2>2, <2>3 DEF Greedy
  <2>5. Len(P) <= Len(Q) \/ Len(Q) <= Len(P)
    BY <2>4
  <2> QED BY <2>1, <2>2, <2>3, <2>5, SettledBegins
<1> QED BY <1>1, AgreeingKnow, AgreeInvariant, PTL

-----------------------------------------------------------------------------
(* Stability. What is settled on a device stays so.                        *)

\* A state that holds what its operations link to orders all that it holds.
LEMMA ClosedPlaced ==
  ASSUME NEW W, World(W), NEW s, GoodState(s, W), HeldClosed(s, W)
  PROVE  Range(Order(s)) = s.ops
<1> DEFINE q == Order(s)
           missing == s.ops \ Range(q)
<1>1. /\ q \in Seq(s.ops) /\ mayFollow(s, Range(q)) = {} /\ Named(W)
      /\ s.ops \subseteq W /\ GoodOperations(W) /\ Descending(W)
  BY GoodIsPlaceable, OrderType, CountedNamed DEF GoodState, Above, World
<1>2. Range(q) \subseteq s.ops
  BY <1>1 DEF Range
<1> SUFFICES ASSUME missing # {} PROVE FALSE
  BY <1>2
<1> HIDE DEF q
<1>3. PICK age : Ages(age, W)
  BY <1>1 DEF Descending
<1>4. PICK x \in missing : \A y \in missing : age[x] <= age[y]
  <2> DEFINE value == [y \in missing |-> age[y]]
  <2>1. missing \in SUBSET W /\ \A y \in missing : age[y] \in Nat
    BY <1>1, <1>3 DEF Ages
  <2>2. value \in [missing -> Int] /\ IsFiniteSet(missing)
    BY <1>1, <2>1, FS_Subset DEF GoodOperations
  <2>3. PICK x \in missing : \A y \in missing : value[x] <= value[y]
    <3> HIDE DEF value, missing
    <3> QED BY <2>2, LowestElement
  <2> QED BY <2>3
<1>5. ASSUME NEW l \in openLinks(s, x) PROVE \E y \in Range(q) : position(y) = l
  <2>1. x \in W /\ l \in links(x) /\ ~ Covers(s.checkpoint, l)
    BY <1>1 DEF openLinks
  <2>2. PICK y \in W : position(y) = l
    BY <1>1, <2>1 DEF Descending
  <2>3. y \in s.ops
    BY <2>1, <2>2 DEF HeldClosed, holds
  <2>4. age[y] < age[x] /\ age[x] \in Nat /\ age[y] \in Nat
    BY <1>3, <2>1, <2>2 DEF Ages
  <2>5. y \notin missing
    BY <1>4, <2>4
  <2> QED BY <2>2, <2>3, <2>5
<1>6. x \in mayFollow(s, Range(q))
  BY <1>5 DEF mayFollow
<1> QED BY <1>1, <1>6

\* Where an operation of a writer that a state holds comes from x, the writer has built on x.
LEMMA BuiltByOne ==
  ASSUME NEW W, World(W), NEW s, GoodState(s, W), HeldClosed(s, W), ClosedBelow(s.checkpoint, W),
         NEW x \in s.ops, NEW tip \in s.ops, tip.author \in Devices, x \in past(tip, W)
  PROVE  x \in builtOn(s, Order(s), tip.author)
<1> DEFINE q == Order(s)
           a == tip.author
           own == {op \in s.ops : op.author = a}
<1>1. /\ GoodOperations(W) /\ Counted(W) /\ Descending(W) /\ \A w \in W : singleIn(w, W)
      /\ s.ops \subseteq W /\ \A w \in W : w.nonce \in Nat
      /\ ~ Covers(s.checkpoint, position(x))
  BY DEF World, GoodState, Above, GoodOperations
<1>2. Range(q) = s.ops
  BY ClosedPlaced
<1> HIDE DEF q
<1>3. PICK p \in own : \A o \in own : o.nonce <= p.nonce
  <2> DEFINE value == [o \in own |-> - o.nonce]
  <2>1. own \in SUBSET W /\ \A o \in own : o.nonce \in Nat
    BY <1>1
  <2>2. value \in [own -> Int] /\ IsFiniteSet(own)
    BY <1>1, <2>1, FS_Subset DEF GoodOperations
  <2>3. PICK p \in own : \A o \in own : value[p] <= value[o]
    <3>1. own # {}
      OBVIOUS
    <3> HIDE DEF value, own
    <3> QED BY <2>2, <3>1, LowestElement
  <2>4. ASSUME NEW o \in own PROVE o.nonce <= p.nonce
    <3>1. o.nonce \in Nat /\ p.nonce \in Nat /\ value[p] = - p.nonce /\ value[o] = - o.nonce
      BY <2>1
    <3>2. value[p] <= value[o]
      BY <2>3
    <3> HIDE DEF value, own
    <3> QED BY <3>1, <3>2
  <2> QED BY <2>4
<1>4. p \in s.ops /\ p.author = a /\ p \in W /\ tip \in W /\ tip.nonce <= p.nonce
  BY <1>1, <1>3
<1>5. x \in past(p, W)
  <2>1. tip \in past(p, W)
    BY <1>1, <1>4, OwnPast
  <2> QED BY <1>4, <2>1, PastFacts
<1>6. ASSUME NEW w \in W, w.author = a, w.nonce <= p.nonce PROVE holds(s, w)
  <2>1. w \in past(p, W)
    BY <1>1, <1>4, <1>6, OwnPast
  <2> DEFINE H == {v \in W : holds(s, v)}
  <2>2. H \in SUBSET W /\ DescentClosed(H, W) /\ p \in H
    BY <1>4 DEF HeldClosed, DescentClosed, holds
  <2>3. past(p, W) \subseteq H
    <3> HIDE DEF H
    <3> QED BY <1>4, <2>2, PastFacts
  <2> QED BY <2>1, <2>3
<1>7. builtOn(s, q, a) = Ancestors(s, q, p)
  BY <1>1, <1>2, <1>3, <1>4, <1>6, BuiltOnLast
<1>8. x \in Ancestors(s, q, p)
  BY <1>1, <1>2, <1>4, <1>5, PastFound DEF q
<1> QED BY <1>7, <1>8 DEF q

\* What begins the order of W, of which the state holds each operation and knows each writer
\* to have built on those above its checkpoint, is no longer than what the state settled.
LEMMA SettlesAsFar ==
  ASSUME NEW W, World(W), NEW s, GoodState(s, W), ClosedBelow(s.checkpoint, W),
         NEW R, Settles(s, R, W), NEW P, Greedy(P, W), Writers(s.config) \subseteq Devices,
         \A i \in 1..Len(P) : holds(s, P[i]),
         \A i \in 1..Len(P) : P[i] \in s.ops =>
           \A a \in Writers(s.config) : \E tip \in s.ops : tip.author = a /\ P[i] \in past(tip, W)
  PROVE  Len(P) <= Len(R \o StablePoint(s, Order(s)))
<1> DEFINE q == Order(s)
           stable == StablePoint(s, q)
           T == R \o stable
           n == Len(T)
           m == Len(stable)
           B == preceding(R, Len(R) + 1)
           C == preceding(T, n + 1)
<1>1. /\ GoodOperations(W) /\ Counted(W) /\ Descending(W) /\ Named(W)
      /\ Merged(s) /\ HeldClosed(s, W) /\ CoversOrder(s.checkpoint, R, W) /\ Greedy(T, W)
      /\ s.ops \subseteq W
  BY CountedNamed DEF World, Settles, Ordered, GoodState, Above
<1>2. /\ q \in Seq(s.ops) /\ Lowest(s, 0, q) /\ Linked(s, q)
      /\ stable \in Seq(s.ops) /\ Begins(stable, q)
  <2>1. Placeable(s) /\ Len(sequenced(s).order) = 0
    BY <1>1, GoodIsPlaceable, MergedOrder
  <2> QED BY <2>1, OrderType, StableType
<1>3. Range(q) = s.ops
  BY <1>1, ClosedPlaced
<1>4. /\ R \in Seq(W) /\ stable \in Seq(W) /\ m \in Nat /\ Len(R) \in Nat /\ n = Len(R) + m
      /\ Len(P) \in Nat /\ \A i \in 1..Len(P) : P[i] \in W
      /\ \A i \in 1..Len(R) : T[i] = R[i]
      /\ \A i \in 1..m : T[Len(R) + i] = stable[i]
  <2>1. R \in Seq(W) /\ P \in Seq(W)
    BY <1>1 DEF CoversOrder, Greedy
  <2>2. stable \in Seq(W)
    BY <1>1, <1>2, SeqMonotonic
  <2> HIDE DEF stable, q
  <2> QED BY <2>1, <2>2
<1>5. m <= Len(q) /\ Len(q) \in Nat /\ \A i \in 1..m : i \in 1..Len(q) /\ stable[i] = q[i]
  <2>1. Len(stable) <= Len(q) /\ Len(q) \in Nat /\ \A i \in 1..Len(stable) : stable[i] = q[i]
    BY <1>2 DEF Begins
  <2> HIDE DEF stable, q
  <2> QED BY <1>4, <2>1
<1> HIDE DEF q, stable, T
<1> SUFFICES ASSUME ~ (Len(P) <= n) PROVE FALSE
  BY DEF T, stable, q
<1>6. n \in Nat /\ n + 1 \in 1..Len(P) /\ n <= Len(P)
  BY <1>4
<1>7. Begins(T, P)
  BY <1>1, <1>6, OneOrder
<1> DEFINE x == P[n + 1]
<1>8. preceding(P, n + 1) = C
  <2>1. (n + 1) - 1 = n
    BY <1>6
  <2>2. \A j \in 1..n : T[j] = P[j]
    BY <1>7 DEF Begins
  <2> HIDE DEF n
  <2> QED BY <2>1, <2>2 DEF preceding
<1>9. x \in comes(W, C) /\ \A y \in comes(W, C) : x.hash <= y.hash
  BY <1>6, <1>8 DEF Greedy
<1>10. C = B \cup preceding(q, m + 1)
  <2>1. (n + 1) - 1 = n /\ (m + 1) - 1 = m /\ (Len(R) + 1) - 1 = Len(R)
    BY <1>4, <1>6
  <2>2. C = {T[i] : i \in 1..n} /\ B = {R[i] : i \in 1..Len(R)} /\ preceding(q, m + 1) = {q[i] : i \in 1..m}
    BY <2>1 DEF preceding
  <2>3. ASSUME NEW i \in 1..n PROVE T[i] \in B \cup preceding(q, m + 1)
    <3>1. CASE i <= Len(R)
      <4>1. i \in 1..Len(R)
        BY <1>4, <1>6, <3>1
      <4> QED BY <1>4, <2>2, <4>1
    <3>2. CASE ~ (i <= Len(R))
      <4>1. (i - Len(R)) \in 1..m /\ Len(R) + (i - Len(R)) = i
        BY <1>4, <1>6, <3>2
      <4>2. T[i] = q[i - Len(R)]
        BY <1>4, <1>5, <4>1
      <4> QED BY <2>2, <4>1, <4>2
    <3> QED BY <3>1, <3>2
  <2>4. ASSUME NEW i \in 1..Len(R) PROVE R[i] \in C
    <3>1. i \in 1..n
      BY <1>4
    <3> QED BY <1>4, <2>2, <3>1
  <2>5. ASSUME NEW i \in 1..m PROVE q[i] \in C
    <3>1. Len(R) + i \in 1..n
      BY <1>4
    <3>2. T[Len(R) + i] = q[i]
      BY <1>4, <1>5
    <3> QED BY <2>2, <3>1, <3>2
  <2> HIDE DEF B, C
  <2>6. C \subseteq B \cup preceding(q, m + 1)
    BY <2>2, <2>3
  <2>7. B \subseteq C
    BY <2>2, <2>4
  <2>8. preceding(q, m + 1) \subseteq C
    BY <2>2, <2>5
  <2> QED BY <2>6, <2>7, <2>8
<1>11. x \in W /\ x \notin C /\ x \in s.ops /\ ~ Covers(s.checkpoint, position(x))
  <2>1. x \in W /\ x \notin C
    BY <1>9 DEF comes
  <2>2. ~ Covers(s.checkpoint, position(x))
    BY <1>1, <1>10, <2>1 DEF CoversOrder
  <2>3. holds(s, x)
    BY <1>6
  <2> QED BY <2>1, <2>2, <2>3 DEF holds
<1> HIDE DEF x, C, B, n
<1>12. m + 1 \in 1..Len(q)
  <2> SUFFICES ASSUME ~ (m < Len(q)) PROVE FALSE
    BY <1>4, <1>5
  <2>1. m = Len(q)
    BY <1>4, <1>5
  <2>2. PICK i \in 1..Len(q) : q[i] = x
    BY <1>2, <1>3, <1>11, SequenceFacts DEF Range
  <2>3. i \in 1..((m + 1) - 1)
    BY <1>4, <2>1
  <2>4. x \in preceding(q, m + 1)
    BY <2>2, <2>3 DEF preceding
  <2> QED BY <1>10, <1>11, <2>4
<1>13. q[m + 1] \in comes(W, C)
  <2>1. q[m + 1] \in comes(W, preceding(R, Len(R) + 1) \cup preceding(q, m + 1))
    BY <1>1, <1>12, PlacedClosed DEF q
  <2> QED BY <1>10, <2>1 DEF B
<1>14. x \in mayFollow(s, preceding(q, m + 1))
  <2>1. \A l \in links(x) : \E y \in C : position(y) = l
    BY <1>9 DEF comes
  <2>2. ASSUME NEW l \in openLinks(s, x) PROVE \E y \in preceding(q, m + 1) : position(y) = l
    <3>1. l \in links(x) /\ ~ Covers(s.checkpoint, l)
      BY DEF openLinks
    <3>2. PICK y \in C : position(y) = l
      BY <2>1, <3>1
    <3>3. y \notin B
      <4>1. y \in B => y \in W
        <5>1. Len(R) + 1 \in 1..Len(R) + 1
          BY <1>4
        <5> QED BY <1>1, <5>1, GreedyClosed DEF B, CoversOrder
      <4> QED BY <1>1, <3>1, <3>2, <4>1 DEF CoversOrder, B
    <3> QED BY <1>10, <3>2, <3>3
  <2> QED BY <1>10, <1>11, <2>2 DEF mayFollow
<1>15. q[m + 1] = x
  <2>1. m + 1 \in 0 + 1..Len(q)
    BY <1>12
  <2>2. q[m + 1].hash <= x.hash /\ x.hash <= q[m + 1].hash /\ q[m + 1] \in W
    BY <1>2, <1>9, <1>13, <1>14, <2>1 DEF Lowest, comes
  <2>3. q[m + 1].hash = x.hash
    BY <1>1, <1>11, <2>2 DEF GoodOperations
  <2> QED BY <1>1, <1>11, <2>2, <2>3 DEF Counted
<1>16. \A a \in Writers(s.config) : x \in builtOn(s, q, a)
  <2> SUFFICES ASSUME NEW a \in Writers(s.config) PROVE x \in builtOn(s, q, a)
    OBVIOUS
  <2>1. PICK tip \in s.ops : tip.author = a /\ x \in past(tip, W)
    BY <1>6, <1>11 DEF x
  <2> QED BY <1>1, <1>11, <2>1, BuiltByOne DEF q
<1>17. \A i \in 1..m + 1 : \A a \in Writers(s.config) : q[i] \in builtOn(s, q, a)
  <2>1. \A i \in 1..m : \A a \in Writers(s.config) : q[i] \in builtOn(s, q, a)
    BY <1>1, StableExtent DEF q, stable
  <2>2. \A i \in 1..m + 1 : i \in 1..m \/ i = m + 1
    BY <1>4
  <2> QED BY <1>15, <1>16, <2>1, <2>2
<1>18. m + 1 <= m
  <2>1. m + 1 \in 0..Len(q)
    BY <1>12
  <2> QED BY <1>1, <1>17, <2>1, StableExtent DEF q, stable
<1> QED BY <1>4, <1>18

\* What a checkpoint covers is closed under links where it covers what begins the order.
LEMMA OrderedClosed ==
  ASSUME NEW W, World(W), NEW k, NEW P, CoversOrder(k, P, W)
  PROVE  ClosedBelow(k, W)
<1>1. Len(P) + 1 \in 1..Len(P) + 1 /\ Named(W)
  BY CountedNamed DEF CoversOrder, Greedy, World
<1>2. DescentClosed(preceding(P, Len(P) + 1), W)
  BY <1>1, GreedyClosed DEF CoversOrder
<1> QED BY <1>2 DEF ClosedBelow, DescentClosed, CoversOrder

\* A device holds what it held, and its checkpoint covers what it covered.
LEMMA HeldOnward ==
  ASSUME DescentInv, Quiet, [Next]_vars, Quiet', NEW d \in Devices, NEW x \in written
  PROVE  /\ holds(state[d], x) => holds(state'[d], x)
         /\ Covers(state[d].checkpoint, position(x)) => Covers(state'[d].checkpoint, position(x))
<1> DEFINE s == state[d]
           t == state'[d]
<1>1. /\ Types /\ EditInv /\ CheckpointsInLine /\ GoodOperations(written) /\ GoodState(s, written)
      /\ \A e \in Devices : shown(e) = state[e]
      /\ restored' = {} /\ scenario.losing = {} /\ scenario' = scenario
      /\ \A e \in Devices : state[e].config = scenario.config
  <2>1. OneSigner /\ scenario.losing = {} /\ EditInv
    BY DEF Quiet, OneSigner, signers, DescentInv
  <2> QED BY <2>1, QuietFacts, QuietBefore DEF DescentInv, EditInv, NumberInv, Types, StatesTyped, shown, Quiet
<1>2. CASE t.checkpoint = s.checkpoint /\ s.ops \subseteq t.ops
  BY <1>2 DEF holds
<1>3. ASSUME Keeps(s, t), \A a \in Devices : s.checkpoint.authors[a].nonce <= t.checkpoint.authors[a].nonce
      PROVE  /\ holds(s, x) => holds(t, x)
             /\ Covers(s.checkpoint, position(x)) => Covers(t.checkpoint, position(x))
  <2>1. GoodState(t, written') /\ GoodOperations(written')
    <3>1. [Next]_vars
      OBVIOUS
    <3> QED BY <1>1, <3>1, StateTypesStep, WrittenStep DEF StatesTyped
  <2>2. /\ \A a \in Devices : s.checkpoint.authors[a].nonce \in Nat /\ t.checkpoint.authors[a].nonce \in Nat
        /\ x.author \in Devices /\ x.nonce \in Nat
    <3> HIDE DEF s, t
    <3> QED BY <1>1, <2>1, NumbersAreNatural DEF GoodOperations
  <2>3. Covers(s.checkpoint, position(x)) => Covers(t.checkpoint, position(x))
    BY <1>3, <2>2 DEF Covers, position
  <2> QED BY <1>3, <2>3 DEF holds, Keeps
<1>4. CASE written' # written
  <2>1. PICK e \in Devices : \E new : writesNew(e, new)
    BY <1>4, WritingNew
  <2> QED BY <1>2, <2>1 DEF writesNew
<1>5. CASE written' = written
  <2>1. ASSUME heldMoves(d) PROVE \/ t.checkpoint = s.checkpoint /\ s.ops \subseteq t.ops
                                  \/ /\ Keeps(s, t)
                                     /\ \A a \in Devices : s.checkpoint.authors[a].nonce <= t.checkpoint.authors[a].nonce
    <3>1. CASE stays(d) \/ flushes(d)
      BY <3>1 DEF stays, flushes
    <3>2. CASE merges(d)
      <4>1. PICK from \in Devices :
              /\ t.checkpoint = IF state[from].checkpoint.height <= s.checkpoint.height
                                THEN s.checkpoint ELSE state[from].checkpoint
              /\ Keeps(s, t)
        BY <1>1, <3>2 DEF merges
      <4>2. /\ s.checkpoint \in heldCheckpoints /\ state[from].checkpoint \in heldCheckpoints
            /\ t.checkpoint \in {s.checkpoint, state[from].checkpoint}
            /\ s.checkpoint.height <= t.checkpoint.height
        BY <1>1, <4>1, CheckpointsNumbered
      <4>3. \A a \in Devices : s.checkpoint.authors[a].nonce <= t.checkpoint.authors[a].nonce
        BY <1>1, <4>2 DEF CheckpointsInLine
      <4> QED BY <4>1, <4>3
    <3>3. CASE signs(d)
      BY <3>3 DEF signs
    <3>4. ~ leaves(d)
      <4> SUFFICES ASSUME leaves(d) PROVE FALSE
        OBVIOUS
      <4>1. PICK from \in Devices : shown(from).config.seqno > state[d].config.seqno
        BY DEF leaves
      <4>2. state[d].config.seqno \in Nat
        BY <1>1 DEF GoodState, GoodConfig
      <4> QED BY <1>1, <4>1, <4>2
    <3>5. ~ adds(d)
      BY <1>5, <1>1 DEF adds
    <3>6. ~ startsOver(d) /\ ~ losesPower(d)
      BY <1>1 DEF startsOver, losesPower
    <3> QED BY <2>1, <3>1, <3>2, <3>3, <3>4, <3>5, <3>6 DEF heldMoves
  <2>2. ASSUME NEW e \in Devices, heldMoves(e), e # d PROVE t = s
    BY <2>2 DEF heldMoves, alone
  <2>3. UNCHANGED <<state, durable, written>> \/ \E e \in Devices : heldMoves(e)
    BY <1>1, HeldStep
  <2> QED BY <1>2, <1>3, <2>1, <2>2, <2>3
<1> QED BY <1>4, <1>5

\* Whatever happens, what is settled on d stays where it is.
LEMMA SettledStays ==
  ASSUME AgreeInv, Merging, AllKnow, AllKnow', [Next]_vars, Quiet', NEW d \in Devices
  PROVE  IsPrefix(settled(state[d]), settled(state'[d]))
<1> DEFINE s == state[d]
           t == state'[d]
           W == written
           V == written'
           q == Order(s)
           stable == StablePoint(s, q)
<1>1. /\ World(W) /\ World(V) /\ Knowing(s, W) /\ Knowing(t, V)
      /\ GoodState(s, W) /\ GoodState(t, V) /\ W \subseteq V
      /\ GoodOperations(W) /\ Counted(W) /\ Descending(W) /\ Named(W) /\ Named(V) /\ s.ops \subseteq W
  <2>1. W \subseteq V
    BY WrittenStep DEF AgreeInv, DescentInv, EditInv, Types
  <2>2. World(W) /\ World(V) /\ Knowing(s, W) /\ Knowing(t, V)
    BY DEF AllKnow
  <2> QED BY <2>1, <2>2, CountedNamed DEF World, Knowing, GoodState, Above
<1>2. s.config = scenario.config /\ t.config = scenario.config /\ Writers(scenario.config) \subseteq Devices
  <2>1. scenario' = scenario
    BY QuietBefore DEF AgreeInv, DescentInv, EditInv
  <2>2. s.config = scenario.config /\ t.config = scenario.config
    BY <2>1 DEF AllKnow
  <2>3. s.config.writers \in Seq(Devices)
    BY <1>1 DEF GoodState, GoodConfig
  <2> QED BY <2>2, <2>3, SequenceFacts DEF Writers, Range
<1>3. PICK P : Settles(s, P, W)
  BY <1>1, SettledMarks
<1>4. PICK R : Settles(t, R, V)
  BY <1>1, SettledMarks
<1> DEFINE T == P \o stable
<1>5. /\ Greedy(T, W) /\ settled(s) = marked(T) /\ \A i \in 1..Len(T) : Anchored(T[i], Writers(scenario.config), W)
      /\ Greedy(R \o StablePoint(t, Order(t)), V) /\ settled(t) = marked(R \o StablePoint(t, Order(t)))
      /\ CoversOrder(s.checkpoint, P, W) /\ Merged(s) /\ CoversOrder(t.checkpoint, R, V)
  BY <1>2, <1>3, <1>4 DEF Settles, Ordered
<1>6. /\ q \in Seq(s.ops) /\ stable \in Seq(s.ops) /\ Begins(stable, q) /\ P \in Seq(W)
  BY <1>1, <1>5, GoodIsPlaceable, OrderType, StableType DEF CoversOrder, Greedy
<1>7. /\ Len(T) \in Nat
      /\ \A i \in 1..Len(T) : \/ \E j \in 1..Len(P) : T[i] = P[j]
                            \/ \E j \in 1..Len(stable) : T[i] = stable[j] /\ T[i] = q[j] /\ T[i] \in s.ops
  <2>1. stable \in Seq(W) /\ \A j \in 1..Len(stable) : stable[j] \in s.ops /\ stable[j] = q[j]
    <3>1. stable \in Seq(W)
      BY <1>1, <1>6, SeqMonotonic
    <3> QED BY <1>6, <3>1 DEF Begins
  <2> HIDE DEF stable
  <2>2. /\ Len(P) \in Nat /\ Len(stable) \in Nat /\ Len(T) = Len(P) + Len(stable)
        /\ \A j \in 1..Len(P) : T[j] = P[j]
        /\ \A j \in 1..Len(stable) : T[Len(P) + j] = stable[j]
    BY <1>6, <2>1
  <2> HIDE DEF T
  <2>3. ASSUME NEW i \in 1..Len(T), ~ (i <= Len(P))
        PROVE  i - Len(P) \in 1..Len(stable) /\ T[i] = stable[i - Len(P)]
    <3>1. i - Len(P) \in 1..Len(stable) /\ Len(P) + (i - Len(P)) = i
      BY <2>2, <2>3
    <3> QED BY <2>2, <3>1
  <2>4. ASSUME NEW i \in 1..Len(T)
        PROVE  \/ \E j \in 1..Len(P) : T[i] = P[j]
               \/ \E j \in 1..Len(stable) : T[i] = stable[j] /\ T[i] = q[j] /\ T[i] \in s.ops
    <3>1. CASE i <= Len(P)
      <4>1. i \in 1..Len(P)
        BY <2>2, <3>1
      <4> QED BY <2>2, <4>1
    <3>2. CASE ~ (i <= Len(P))
      BY <2>1, <2>3, <3>2
    <3> QED BY <3>1, <3>2
  <2> QED BY <2>2, <2>4
<1> HIDE DEF stable, q, T
<1>8. Greedy(T, V)
  <2>1. CASE written' = written
    BY <1>5, <2>1
  <2>2. CASE written' # written
    <3>1. PICK e \in Devices : \E new : writesNew(e, new)
      BY <2>2, WritingNew DEF AgreeInv, Merging
    <3>2. PICK new : writesNew(e, new)
      BY <3>1
    <3>3. /\ e \in Writers(scenario.config) /\ new.author = e /\ V = W \cup {new}
          /\ \A w \in W : w.hash # new.hash
          /\ \A x \in W : x.author = e => x \in past(new, W \cup {new})
      BY <3>2 DEF writesNew
    <3> HIDE DEF V, W
    <3> QED BY <1>1, <1>5, <3>3, GreedyStays
  <2> QED BY <2>1, <2>2
<1>9. \A x \in W : /\ holds(s, x) => holds(t, x)
                   /\ Covers(s.checkpoint, position(x)) => Covers(t.checkpoint, position(x))
  BY HeldOnward DEF AgreeInv, Merging
<1>10. \A i \in 1..Len(P) : P[i] \in W /\ Covers(s.checkpoint, position(P[i]))
  <2>1. Len(P) \in Nat /\ \A i \in 1..Len(P) : P[i] \in W
    BY <1>6
  <2>2. \A i \in 1..Len(P) : i \in 1..((Len(P) + 1) - 1)
    BY <2>1
  <2>3. \A i \in 1..Len(P) : P[i] \in preceding(P, Len(P) + 1)
    BY <2>2 DEF preceding
  <2> QED BY <1>5, <2>1, <2>3 DEF CoversOrder
<1>11. \A i \in 1..Len(T) : T[i] \in W /\ holds(t, T[i])
  <2> SUFFICES ASSUME NEW i \in 1..Len(T) PROVE T[i] \in W /\ holds(t, T[i])
    OBVIOUS
  <2>1. T[i] \in W /\ holds(s, T[i])
    BY <1>1, <1>7, <1>10 DEF holds
  <2> QED BY <1>9, <2>1
<1>12. ClosedBelow(t.checkpoint, V)
  BY <1>1, <1>5, OrderedClosed
<1>13. ASSUME NEW i \in 1..Len(T), T[i] \in t.ops, NEW a \in Writers(t.config)
       PROVE  \E tip \in t.ops : tip.author = a /\ T[i] \in past(tip, V)
  <2>1. ~ Covers(t.checkpoint, position(T[i]))
    BY <1>1, <1>13 DEF GoodState, Above
  <2>2. ~ Covers(s.checkpoint, position(T[i]))
    BY <1>9, <1>11, <2>1
  <2>3. PICK j \in 1..Len(stable) : T[i] = q[j]
    BY <1>7, <1>10, <2>2
  <2>4. T[i] \in builtOn(s, q, a)
    BY <1>1, <1>2, <1>5, <2>3, StableExtent DEF q, stable
  <2>5. PICK tip \in s.ops : tip.author = a /\ T[i] \in past(tip, W)
    BY <1>1, <2>4, BuiltAnchored DEF q
  <2>6. tip \in W /\ tip \in V
    BY <1>1, <2>5
  <2>7. past(tip, V) = past(tip, W)
    <3>1. CASE written' = written
      BY <3>1
    <3>2. CASE written' # written
      <4>1. PICK e \in Devices : \E new : writesNew(e, new)
        BY <3>2, WritingNew DEF AgreeInv, Merging
      <4>2. PICK new : writesNew(e, new)
        BY <4>1
      <4>3. V = W \cup {new} /\ \A w \in W : w.hash # new.hash
        BY <4>2 DEF writesNew
      <4> HIDE DEF V, W
      <4> QED BY <1>1, <2>6, <4>3, PastStays
    <3> QED BY <3>1, <3>2
  <2>8. ~ Covers(t.checkpoint, position(tip))
    <3> SUFFICES ASSUME Covers(t.checkpoint, position(tip)) PROVE FALSE
      OBVIOUS
    <3> DEFINE below == {w \in V : Covers(t.checkpoint, position(w))}
    <3>1. below \in SUBSET V /\ DescentClosed(below, V) /\ tip \in below
      BY <1>12, <2>6 DEF ClosedBelow, DescentClosed
    <3>2. past(tip, V) \subseteq below
      <4> HIDE DEF below, V
      <4> QED BY <2>6, <3>1, PastFacts
    <3> QED BY <2>1, <2>5, <2>7, <3>2
  <2>9. tip \in t.ops
    BY <1>9, <2>5, <2>6, <2>8 DEF holds
  <2> QED BY <2>5, <2>7, <2>9
<1>14. Len(T) <= Len(R \o StablePoint(t, Order(t)))
  <2> HIDE DEF t, V
  <2> QED BY <1>1, <1>2, <1>4, <1>8, <1>11, <1>12, <1>13, SettlesAsFar
<1>15. IsPrefix(marked(T), marked(R \o StablePoint(t, Order(t))))
  <2> HIDE DEF t, V
  <2> QED BY <1>1, <1>5, <1>8, <1>14, SettledBegins
<1> QED BY <1>5, <1>15 DEF s, t

-----------------------------------------------------------------------------
(* Agreement where a sequencer places. The records it signs are one line,  *)
(* and what is stable on any device is placed by the first of them.        *)

LEMMA FirstOnes ==
  ASSUME NEW P, NEW n \in Nat
  PROVE  preceding(P, n + 1) = {P[j] : j \in 1..n}
<1>1. (n + 1) - 1 = n
  OBVIOUS
<1> QED BY <1>1 DEF preceding

\* The records R of the sequencer q place the operations P in turn, each once and after
\* what it links to.
Trail(P, R, q, W) ==
  /\ P \in Seq(W) /\ R[0] = NoPosition
  /\ \A i \in 1..Len(P) :
       /\ R[i] = [signer |-> q, height |-> i, prev |-> R[i - 1], op |-> position(P[i])]
       /\ \A j \in 1..Len(P) : P[i] = P[j] => i = j
       /\ \A x \in W : position(x) \in links(P[i]) => x \in preceding(P, i)

\* The checkpoint k covers what the first records place, up to that it names.
Reached(k, P, R, W) ==
  /\ k.sequence.height \in 0..Len(P) /\ k.sequence = R[k.sequence.height]
  /\ \A w \in W : Covers(k, position(w)) <=> w \in preceding(P, k.sequence.height + 1)
  /\ k.data = marked(SubSeq(P, 1, k.sequence.height))

\* The sequencer q places from the beginning.
Led(s, q) == s.config.sequencer = q /\ q # None /\ s.config.start.height = 0

\* A state that holds a part of the line.
OnTrail(s, P, R, q, W) ==
  /\ GoodState(s, W) /\ Led(s, q) /\ s.sequence \subseteq {R[i] : i \in 1..Len(P)}
  /\ Reached(s.checkpoint, P, R, W)

LEMMA TrailHeights ==
  ASSUME NEW W, NEW q, NEW P, NEW R, Trail(P, R, q, W)
  PROVE  /\ Len(P) \in Nat /\ \A i \in 1..Len(P) : P[i] \in W
         /\ \A i \in 0..Len(P) : R[i].height = i
         /\ \A i \in 1..Len(P) : R[i].prev = R[i - 1] /\ R[i].op = position(P[i]) /\ R[i].signer = q
<1>1. Len(P) \in Nat /\ \A i \in 1..Len(P) : P[i] \in W
  BY DEF Trail
<1>2. R[0].height = 0
  BY DEF Trail, NoPosition
<1>3. ASSUME NEW i \in 1..Len(P)
      PROVE  R[i].height = i /\ R[i].prev = R[i - 1] /\ R[i].op = position(P[i]) /\ R[i].signer = q
  <2>1. R[i] = [signer |-> q, height |-> i, prev |-> R[i - 1], op |-> position(P[i])]
    BY DEF Trail
  <2> QED BY <2>1
<1> QED BY <1>1, <1>2, <1>3

\* After the j-th record follows the next, if it is held.
LEMMA RecordFollows ==
  ASSUME NEW W, NEW q, NEW P, NEW R, Trail(P, R, q, W), NEW s, OnTrail(s, P, R, q, W),
         NEW j \in 0..Len(P)
  PROVE  nextPositions(s, R[j]) = {r \in s.sequence : j < Len(P) /\ r = R[j + 1]}
<1>1. Len(P) \in Nat /\ \A i \in 0..Len(P) : R[i].height = i
  BY TrailHeights
<1>2. nextPositions(s, R[j]) = {r \in s.sequence : r.signer = q /\ r.height = j + 1 /\ r.prev = R[j]}
  <2>1. R[j].height = j /\ ~ (j + 1 <= s.config.start.height)
    BY <1>1 DEF OnTrail, Led
  <2> QED BY <2>1 DEF nextPositions, OnTrail, Led, start
<1>3. ASSUME NEW r \in s.sequence
      PROVE  (r.signer = q /\ r.height = j + 1 /\ r.prev = R[j]) <=> (j < Len(P) /\ r = R[j + 1])
  <2>1. PICK i \in 1..Len(P) : r = R[i]
    BY DEF OnTrail
  <2>2. r.signer = q /\ r.height = i /\ r.prev = R[i - 1]
    BY <2>1, TrailHeights
  <2>3. ASSUME r.height = j + 1 PROVE j < Len(P) /\ r = R[j + 1]
    <3>1. i = j + 1
      BY <2>2, <2>3
    <3> QED BY <1>1, <2>1, <3>1
  <2>4. ASSUME j < Len(P), r = R[j + 1] PROVE r.signer = q /\ r.height = j + 1 /\ r.prev = R[j]
    <3>1. j + 1 \in 1..Len(P) /\ (j + 1) - 1 = j
      BY <1>1, <2>4
    <3>2. R[j + 1].height = j + 1 /\ R[j + 1].prev = R[(j + 1) - 1] /\ R[j + 1].signer = q
      BY <3>1, TrailHeights
    <3> QED BY <2>4, <3>1, <3>2
  <2> QED BY <2>3, <2>4
<1> QED BY <1>2, <1>3

\* What s resolves are the records above its checkpoint, up to the first it lacks.
LEMMA TrailResolved ==
  ASSUME NEW W, GoodOperations(W), NEW q, NEW P, NEW R, Trail(P, R, q, W),
         NEW s, OnTrail(s, P, R, q, W)
  PROVE  LET p == resolveSequence(s)
             b == s.checkpoint.sequence.height
         IN /\ Len(p) \in Nat /\ b + Len(p) <= Len(P)
            /\ \A i \in 1..Len(p) : p[i] = R[b + i] /\ R[b + i] \in s.sequence
            /\ b + Len(p) < Len(P) => R[b + Len(p) + 1] \notin s.sequence
<1> DEFINE p == resolveSequence(s)
           b == s.checkpoint.sequence.height
           m == Len(p)
<1>1. /\ p \in Seq(s.sequence) /\ Climbs(s, p) /\ Cardinality(candidates(s, p)) # 1
      /\ m \in Nat /\ \A i \in 1..m : p[i] \in s.sequence
  <2>1. p \in Seq(s.sequence) /\ Climbs(s, p) /\ Cardinality(candidates(s, p)) # 1
    BY GoodIsPlaceable, Resolved DEF OnTrail
  <2> HIDE DEF p
  <2> QED BY <2>1
<1>2. /\ Len(P) \in Nat /\ b \in 0..Len(P) /\ base(s) = R[b]
      /\ \A i \in 0..Len(P) : R[i].height = i
  BY TrailHeights DEF OnTrail, Reached, base
<1> HIDE DEF p, b
<1> DEFINE T == {i \in Nat : i <= m => b + i <= Len(P) /\ (i # 0 => p[i] = R[b + i])}
<1>3. 0 \in T
  BY <1>2
<1>4. ASSUME NEW i \in T PROVE i + 1 \in T
  <2> SUFFICES ASSUME i + 1 <= m PROVE b + (i + 1) <= Len(P) /\ p[i + 1] = R[b + (i + 1)]
    OBVIOUS
  <2>1. b + i <= Len(P) /\ (i # 0 => p[i] = R[b + i]) /\ i + 1 \in 1..m /\ (i + 1) - 1 = i
    BY <1>1
  <2>2. p[i + 1] \in nextPositions(s, R[b + i])
    <3>1. p[i + 1] \in nextPositions(s, IF i + 1 = 1 THEN base(s) ELSE p[(i + 1) - 1])
      BY <1>1, <2>1 DEF Climbs
    <3>2. CASE i = 0
      BY <1>2, <3>1, <3>2
    <3>3. CASE i # 0
      <4>1. i + 1 # 1
        BY <3>3
      <4> QED BY <2>1, <3>1, <3>3, <4>1
    <3> QED BY <3>2, <3>3
  <2>3. b + i \in 0..Len(P)
    BY <1>2, <2>1
  <2>4. b + i < Len(P) /\ p[i + 1] = R[b + i + 1]
    <3> DEFINE j == b + i
    <3>1. j \in 0..Len(P) /\ p[i + 1] \in nextPositions(s, R[j])
      BY <2>2, <2>3
    <3> HIDE DEF j
    <3>2. nextPositions(s, R[j]) = {r \in s.sequence : j < Len(P) /\ r = R[j + 1]}
      BY <3>1, RecordFollows
    <3>3. j < Len(P) /\ p[i + 1] = R[j + 1]
      BY <3>1, <3>2
    <3> QED BY <3>3 DEF j
  <2> QED BY <1>2, <2>4
<1>5. T = Nat
  <2>1. T \in SUBSET Nat
    OBVIOUS
  <2> HIDE DEF T
  <2> QED BY <1>3, <1>4, <2>1, NumberInduction
<1>6. b + m <= Len(P) /\ \A i \in 1..m : p[i] = R[b + i]
  <2>1. m \in T /\ \A i \in 1..m : i \in T
    BY <1>1, <1>5
  <2> QED BY <1>1, <2>1
<1>7. ASSUME b + m < Len(P), R[b + m + 1] \in s.sequence PROVE FALSE
  <2>1. candidates(s, p) = nextPositions(s, R[b + m])
    <3>1. CASE p = <<>>
      <4>1. m = 0
        BY <3>1
      <4> QED BY <1>2, <3>1, <4>1 DEF candidates
    <3>2. CASE p # <<>>
      <4>1. m \in 1..m /\ Last(p) = p[m]
        BY <1>1, <3>2, EmptySeq DEF Last
      <4> QED BY <1>6, <3>2, <4>1 DEF candidates
    <3> QED BY <3>1, <3>2
  <2>2. b + m \in 0..Len(P)
    BY <1>1, <1>2, <1>6
  <2>3. candidates(s, p) = {R[b + m + 1]}
    <3>1. candidates(s, p) = {r \in s.sequence : b + m < Len(P) /\ r = R[b + m + 1]}
      BY <2>1, <2>2, RecordFollows
    <3> QED BY <1>7, <3>1
  <2>4. Cardinality({R[b + m + 1]}) = 1
    BY FS_Singleton
  <2> QED BY <1>1, <2>3, <2>4
<1> QED BY <1>1, <1>6, <1>7 DEF p, b

\* What the records above the checkpoint place is above it, each once.
LEMMA TrailFresh ==
  ASSUME NEW W, GoodOperations(W), Named(W), NEW q, NEW P, NEW R, Trail(P, R, q, W),
         NEW s, OnTrail(s, P, R, q, W)
  PROVE  Fresh(s)
<1> DEFINE p == resolveSequence(s)
           b == s.checkpoint.sequence.height
<1>1. /\ Len(p) \in Nat /\ b + Len(p) <= Len(P) /\ \A i \in 1..Len(p) : p[i] = R[b + i]
      /\ b \in Nat /\ Len(P) \in Nat /\ \A i \in 1..Len(P) : P[i] \in W /\ R[i].op = position(P[i])
  BY TrailResolved, TrailHeights DEF OnTrail, Reached
<1>2. \A i, j \in 1..Len(P) : P[i] = P[j] => i = j
  BY DEF Trail
<1>3. \A w \in W : Covers(s.checkpoint, position(w)) <=> w \in preceding(P, b + 1)
  BY DEF OnTrail, Reached
<1> HIDE DEF p, b
<1>4. ASSUME NEW i \in 1..Len(p) PROVE b + i \in 1..Len(P) /\ p[i].op = position(P[b + i]) /\ P[b + i] \in W
  <2>1. b + i \in 1..Len(P)
    BY <1>1
  <2> QED BY <1>1, <2>1
<1>5. ASSUME NEW i \in 1..Len(p), Covers(s.checkpoint, p[i].op) PROVE FALSE
  <2>1. P[b + i] \in preceding(P, b + 1)
    BY <1>3, <1>4, <1>5
  <2>2. PICK j \in 1..b : P[b + i] = P[j]
    BY <1>1, <2>1 DEF preceding
  <2>3. j \in 1..Len(P) /\ b + i \in 1..Len(P)
    BY <1>1, <1>4
  <2>4. b + i = j
    BY <1>2, <2>2, <2>3
  <2> QED BY <1>1, <2>4
<1>6. ASSUME NEW i \in 1..Len(p), NEW j \in 1..Len(p), p[i].op = p[j].op PROVE i = j
  <2>1. P[b + i] = P[b + j]
    BY <1>4, <1>6 DEF Named
  <2>2. b + i = b + j
    BY <1>2, <1>4, <2>1
  <2> QED BY <1>1, <2>2
<1> QED BY <1>5, <1>6 DEF Fresh, p

\* s places what the records above its checkpoint do, up to the first that it lacks, or whose
\* operation it does.
PlacesTo(s, P, R, n) ==
  LET b == s.checkpoint.sequence.height
      placed == sequenced(s)
  IN /\ n \in Nat /\ b + n <= Len(P) /\ Len(placed.order) = n
     /\ \A i \in 1..n : placed.order[i] = P[b + i] /\ R[b + i] \in s.sequence
     /\ placed.tail = R[b + n]
     /\ placed.complete /\ b + n < Len(P) => R[b + n + 1] \notin s.sequence
     /\ b + n < Len(P) => R[b + n + 1] \notin s.sequence \/ P[b + n + 1] \notin s.ops

LEMMA TrailPlaces ==
  ASSUME NEW W, GoodOperations(W), Named(W), Descending(W), NEW q, NEW P, NEW R, Trail(P, R, q, W),
         NEW s, OnTrail(s, P, R, q, W)
  PROVE  \E n : PlacesTo(s, P, R, n)
<1> DEFINE p == resolveSequence(s)
           b == s.checkpoint.sequence.height
           m == Len(p)
           placed == sequenced(s)
<1>1. PICK n \in 0..m : /\ placed = placedAt(s, [taken |-> n, order |-> placed.order])
                        /\ InTurn(s, n, placed.order)
                        /\ n < m => toPlace(s, [taken |-> n, order |-> placed.order]) = {}
  BY TrailFresh, GoodIsPlaceable, SequencedType DEF OnTrail
<1>2. placed.order \in Seq(s.ops) /\ s.ops \subseteq W
  BY GoodIsPlaceable, SequencedType DEF Sequenced, OnTrail, GoodState, Above
<1>3. /\ placed.tail = IF n = 0 THEN base(s) ELSE p[n]
      /\ placed.complete = (n = m)
  BY <1>1 DEF placedAt
<1>4. /\ m \in Nat /\ b + m <= Len(P) /\ \A i \in 1..m : p[i] = R[b + i] /\ R[b + i] \in s.sequence
      /\ b + m < Len(P) => R[b + m + 1] \notin s.sequence
      /\ b \in Nat /\ Len(P) \in Nat /\ \A i \in 1..Len(P) : P[i] \in W /\ R[i].op = position(P[i])
      /\ base(s) = R[b]
  BY TrailResolved, TrailHeights DEF OnTrail, Reached, base
<1>5. Len(placed.order) = n /\ \A i \in 1..n : position(placed.order[i]) = p[i].op
  BY <1>1 DEF InTurn
<1> HIDE DEF placed, p, b
<1>6. ASSUME NEW i \in 1..n PROVE placed.order[i] = P[b + i] /\ R[b + i] \in s.sequence
  <2>1. i \in 1..m /\ b + i \in 1..Len(P)
    BY <1>4
  <2>2. position(placed.order[i]) = position(P[b + i]) /\ P[b + i] \in W
    BY <1>4, <1>5, <2>1
  <2>3. placed.order[i] \in W
    BY <1>2, <1>5
  <2> QED BY <1>4, <2>1, <2>2, <2>3 DEF Named
<1>7. placed.tail = R[b + n]
  <2>1. n = 0 \/ n \in 1..m
    BY <1>4
  <2> QED BY <1>3, <1>4, <2>1
<1>8. ASSUME n < m, P[b + n + 1] \in s.ops PROVE FALSE
  <2> DEFINE x == P[b + n + 1]
  <2>1. n + 1 \in 1..m /\ b + n + 1 \in 1..Len(P) /\ b + (n + 1) = b + n + 1 /\ b + n + 1 - 1 = b + n
    BY <1>4, <1>8
  <2>2. position(x) = p[n + 1].op
    <3>1. p[n + 1] = R[b + n + 1]
      BY <1>4, <2>1
    <3> QED BY <1>4, <2>1, <3>1
  <2>3. placedLinks(s, x, placed.order)
    <3> SUFFICES ASSUME NEW l \in openLinks(s, x)
                 PROVE  l \in {position(o) : o \in Range(placed.order)}
      BY DEF placedLinks
    <3>1. x \in W /\ l \in links(x) /\ ~ Covers(s.checkpoint, l)
      BY <1>4, <2>1 DEF openLinks
    <3>2. PICK w \in W : position(w) = l
      BY <3>1 DEF Descending
    <3>3. w \in preceding(P, b + n + 1) /\ w \notin preceding(P, b + 1)
      <4>1. w \in preceding(P, b + n + 1)
        BY <2>1, <3>1, <3>2 DEF Trail
      <4> QED BY <3>1, <3>2, <4>1 DEF OnTrail, Reached, b
    <3>4. PICK j \in 1..b + n : w = P[j]
      <4>1. preceding(P, b + n + 1) = {P[j] : j \in 1..b + n}
        <5>1. b + n \in Nat
          BY <1>4
        <5> QED BY <5>1, FirstOnes
      <4> HIDE DEF x
      <4> QED BY <3>3, <4>1
    <3>5. ~ (j <= b)
      <4> SUFFICES ASSUME j <= b PROVE FALSE
        OBVIOUS
      <4>1. b \in Nat /\ j \in 1..b
        BY <1>4
      <4>2. preceding(P, b + 1) = {P[i] : i \in 1..b}
        BY <4>1, FirstOnes
      <4> HIDE DEF x
      <4> QED BY <3>3, <3>4, <4>1, <4>2
    <3>6. j - b \in 1..n /\ b + (j - b) = j
      BY <1>4, <3>5
    <3>7. placed.order[j - b] = w
      BY <1>6, <3>4, <3>6
    <3>8. w \in Range(placed.order)
      <4>1. DOMAIN placed.order = 1..n
        BY <1>2, <1>5
      <4> QED BY <3>6, <3>7, <4>1 DEF Range
    <3> QED BY <3>2, <3>8
  <2>4. x \in toPlace(s, [taken |-> n, order |-> placed.order])
    BY <1>8, <2>2, <2>3 DEF toPlace, nextPosition, p
  <2> QED BY <1>1, <1>8, <2>4 DEF p, placed
<1>9. PlacesTo(s, P, R, n)
  <2>1. n \in Nat /\ b + n <= Len(P)
    BY <1>4
  <2>2. n = m \/ n < m
    BY <1>4
  <2>3. placed.complete => n = m
    BY <1>3
  <2> QED BY <1>4, <1>5, <1>6, <1>7, <1>8, <2>1, <2>2, <2>3 DEF PlacesTo, b, placed
<1> QED BY <1>9

LEMMA Beyond ==
  ASSUME NEW b \in Nat, NEW n \in Nat, NEW i \in 1..(b + n), ~ (i <= b)
  PROVE  i - b \in 1..n /\ b + (i - b) = i
OBVIOUS

LEMMA Before ==
  ASSUME NEW b \in Nat, NEW i \in Nat, NEW j \in 1..(i - b - 1)
  PROVE  b + j \in 1..(i - 1)
OBVIOUS

LEMMA Within ==
  ASSUME NEW n \in Nat, NEW m \in 1..n, NEW j \in 1..(m - 1)
  PROVE  j \in 1..n
OBVIOUS

LEMMA Concatenated ==
  ASSUME NEW W, NEW P \in Seq(W), NEW p \in Seq(W)
  PROVE  /\ P \o p \in Seq(W) /\ Len(P \o p) = Len(P) + Len(p)
         /\ \A i \in 1..Len(P) : (P \o p)[i] = P[i]
         /\ \A i \in 1..Len(p) : (P \o p)[Len(P) + i] = p[i]
<1>1. P \o p \in Seq(W) /\ Len(P \o p) = Len(P) + Len(p)
  OBVIOUS
<1>2. \A i \in 1..Len(P) : (P \o p)[i] = P[i]
  OBVIOUS
<1>3. \A i \in 1..Len(p) : (P \o p)[Len(P) + i] = p[i]
  OBVIOUS
<1> QED BY <1>1, <1>2, <1>3

LEMMA FirstPart ==
  ASSUME NEW S, NEW P \in Seq(S), NEW n \in 0..Len(P)
  PROVE  /\ SubSeq(P, 1, n) \in Seq(S) /\ Len(SubSeq(P, 1, n)) = n
         /\ \A i \in 1..n : SubSeq(P, 1, n)[i] = P[i]
<1>1. Len(P) \in Nat /\ n \in Int /\ n <= Len(P)
  OBVIOUS
<1>2. SubSeq(P, 1, n) \in Seq(S)
  BY <1>1, PartOfSequence
<1> QED BY <1>1, <1>2

LEMMA SameBeginning ==
  ASSUME NEW S, NEW P \in Seq(S), NEW Q \in Seq(S), Begins(P, Q), NEW n \in 0..Len(P)
  PROVE  SubSeq(P, 1, n) = SubSeq(Q, 1, n)
<1>1. Len(P) \in Nat /\ Len(Q) \in Nat /\ Len(P) <= Len(Q) /\ \A i \in 1..n : P[i] = Q[i]
  BY DEF Begins
<1>2. n \in 0..Len(Q)
  BY <1>1
<1> DEFINE p == SubSeq(P, 1, n)
           r == SubSeq(Q, 1, n)
<1>3. p \in Seq(S) /\ Len(p) = n /\ \A i \in 1..n : p[i] = P[i]
  BY FirstPart
<1>4. r \in Seq(S) /\ Len(r) = n /\ \A i \in 1..n : r[i] = Q[i]
  BY <1>2, FirstPart
<1> HIDE DEF p, r
<1>5. p = r
  BY <1>1, <1>3, <1>4, SeqEqual
<1> QED BY <1>5 DEF p, r

\* The line stays one when an operation is written.
LEMMA TrailStays ==
  ASSUME NEW W, GoodOperations(W), Descending(W), NEW new, \A w \in W : w.hash # new.hash,
         NEW q, NEW P, NEW R, Trail(P, R, q, W)
  PROVE  /\ Trail(P, R, q, W \cup {new})
         /\ \A k : Reached(k, P, R, W) /\ ~ Covers(k, position(new)) => Reached(k, P, R, W \cup {new})
<1> DEFINE V == W \cup {new}
<1>1. P \in Seq(V) /\ R[0] = NoPosition
  <2>1. P \in Seq(W)
    BY DEF Trail
  <2> QED BY <2>1, SeqMonotonic DEF Trail
<1>2. ASSUME NEW i \in 1..Len(P)
      PROVE  /\ R[i] = [signer |-> q, height |-> i, prev |-> R[i - 1], op |-> position(P[i])]
             /\ \A j \in 1..Len(P) : P[i] = P[j] => i = j
             /\ \A x \in V : position(x) \in links(P[i]) => x \in preceding(P, i)
  <2>1. P[i] \in W
    BY TrailHeights
  <2>2. position(new) \notin links(P[i])
    BY <2>1, PastStays
  <2> QED BY <2>2 DEF Trail
<1>3. Trail(P, R, q, V)
  BY <1>1, <1>2 DEF Trail
<1>4. ASSUME NEW k, Reached(k, P, R, W), ~ Covers(k, position(new))
      PROVE  Reached(k, P, R, V)
  <2> DEFINE h == k.sequence.height
  <2>1. h \in 0..Len(P) /\ Len(P) \in Nat /\ \A i \in 1..Len(P) : P[i] \in W
    BY <1>4, TrailHeights DEF Reached
  <2>2. preceding(P, h + 1) = {P[j] : j \in 1..h} /\ \A j \in 1..h : j \in 1..Len(P)
    <3> HIDE DEF h
    <3>1. h \in Nat /\ \A j \in 1..h : j \in 1..Len(P)
      BY <2>1
    <3> QED BY <3>1, FirstOnes
  <2>3. new \notin preceding(P, h + 1)
    <3> HIDE DEF h
    <3> QED BY <2>1, <2>2
  <2> QED BY <1>4, <2>3 DEF Reached
<1> QED BY <1>3, <1>4

\* P and R begin Q and T.
Lengthens(P, R, Q, T) == Begins(P, Q) /\ \A i \in 0..Len(P) : T[i] = R[i]

LEMMA TrailLengthens ==
  ASSUME NEW W, NEW q, NEW P, NEW R, Trail(P, R, q, W), NEW Q, NEW T, Trail(Q, T, q, W),
         Lengthens(P, R, Q, T), NEW s, OnTrail(s, P, R, q, W)
  PROVE  OnTrail(s, Q, T, q, W)
<1> DEFINE k == s.checkpoint
           h == k.sequence.height
<1>1. /\ Len(P) \in Nat /\ Len(Q) \in Nat /\ Len(P) <= Len(Q) /\ \A i \in 1..Len(P) : P[i] = Q[i]
      /\ \A i \in 0..Len(P) : T[i] = R[i] /\ P \in Seq(W) /\ Q \in Seq(W)
  BY TrailHeights DEF Lengthens, Begins, Trail
<1>2. /\ h \in 0..Len(P) /\ k.sequence = R[h] /\ k.data = marked(SubSeq(P, 1, h))
      /\ \A w \in W : Covers(k, position(w)) <=> w \in preceding(P, h + 1)
  BY DEF OnTrail, Reached
<1> HIDE DEF h, k
<1>3. h \in 0..Len(Q) /\ h \in Nat
  BY <1>1, <1>2
<1>4. preceding(P, h + 1) = preceding(Q, h + 1)
  <2>1. preceding(P, h + 1) = {P[j] : j \in 1..h} /\ preceding(Q, h + 1) = {Q[j] : j \in 1..h}
    BY <1>3, FirstOnes
  <2>2. \A j \in 1..h : P[j] = Q[j]
    BY <1>1, <1>2
  <2> QED BY <2>1, <2>2
<1>5. SubSeq(P, 1, h) = SubSeq(Q, 1, h)
  BY <1>1, <1>2, SameBeginning DEF Lengthens, Trail
<1>6. Reached(k, Q, T, W)
  BY <1>1, <1>2, <1>3, <1>4, <1>5 DEF Reached, h
<1>7. {R[i] : i \in 1..Len(P)} \subseteq {T[i] : i \in 1..Len(Q)}
  <2>1. \A i \in 1..Len(P) : i \in 1..Len(Q) /\ R[i] = T[i]
    BY <1>1
  <2> QED BY <2>1
<1> QED BY <1>6, <1>7 DEF OnTrail, k

\* A line is at the beginning of itself.
LEMMA LengthensItself ==
  ASSUME NEW W, NEW q, NEW P, NEW R, Trail(P, R, q, W)
  PROVE  Lengthens(P, R, P, R)
<1>1. Len(P) \in Nat
  BY TrailHeights
<1> QED BY <1>1 DEF Lengthens, Begins

\* A checkpoint that covers what another does ends no earlier on the line.
LEMMA ReachedOrdered ==
  ASSUME NEW W, NEW q, NEW P, NEW R, Trail(P, R, q, W), NEW k, Reached(k, P, R, W),
         NEW V, W \subseteq V, NEW Q, NEW T, Trail(Q, T, q, V), Lengthens(P, R, Q, T),
         NEW c, Reached(c, Q, T, V), \A w \in W : Covers(k, position(w)) => Covers(c, position(w))
  PROVE  k.sequence.height <= c.sequence.height
<1> DEFINE a == k.sequence.height
           b == c.sequence.height
<1>1. /\ Len(P) \in Nat /\ Len(Q) \in Nat /\ a \in 0..Len(P) /\ b \in 0..Len(Q)
      /\ \A i \in 1..Len(P) : P[i] \in W
  BY TrailHeights DEF Reached
<1>2. Len(P) <= Len(Q) /\ \A i \in 1..Len(P) : Q[i] = P[i]
  BY DEF Lengthens, Begins
<1>3. preceding(P, a + 1) = {P[j] : j \in 1..a} /\ preceding(Q, b + 1) = {Q[j] : j \in 1..b}
  <2> HIDE DEF a, b
  <2>1. a \in Nat /\ b \in Nat
    BY <1>1
  <2> QED BY <2>1, FirstOnes
<1> SUFFICES ASSUME ~ (a <= b) PROVE FALSE
  OBVIOUS
<1>4. P[a] \in preceding(P, a + 1) /\ a \in 1..Len(P) /\ a \in 1..Len(Q)
  <2>1. a \in 1..a /\ a \in 1..Len(P) /\ a \in 1..Len(Q)
    BY <1>1, <1>2
  <2> HIDE DEF a, b
  <2> QED BY <1>3, <2>1
<1>5. P[a] \in preceding(Q, b + 1)
  <2>1. P[a] \in W /\ P[a] \in V
    BY <1>1, <1>4
  <2>2. Covers(k, position(P[a]))
    BY <1>4, <2>1 DEF Reached
  <2> QED BY <2>1, <2>2 DEF Reached
<1>6. PICK j \in 1..b : P[a] = Q[j]
  <2> HIDE DEF a, b
  <2> QED BY <1>3, <1>5
<1>7. j \in 1..Len(Q) /\ Q[a] = Q[j]
  BY <1>1, <1>2, <1>4, <1>6
<1>8. a = j
  <2>1. \A x, y \in 1..Len(Q) : Q[x] = Q[y] => x = y
    BY DEF Trail
  <2> QED BY <1>4, <1>7, <2>1
<1> QED BY <1>1, <1>8

\* The first of a sequence, with what is after them.
LEMMA PartJoins ==
  ASSUME NEW W, NEW P \in Seq(W), NEW b \in Nat, NEW order \in Seq(W), NEW n, n = Len(order),
         b + n <= Len(P), \A i \in 1..n : order[i] = P[b + i]
  PROVE  SubSeq(P, 1, b + n) = SubSeq(P, 1, b) \o order
<1> DEFINE T == SubSeq(P, 1, b + n)
           U == SubSeq(P, 1, b)
<1>1. n \in Nat /\ b \in 0..Len(P) /\ b + n \in 0..Len(P)
  OBVIOUS
<1>6. /\ U \in Seq(W) /\ Len(U) = b /\ \A i \in 1..b : U[i] = P[i]
      /\ T \in Seq(W) /\ Len(T) = b + n /\ \A i \in 1..b + n : T[i] = P[i]
  BY <1>1, FirstPart
<1> HIDE DEF T, U
<1> DEFINE r == U \o order
<1>2. /\ r \in Seq(W) /\ Len(r) = b + n
      /\ \A i \in 1..b : r[i] = U[i]
      /\ \A i \in 1..n : r[b + i] = order[i]
  <2>1. /\ r \in Seq(W) /\ Len(r) = Len(U) + Len(order)
        /\ \A i \in 1..Len(U) : r[i] = U[i]
        /\ \A i \in 1..Len(order) : r[Len(U) + i] = order[i]
    <3>1. U \in Seq(W)
      BY <1>6
    <3>2. \A u \in Seq(W) : \A v \in Seq(W) :
            /\ u \o v \in Seq(W) /\ Len(u \o v) = Len(u) + Len(v)
            /\ \A i \in 1..Len(u) : (u \o v)[i] = u[i]
            /\ \A i \in 1..Len(v) : (u \o v)[Len(u) + i] = v[i]
      BY Concatenated
    <3>3. /\ U \o order \in Seq(W) /\ Len(U \o order) = Len(U) + Len(order)
          /\ \A i \in 1..Len(U) : (U \o order)[i] = U[i]
          /\ \A i \in 1..Len(order) : (U \o order)[Len(U) + i] = order[i]
      BY <3>1, <3>2, Zenon
    <3> QED BY <3>3
  <2> HIDE DEF r
  <2> QED BY <1>6, <2>1
<1> HIDE DEF r
<1>3. ASSUME NEW i \in 1..b + n PROVE T[i] = r[i]
  <2>1. CASE i <= b
    <3>1. i \in 1..b
      BY <1>1, <2>1
    <3> QED BY <1>2, <1>6, <3>1
  <2>2. CASE ~ (i <= b)
    <3>1. i - b \in 1..n /\ b + (i - b) = i
      BY <1>1, <2>2, Beyond
    <3>2. r[b + (i - b)] = order[i - b] /\ order[i - b] = P[b + (i - b)]
      BY <1>2, <3>1
    <3> QED BY <1>6, <3>1, <3>2
  <2> QED BY <2>1, <2>2
<1>4. T = r
  BY <1>2, <1>3, <1>6, SeqEqual
<1> QED BY <1>4 DEF T, U, r

\* What a state has settled are the marks of what begins the line.
LEMMA SettledTrail ==
  ASSUME NEW W, NEW q, NEW P, NEW R, Trail(P, R, q, W), NEW s, OnTrail(s, P, R, q, W),
         GoodOperations(W), \A op \in s.ops : apply(s, op) = [op |-> op, refused |-> FALSE],
         NEW n, PlacesTo(s, P, R, n)
  PROVE  settled(s) = marked(SubSeq(P, 1, s.checkpoint.sequence.height + n))
<1> DEFINE stable == StablePoint(s, Order(s))
           order == sequenced(s).order
           b == s.checkpoint.sequence.height
           T == SubSeq(P, 1, b + n)
<1>1. stable = order
  <2>1. sequenceOpen(s)
    BY DEF OnTrail, Led, sequenceOpen
  <2> QED BY <2>1, Zenon DEF StablePoint
<1>2. /\ n \in Nat /\ b + n <= Len(P) /\ Len(order) = n /\ \A i \in 1..n : order[i] = P[b + i]
      /\ P \in Seq(W) /\ b \in Nat /\ Len(P) \in Nat
      /\ s.checkpoint.data = marked(SubSeq(P, 1, b)) /\ s.ops \subseteq W
  BY TrailHeights DEF PlacesTo, Trail, OnTrail, Reached, GoodState, Above
<1>3. order \in Seq(s.ops)
  BY GoodIsPlaceable, SequencedType DEF Sequenced, OnTrail
<1>4. order \in Seq(W)
  BY <1>2, <1>3, SeqMonotonic
<1>5. b \in 0..Len(P) /\ b + n \in 0..Len(P)
  BY <1>2
<1>6. /\ SubSeq(P, 1, b) \in Seq(W) /\ Len(SubSeq(P, 1, b)) = b /\ \A i \in 1..b : SubSeq(P, 1, b)[i] = P[i]
      /\ T \in Seq(W) /\ Len(T) = b + n /\ \A i \in 1..b + n : T[i] = P[i]
  <2> HIDE DEF b
  <2> QED BY <1>2, <1>5, FirstPart
<1> DEFINE U == SubSeq(P, 1, b)
<1> HIDE DEF stable, order, U, T, b
<1>7. T = U \o order
  <2>1. /\ P \in Seq(W) /\ b \in Nat /\ order \in Seq(W) /\ n = Len(order)
        /\ b + n <= Len(P) /\ \A i \in 1..n : order[i] = P[b + i]
    BY <1>2, <1>4
  <2> QED BY <2>1, PartJoins DEF U, T
<1>8. marked(T) = marked(U) \o marked(order)
  BY <1>4, <1>6, <1>7, MarkedJoins DEF U
<1>9. [i \in DOMAIN order |-> apply(s, order[i])] = admitted(order)
  <2>1. DOMAIN order = 1..Len(order) /\ \A i \in 1..Len(order) : order[i] \in s.ops
    BY <1>3
  <2>2. \A i \in 1..Len(order) : apply(s, order[i]) = [op |-> order[i], refused |-> FALSE]
    BY <2>1
  <2> QED BY <2>1, <2>2 DEF admitted
<1>10. settled(s) = s.checkpoint.data \o marked(order)
  BY <1>1, <1>9 DEF settled, stable, marked
<1> QED BY <1>2, <1>8, <1>10 DEF U, T, b

\* A state that keeps what another places, under a checkpoint that covers no less, places
\* as far.
LEMMA PlacesAsFar ==
  ASSUME NEW W, NEW q, NEW P, NEW R, Trail(P, R, q, W), NEW s, OnTrail(s, P, R, q, W),
         NEW n, PlacesTo(s, P, R, n), GoodOperations(W),
         NEW V, W \subseteq V, NEW Q, NEW T, Trail(Q, T, q, V), Lengthens(P, R, Q, T), NEW t, OnTrail(t, Q, T, q, V),
         NEW m, PlacesTo(t, Q, T, m),
         s.checkpoint.sequence.height <= t.checkpoint.sequence.height,
         \A x \in W : x \in s.ops => x \in t.ops \/ Covers(t.checkpoint, position(x)),
         \A r \in s.sequence : r \in t.sequence \/ r.height <= t.checkpoint.sequence.height
  PROVE  s.checkpoint.sequence.height + n <= t.checkpoint.sequence.height + m
<1> DEFINE b == s.checkpoint.sequence.height
           c == t.checkpoint.sequence.height
           j == c + m + 1
           order == sequenced(s).order
<1>1. /\ n \in Nat /\ b + n <= Len(P) /\ \A i \in 1..n : order[i] = P[b + i] /\ R[b + i] \in s.sequence
      /\ Len(order) = n /\ b \in Nat /\ Len(P) \in Nat
      /\ m \in Nat /\ c + m <= Len(Q) /\ c \in Nat /\ Len(Q) \in Nat /\ Len(P) <= Len(Q)
      /\ \A i \in 1..Len(P) : P[i] = Q[i] /\ R[i] = T[i]
      /\ \A i \in 1..Len(Q) : Q[i] \in V /\ T[i].height = i
      /\ \A i \in 1..Len(P) : P[i] \in W
      /\ b <= c
  BY TrailHeights DEF PlacesTo, OnTrail, Reached, Lengthens, Begins
<1>2. c + m < Len(Q) => T[c + m + 1] \notin t.sequence \/ Q[c + m + 1] \notin t.ops
  BY DEF PlacesTo
<1>3. \A i, l \in 1..Len(Q) : Q[i] = Q[l] => i = l
  BY DEF Trail
<1>4. \A w \in V : Covers(t.checkpoint, position(w)) <=> w \in {Q[i] : i \in 1..c}
  <2>1. c \in Nat
    BY <1>1
  <2>2. preceding(Q, c + 1) = {Q[i] : i \in 1..c}
    BY <2>1, FirstOnes
  <2> QED BY <2>2 DEF OnTrail, Reached
<1>5. order \in Seq(s.ops)
  BY GoodIsPlaceable, SequencedType DEF Sequenced, OnTrail
<1> HIDE DEF b, c, order
<1> SUFFICES ASSUME ~ (b + n <= c + m) PROVE FALSE
  BY DEF b, c
<1>6. j \in 1..Len(P) /\ j \in 1..Len(Q) /\ c + m < Len(Q) /\ ~ (j <= c) /\ j - b \in 1..n /\ b + (j - b) = j
  BY <1>1
<1>7. Q[j] \in s.ops /\ R[j] \in s.sequence /\ Q[j] \in W
  <2>1. order[j - b] = P[j] /\ R[j] \in s.sequence
    BY <1>1, <1>6
  <2>2. order[j - b] \in s.ops
    BY <1>1, <1>5, <1>6
  <2> HIDE DEF j
  <2> QED BY <1>1, <1>6, <2>1, <2>2
<1>8. T[j] \in t.sequence
  <2>1. T[j] = R[j] /\ T[j].height = j
    BY <1>1, <1>6
  <2> HIDE DEF j
  <2> QED BY <1>6, <1>7, <2>1 DEF c
<1>9. Q[j] \in t.ops
  <2> SUFFICES ASSUME Covers(t.checkpoint, position(Q[j])) PROVE FALSE
    BY <1>7
  <2>1. Q[j] \in V
    BY <1>1, <1>6
  <2>2. PICK i \in 1..c : Q[j] = Q[i]
    BY <1>4, <2>1
  <2>3. i \in 1..Len(Q)
    BY <1>1
  <2>4. i = j
    <3> HIDE DEF j
    <3> QED BY <1>3, <1>6, <2>2, <2>3
  <2> QED BY <1>1, <1>6, <2>4
<1> QED BY <1>2, <1>6, <1>8, <1>9

\* A state with all the records above its checkpoint.
Full(s, P, R) == \A i \in 1..Len(P) : i <= s.checkpoint.sequence.height \/ R[i] \in s.sequence

\* The line with what a state orders above its checkpoint at its end.
LEMMA OrderContinues ==
  ASSUME NEW W, GoodOperations(W), Named(W), Descending(W), NEW q, NEW P, NEW R, Trail(P, R, q, W),
         NEW s, OnTrail(s, P, R, q, W), NEW b, b = s.checkpoint.sequence.height,
         NEW Q \in Seq(W), Len(Q) = b + Len(Order(s)), \A i \in 1..b : Q[i] = P[i],
         \A j \in 1..Len(Order(s)) : Q[b + j] = Order(s)[j]
  PROVE  \A i \in 1..Len(Q) : /\ \A j \in 1..Len(Q) : Q[i] = Q[j] => i = j
                              /\ \A x \in W : position(x) \in links(Q[i]) => x \in preceding(Q, i)
<1> DEFINE o == Order(s)
<1>1. /\ o \in Seq(s.ops) /\ Linked(s, o) /\ Len(o) \in Nat /\ \A j \in 1..Len(o) : o[j] \in s.ops
      /\ s.ops \subseteq W /\ \A x \in s.ops : ~ Covers(s.checkpoint, position(x))
  <2>1. o \in Seq(s.ops) /\ Linked(s, o)
    BY GoodIsPlaceable, OrderType DEF OnTrail
  <2> HIDE DEF o
  <2> QED BY <2>1 DEF OnTrail, GoodState, Above
<1>2. /\ Len(P) \in Nat /\ b \in Nat /\ b <= Len(P) /\ \A i \in 1..Len(P) : P[i] \in W
      /\ \A w \in W : Covers(s.checkpoint, position(w)) <=> w \in preceding(P, b + 1)
  BY TrailHeights DEF OnTrail, Reached
<1>3. preceding(P, b + 1) = {P[i] : i \in 1..b}
  BY <1>2, FirstOnes
<1> HIDE DEF o
<1>4. /\ \A i \in 1..b : Q[i] = P[i]
      /\ \A j \in 1..Len(o) : Q[b + j] = o[j]
      /\ Len(Q) = b + Len(o)
  BY DEF o
<1>5. \A i \in 1..Len(Q) : i \in 1..b \/ (i - b \in 1..Len(o) /\ b + (i - b) = i /\ Q[i] = o[i - b])
  <2> SUFFICES ASSUME NEW i \in 1..Len(Q), ~ (i <= b)
               PROVE  i - b \in 1..Len(o) /\ b + (i - b) = i /\ Q[i] = o[i - b]
    BY <1>2
  <2>1. i - b \in 1..Len(o) /\ b + (i - b) = i
    <3>1. b \in Nat /\ Len(o) \in Nat /\ i \in 1..(b + Len(o))
      BY <1>1, <1>2, <1>4
    <3> QED BY <3>1, Beyond
  <2> QED BY <1>4, <2>1
<1>6. ASSUME NEW i \in 1..b PROVE i \in 1..Len(P) /\ Q[i] = P[i] /\ P[i] \in W /\ Covers(s.checkpoint, position(P[i]))
  <2>1. i \in 1..Len(P)
    BY <1>2
  <2>2. P[i] \in preceding(P, b + 1)
    BY <1>3
  <2> QED BY <1>2, <1>4, <2>1, <2>2
<1>7. ASSUME NEW i \in 1..Len(Q), NEW j \in 1..Len(Q), Q[i] = Q[j] PROVE i = j
  <2>1. CASE i \in 1..b /\ j \in 1..b
    <3>1. P[i] = P[j] /\ i \in 1..Len(P) /\ j \in 1..Len(P)
      BY <1>6, <1>7, <2>1
    <3> QED BY <3>1 DEF Trail
  <2>2. CASE i \in 1..b /\ ~ (j \in 1..b)
    <3>1. Q[j] \in s.ops /\ Covers(s.checkpoint, position(Q[i]))
      BY <1>1, <1>5, <1>6, <2>2
    <3> QED BY <1>1, <1>7, <3>1
  <2>3. CASE ~ (i \in 1..b) /\ j \in 1..b
    <3>1. Q[i] \in s.ops /\ Covers(s.checkpoint, position(Q[j]))
      BY <1>1, <1>5, <1>6, <2>3
    <3> QED BY <1>1, <1>7, <3>1
  <2>4. CASE ~ (i \in 1..b) /\ ~ (j \in 1..b)
    <3>1. o[i - b] = o[j - b] /\ i - b \in 1..Len(o) /\ j - b \in 1..Len(o) /\ b + (i - b) = i /\ b + (j - b) = j
      BY <1>5, <1>7, <2>4
    <3>2. i - b = j - b
      BY <1>1, <3>1 DEF Linked
    <3> QED BY <3>1, <3>2
  <2> QED BY <2>1, <2>2, <2>3, <2>4
<1>8. ASSUME NEW i \in 1..Len(Q), NEW x \in W, position(x) \in links(Q[i]) PROVE x \in preceding(Q, i)
  <2>1. CASE i \in 1..b
    <3>1. x \in preceding(P, i)
      BY <1>6, <1>8, <2>1 DEF Trail
    <3>2. PICK j \in 1..(i - 1) : x = P[j]
      BY <3>1 DEF preceding
    <3>3. j \in 1..b
      BY <1>2, <2>1
    <3> QED BY <1>6, <3>2, <3>3 DEF preceding
  <2>2. CASE ~ (i \in 1..b)
    <3>1. i - b \in 1..Len(o) /\ b + (i - b) = i /\ Q[i] = o[i - b]
      BY <1>5, <2>2
    <3>2. CASE Covers(s.checkpoint, position(x))
      <4>1. PICK j \in 1..b : x = P[j]
        BY <1>2, <1>3, <3>2
      <4>2. j \in 1..(i - 1)
        <5>1. b \in Nat /\ i \in Nat /\ ~ (i <= b)
          BY <1>2, <2>2
        <5> QED BY <5>1
      <4> QED BY <1>6, <4>1, <4>2 DEF preceding
    <3>3. CASE ~ Covers(s.checkpoint, position(x))
      <4>1. position(x) \in openLinks(s, o[i - b])
        BY <1>8, <3>1, <3>3 DEF openLinks
      <4>2. PICK j \in 1..(i - b - 1) : position(o[j]) = position(x)
        BY <1>1, <3>1, <4>1 DEF Linked
      <4>3. j \in 1..Len(o) /\ b + j \in 1..(i - 1)
        <5>1. b \in Nat /\ i \in Nat /\ Len(o) \in Nat /\ j \in 1..(i - b - 1) /\ i - b \in 1..Len(o)
          BY <1>1, <1>2, <3>1
        <5>2. b + j \in 1..(i - 1)
          BY <5>1, Before
        <5>3. j \in 1..Len(o)
          BY <5>1, Within
        <5> QED BY <5>2, <5>3
      <4>4. o[j] = x
        BY <1>1, <4>2, <4>3 DEF Named
      <4>5. Q[b + j] = x
        BY <1>4, <4>3, <4>4
      <4> QED BY <4>3, <4>5 DEF preceding
    <3> QED BY <3>2, <3>3
  <2> QED BY <2>1, <2>2
<1> QED BY <1>7, <1>8

\* Where q holds all the records above its checkpoint, what it places is after them.
LEMMA PlacingOn ==
  ASSUME NEW W, GoodOperations(W), Named(W), Descending(W), NEW q, NEW P, NEW R, Trail(P, R, q, W),
         NEW s, OnTrail(s, P, R, q, W), Full(s, P, R), NEW t, t = sequenceOperations(s, q)
  PROVE  \E Q, T : /\ Trail(Q, T, q, W) /\ Lengthens(P, R, Q, T) /\ OnTrail(t, Q, T, q, W) /\ Full(t, Q, T)
                   /\ s.sequence \subseteq t.sequence
<1>1. CASE t = s
  <2>1. Lengthens(P, R, P, R)
    BY TrailHeights DEF Lengthens, Begins
  <2> QED BY <1>1, <2>1
<1>2. CASE t # s
  <2> DEFINE o == Order(s)
             rest == unplaced(s)
             b == s.checkpoint.sequence.height
             k == Len(rest)
             tail == sequenced(s).tail
  <2>1. rest \in Seq(s.ops) /\ extends(s, q)
    BY <1>2, GoodIsPlaceable, SequenceOperationsSigns DEF OnTrail
  <2>2. PICK f : /\ SignedOn(f, s, q)
                 /\ t = [s EXCEPT !.sequence = @ \cup {f[i] : i \in 1..k}]
    BY <1>2, GoodIsPlaceable, SequenceOperationsSigns DEF OnTrail
  <2>3. PICK n : PlacesTo(s, P, R, n)
    BY TrailPlaces
  <2>4. /\ Len(P) \in Nat /\ b \in Nat /\ b <= Len(P) /\ P \in Seq(W)
        /\ \A i \in 0..Len(P) : R[i].height = i
        /\ \A i \in 1..Len(P) : R[i] = [signer |-> q, height |-> i, prev |-> R[i - 1], op |-> position(P[i])]
        /\ R[0] = NoPosition
    <3>1. /\ Len(P) \in Nat /\ b \in Nat /\ b <= Len(P)
          /\ \A i \in 0..Len(P) : R[i].height = i
      BY TrailHeights DEF OnTrail, Reached
    <3> QED BY <3>1 DEF Trail
  <2>5. /\ n \in Nat /\ b + n <= Len(P) /\ Len(sequenced(s).order) = n
        /\ \A i \in 1..n : sequenced(s).order[i] = P[b + i]
        /\ tail = R[b + n]
        /\ sequenced(s).complete /\ b + n < Len(P) => R[b + n + 1] \notin s.sequence
    BY <2>3 DEF PlacesTo
  <2>6. b + n = Len(P)
    <3> SUFFICES ASSUME b + n < Len(P) PROVE FALSE
      BY <2>4, <2>5
    <3>1. R[b + n + 1] \notin s.sequence
      BY <2>1, <2>5 DEF extends
    <3>2. b + n + 1 \in 1..Len(P) /\ ~ (b + n + 1 <= b)
      BY <2>4, <2>5
    <3> HIDE DEF b
    <3> QED BY <3>1, <3>2 DEF Full, b
  <2>7. /\ o \in Seq(s.ops) /\ Len(o) \in Nat /\ n <= Len(o)
        /\ \A i \in 1..n : o[i] = P[b + i]
        /\ s.ops \subseteq W
    <3>1. o \in Seq(s.ops) /\ Begins(sequenced(s).order, o)
      BY GoodIsPlaceable, OrderType DEF OnTrail
    <3> HIDE DEF o, b
    <3> QED BY <2>5, <3>1 DEF Begins, OnTrail, GoodState, Above
  <2>8. k = Len(o) - n /\ k \in Nat /\ \A i \in 1..k : rest[i] = o[n + i]
    <3>1. rest = SubSeq(o, n + 1, Len(o))
      BY <2>5 DEF unplaced
    <3> HIDE DEF rest, o
    <3> QED BY <2>5, <2>7, <3>1
  <2>9. rest \in Seq(W)
    BY <2>1, <2>7, SeqMonotonic
  <2>10. /\ f[0] = tail
         /\ \A i \in 1..k : f[i] = [signer |-> q, height |-> tail.height + i, prev |-> f[i - 1], op |-> position(rest[i])]
    BY <2>2 DEF SignedOn
  <2> HIDE DEF rest, o, b, tail, k
  <2> DEFINE Q == P \o rest
             T == [i \in 0..Len(P) + k |-> IF i <= Len(P) THEN R[i] ELSE f[i - Len(P)]]
  <2>11. /\ Q \in Seq(W) /\ Len(Q) = Len(P) + k
         /\ \A i \in 1..Len(P) : Q[i] = P[i]
         /\ \A i \in 1..k : Q[Len(P) + i] = rest[i]
    <3>1. Len(rest) = k /\ k \in Nat
      BY <2>8 DEF k
    <3>2. P \in Seq(W)
      BY <2>4
    <3>3. /\ Q \in Seq(W) /\ Len(Q) = Len(P) + Len(rest)
          /\ \A i \in 1..Len(P) : Q[i] = P[i]
          /\ \A i \in 1..Len(rest) : Q[Len(P) + i] = rest[i]
      BY <2>9, <3>2, Concatenated
    <3> HIDE DEF Q
    <3> QED BY <3>1, <3>3
  <2>12. /\ \A i \in 0..Len(P) : T[i] = R[i]
         /\ \A i \in 1..k : T[Len(P) + i] = f[i]
    <3>1. \A i \in 0..Len(P) : i \in 0..Len(P) + k /\ i <= Len(P)
      BY <2>4, <2>8
    <3>2. \A i \in 1..k : /\ Len(P) + i \in 0..Len(P) + k /\ ~ (Len(P) + i <= Len(P))
                          /\ Len(P) + i - Len(P) = i
      BY <2>4, <2>8
    <3> QED BY <3>1, <3>2
  <2> HIDE DEF Q, T
  <2>13. \A i \in 1..Len(Q) : \/ i \in 1..Len(P)
                              \/ i - Len(P) \in 1..k /\ Len(P) + (i - Len(P)) = i
    BY <2>4, <2>8, <2>11
  <2>14. ASSUME NEW i \in 1..Len(Q)
         PROVE  T[i] = [signer |-> q, height |-> i, prev |-> T[i - 1], op |-> position(Q[i])]
    <3>1. CASE i \in 1..Len(P)
      <4>1. i \in 0..Len(P) /\ i - 1 \in 0..Len(P)
        BY <2>4, <3>1
      <4> QED BY <2>4, <2>11, <2>12, <3>1, <4>1
    <3>2. CASE i - Len(P) \in 1..k /\ Len(P) + (i - Len(P)) = i
      <4> DEFINE j == i - Len(P)
      <4>1. j \in 1..k /\ Len(P) + j = i
        BY <3>2
      <4> HIDE DEF j
      <4>2. tail.height = Len(P)
        BY <2>4, <2>5, <2>6
      <4>3. T[i] = f[j] /\ Q[i] = rest[j]
        BY <2>11, <2>12, <4>1
      <4>4. f[j] = [signer |-> q, height |-> i, prev |-> f[j - 1], op |-> position(rest[j])]
        BY <2>10, <4>1, <4>2
      <4>5. T[i - 1] = f[j - 1]
        <5>1. CASE j = 1
          <6>1. i - 1 = Len(P) /\ j - 1 = 0 /\ Len(P) \in 0..Len(P)
            BY <2>4, <4>1, <5>1
          <6>2. T[Len(P)] = R[Len(P)] /\ f[0] = R[Len(P)]
            BY <2>5, <2>6, <2>10, <2>12, <6>1
          <6> QED BY <6>1, <6>2
        <5>2. CASE j # 1
          <6>1. j - 1 \in 1..k /\ Len(P) + (j - 1) = i - 1
            BY <2>4, <2>8, <4>1, <5>2
          <6> QED BY <2>12, <6>1
        <5> QED BY <5>1, <5>2
      <4> QED BY <4>3, <4>4, <4>5
    <3> QED BY <2>13, <3>1, <3>2
  <2>15. \A i \in 1..Len(Q) : /\ \A j \in 1..Len(Q) : Q[i] = Q[j] => i = j
                              /\ \A x \in W : position(x) \in links(Q[i]) => x \in preceding(Q, i)
    <3>1. \A i \in 1..b : i \in 1..Len(P)
      BY <2>4
    <3>2. Len(Q) = b + Len(o)
      BY <2>4, <2>5, <2>6, <2>7, <2>8, <2>11
    <3>3. ASSUME NEW j \in 1..Len(o) PROVE Q[b + j] = o[j]
      <4>1. CASE j <= n
        <5>1. j \in 1..n /\ b + j \in 1..Len(P)
          BY <2>4, <2>5, <2>6, <4>1
        <5> QED BY <2>7, <2>11, <5>1
      <4>2. CASE ~ (j <= n)
        <5>1. j - n \in 1..k /\ Len(P) + (j - n) = b + j /\ n + (j - n) = j
          <6>1. n \in Nat /\ k \in Nat /\ j \in 1..(n + k) /\ ~ (j <= n)
            BY <2>5, <2>7, <2>8, <4>2
          <6>2. j - n \in 1..k /\ n + (j - n) = j
            BY <6>1, Beyond
          <6>3. b \in Nat /\ b + n = Len(P)
            BY <2>4, <2>6
          <6> QED BY <6>1, <6>2, <6>3
        <5>2. Q[Len(P) + (j - n)] = rest[j - n] /\ rest[j - n] = o[n + (j - n)]
          BY <2>8, <2>11, <5>1
        <5> QED BY <5>1, <5>2
      <4> QED BY <4>1, <4>2
    <3>4. \A i \in 1..b : Q[i] = P[i]
      BY <2>11, <3>1
    <3>5. Q \in Seq(W) /\ b = s.checkpoint.sequence.height
      BY <2>11 DEF b
    <3>6. Len(Q) = b + Len(Order(s)) /\ \A j \in 1..Len(Order(s)) : Q[b + j] = Order(s)[j]
      BY <3>2, <3>3 DEF o
    <3> HIDE DEF b
    <3> QED BY <3>4, <3>5, <3>6, OrderContinues
  <2>16. Trail(Q, T, q, W)
    <3>1. T[0] = NoPosition
      <4>1. 0 \in 0..Len(P)
        BY <2>4
      <4> QED BY <2>4, <2>12, <4>1
    <3> QED BY <2>11, <2>14, <2>15, <3>1 DEF Trail
  <2>17. Lengthens(P, R, Q, T)
    <3>1. Len(P) <= Len(Q)
      BY <2>4, <2>8, <2>11
    <3> QED BY <2>11, <2>12, <3>1 DEF Lengthens, Begins
  <2>18. OnTrail(s, Q, T, q, W)
    BY <2>16, <2>17, TrailLengthens
  <2>19. /\ GoodState(t, W) /\ t.config = s.config /\ t.checkpoint = s.checkpoint
         /\ t.sequence = s.sequence \cup {f[i] : i \in 1..k}
    <3>1. GoodState(s, W) /\ DOMAIN s = Fields
      BY DEF OnTrail, GoodState
    <3>2. t.sequence = s.sequence \cup {f[i] : i \in 1..k}
      BY <2>2, <3>1 DEF Fields
    <3> QED BY <3>1, <3>2, SequencedGood
  <2>20. \A i \in 1..k : Len(P) + i \in 1..Len(Q) /\ f[i] = T[Len(P) + i]
    BY <2>4, <2>8, <2>11, <2>12
  <2>21. OnTrail(t, Q, T, q, W)
    <3>1. t.sequence \subseteq {T[i] : i \in 1..Len(Q)}
      <4>1. s.sequence \subseteq {T[i] : i \in 1..Len(Q)}
        BY <2>18 DEF OnTrail
      <4> QED BY <2>19, <2>20, <4>1
    <3> QED BY <2>18, <2>19, <3>1 DEF OnTrail, Led
  <2>22. Full(t, Q, T)
    <3> SUFFICES ASSUME NEW i \in 1..Len(Q) PROVE i <= b \/ T[i] \in t.sequence
      BY <2>19 DEF Full, b
    <3>1. CASE i \in 1..Len(P)
      <4>1. i <= b \/ R[i] \in s.sequence
        BY <3>1 DEF Full, b
      <4>2. T[i] = R[i]
        <5>1. i \in 0..Len(P)
          BY <2>4, <3>1
        <5> QED BY <2>12, <5>1
      <4> QED BY <2>19, <4>1, <4>2
    <3>2. CASE i - Len(P) \in 1..k /\ Len(P) + (i - Len(P)) = i
      <4>1. T[i] = f[i - Len(P)]
        BY <2>12, <3>2
      <4> QED BY <2>19, <3>2, <4>1
    <3> QED BY <2>13, <3>1, <3>2
  <2> QED BY <2>16, <2>17, <2>19, <2>21, <2>22
<1> QED BY <1>1, <1>2

\* A state that learns what another holds.
LEMMA TrailMerges ==
  ASSUME NEW W, GoodOperations(W), NEW q, NEW P, NEW R, Trail(P, R, q, W),
         NEW s, OnTrail(s, P, R, q, W), NEW c, OnTrail(c, P, R, q, W), NEW t, t = mergeSnapshot(s, c),
         \A w \in W : Covers(s.checkpoint, position(w)) => Covers(t.checkpoint, position(w))
  PROVE  /\ OnTrail(t, P, R, q, W)
         /\ \A r \in s.sequence : r \in t.sequence \/ r.height <= t.checkpoint.sequence.height
         /\ Full(s, P, R) => Full(t, P, R)
<1> DEFINE u == [s EXCEPT !.config = c.config]
           v == adoptCheckpoint(u, c.checkpoint)
           k == t.checkpoint
<1>1. /\ GoodState(s, W) /\ GoodState(c, W) /\ GoodState(t, W) /\ t.config = c.config /\ DOMAIN s = Fields
      /\ k = IF c.checkpoint.height <= s.checkpoint.height THEN s.checkpoint ELSE c.checkpoint
      /\ c.config.sequencer = q /\ s.sequence \subseteq {R[i] : i \in 1..Len(P)}
      /\ c.sequence \subseteq {R[i] : i \in 1..Len(P)}
  <2>1. GoodState(s, W) /\ GoodState(c, W)
    BY DEF OnTrail
  <2> QED BY <2>1, MergedGood, MergedHeld DEF OnTrail, Led, GoodState
<1>2. u.sequence = s.sequence /\ u.checkpoint = s.checkpoint /\ u.config = c.config /\ DOMAIN u = Fields
  BY <1>1 DEF Fields
<1>3. /\ v.sequence \subseteq s.sequence
      /\ \A r \in s.sequence : r.signer = q /\ r.height > k.sequence.height => r \in v.sequence
      /\ DOMAIN v = Fields
  <2>1. CASE c.checkpoint.height <= s.checkpoint.height
    <3>1. v = u
      <4> HIDE DEF u
      <4> QED BY <1>2, <2>1 DEF adoptCheckpoint
    <3> QED BY <1>2, <3>1
  <2>2. CASE ~ (c.checkpoint.height <= s.checkpoint.height)
    <3> DEFINE left == [u EXCEPT !.checkpoint = c.checkpoint,
                                 !.ops = {op \in @ : ~Covers(c.checkpoint, position(op))}]
    <3>1. v = [left EXCEPT !.sequence = {r \in @ : accounted(left, r)}]
      <4> HIDE DEF u
      <4> QED BY <1>2, <2>2 DEF adoptCheckpoint
    <3>2. /\ left.sequence = s.sequence /\ left.checkpoint = k /\ left.config = c.config
          /\ DOMAIN left = Fields
      <4> HIDE DEF u, k
      <4> QED BY <1>1, <1>2, <2>2 DEF Fields
    <3> HIDE DEF left, v, k, u
    <3>3. v.sequence = {r \in s.sequence : accounted(left, r)} /\ DOMAIN v = Fields
      BY <3>1, <3>2 DEF Fields
    <3> QED BY <1>1, <3>2, <3>3 DEF accounted
  <2> QED BY <2>1, <2>2
<1>4. t.sequence = v.sequence \cup {r \in c.sequence : accounted(v, r)}
  <2>1. t = [v EXCEPT !.ops = @ \cup {op \in c.ops : ~Covers(v.checkpoint, position(op))},
                      !.sequence = @ \cup {r \in c.sequence : accounted(v, r)}]
    BY DEF mergeSnapshot
  <2> HIDE DEF v
  <2> QED BY <1>3, <2>1 DEF Fields
<1> HIDE DEF u, v
<1>5. t.sequence \subseteq {R[i] : i \in 1..Len(P)}
  BY <1>1, <1>3, <1>4
<1>6. Reached(k, P, R, W)
  BY <1>1 DEF OnTrail
<1>7. OnTrail(t, P, R, q, W)
  BY <1>1, <1>5, <1>6 DEF OnTrail, Led
<1>8. s.checkpoint.sequence.height <= k.sequence.height
  BY <1>6, ReachedOrdered, LengthensItself DEF OnTrail
<1>9. \A i \in 0..Len(P) : R[i].height = i
  BY TrailHeights
<1>10. \A i \in 1..Len(P) : R[i].signer = q /\ R[i].height = i
  BY TrailHeights
<1>11. Len(P) \in Nat /\ k.sequence.height \in Nat /\ s.checkpoint.sequence.height \in Nat
  BY <1>6, TrailHeights DEF OnTrail, Reached
<1>12. ASSUME NEW r \in s.sequence PROVE r \in t.sequence \/ r.height <= k.sequence.height
  <2>1. PICK i \in 1..Len(P) : r = R[i]
    BY <1>1
  <2>2. r.signer = q /\ r.height \in Nat
    BY <1>10, <1>11, <2>1
  <2> QED BY <1>3, <1>4, <1>11, <2>2
<1>13. ASSUME Full(s, P, R), NEW i \in 1..Len(P) PROVE i <= k.sequence.height \/ R[i] \in t.sequence
  <2>1. i <= s.checkpoint.sequence.height \/ R[i] \in s.sequence
    BY <1>13 DEF Full
  <2>2. R[i].height = i
    BY <1>10
  <2> HIDE DEF k
  <2> QED BY <1>8, <1>11, <1>12, <2>1, <2>2
<1> QED BY <1>7, <1>12, <1>13 DEF Full

\* What signing a checkpoint over what is stable leaves.
LEMMA SignedFacts ==
  ASSUME NEW W, GoodOperations(W), Counted(W), \A w \in W : singleIn(w, W),
         NEW s, GoodState(s, W), NEW c, c.prefix \in Seq(W), c.height = s.checkpoint.height,
         IsPrefix(c.prefix, StablePoint(s, Order(s))),
         NEW k, k = stableCheckpoint(s, c), NEW t, t = adoptCheckpoint(s, k)
  PROVE  /\ GoodState(t, W) /\ t.checkpoint = k /\ t.config = s.config
         /\ Begins(c.prefix, StablePoint(s, Order(s)))
         /\ \A w \in W : Covers(k, position(w)) <=> Covers(s.checkpoint, position(w)) \/ w \in Range(c.prefix)
         /\ t.sequence = {r \in s.sequence : /\ r.height > k.sequence.height
                                             /\ r.height <= s.config.start.height \/ r.signer = s.config.sequencer}
<1> DEFINE stable == StablePoint(s, Order(s))
<1>1. stable \in Seq(s.ops) /\ Begins(stable, Order(s)) /\ Order(s) \in Seq(s.ops)
  BY GoodIsPlaceable, StableType, OrderType
<1>2. Begins(c.prefix, stable) /\ Range(c.prefix) \subseteq s.ops /\ Begins(c.prefix, Order(s))
  <2> HIDE DEF stable
  <2>1. Begins(c.prefix, stable) /\ Range(c.prefix) \subseteq s.ops
    BY <1>1, PrefixHeld DEF stable
  <2>2. Len(stable) \in Nat /\ Len(Order(s)) \in Nat /\ Len(c.prefix) \in Nat
    BY <1>1
  <2> QED BY <1>1, <2>1, <2>2 DEF Begins
<1>3. \A a \in Devices : s.checkpoint.authors[a].nonce <= t.checkpoint.authors[a].nonce
  BY <1>2, SignedHeld
<1>4. k.height = s.checkpoint.height + 1 /\ s.checkpoint.height \in Nat
  BY DEF stableCheckpoint, GoodState, GoodCheckpoint
<1>5. GoodState(t, W) /\ t.config = s.config
  <2>1. GoodCheckpoint(k, W)
    BY StableCheckpointGood
  <2> QED BY <2>1, AdoptedGood
<1> DEFINE left == [s EXCEPT !.checkpoint = k, !.ops = {op \in @ : ~Covers(k, position(op))}]
<1>6. t = [left EXCEPT !.sequence = {r \in @ : accounted(left, r)}]
  BY <1>4 DEF adoptCheckpoint
<1>7. /\ left.sequence = s.sequence /\ left.checkpoint = k /\ left.config = s.config /\ DOMAIN left = Fields
  BY DEF GoodState, Fields
<1> HIDE DEF left
<1>8. t.checkpoint = k /\ t.sequence = {r \in s.sequence : accounted(left, r)}
  BY <1>6, <1>7 DEF Fields
<1>9. \A w \in W : Covers(k, position(w)) <=> Covers(s.checkpoint, position(w)) \/ w \in Range(c.prefix)
  <2> SUFFICES ASSUME NEW w \in W
               PROVE  Covers(k, position(w)) <=> Covers(s.checkpoint, position(w)) \/ w \in Range(c.prefix)
    OBVIOUS
  <2>1. Covers(k, position(w)) => Covers(s.checkpoint, position(w)) \/ w \in Range(c.prefix)
    BY <1>2, SignedCovers
  <2>2. Covers(s.checkpoint, position(w)) => Covers(k, position(w))
    <3>1. w.author \in Devices /\ w.nonce \in Nat
      BY DEF GoodOperations
    <3>2. \A a \in Devices : s.checkpoint.authors[a].nonce \in Nat /\ t.checkpoint.authors[a].nonce \in Nat
      BY <1>5, NumbersAreNatural
    <3> QED BY <1>3, <1>8, <3>1, <3>2 DEF Covers, position
  <2>3. w \in Range(c.prefix) => Covers(k, position(w))
    BY PrefixCovered
  <2> QED BY <2>1, <2>2, <2>3
<1> QED BY <1>2, <1>5, <1>7, <1>8, <1>9 DEF accounted

\* The last position of a prefix of what the sequence places.
LEMMA HeadOnTrail ==
  ASSUME NEW W, GoodOperations(W), Named(W), NEW q, NEW P, NEW R, Trail(P, R, q, W),
         NEW s, OnTrail(s, P, R, q, W), NEW n, PlacesTo(s, P, R, n),
         NEW prefix \in Seq(W), Len(prefix) <= n,
         \A i \in 1..Len(prefix) : prefix[i] = P[s.checkpoint.sequence.height + i]
  PROVE  SequenceHead(s, prefix) = R[s.checkpoint.sequence.height + Len(prefix)]
<1> DEFINE p == resolveSequence(s)
           b == s.checkpoint.sequence.height
           l == Len(p)
           m == Len(prefix)
           open == {i \in DOMAIN p : /\ ~Covers(s.checkpoint, p[i].op)
                                     /\ p[i].op \notin {position(op) : op \in Range(prefix)}}
           last == IF open = {} THEN Len(p) ELSE Min(open) - 1
<1>1. /\ l \in Nat /\ b + l <= Len(P) /\ \A i \in 1..l : p[i] = R[b + i]
      /\ b + l < Len(P) => R[b + l + 1] \notin s.sequence
      /\ b \in Nat /\ Len(P) \in Nat /\ \A i \in 1..Len(P) : P[i] \in W /\ R[i].op = position(P[i])
      /\ base(s) = R[b]
  BY TrailResolved, TrailHeights DEF OnTrail, Reached, base
<1>2. DOMAIN p = 1..l
  <2>1. p \in Seq(s.sequence)
    BY GoodIsPlaceable, Resolved DEF OnTrail
  <2> HIDE DEF p
  <2> QED BY <2>1
<1>3. /\ n \in Nat /\ b + n <= Len(P) /\ \A i \in 1..n : R[b + i] \in s.sequence
      /\ m \in Nat /\ m <= n
  BY DEF PlacesTo
<1>4. \A i, j \in 1..Len(P) : P[i] = P[j] => i = j
  BY DEF Trail
<1>5. \A i \in 1..l : ~ Covers(s.checkpoint, p[i].op)
  BY TrailFresh DEF Fresh
<1>6. \A i \in 1..m : prefix[i] = P[b + i]
  OBVIOUS
<1>7. Range(prefix) = {prefix[i] : i \in 1..m}
  BY DEF Range
<1> HIDE DEF p, b, m
<1>8. m <= l
  <2> SUFFICES ASSUME ~ (m <= l) PROVE FALSE
    OBVIOUS
  <2>1. l + 1 \in 1..n /\ b + l < Len(P) /\ b + (l + 1) = b + l + 1
    BY <1>1, <1>3
  <2> QED BY <1>1, <1>3, <2>1
<1>9. ASSUME NEW i \in 1..l PROVE p[i].op \in {position(op) : op \in Range(prefix)} <=> i <= m
  <2>1. b + i \in 1..Len(P) /\ p[i].op = position(P[b + i]) /\ P[b + i] \in W
    <3>1. b + i \in 1..Len(P)
      BY <1>1
    <3> QED BY <1>1, <3>1
  <2>2. ASSUME i <= m PROVE p[i].op \in {position(op) : op \in Range(prefix)}
    <3>1. i \in 1..m
      BY <1>1, <1>3, <2>2
    <3> QED BY <1>6, <1>7, <2>1, <3>1
  <2>3. ASSUME NEW op \in Range(prefix), p[i].op = position(op) PROVE i <= m
    <3>1. PICK j \in 1..m : op = P[b + j]
      BY <1>6, <1>7
    <3>2. b + j \in 1..Len(P) /\ P[b + j] \in W
      <4>1. b + j \in 1..Len(P)
        BY <1>1, <1>3
      <4> QED BY <1>1, <4>1
    <3>3. P[b + i] = P[b + j]
      BY <2>1, <2>3, <3>1, <3>2 DEF Named
    <3>4. b + i = b + j
      BY <1>4, <2>1, <3>2, <3>3
    <3>5. i = j
      BY <1>1, <1>3, <3>4
    <3> QED BY <1>3, <3>5
  <2> QED BY <2>2, <2>3
<1>10. open = {i \in 1..l : ~ (i <= m)}
  BY <1>2, <1>5, <1>9
<1> HIDE DEF open
<1>11. last = m
  <2>1. CASE m = l
    <3>1. open = {}
      BY <1>1, <1>10, <2>1
    <3> QED BY <2>1, <3>1
  <2>2. CASE m # l
    <3>1. m + 1 \in open /\ open \in SUBSET (0..l)
      BY <1>1, <1>3, <1>8, <1>10, <2>2
    <3>2. Min(open) \in open /\ \A x \in open : Min(open) <= x
      BY <1>1, <3>1, Extremes
    <3>3. Min(open) = m + 1
      <4>1. Min(open) \in 1..l /\ ~ (Min(open) <= m)
        BY <1>10, <3>2
      <4>2. Min(open) <= m + 1
        BY <3>1, <3>2
      <4> QED BY <1>1, <1>3, <4>1, <4>2
    <3> QED BY <1>3, <3>1, <3>3
  <2> QED BY <2>1, <2>2
<1>12. SequenceHead(s, prefix) = IF last = 0 THEN base(s) ELSE p[last]
  BY DEF SequenceHead, open, p
<1> HIDE DEF last
<1>13. CASE m = 0
  BY <1>1, <1>11, <1>12, <1>13 DEF b, m
<1>14. CASE m # 0
  <2>1. m \in 1..l
    BY <1>1, <1>3, <1>8, <1>14
  <2> QED BY <1>1, <1>11, <1>12, <1>14, <2>1 DEF b, m
<1> QED BY <1>13, <1>14

\* A state over which its device signs a checkpoint.
LEMMA TrailSigns ==
  ASSUME NEW W, World(W), NEW q, NEW P, NEW R, Trail(P, R, q, W),
         NEW s, OnTrail(s, P, R, q, W), NEW c, c.prefix \in Seq(W), c.height = s.checkpoint.height,
         IsPrefix(c.prefix, StablePoint(s, Order(s))),
         c.data = s.checkpoint.data \o marked(c.prefix),
         NEW k, k = stableCheckpoint(s, c), NEW t, t = adoptCheckpoint(s, k)
  PROVE  /\ OnTrail(t, P, R, q, W)
         /\ \A r \in s.sequence : r \in t.sequence \/ r.height <= t.checkpoint.sequence.height
         /\ Full(s, P, R) => Full(t, P, R)
<1> DEFINE b == s.checkpoint.sequence.height
           m == Len(c.prefix)
<1>1. /\ GoodOperations(W) /\ Counted(W) /\ Descending(W) /\ Named(W) /\ \A w \in W : singleIn(w, W)
      /\ GoodState(s, W) /\ Led(s, q) /\ s.sequence \subseteq {R[i] : i \in 1..Len(P)}
  BY CountedNamed DEF World, OnTrail
<1>2. /\ GoodState(t, W) /\ t.checkpoint = k /\ t.config = s.config
      /\ Begins(c.prefix, StablePoint(s, Order(s)))
      /\ \A w \in W : Covers(k, position(w)) <=> Covers(s.checkpoint, position(w)) \/ w \in Range(c.prefix)
      /\ t.sequence = {r \in s.sequence : /\ r.height > k.sequence.height
                                          /\ r.height <= s.config.start.height \/ r.signer = s.config.sequencer}
  BY <1>1, SignedFacts
<1>3. PICK n : PlacesTo(s, P, R, n)
  BY <1>1, TrailPlaces
<1>4. /\ n \in Nat /\ b + n <= Len(P) /\ b \in Nat /\ Len(P) \in Nat /\ P \in Seq(W)
      /\ \A i \in 1..Len(P) : P[i] \in W
      /\ \A i \in 0..Len(P) : R[i].height = i
      /\ \A i \in 1..Len(P) : R[i].signer = q
      /\ m \in Nat
  <2>1. /\ Len(P) \in Nat /\ \A i \in 1..Len(P) : P[i] \in W
        /\ \A i \in 0..Len(P) : R[i].height = i
        /\ \A i \in 1..Len(P) : R[i].signer = q
    <3>1. Len(P) \in Nat /\ \A i \in 1..Len(P) : P[i] \in W
      BY TrailHeights
    <3>2. \A i \in 0..Len(P) : R[i].height = i
      BY TrailHeights
    <3>3. \A i \in 1..Len(P) : R[i].signer = q
      BY TrailHeights
    <3> QED BY <3>1, <3>2, <3>3
  <2>2. n \in Nat /\ b + n <= Len(P)
    BY <1>3 DEF PlacesTo
  <2>3. b \in Nat
    BY DEF OnTrail, Reached
  <2>4. P \in Seq(W)
    BY DEF Trail
  <2>5. m \in Nat
    OBVIOUS
  <2> HIDE DEF b, m
  <2> QED BY <2>1, <2>2, <2>3, <2>4, <2>5
<1>5. m <= n /\ \A i \in 1..m : c.prefix[i] = P[b + i]
  <2>1. StablePoint(s, Order(s)) = sequenced(s).order
    <3>1. sequenceOpen(s)
      BY <1>1 DEF Led, sequenceOpen
    <3> QED BY <3>1, Zenon DEF StablePoint
  <2>2. Len(sequenced(s).order) = n /\ \A i \in 1..n : sequenced(s).order[i] = P[b + i]
    BY <1>3 DEF PlacesTo
  <2>3. Begins(c.prefix, sequenced(s).order)
    BY <1>2, <2>1
  <2> HIDE DEF b
  <2> QED BY <1>4, <2>2, <2>3 DEF Begins
<1>6. k.sequence = R[b + m] /\ k.sequence.height = b + m /\ b + m \in 0..Len(P)
  <2>1. SequenceHead(s, c.prefix) = R[b + m]
    <3>1. c.prefix \in Seq(W) /\ Len(c.prefix) <= n
      BY <1>5
    <3>2. \A i \in 1..Len(c.prefix) : c.prefix[i] = P[s.checkpoint.sequence.height + i]
      BY <1>5
    <3>3. SequenceHead(s, c.prefix) = R[s.checkpoint.sequence.height + Len(c.prefix)]
      BY <1>1, <1>3, <3>1, <3>2, HeadOnTrail
    <3> QED BY <3>3
  <2>2. k.sequence = SequenceHead(s, c.prefix)
    BY DEF stableCheckpoint
  <2>3. b + m \in 0..Len(P)
    BY <1>4, <1>5
  <2> HIDE DEF b, m
  <2> QED BY <1>4, <2>1, <2>2, <2>3
<1>7. k.data = marked(SubSeq(P, 1, b + m))
  <2>2. s.checkpoint.data = marked(SubSeq(P, 1, b))
    BY DEF OnTrail, Reached
  <2>3. SubSeq(P, 1, b + m) = SubSeq(P, 1, b) \o c.prefix
    <3>1. b + m <= Len(P)
      BY <1>4, <1>5
    <3> HIDE DEF b
    <3>2. P \in Seq(W) /\ b \in Nat /\ c.prefix \in Seq(W) /\ m = Len(c.prefix)
      BY <1>4
    <3>3. \A i \in 1..m : c.prefix[i] = P[b + i]
      BY <1>5
    <3> HIDE DEF b, m
    <3>4. \A order \in Seq(W) : \A l :
            l = Len(order) /\ b + l <= Len(P) /\ (\A i \in 1..l : order[i] = P[b + i])
              => SubSeq(P, 1, b + l) = SubSeq(P, 1, b) \o order
      BY <3>2, PartJoins
    <3> QED BY <3>1, <3>2, <3>3, <3>4, Zenon
  <2>4. SubSeq(P, 1, b) \in Seq(W)
    <3>1. b \in 0..Len(P)
      BY <1>4
    <3> HIDE DEF b
    <3> QED BY <1>4, <3>1, FirstPart
  <2>5. k.data = c.data
    BY DEF stableCheckpoint
  <2> HIDE DEF b, m
  <2>6. marked(SubSeq(P, 1, b) \o c.prefix) = marked(SubSeq(P, 1, b)) \o marked(c.prefix)
    BY <2>4, MarkedJoins
  <2> QED BY <2>2, <2>3, <2>5, <2>6
<1>8. \A w \in W : Covers(k, position(w)) <=> w \in preceding(P, b + m + 1)
  <2>1. /\ preceding(P, b + m + 1) = {P[i] : i \in 1..b + m} /\ preceding(P, b + 1) = {P[i] : i \in 1..b}
    <3>1. b + m \in Nat /\ b \in Nat
      BY <1>4
    <3> HIDE DEF b, m
    <3> QED BY <3>1, FirstOnes
  <2>2. Range(c.prefix) = {c.prefix[i] : i \in 1..m}
    BY DEF Range
  <2>3. \A w \in W : Covers(s.checkpoint, position(w)) <=> w \in preceding(P, b + 1)
    BY DEF OnTrail, Reached
  <2> HIDE DEF b, m
  <2>4. ASSUME NEW i \in 1..b + m PROVE i \in 1..b \/ (i - b \in 1..m /\ b + (i - b) = i)
    BY <1>4, <2>4, Beyond
  <2>5. \A i \in 1..b : i \in 1..b + m
    BY <1>4
  <2>6. \A i \in 1..m : b + i \in 1..b + m
    BY <1>4
  <2>7. ASSUME NEW w, w \in preceding(P, b + m + 1) PROVE w \in preceding(P, b + 1) \/ w \in Range(c.prefix)
    <3>1. PICK i \in 1..b + m : w = P[i]
      BY <2>1, <2>7
    <3>2. CASE i \in 1..b
      BY <2>1, <3>1, <3>2
    <3>3. CASE i - b \in 1..m /\ b + (i - b) = i
      BY <1>5, <2>2, <3>1, <3>3
    <3> QED BY <2>4, <3>2, <3>3
  <2>8. preceding(P, b + 1) \subseteq preceding(P, b + m + 1)
    BY <2>1, <2>5
  <2>9. Range(c.prefix) \subseteq preceding(P, b + m + 1)
    BY <1>5, <2>1, <2>2, <2>6
  <2> QED BY <1>2, <2>3, <2>7, <2>8, <2>9
<1>9. OnTrail(t, P, R, q, W)
  <2>1. Reached(k, P, R, W)
    <3> HIDE DEF b, m
    <3> QED BY <1>6, <1>7, <1>8 DEF Reached
  <2> QED BY <1>1, <1>2, <2>1 DEF OnTrail, Led
<1>10. ASSUME NEW r \in s.sequence PROVE r \in t.sequence \/ r.height <= k.sequence.height
  <2>1. PICK i \in 1..Len(P) : r = R[i]
    BY <1>1
  <2>2. r.signer = q /\ r.height \in Nat
    BY <1>4, <2>1
  <2>3. s.config.sequencer = q
    BY <1>1 DEF Led
  <2>4. k.sequence.height \in Nat
    BY <1>4, <1>6
  <2> QED BY <1>2, <2>2, <2>3, <2>4
<1>11. ASSUME Full(s, P, R), NEW i \in 1..Len(P) PROVE i <= k.sequence.height \/ R[i] \in t.sequence
  <2>1. i <= b \/ R[i] \in s.sequence
    BY <1>11 DEF Full
  <2>2. R[i].height = i
    BY <1>4
  <2>3. b <= k.sequence.height /\ k.sequence.height \in Nat
    BY <1>4, <1>6
  <2> HIDE DEF b
  <2> QED BY <1>4, <1>10, <2>1, <2>2, <2>3
<1> QED BY <1>2, <1>9, <1>10, <1>11 DEF Full

-----------------------------------------------------------------------------
(* The line, as devices place, exchange and checkpoint what they hold.     *)

\* A sequencer places, the configuration stays, and no device loses its memory.
Leading == Quiet /\ scenario.config.sequencer # None

LEMMA LeadingFacts ==
  ASSUME EditInv, Leading
  PROVE  /\ scenario.config.sequencer \in Devices /\ scenario.config.start.height = 0
         /\ \A d \in Devices : state[d].config = scenario.config
<1>1. \A d \in Devices : state[d].config = scenario.config
  BY QuietFacts DEF Leading
<1>2. GenesisConfig(scenario.config)
  BY LogAssumption DEF EditInv, Types, EnvironmentTyped, ScenarioOK
<1> QED BY <1>1, <1>2 DEF Leading, GenesisConfig

\* Where no device loses its memory, replay refuses nothing.
KnownWorld ==
  /\ World(written)
  /\ \A d \in Devices : \A op \in state[d].ops : apply(state[d], op) = [op |-> op, refused |-> FALSE]

LEMMA QuietWorld == DescentInv /\ Quiet => KnownWorld
<1> SUFFICES ASSUME DescentInv, Quiet PROVE KnownWorld
  OBVIOUS
<1>1. EditInv /\ AllWelcome
  BY DEF DescentInv, AllWelcome, SoleSigner, signers, calm, Quiet
<1>2. World(written)
  BY <1>1, QuietFacts DEF DescentInv, EditInv, CarryInv, Types, World
<1>3. \A d \in Devices : \A op \in state[d].ops : apply(state[d], op) = [op |-> op, refused |-> FALSE]
  BY <1>1, NothingRefused
<1> QED BY <1>2, <1>3 DEF KnownWorld

\* A checkpoint of s over what is stable there.
signsOver(s, c) ==
  /\ c.prefix \in Seq(written) /\ c.height = s.checkpoint.height
  /\ IsPrefix(c.prefix, StablePoint(s, Order(s)))
  /\ c.data = s.checkpoint.data \o marked(c.prefix)

\* How the state of d moves, where nothing is written.
quietMove(d) ==
  \/ state'[d] = state[d]
  \/ state'[d] = sequenceOperations(state[d], d)
  \/ \E from \in Devices : state'[d] = mergeSnapshot(state[d], state[from])
  \/ \E c : signsOver(state[d], c) /\ state'[d] = adoptCheckpoint(state[d], stableCheckpoint(state[d], c))

LEMMA StoredData ==
  ASSUME EditInv, Quiet, NEW d \in Devices, storing[d] # Nothing,
         storing[d].height = state[d].checkpoint.height
  PROVE  /\ storing[d].prefix \in Seq(written)
         /\ storing[d].data = state[d].checkpoint.data \o marked(storing[d].prefix)
<1> DEFINE c == storing[d]
           s == state[d]
           W == written
<1>1. c.prefix \in Seq(W) /\ \A w \in W : singleIn(w, W)
  BY QuietFacts DEF EditInv, Types, StoringTyped
<1>2. CarriesOn(c, s, W, scenario.changes)
  BY DEF EditInv, CarryInv, StoringCarries, Quiet, NoneReadmitted
<1> HIDE DEF c, s, W
<1>3. PICK refused : /\ c.data = s.checkpoint.data \o replayed(asReplayed(c.prefix, refused))
                     /\ \A i \in 1..Len(c.prefix) : refused[i] => Deserved(scenario.changes, s.config, W, c.prefix[i])
  BY <1>2 DEF CarriesOn
<1>4. \A i \in 1..Len(c.prefix) : c.prefix[i] \in W
  BY <1>1
<1>5. \A i \in 1..Len(c.prefix) : refused[i] => c.prefix[i].ack
  BY <1>1, <1>3, <1>4 DEF Deserved, welcome, Quiet
<1>6. replayed(asReplayed(c.prefix, refused)) = marked(c.prefix)
  BY <1>1, <1>5, OpenedData
<1>7. c.data = s.checkpoint.data \o marked(c.prefix)
  <2>1. c.data = s.checkpoint.data \o replayed(asReplayed(c.prefix, refused))
    BY <1>3
  <2> QED BY <1>6, <2>1
<1> QED BY <1>1, <1>7 DEF c, s, W

LEMMA QuietMoves ==
  ASSUME DescentInv, Quiet, [Next]_vars, Quiet', written' = written, NEW d \in Devices
  PROVE  quietMove(d)
<1>1. /\ Types /\ EditInv /\ DOMAIN state = Devices /\ DOMAIN intent = Devices
      /\ restored' = {} /\ scenario' = scenario /\ scenario.losing = {}
      /\ \A e \in Devices : state[e].config = scenario.config /\ intent[e] = Nothing /\ shown(e) = state[e]
  <2>1. Types /\ EditInv /\ scenario' = scenario /\ ConfigsInLine
    BY QuietBefore DEF DescentInv, EditInv, NumberInv
  <2>2. restored' = {} /\ scenario.losing = {} /\ scenario.changes = {}
    BY <2>1 DEF Quiet
  <2>3. DOMAIN state = Devices /\ DOMAIN intent = Devices
    BY <2>1 DEF Types, StatesTyped, IntentTyped
  <2>4. \A e \in Devices : state[e].config = scenario.config /\ intent[e] = Nothing
    BY <2>1, <2>2 DEF ConfigsInLine
  <2> QED BY <2>1, <2>2, <2>3, <2>4 DEF shown
<1>2. ASSUME UNCHANGED state PROVE quietMove(d)
  BY <1>2 DEF quietMove
<1>3. ASSUME NEW e \in Devices, NEW t, state' = [state EXCEPT ![e] = t]
      PROVE  state'[d] = state[d] \/ (e = d /\ state'[d] = t)
  BY <1>1, <1>3
<1>4. ASSUME NEW e \in Devices, NEW ack, AddLocalOperation(e, ack) PROVE FALSE
  <2>1. PICK prev, op : written' = written \cup {op} /\ \A w \in written : w.hash # op.hash
    BY <1>1, <1>4, OperationAdded DEF Types
  <2> QED BY <2>1
<1>5. ASSUME NEW e \in Devices, SequenceOperations(e) PROVE quietMove(d)
  <2>1. state' = [state EXCEPT ![e] = sequenceOperations(state[e], e)]
    BY <1>5 DEF SequenceOperations
  <2> QED BY <1>3, <2>1 DEF quietMove
<1>6. ASSUME NEW e \in Devices, NEW from \in Devices, ImportPeerSnapshot(e, from) PROVE quietMove(d)
  <2>1. state' = [state EXCEPT ![e] = mergeSnapshot(state[e], state[from])]
    BY <1>1, <1>6 DEF ImportPeerSnapshot
  <2> QED BY <1>3, <2>1 DEF quietMove
<1>7. ASSUME NEW e \in Devices, NEW from \in Devices, ImportRemoval(e, from) PROVE FALSE
  <2>1. state[from].config.seqno > state[e].config.seqno
    BY <1>1, <1>7 DEF ImportRemoval
  <2>2. state[e].config.seqno \in Nat
    BY <1>1 DEF Types, StatesTyped, GoodState, GoodConfig
  <2> QED BY <1>1, <2>1, <2>2
<1>8. ASSUME NEW e \in Devices, ApplyConfigChange(e) PROVE FALSE
  BY <1>1, <1>8 DEF ApplyConfigChange
<1>9. ASSUME NEW e \in Devices, AdoptCheckpoint(e) PROVE quietMove(d)
  <2> DEFINE c == storing[e]
             t == adoptCheckpoint(state[e], stableCheckpoint(state[e], c))
  <2>1. PICK order \in {Order(state[e])} : \E stable \in {StablePoint(state[e], order)} :
          IF current(state[e], stable, c) /\ isOwnerPeer(state[e].config, e)
          THEN state' = [state EXCEPT ![e] = t]
          ELSE UNCHANGED state
    BY <1>9 DEF AdoptCheckpoint
  <2>2. CASE ~ UNCHANGED state
    <3>1. /\ state' = [state EXCEPT ![e] = t] /\ c # Nothing
          /\ c.height = state[e].checkpoint.height
          /\ IsPrefix(c.prefix, StablePoint(state[e], Order(state[e])))
      BY <1>9, <2>1, <2>2 DEF current, AdoptCheckpoint
    <3>2. signsOver(state[e], c)
      BY <1>1, <3>1, StoredData DEF signsOver
    <3>3. state'[d] = state[d] \/ (e = d /\ state'[d] = t)
      <4> HIDE DEF t
      <4> QED BY <1>3, <3>1
    <3> QED BY <3>2, <3>3 DEF quietMove
  <2> QED BY <1>2, <2>2
<1>10. ASSUME NEW e \in Devices, Restore(e) PROVE FALSE
  BY <1>1, <1>10 DEF Restore
<1>11. ASSUME NEW e \in Devices, LosePower(e) PROVE FALSE
  BY <1>1, <1>11 DEF LosePower
<1>12. ASSUME NEW e \in Devices, SetSOSequencer(e) \/ MaintainRoster(e)
                                  \/ RemoveSOParticipant(e) \/ AddSOParticipant(e)
                                  \/ Step(e) \/ Restart(e) \/ Flush(e)
       PROVE  UNCHANGED state
  BY <1>12 DEF SetSOSequencer, MaintainRoster, RemoveSOParticipant, AddSOParticipant, Prepare,
               Step, Restart, Flush, log
<1>13. ASSUME UNCHANGED vars PROVE UNCHANGED state
  BY <1>13 DEF vars, log
<1> QED BY <1>2, <1>4, <1>5, <1>6, <1>7, <1>8, <1>9, <1>10, <1>11, <1>12, <1>13 DEF Next, Write, Acknowledge

LEMMA WritingPlaces ==
  ASSUME DescentInv, Quiet, [Next]_vars, Quiet', written' # written
  PROVE  \E d \in Devices : \E new :
           writesNew(d, new) /\ state' = [state EXCEPT ![d] = wrote(state[d], d, new)]
<1>1. PICK d \in Devices : \E new : writesNew(d, new)
  BY WritingNew
<1>2. PICK new : writesNew(d, new)
  BY <1>1
<1>3. Types
  BY DEF DescentInv, EditInv
<1>4. ASSUME NEW e \in Devices, NEW ack, AddLocalOperation(e, ack)
      PROVE  state' = [state EXCEPT ![d] = wrote(state[d], d, new)]
  <2>1. PICK prev, op : /\ written' = written \cup {op} /\ \A w \in written : w.hash # op.hash
                        /\ op.author = e /\ state' = [state EXCEPT ![e] = wrote(state[e], e, op)]
    BY <1>3, <1>4, OperationAdded DEF Types
  <2>2. op = new /\ e = d
    BY <1>2, <2>1 DEF writesNew
  <2> QED BY <2>1, <2>2
<1>5. ASSUME NEW e \in Devices, NEW from \in Devices,
             \/ SequenceOperations(e) \/ SetSOSequencer(e) \/ MaintainRoster(e)
             \/ RemoveSOParticipant(e) \/ AddSOParticipant(e) \/ ApplyConfigChange(e) \/ Restore(e)
             \/ ImportPeerSnapshot(e, from) \/ ImportRemoval(e, from)
             \/ Step(e) \/ AdoptCheckpoint(e) \/ Flush(e) \/ Restart(e) \/ LosePower(e)
      PROVE  written' = written
  BY <1>5 DEF SequenceOperations, SetSOSequencer, MaintainRoster, RemoveSOParticipant, AddSOParticipant, Prepare,
              ApplyConfigChange, Restore, ImportPeerSnapshot, ImportRemoval, Step, AdoptCheckpoint,
              Flush, Restart, LosePower, log
<1>6. ~ UNCHANGED vars
  BY DEF vars, log
<1> QED BY <1>2, <1>4, <1>5, <1>6 DEF Next, Write, Acknowledge

\* The devices hold parts of the line, its sequencer all that is above its checkpoint.
AllOn(states, q, P, R, W) ==
  /\ Trail(P, R, q, W)
  /\ \A d \in Devices : OnTrail(states[d], P, R, q, W)
  /\ Full(states[q], P, R)

\* t holds the records that s does, but for those below its checkpoint.
KeepsRecords(s, t) == \A r \in s.sequence : r \in t.sequence \/ r.height <= t.checkpoint.sequence.height

\* The line goes on, if it changes.
GoesOn(P, R) ==
  \E Q, T : /\ AllOn(state', scenario.config.sequencer, Q, T, written') /\ Lengthens(P, R, Q, T)
            /\ \A d \in Devices : KeepsRecords(state[d], state'[d])

\* Only the sequencer places.
LEMMA OthersPlaceNothing ==
  ASSUME NEW s, NEW d, s.config.sequencer # d
  PROVE  sequenceOperations(s, d) = s
  BY DEF sequenceOperations, extends

\* What any device but the sequencer becomes, and the sequencer when it places nothing.
LEMMA QuietOnTrail ==
  ASSUME DescentInv, Leading, KnownWorld, [Next]_vars, Quiet', written' = written,
         NEW q, q = scenario.config.sequencer, NEW P, NEW R, AllOn(state, q, P, R, written),
         NEW d \in Devices, d # q \/ state'[d] # sequenceOperations(state[d], d)
  PROVE  /\ OnTrail(state'[d], P, R, q, written) /\ KeepsRecords(state[d], state'[d])
         /\ Full(state[d], P, R) => Full(state'[d], P, R)
<1> DEFINE W == written
           s == state[d]
           t == state'[d]
           goal == OnTrail(t, P, R, q, W) /\ KeepsRecords(s, t) /\ (Full(s, P, R) => Full(t, P, R))
<1>1. /\ World(W) /\ GoodOperations(W) /\ Trail(P, R, q, W)
      /\ \A e \in Devices : OnTrail(state[e], P, R, q, W)
      /\ Quiet /\ s.config.sequencer = q
  BY DEF KnownWorld, World, AllOn, OnTrail, Led, Leading
<1>2. \A w \in W : Covers(s.checkpoint, position(w)) => Covers(t.checkpoint, position(w))
  BY <1>1, HeldOnward
<1>3. quietMove(d)
  BY <1>1, QuietMoves
<1>4. CASE t = s
  BY <1>1, <1>4 DEF KeepsRecords
<1>5. CASE t = sequenceOperations(s, d)
  <2>1. s.config.sequencer # d
    BY <1>1, <1>5
  <2> QED BY <1>4, <1>5, <2>1, OthersPlaceNothing
<1>6. ASSUME NEW from \in Devices, t = mergeSnapshot(s, state[from]) PROVE goal
  <2>1. OnTrail(s, P, R, q, W) /\ OnTrail(state[from], P, R, q, W)
    BY <1>1
  <2> HIDE DEF s, t, W
  <2> QED BY <1>1, <1>2, <1>6, <2>1, TrailMerges DEF KeepsRecords
<1>7. ASSUME NEW c, signsOver(s, c), t = adoptCheckpoint(s, stableCheckpoint(s, c)) PROVE goal
  <2>1. OnTrail(s, P, R, q, W) /\ c.prefix \in Seq(W)
    BY <1>1, <1>7 DEF signsOver
  <2> HIDE DEF s, t, W
  <2> QED BY <1>1, <1>7, <2>1, TrailSigns DEF KeepsRecords, signsOver
<1>8. goal
  BY <1>3, <1>4, <1>5, <1>6, <1>7 DEF quietMove
<1> QED BY <1>8

LEMMA LineMoves ==
  ASSUME DescentInv, Leading, KnownWorld, [Next]_vars, Quiet', written' = written,
         NEW P, NEW R, AllOn(state, scenario.config.sequencer, P, R, written)
  PROVE  GoesOn(P, R)
<1> DEFINE W == written
           q == scenario.config.sequencer
<1>1. /\ World(W) /\ GoodOperations(W) /\ Trail(P, R, q, W) /\ Full(state[q], P, R)
      /\ \A e \in Devices : OnTrail(state[e], P, R, q, W)
      /\ q \in Devices /\ Named(W) /\ Descending(W)
  BY LeadingFacts, CountedNamed DEF KnownWorld, World, AllOn, DescentInv
<1>2. CASE state'[q] # sequenceOperations(state[q], q)
  <2>1. ASSUME NEW d \in Devices
        PROVE  /\ OnTrail(state'[d], P, R, q, W) /\ KeepsRecords(state[d], state'[d])
               /\ Full(state[d], P, R) => Full(state'[d], P, R)
    BY <1>2, QuietOnTrail
  <2>2. AllOn(state', q, P, R, written')
    BY <1>1, <2>1 DEF AllOn
  <2>3. Lengthens(P, R, P, R)
    BY <1>1, LengthensItself
  <2> QED BY <2>1, <2>2, <2>3 DEF GoesOn
<1>3. CASE state'[q] = sequenceOperations(state[q], q)
  <2>1. PICK Q, T : /\ Trail(Q, T, q, W) /\ Lengthens(P, R, Q, T)
                    /\ OnTrail(state'[q], Q, T, q, W) /\ Full(state'[q], Q, T)
                    /\ state[q].sequence \subseteq state'[q].sequence
    <3> HIDE DEF q, W
    <3> QED BY <1>1, <1>3, PlacingOn
  <2>2. ASSUME NEW d \in Devices, d # q
        PROVE  OnTrail(state'[d], Q, T, q, W) /\ KeepsRecords(state[d], state'[d])
    <3>1. OnTrail(state'[d], P, R, q, W) /\ KeepsRecords(state[d], state'[d])
      BY <2>2, QuietOnTrail
    <3> HIDE DEF q, W
    <3> QED BY <1>1, <2>1, <3>1, TrailLengthens
  <2>3. AllOn(state', q, Q, T, written')
    BY <1>1, <2>1, <2>2 DEF AllOn
  <2>4. \A d \in Devices : KeepsRecords(state[d], state'[d])
    BY <2>1, <2>2 DEF KeepsRecords
  <2> QED BY <2>1, <2>3, <2>4 DEF GoesOn
<1> QED BY <1>2, <1>3

LEMMA LineGrows ==
  ASSUME DescentInv, Leading, KnownWorld, KnownWorld', [Next]_vars, Quiet', written' # written,
         NEW P, NEW R, AllOn(state, scenario.config.sequencer, P, R, written)
  PROVE  GoesOn(P, R)
<1> DEFINE W == written
           V == written'
           q == scenario.config.sequencer
<1>1. /\ World(W) /\ GoodOperations(W) /\ Descending(W) /\ Trail(P, R, q, W) /\ Full(state[q], P, R)
      /\ \A e \in Devices : OnTrail(state[e], P, R, q, W)
      /\ World(V) /\ GoodOperations(V) /\ Named(V) /\ Descending(V) /\ q \in Devices /\ Quiet
      /\ DOMAIN state = Devices
  <2>1. EditInv
    BY DEF DescentInv
  <2> QED BY <2>1, LeadingFacts, CountedNamed
          DEF KnownWorld, World, AllOn, EditInv, Types, StatesTyped, Leading
<1>2. PICK d \in Devices : \E new :
           writesNew(d, new) /\ state' = [state EXCEPT ![d] = wrote(state[d], d, new)]
  BY <1>1, WritingPlaces
<1>3. PICK new : writesNew(d, new) /\ state' = [state EXCEPT ![d] = wrote(state[d], d, new)]
  BY <1>2
<1>4. /\ V = W \cup {new} /\ (\A w \in W : w.hash # new.hash) /\ new \in V /\ W \subseteq V
      /\ \A e \in Devices : ~ Covers(state[e].checkpoint, position(new))
  BY <1>3 DEF writesNew
<1>5. /\ \A e \in Devices : e # d => state'[e] = state[e]
      /\ state'[d] = sequenceOperations(AddOperation(state[d], new), d)
  BY <1>1, <1>3 DEF wrote
<1> HIDE DEF W, V, q
<1>6. /\ Trail(P, R, q, V)
      /\ \A k : Reached(k, P, R, W) /\ ~ Covers(k, position(new)) => Reached(k, P, R, V)
  BY <1>1, <1>4, TrailStays
<1>7. ASSUME NEW e \in Devices PROVE OnTrail(state[e], P, R, q, V)
  <2>1. OnTrail(state[e], P, R, q, W)
    BY <1>1
  <2>2. GoodState(state[e], V)
    BY <1>4, <2>1, GoodStateGrows DEF OnTrail
  <2> QED BY <1>4, <1>6, <2>1, <2>2 DEF OnTrail
<1> DEFINE s == AddOperation(state[d], new)
<1>8. OnTrail(s, P, R, q, V) /\ s.sequence = state[d].sequence /\ s.checkpoint = state[d].checkpoint
  <2>1. OnTrail(state[d], P, R, q, V)
    BY <1>7
  <2>2. GoodState(s, V)
    BY <1>4, <2>1, AddedGood DEF OnTrail
  <2>3. DOMAIN state[d] = Fields
    BY <2>1 DEF OnTrail, GoodState
  <2>4. s.sequence = state[d].sequence /\ s.checkpoint = state[d].checkpoint /\ s.config = state[d].config
    BY <2>3 DEF AddOperation, Fields
  <2> HIDE DEF s
  <2> QED BY <2>1, <2>2, <2>4 DEF OnTrail, Led
<1> HIDE DEF s
<1>9. CASE d # q
  <2>1. state'[d] = s
    <3>1. s.config.sequencer # d
      BY <1>8, <1>9 DEF OnTrail, Led
    <3> QED BY <1>5, <3>1, OthersPlaceNothing DEF s
  <2>2. ASSUME NEW e \in Devices PROVE OnTrail(state'[e], P, R, q, V)
    BY <1>5, <1>7, <1>8, <2>1
  <2>3. Full(state'[q], P, R)
    BY <1>1, <1>5, <1>9
  <2>4. AllOn(state', q, P, R, V)
    BY <1>6, <2>2, <2>3 DEF AllOn
  <2>5. \A e \in Devices : KeepsRecords(state[e], state'[e])
    BY <1>5, <1>8, <2>1 DEF KeepsRecords
  <2>6. Lengthens(P, R, P, R)
    BY <1>6, LengthensItself
  <2> QED BY <2>4, <2>5, <2>6 DEF GoesOn, q, V
<1>10. CASE d = q
  <2>1. Full(s, P, R)
    BY <1>1, <1>8, <1>10 DEF Full
  <2>2. PICK Q, T : /\ Trail(Q, T, q, V) /\ Lengthens(P, R, Q, T)
                    /\ OnTrail(state'[q], Q, T, q, V) /\ Full(state'[q], Q, T)
                    /\ s.sequence \subseteq state'[q].sequence
    <3>1. state'[q] = sequenceOperations(s, q)
      BY <1>5, <1>10 DEF s
    <3> QED BY <1>1, <1>6, <1>8, <2>1, <3>1, PlacingOn
  <2>3. ASSUME NEW e \in Devices PROVE OnTrail(state'[e], Q, T, q, V)
    <3>1. CASE e = q
      BY <2>2, <3>1
    <3>2. CASE e # q
      <4>1. OnTrail(state[e], P, R, q, V) /\ state'[e] = state[e]
        BY <1>5, <1>7, <1>10, <3>2
      <4>2. OnTrail(state[e], Q, T, q, V)
        BY <1>6, <2>2, <4>1, TrailLengthens
      <4> QED BY <4>1, <4>2
    <3> QED BY <3>1, <3>2
  <2>4. AllOn(state', q, Q, T, V)
    BY <2>2, <2>3 DEF AllOn
  <2>5. \A e \in Devices : KeepsRecords(state[e], state'[e])
    BY <1>5, <1>8, <1>10, <2>2 DEF KeepsRecords
  <2> QED BY <2>2, <2>4, <2>5 DEF GoesOn, q, V
<1> QED BY <1>9, <1>10

-----------------------------------------------------------------------------
(* What devices hold as settled begins the line, and stays there.          *)

LineInv ==
  DescentInv /\ (Leading => \E P, R : AllOn(state, scenario.config.sequencer, P, R, written))

LEMMA LineInit == Init => LineInv
<1> SUFFICES ASSUME Init PROVE LineInv
  OBVIOUS
<1>1. DescentInv /\ EditInv
  BY DescentInit DEF DescentInv
<1> SUFFICES ASSUME Leading PROVE \E P, R : AllOn(state, scenario.config.sequencer, P, R, written)
  BY <1>1 DEF LineInv
<1> DEFINE P == <<>>
           R == [i \in {0} |-> NoPosition]
           q == scenario.config.sequencer
<1>2. /\ q \in Devices /\ q # None /\ scenario.config.start.height = 0 /\ written = {}
      /\ \A d \in Devices : GoodState(state[d], {}) /\ state[d] = GenesisState(scenario.config)
  BY <1>1, LeadingFacts DEF Init, Leading, EditInv, Types, StatesTyped
<1>3. /\ P \in Seq({}) /\ Len(P) = 0 /\ R[0] = NoPosition /\ SubSeq(P, 1, 0) = P
      /\ preceding(P, 1) = {}
  BY DEF preceding
<1>4. Trail(P, R, q, {})
  BY <1>3 DEF Trail
<1>5. marked(<<>>) = <<>>
  <2>1. admitted(<<>>) = <<>>
    BY DEF admitted
  <2>2. Len(<<>>) = 0 /\ Len(<<>>) \in Nat
    OBVIOUS
  <2>3. PICK m : replayed(<<>>) = m[0] /\ \A i \in 0..0 : m[i] = markAt(m, <<>>, i)
    BY <2>2, Marking
  <2>4. m[0] = <<>>
    BY <2>3 DEF markAt
  <2> QED BY <2>1, <2>3, <2>4 DEF marked
<1>6. Reached(GenesisCheckpoint, P, R, {})
  <2>1. /\ GenesisCheckpoint.sequence = NoPosition /\ NoPosition.height = 0
        /\ GenesisCheckpoint.data = <<>>
    BY DEF GenesisCheckpoint, NoPosition
  <2>2. GenesisCheckpoint.sequence.height = 0 /\ GenesisCheckpoint.sequence = R[0] /\ 0 \in 0..Len(P)
    BY <1>3, <2>1
  <2>3. GenesisCheckpoint.data = marked(SubSeq(P, 1, 0))
    BY <1>3, <1>5, <2>1
  <2> HIDE DEF P, R
  <2>4. /\ GenesisCheckpoint.sequence.height \in 0..Len(P)
        /\ GenesisCheckpoint.sequence = R[GenesisCheckpoint.sequence.height]
        /\ GenesisCheckpoint.data = marked(SubSeq(P, 1, GenesisCheckpoint.sequence.height))
    BY <2>2, <2>3
  <2> QED BY <2>4 DEF Reached
<1>7. ASSUME NEW d \in Devices PROVE OnTrail(state[d], P, R, q, {}) /\ Full(state[d], P, R)
  <2>1. /\ state[d].config = scenario.config /\ state[d].sequence = {}
        /\ state[d].checkpoint = GenesisCheckpoint /\ GoodState(state[d], {})
    BY <1>2 DEF GenesisState
  <2>2. Led(state[d], q)
    BY <1>2, <2>1 DEF Led
  <2> QED BY <1>3, <1>6, <2>1, <2>2 DEF OnTrail, Full
<1>8. AllOn(state, q, P, R, written)
  <2> HIDE DEF P, R
  <2> QED BY <1>2, <1>4, <1>7 DEF AllOn
<1> QED BY <1>8

\* The line goes on, whatever happens.
LEMMA LineOnward ==
  ASSUME DescentInv, Leading, KnownWorld, KnownWorld', [Next]_vars, Quiet',
         NEW P, NEW R, AllOn(state, scenario.config.sequencer, P, R, written)
  PROVE  GoesOn(P, R)
  BY LineMoves, LineGrows

LEMMA LineKept == LineInv /\ [Next]_vars /\ (Quiet => KnownWorld) /\ (Quiet => KnownWorld)' => LineInv'
<1> SUFFICES ASSUME LineInv, [Next]_vars, Quiet => KnownWorld, (Quiet => KnownWorld)' PROVE LineInv'
  OBVIOUS
<1>1. DescentInv /\ DescentInv' /\ Types
  BY DescentStep DEF LineInv, DescentInv, EditInv
<1> SUFFICES ASSUME Leading'
             PROVE  \E P, R : AllOn(state', scenario.config'.sequencer, P, R, written')
  BY <1>1 DEF LineInv
<1>2. Quiet /\ Quiet' /\ Leading /\ scenario' = scenario
  BY <1>1, QuietBefore DEF Leading
<1>3. PICK P, R : AllOn(state, scenario.config.sequencer, P, R, written)
  BY <1>2 DEF LineInv
<1>4. GoesOn(P, R)
  BY <1>1, <1>2, <1>3, LineOnward
<1> QED BY <1>2, <1>4 DEF GoesOn

LEMMA LineKnown == Spec => [](LineInv /\ (Quiet => KnownWorld))
  BY LineInit, LineKept, DescentInit, DescentStep, QuietWorld, PTL DEF Spec

\* What s holds as settled are the marks of the first operations of the line.
Pins(s, P, R, n) ==
  PlacesTo(s, P, R, n) /\ settled(s) = marked(SubSeq(P, 1, s.checkpoint.sequence.height + n))

LEMMA SettledPinned ==
  ASSUME NEW W, World(W), NEW q, NEW P, NEW R, Trail(P, R, q, W), NEW s, OnTrail(s, P, R, q, W),
         \A op \in s.ops : apply(s, op) = [op |-> op, refused |-> FALSE]
  PROVE  \E n : Pins(s, P, R, n)
<1>1. GoodOperations(W) /\ Named(W) /\ Descending(W)
  BY CountedNamed DEF World
<1>2. PICK n : PlacesTo(s, P, R, n)
  BY <1>1, TrailPlaces
<1> QED BY <1>1, <1>2, SettledTrail DEF Pins

LEMMA PinnedAt ==
  ASSUME NEW W, NEW q, NEW P, NEW R, Trail(P, R, q, W), NEW s, OnTrail(s, P, R, q, W),
         NEW n, Pins(s, P, R, n)
  PROVE  s.checkpoint.sequence.height + n \in 0..Len(P)
<1>1. Len(P) \in Nat
  BY TrailHeights
<1> QED BY <1>1 DEF Pins, PlacesTo, OnTrail, Reached

\* Of the first operations of a line, fewer mark the beginning of what more do.
LEMMA PartMarked ==
  ASSUME NEW W, NEW P \in Seq(W), NEW a \in 0..Len(P), NEW b \in 0..Len(P), a <= b
  PROVE  IsPrefix(marked(SubSeq(P, 1, a)), marked(SubSeq(P, 1, b)))
<1> DEFINE A == SubSeq(P, 1, a)
           B == SubSeq(P, 1, b)
<1>1. /\ A \in Seq(W) /\ Len(A) = a /\ \A i \in 1..a : A[i] = P[i]
      /\ B \in Seq(W) /\ Len(B) = b /\ \A i \in 1..b : B[i] = P[i]
  BY FirstPart
<1> HIDE DEF A, B
<1>2. Begins(A, B)
  BY <1>1 DEF Begins
<1>3. IsPrefix(marked(A), marked(B))
  BY <1>1, <1>2, MarkedBegins
<1> QED BY <1>3 DEF A, B

LEMMA LineAgrees == LineInv /\ (Quiet => KnownWorld) /\ Leading => StableAgree
<1> SUFFICES ASSUME LineInv, Quiet => KnownWorld, Leading, NEW d \in Devices, NEW e \in Devices
             PROVE  \/ IsPrefix(settled(state[d]), settled(state[e]))
                    \/ IsPrefix(settled(state[e]), settled(state[d]))
  BY DEF StableAgree, SettledAgree
<1> DEFINE q == scenario.config.sequencer
           W == written
           s == state[d]
           t == state[e]
<1>1. KnownWorld
  BY DEF Leading
<1>2. PICK P, R : AllOn(state, q, P, R, W)
  BY DEF LineInv
<1>3. /\ World(W) /\ Trail(P, R, q, W) /\ OnTrail(s, P, R, q, W) /\ OnTrail(t, P, R, q, W)
      /\ \A op \in s.ops : apply(s, op) = [op |-> op, refused |-> FALSE]
      /\ \A op \in t.ops : apply(t, op) = [op |-> op, refused |-> FALSE]
  BY <1>1, <1>2 DEF KnownWorld, AllOn
<1> HIDE DEF q, W, s, t
<1>4. PICK n : Pins(s, P, R, n)
  BY <1>3, SettledPinned
<1>5. PICK m : Pins(t, P, R, m)
  BY <1>3, SettledPinned
<1> DEFINE a == s.checkpoint.sequence.height + n
           b == t.checkpoint.sequence.height + m
<1>6. a \in 0..Len(P) /\ b \in 0..Len(P) /\ P \in Seq(W)
  BY <1>3, <1>4, <1>5, PinnedAt DEF Trail
<1>7. settled(s) = marked(SubSeq(P, 1, a)) /\ settled(t) = marked(SubSeq(P, 1, b))
  BY <1>4, <1>5 DEF Pins
<1> HIDE DEF a, b
<1>8. a <= b \/ b <= a
  BY <1>6
<1>9. IsPrefix(settled(s), settled(t)) \/ IsPrefix(settled(t), settled(s))
  BY <1>6, <1>7, <1>8, PartMarked
<1> QED BY <1>9 DEF s, t

\* Whatever happens, what is settled on d stays where it is on the line.
LEMMA LineStays ==
  ASSUME LineInv, Leading, KnownWorld, KnownWorld', [Next]_vars, Quiet', NEW d \in Devices
  PROVE  IsPrefix(settled(state[d]), settled(state'[d]))
<1> DEFINE q == scenario.config.sequencer
           W == written
           V == written'
           s == state[d]
           t == state'[d]
<1>1. DescentInv /\ Quiet /\ W \subseteq V
  BY WrittenStep DEF LineInv, DescentInv, EditInv, Leading
<1>2. PICK P, R : AllOn(state, q, P, R, W)
  BY DEF LineInv
<1>3. PICK Q, T : /\ AllOn(state', q, Q, T, V) /\ Lengthens(P, R, Q, T)
                  /\ \A e \in Devices : KeepsRecords(state[e], state'[e])
  BY <1>1, <1>2, LineOnward DEF GoesOn
<1>4. /\ World(W) /\ Trail(P, R, q, W) /\ OnTrail(s, P, R, q, W) /\ GoodOperations(W)
      /\ World(V) /\ Trail(Q, T, q, V) /\ OnTrail(t, Q, T, q, V)
      /\ \A op \in s.ops : apply(s, op) = [op |-> op, refused |-> FALSE]
      /\ \A op \in t.ops : apply(t, op) = [op |-> op, refused |-> FALSE]
      /\ \A r \in s.sequence : r \in t.sequence \/ r.height <= t.checkpoint.sequence.height
      /\ s.ops \subseteq W
  BY <1>2, <1>3 DEF KnownWorld, AllOn, World, KeepsRecords, OnTrail, GoodState, Above
<1>5. \A x \in W : /\ holds(s, x) => holds(t, x)
                   /\ Covers(s.checkpoint, position(x)) => Covers(t.checkpoint, position(x))
  BY <1>1, HeldOnward
<1> HIDE DEF q, W, V, s, t
<1>6. PICK n : Pins(s, P, R, n)
  BY <1>4, SettledPinned
<1>7. PICK m : Pins(t, Q, T, m)
  BY <1>4, SettledPinned
<1>8. s.checkpoint.sequence.height <= t.checkpoint.sequence.height
  BY <1>1, <1>3, <1>4, <1>5, ReachedOrdered DEF OnTrail
<1> DEFINE a == s.checkpoint.sequence.height + n
           b == t.checkpoint.sequence.height + m
<1>9. a <= b
  <2>1. \A x \in W : x \in s.ops => x \in t.ops \/ Covers(t.checkpoint, position(x))
    BY <1>5 DEF holds
  <2>2. PlacesTo(s, P, R, n) /\ PlacesTo(t, Q, T, m)
    BY <1>6, <1>7 DEF Pins
  <2> QED BY <1>1, <1>3, <1>4, <1>8, <2>1, <2>2, PlacesAsFar
<1>10. /\ a \in 0..Len(P) /\ b \in 0..Len(Q) /\ P \in Seq(W) /\ Q \in Seq(V) /\ Len(P) <= Len(Q)
       /\ Begins(P, Q)
  BY <1>3, <1>4, <1>6, <1>7, PinnedAt DEF Trail, Lengthens, Begins
<1>11. settled(s) = marked(SubSeq(P, 1, a)) /\ settled(t) = marked(SubSeq(Q, 1, b))
  BY <1>6, <1>7 DEF Pins
<1> HIDE DEF a, b
<1>12. P \in Seq(V)
  BY <1>1, <1>10, SeqMonotonic
<1>13. SubSeq(P, 1, a) = SubSeq(Q, 1, a)
  BY <1>10, <1>12, SameBeginning
<1>14. a \in 0..Len(Q)
  <2>1. Len(P) \in Nat /\ Len(Q) \in Nat
    BY <1>10
  <2> QED BY <1>10, <2>1
<1>15. IsPrefix(settled(s), settled(t))
  BY <1>9, <1>10, <1>11, <1>13, <1>14, PartMarked
<1> QED BY <1>15 DEF s, t

-----------------------------------------------------------------------------
(* The theorems, of either order.                                          *)

\* Where the configuration stays and no device loses its memory, however operations are
\* written, placed, imported, acknowledged and checkpointed, what is stable on one device
\* has the same place on every device.
THEOREM StableAgrees == Spec => [](Quiet => StableAgree)
<1>1. Quiet => Leading \/ Merging
  BY DEF Leading, Merging
<1> QED BY <1>1, MergedAgrees, LineKnown, LineAgrees, PTL

\* What is stable on a device keeps its place there, whatever it learns and signs.
THEOREM StableStays == Spec /\ [](scenario.changes = {}) => StableFinal
<1> DEFINE inv == AgreeInv /\ (Merging => AllKnow) /\ LineInv /\ (Quiet => KnownWorld)
<1>1. inv /\ inv' /\ scenario.changes = {} /\ [Next]_vars =>
        [calm({"remove", "roster", "sequencer"})' /\ scenario.losing = {} =>
           \A d \in Devices : state'[d] # state[d] =>
             \E before \in {settled(state[d])}, after \in {settled(state'[d])} :
               \/ IsPrefix(before, after)
               \/ "add" \in scenario.changes /\ IsPrefix(before, replay(state'[d]))]_vars
  <2> SUFFICES ASSUME inv, inv', scenario.changes = {}, [Next]_vars,
                      restored' = {}, scenario.losing = {}, NEW d \in Devices
               PROVE  IsPrefix(settled(state[d]), settled(state'[d]))
    BY DEF calm
  <2>1. Types
    BY DEF AgreeInv, DescentInv, EditInv
  <2>2. Quiet /\ Quiet'
    BY <2>1, EnvironmentStep DEF Quiet
  <2>3. CASE Merging
    <3>1. Merging'
      BY <2>1, <2>2, <2>3, EnvironmentStep DEF Merging
    <3> QED BY <2>2, <2>3, <3>1, SettledStays
  <2>4. CASE Leading
    BY <2>2, <2>4, LineStays
  <2> QED BY <2>2, <2>3, <2>4 DEF Merging, Leading
<1> QED BY <1>1, AgreeingKnow, AgreeInvariant, LineKnown, PTL DEF Spec, StableFinal

=============================================================================
