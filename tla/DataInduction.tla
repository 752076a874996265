---------------------------- MODULE DataInduction ----------------------------
(***************************************************************************)
(* Induction and recursion over data, for the proofs about the functions   *)
(* that modules define recursively: chains of records, merges nested in    *)
(* merges, sequences built up one element at a time.                       *)
(*                                                                         *)
(* What is to hold is a set of the elements it holds of, and a recursive   *)
(* definition a function of the element and of the values below it, so     *)
(* that each fact here is first-order. A rank in Nat says what is below.   *)
(***************************************************************************)
EXTENDS Integers, Sequences, FiniteSetTheorems, WellFoundedInduction, TLAPS

\* A nonempty set of naturals has a least element.
LEMMA LeastNumber ==
  ASSUME NEW S \in SUBSET Nat, S # {}
  PROVE  \E s \in S : \A t \in S : s <= t
<1> DEFINE upTo == {1..s : s \in S}
<1>1. \A s \in S : 1..s \in FiniteSubsetsOf(Nat)
  BY FS_Interval DEF FiniteSubsetsOf
<1>2. upTo \subseteq FiniteSubsetsOf(Nat) /\ upTo # {}
  BY <1>1
<1>3. PICK X \in upTo : \A Y \in upTo : ~ (<<Y, X>> \in StrictSubsetOrdering(Nat))
  BY <1>2, FS_StrictSubsetOrderingWellFounded, WFMin
<1>4. PICK s \in S : X = 1..s
  OBVIOUS
<1>5. ASSUME NEW t \in S, t < s PROVE FALSE
  <2>1. 1..t \in upTo /\ 1..t # 1..s /\ 1..t \subseteq 1..s
    BY <1>5
  <2>2. <<1..t, 1..s>> \in StrictSubsetOrdering(Nat)
    BY <2>1 DEF StrictSubsetOrdering
  <2> QED BY <1>3, <1>4, <2>1, <2>2
<1> QED BY <1>5

\* A set of naturals that has 0 and the successor of each of its members is Nat.
LEMMA NumberInduction ==
  ASSUME NEW T \in SUBSET Nat, 0 \in T, \A n \in T : n + 1 \in T
  PROVE  T = Nat
<1> SUFFICES ASSUME T # Nat PROVE FALSE
  OBVIOUS
<1>1. PICK m \in Nat \ T : \A n \in Nat \ T : m <= n
  BY LeastNumber
<1>2. m # 0 /\ m - 1 \in Nat
  BY <1>1
<1>3. m - 1 \in T
  BY <1>1, <1>2
<1> QED BY <1>1, <1>2, <1>3

\* A set that has each element of S as soon as it has those of lower rank has
\* them all.
LEMMA RankInduction ==
  ASSUME NEW S, NEW rank \in [S -> Nat], NEW T,
         \A x \in S : (\A y \in S : rank[y] < rank[x] => y \in T) => x \in T
  PROVE  S \subseteq T
<1> SUFFICES ASSUME NEW x \in S, x \notin T PROVE FALSE
  OBVIOUS
<1> DEFINE ranks == {rank[y] : y \in S \ T}
<1>1. ranks \in SUBSET Nat /\ ranks # {}
  OBVIOUS
<1>2. PICK m \in ranks : \A n \in ranks : m <= n
  <2> HIDE DEF ranks
  <2> QED BY <1>1, LeastNumber
<1>3. PICK y \in S \ T : rank[y] = m
  OBVIOUS
<1>4. \A z \in S : rank[z] < rank[y] => z \in T
  BY <1>2, <1>3
<1> QED BY <1>3, <1>4

\* What a recursive definition makes of an element and the values of others.
Steps(S, V) == [S -> [[S -> V] -> V]]

\* The values below x decide the value at x.
Decided(S, V, rank, step) ==
  \A x \in S : \A f, g \in [S -> V] :
    (\A y \in S : rank[y] < rank[x] => f[y] = g[y]) => step[x][f] = step[x][g]

\* f is what the recursive definition says where the rank is below n.
Solves(S, rank, step, f, n) == \A x \in S : rank[x] < n => f[x] = step[x][f]

\* Two functions that a recursive definition describes agree.
LEMMA OneSolution ==
  ASSUME NEW S, NEW V, NEW rank \in [S -> Nat], NEW step \in Steps(S, V),
         Decided(S, V, rank, step)
  PROVE  \A n \in Nat, f, g \in [S -> V] :
           Solves(S, rank, step, f, n) /\ Solves(S, rank, step, g, n)
             => \A x \in S : rank[x] < n => f[x] = g[x]
<1> SUFFICES ASSUME NEW n \in Nat, NEW f \in [S -> V], NEW g \in [S -> V],
                    Solves(S, rank, step, f, n), Solves(S, rank, step, g, n)
             PROVE  \A x \in S : rank[x] < n => f[x] = g[x]
  OBVIOUS
<1> DEFINE T == {x \in S : rank[x] < n => f[x] = g[x]}
<1>1. ASSUME NEW x \in S, \A y \in S : rank[y] < rank[x] => y \in T
      PROVE  x \in T
  <2> SUFFICES ASSUME rank[x] < n PROVE f[x] = g[x]
    OBVIOUS
  <2>1. \A y \in S : rank[y] < rank[x] => f[y] = g[y]
    BY <1>1
  <2>2. step[x][f] = step[x][g]
    BY <2>1 DEF Decided
  <2> QED BY <2>2 DEF Solves
<1> HIDE DEF T
<1>2. S \subseteq T
  BY <1>1, RankInduction
<1> QED BY <1>2 DEF T

\* A definition by recursion on the rank describes a function.
LEMMA Recursion ==
  ASSUME NEW S, NEW V, V # {}, NEW rank \in [S -> Nat], NEW step \in Steps(S, V),
         Decided(S, V, rank, step)
  PROVE  \E f \in [S -> V] : \A x \in S : f[x] = step[x][f]
<1> DEFINE solved == {n \in Nat : \E f \in [S -> V] : Solves(S, rank, step, f, n)}
<1>1. 0 \in solved
  <2>1. PICK v \in V : TRUE
    OBVIOUS
  <2>2. [x \in S |-> v] \in [S -> V] /\ Solves(S, rank, step, [x \in S |-> v], 0)
    BY DEF Solves
  <2> QED BY <2>2
<1>2. ASSUME NEW n \in solved PROVE n + 1 \in solved
  <2>1. PICK f \in [S -> V] : Solves(S, rank, step, f, n)
    OBVIOUS
  <2> DEFINE g == [x \in S |-> IF rank[x] < n THEN f[x] ELSE step[x][f]]
  <2>2. g \in [S -> V]
    BY DEF Steps
  <2>3. ASSUME NEW x \in S, rank[x] < n + 1 PROVE g[x] = step[x][g]
    <3>1. \A y \in S : rank[y] < rank[x] => f[y] = g[y]
      BY <2>3
    <3>2. step[x][f] = step[x][g]
      BY <2>2, <3>1 DEF Decided
    <3>3. g[x] = step[x][f]
      BY <2>1 DEF Solves
    <3> QED BY <3>2, <3>3
  <2>4. Solves(S, rank, step, g, n + 1)
    BY <2>3 DEF Solves
  <2> QED BY <2>2, <2>4
<1>3. solved = Nat
  <2> HIDE DEF solved
  <2>1. solved \in SUBSET Nat
    BY DEF solved
  <2> QED BY <1>1, <1>2, <2>1, NumberInduction
<1> DEFINE below == [n \in Nat |-> CHOOSE f \in [S -> V] : Solves(S, rank, step, f, n)]
<1>4. \A n \in Nat : below[n] \in [S -> V] /\ Solves(S, rank, step, below[n], n)
  BY <1>3
<1> DEFINE F == [x \in S |-> below[rank[x] + 1][x]]
<1> HIDE DEF below, solved
<1>5. F \in [S -> V]
  BY <1>4
<1>6. ASSUME NEW x \in S PROVE F[x] = step[x][F]
  <2> DEFINE f == below[rank[x] + 1]
  <2>1. f \in [S -> V] /\ Solves(S, rank, step, f, rank[x] + 1)
    BY <1>4
  <2>2. ASSUME NEW y \in S, rank[y] < rank[x] PROVE F[y] = f[y]
    <3>1. /\ below[rank[y] + 1] \in [S -> V]
          /\ Solves(S, rank, step, below[rank[y] + 1], rank[y] + 1)
      BY <1>4
    <3>2. Solves(S, rank, step, f, rank[y] + 1)
      BY <2>1, <2>2 DEF Solves
    <3> DEFINE n == rank[y] + 1 g == below[n]
    <3>3. n \in Nat /\ rank[y] < n
      OBVIOUS
    <3>4. F[y] = g[y]
      OBVIOUS
    <3>5. f \in [S -> V] /\ g \in [S -> V]
      BY <2>1, <3>1
    <3>6. Solves(S, rank, step, f, n) /\ Solves(S, rank, step, g, n)
      BY <3>1, <3>2
    <3> HIDE DEF f, g, n, F
    <3>7. \A z \in S : rank[z] < n => g[z] = f[z]
      BY OneSolution, <3>3, <3>5, <3>6
    <3> QED BY <3>3, <3>4, <3>7
  <2>3. step[x][f] = step[x][F]
    BY <1>5, <2>1, <2>2 DEF Decided
  <2>4. F[x] = f[x]
    OBVIOUS
  <2>5. f[x] = step[x][f]
    BY <2>1 DEF Solves
  <2> QED BY <2>3, <2>4, <2>5
<1> QED BY <1>5, <1>6
\* Of finitely many elements, one has the lowest value.
LEMMA LowestElement ==
  ASSUME NEW S, IsFiniteSet(S), S # {}, NEW value \in [S -> Int]
  PROVE  \E x \in S : \A y \in S : value[x] <= value[y]
<1> DEFINE below(x) == {y \in S : value[y] < value[x]}
           counts == {Cardinality(below(x)) : x \in S}
<1>1. \A x \in S : IsFiniteSet(below(x)) /\ Cardinality(below(x)) \in Nat
  BY FS_Subset, FS_CardinalityType
<1>2. counts \in SUBSET Nat /\ counts # {}
  BY <1>1
<1>3. PICK n \in counts : \A m \in counts : n <= m
  <2> HIDE DEF counts
  <2> QED BY <1>2, LeastNumber
<1>4. PICK x \in S : n = Cardinality(below(x))
  OBVIOUS
<1>5. ASSUME NEW y \in S, value[y] < value[x] PROVE FALSE
  <2>1. below(y) \in SUBSET below(x) /\ below(y) # below(x)
    <3>1. \A z \in S : value[z] \in Int
      OBVIOUS
    <3>2. y \in below(x) /\ y \notin below(y)
      BY <1>5, <3>1
    <3>3. \A z \in below(y) : z \in below(x)
      BY <1>5, <3>1
    <3> QED BY <3>2, <3>3
  <2>2. Cardinality(below(y)) <= Cardinality(below(x))
        /\ Cardinality(below(y)) # Cardinality(below(x))
    <3> HIDE DEF below
    <3> QED BY <1>1, <2>1, FS_Subset
  <2>3. Cardinality(below(x)) <= Cardinality(below(y))
    BY <1>3, <1>4
  <2> QED BY <1>1, <2>2, <2>3
<1> QED BY <1>5

\* The set of finitely many integers has a least and a greatest one.
LEMMA LeastAndGreatest ==
  ASSUME NEW S \in SUBSET Int, IsFiniteSet(S), S # {}
  PROVE  /\ \E x \in S : \A y \in S : x <= y
         /\ \E x \in S : \A y \in S : y <= x
<1>1. \E x \in S : \A y \in S : x <= y
  <2> DEFINE value == [x \in S |-> x]
  <2>1. value \in [S -> Int]
    OBVIOUS
  <2>2. \E x \in S : \A y \in S : value[x] <= value[y]
    <3> HIDE DEF value
    <3> QED BY <2>1, LowestElement
  <2> QED BY <2>2
<1>2. \E x \in S : \A y \in S : y <= x
  <2> DEFINE value == [x \in S |-> -x]
  <2>1. value \in [S -> Int]
    OBVIOUS
  <2>2. \E x \in S : \A y \in S : value[x] <= value[y]
    <3> HIDE DEF value
    <3> QED BY <2>1, LowestElement
  <2> QED BY <2>2
<1> QED BY <1>1, <1>2

-----------------------------------------------------------------------------
(* Iteration: a recursive definition that passes from an element to the    *)
(* next one until it stops, and yields what it makes of the last.          *)

Iterates(S, stop, next, out, f) ==
  \A x \in S : f[x] = IF x \in stop THEN out[x] ELSE f[next[x]]

\* An element that does not stop has a next one, of lower rank.
Declines(S, stop, next, rank) ==
  \A x \in S \ stop : next[x] \in S /\ rank[next[x]] < rank[x]

LEMMA Iteration ==
  ASSUME NEW S, NEW V, V # {}, NEW stop, NEW next, NEW out \in [S -> V],
         NEW rank \in [S -> Nat], Declines(S, stop, next, rank)
  PROVE  \E f \in [S -> V] : Iterates(S, stop, next, out, f)
<1> DEFINE value(x, f) == IF x \in stop THEN out[x] ELSE f[next[x]]
           step == [x \in S |-> [f \in [S -> V] |-> value(x, f)]]
<1>1. step \in Steps(S, V)
  BY DEF Steps, Declines
<1>2. Decided(S, V, rank, step)
  BY DEF Decided, Declines
<1>3. PICK f \in [S -> V] : \A x \in S : f[x] = step[x][f]
  <2> HIDE DEF step
  <2> QED BY <1>1, <1>2, Recursion
<1> QED BY <1>3 DEF Iterates

\* The iteration ends in what it makes of an element that has all that passes
\* from each element to the next.
LEMMA IterationEnds ==
  ASSUME NEW S, NEW stop, NEW next, NEW out, NEW rank \in [S -> Nat],
         Declines(S, stop, next, rank),
         NEW f, Iterates(S, stop, next, out, f),
         NEW T \in SUBSET S, \A x \in T \ stop : next[x] \in T
  PROVE  \A x \in T : \E y \in T \cap stop : f[x] = out[y]
<1> DEFINE U == {x \in T : \E y \in T \cap stop : f[x] = out[y]}
           lower == [x \in T |-> rank[x]]
<1>1. lower \in [T -> Nat]
  OBVIOUS
<1>2. ASSUME NEW x \in T, \A y \in T : lower[y] < lower[x] => y \in U PROVE x \in U
  <2>1. CASE x \in stop
    BY <2>1 DEF Iterates
  <2>2. CASE x \notin stop
    <3>1. next[x] \in T /\ rank[next[x]] < rank[x]
      BY <2>2 DEF Declines
    <3>2. next[x] \in U
      BY <1>2, <3>1
    <3>3. f[x] = f[next[x]]
      BY <2>2 DEF Iterates
    <3> QED BY <3>2, <3>3
  <2> QED BY <2>1, <2>2
<1>3. T \subseteq U
  <2> HIDE DEF U, lower
  <2> QED BY <1>1, <1>2, RankInduction
<1> QED BY <1>3
=============================================================================
