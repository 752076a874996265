---------------------------- MODULE GroupDecision ----------------------------
(***************************************************************************)
(* What a group decision promises its honest voters: each applies at most  *)
(* one value, an acceptable one, and no two apply different values.        *)
(***************************************************************************)
CONSTANTS
  Deciders,    \* the voters that apply a decision
  Acceptable,  \* the values the group may decide
  Undecided    \* not a value

VARIABLE decided  \* decided[v]: the value v applied, or Undecided

Init == decided = [v \in Deciders |-> Undecided]

Decide(v, x) ==
  /\ decided[v] = Undecided
  /\ \A w \in Deciders : decided[w] \in {Undecided, x}
  /\ decided' = [decided EXCEPT ![v] = x]

Next == \E v \in Deciders, x \in Acceptable : Decide(v, x)

Spec == Init /\ [][Next]_decided
=============================================================================
