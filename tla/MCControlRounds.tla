--------------------------- MODULE MCControlRounds ---------------------------
(***************************************************************************)
(* Small groups for ControlRounds.                                         *)
(***************************************************************************)
EXTENDS ControlRounds, TLC

CONSTANTS a, b, c  \* the voters

\* a and c cannot decide without b, nor b and c without a; a and b can.
WeightsLedByA == (a :> 2) @@ (b :> 1) @@ (c :> 1)
WeightsLedByB == (a :> 1) @@ (b :> 2) @@ (c :> 1)
\* Two voters that can only decide together.
WeightsOfTwo == (a :> 1) @@ (b :> 2)

\* With Height 2 of three voters, or 3 of two, a proposes first, then b. With
\* Height 1 of three voters, c proposes first, then a.
OrderOfThree == <<a, b, c>>
OrderOfTwo == <<a, b>>

\* a and b want different values.
WantedApart == [v \in Honest |-> IF v = a THEN {1} ELSE {2}]
WantedAny == [v \in Honest |-> {1, 2}]
WantedOne == [v \in Honest |-> {1}]

fake(type, r, x) ==
  [type |-> type, voter |-> c, round |-> r, value |-> x, validRound |-> 0]

\* c supports both values, and shows each message to whom it likes.
SupportsBoth == {fake("PREVOTE", 1, 1), fake("PRECOMMIT", 1, 1), fake("PREVOTE", 2, 2)}
\* c votes nil in the first round.
VotesNil == {fake("PREVOTE", 1, Nil), fake("PRECOMMIT", 1, Nil)}
\* c signs more for one step than a state keeps.
Equivocates == {fake("PREVOTE", 2, 1), fake("PREVOTE", 2, 2), fake("PREVOTE", 2, Nil)}
\* c proposes an invalid value and supports it.
ProposesInvalid ==
  {fake("PROPOSAL", 1, 2), fake("PRECOMMIT", 1, 2)}
============================================================================
