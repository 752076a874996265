---------------------------- MODULE MCConfigMerge ----------------------------
(* Small instances of ConfigMerge for TLC. *)
EXTENDS ConfigMerge

CONSTANTS a, b, c, r, x

\* Each owner signs the changes it may, at most n of them.
Apart(owners, may, n) ==
  [roles |-> [p \in Peers |-> IF p \in owners THEN "OWNER" ELSE IF p = r THEN "READER" ELSE "NONE"],
   changes |-> [d \in Devices |-> IF d \in owners THEN may[d] ELSE {}],
   signs |-> [d \in Devices |-> IF d \in owners THEN n[d] ELSE 0],
   ranks |-> [d \in Devices |-> Ranks], leaving |-> {}, checkpointer |-> a, checkpoints |-> 0]

Two == {a, b}
OneEach == [d \in Two |-> 1]
TwoAndOne == [d \in Two |-> IF d = a THEN 2 ELSE 1]
About(ps) == [d \in {a, b, c} |-> {"add", "remove"} \X ps]

\* A guest joins and goes.
Guests == Apart(Two, About({x}), TwoAndOne)

\* The same, and a signs a checkpoint.
Checkpointed == [Apart(Two, About({x}), OneEach) EXCEPT !.checkpoints = 1]

\* An owner is removed meanwhile.
Owners == Apart(Two, About({b, x}), OneEach)

\* r asks to leave, which a or b serves, and a adds it again.
Leaves ==
  [Apart(Two, [d \in Two |-> {<<"add", IF d = a THEN r ELSE x>>}], TwoAndOne)
     EXCEPT !.leaving = {r}, !.ranks = [d \in Devices |-> IF d = b THEN {1} ELSE {2}]]

MergeScenarios == {Guests, Checkpointed, Leaves, Owners}

\* a changes the config on its own, while c, which saw b's first change, merges
\* its change with b's second.
Nested ==
  {[Apart({a, b, c}, About({x}),
          [d \in {a, b, c} |-> IF d = a THEN 3 ELSE IF d = b THEN 2 ELSE 1])
      EXCEPT !.changes[c] = {<<"remove", x>>},
             !.ranks = [d \in Devices |-> {IF d = a THEN 1 ELSE IF d = b THEN 2 ELSE 3}]]}
=============================================================================
