-------------------------- MODULE MCCheckpointChain --------------------------
(***************************************************************************)
(* Small histories for CheckpointChain.                                    *)
(***************************************************************************)
EXTENDS CheckpointChain, TLC

CONSTANTS a, b, c  \* the devices

owned(members, owners, dropped) ==
  [group |-> FALSE, members |-> members, owners |-> owners, departing |-> {},
   dropped |-> dropped, voters |-> {}]
voting(members, owners, voters) ==
  [group |-> TRUE, members |-> members, owners |-> owners, departing |-> {},
   dropped |-> {}, voters |-> voters]

\* a, which the roster dropped, hands its object to b, which removes a; and both
\* decide with b as the owner to be.
AOwns == owned({a, b, c}, <<a>>, {a})
Handover == [owned({a, b, c}, <<a, b>>, {a}) EXCEPT !.departing = {a}]
BOwns == owned({b, c}, <<b>>, {})
BothVote == voting({a, b, c}, <<a, b>>, {a, b})
Leaving ==
  [genesis |-> AOwns, creator |-> a, contents |-> {Handover, BOwns, BothVote},
   configOnly |-> FALSE, maxConfig |-> 4, maxHeight |-> 3]

\* a shares with b, and then both decide, with the guest c or without; refused
\* devices adopt configs alone.
Shared == owned({a, b}, <<a>>, {})
CJoins == voting({a, b, c}, <<a>>, {a, b})
Guest ==
  [genesis |-> Shared, creator |-> a, contents |-> {Shared, CJoins},
   configOnly |-> TRUE, maxConfig |-> 4, maxHeight |-> 2]

Histories == {Leaving, Guest}

\* Two owners: a checkpoints unless the roster drops it, or a leaves to b, and
\* both may vote.
Owners == owned({a, b}, <<a, b>>, {})
ADropped == owned({a, b}, <<a, b>>, {a})
ALeaves == [Owners EXCEPT !.departing = {a}]
ALeft == owned({b}, <<b>>, {})
OwnersVote == voting({a, b}, <<a, b>>, {a, b})
Alike(contents, maxConfig) ==
  [genesis |-> Owners, creator |-> a, contents |-> contents,
   configOnly |-> FALSE, maxConfig |-> maxConfig, maxHeight |-> 2]
OwnersToGroup == {Alike({Owners, OwnersVote}, 2)}
Takeover == {Alike({Owners, ADropped, ALeaves, ALeft}, 3)}
=============================================================================
