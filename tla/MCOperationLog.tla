--------------------------- MODULE MCOperationLog ---------------------------
(* Small instances of OperationLog for TLC. *)
EXTENDS OperationLog

CONSTANTS o, b, c

\* The owner o, and the writers b and c.
MCDevices == {o, b, c}

Config(writers, sequencer) ==
  [seqno |-> 0, writers |-> writers, owners |-> {o}, dropped |-> {},
   sequencer |-> sequencer, start |-> NoPosition, removed |-> [d \in Devices |-> 0]]

\* Each of the writers writes one edit, the bodies replay them, and nothing
\* else happens.
Quiet(config, writers, bodies) ==
  [config |-> config, changes |-> {}, appointees |-> {},
   edits |-> [d \in Devices |-> IF d \in writers THEN 1 ELSE 0],
   written |-> 7, bodies |-> bodies, interrupted |-> FALSE, restarts |-> 0, losing |-> {}, restored |-> {}]

Pair == Config(<<o, b>>, None)
Trio == Config(<<o, b, c>>, None)

\* The order is merged, or signed by the owner or by the other writer.
Merge == Quiet(Pair, {o, b}, {o})
OwnerLeads == Quiet(Config(<<o, b>>, o), {o, b}, {o, b})
WriterOrders == Quiet(Config(<<o, b>>, b), {o, b}, {o, b})

\* Three writers, and fewer operations.
TrioMerge == [Quiet(Trio, {b, c}, {}) EXCEPT !.written = 4]

\* A step stops early and a device restarts.
Restarts == [Quiet(Pair, {b}, {o, b}) EXCEPT !.restarts = 1, !.interrupted = TRUE]

\* The writer loses power, which the owner orders or not.
Loses(sequencer) ==
  [Quiet(Config(<<o, b>>, sequencer), {o}, {o}) EXCEPT
     !.edits = [d \in Devices |-> IF d = b THEN 2 ELSE 0],
     !.written = 3, !.restarts = 1, !.losing = {b}]

\* A device comes back from its copy of genesis.
Restores == [Merge EXCEPT !.edits = [d \in Devices |-> IF d = b THEN 2 ELSE 0],
                          !.written = 3, !.restored = {b}]

\* The owner changes the configuration.
Joins == [Quiet(Pair, {c}, {o}) EXCEPT !.written = 4, !.changes = {"add"}]
JoinsLater == [Quiet(Pair, {b, c}, {}) EXCEPT !.written = 4, !.changes = {"add"}]
Leaves == [Quiet(Pair, {b}, {o}) EXCEPT !.changes = {"remove"}]
Drops == [Quiet(Pair, {b}, {o}) EXCEPT !.written = 4, !.changes = {"roster"}]
Appoints == [Quiet(Pair, {b}, {o}) EXCEPT !.changes = {"sequencer"}, !.appointees = {b}]

OrderScenarios ==
  {Merge, OwnerLeads, WriterOrders, TrioMerge, Restarts, Restores,
   Loses(None), Loses(b),
   Joins, JoinsLater, Leaves, Drops, Appoints}

\* The owner removes a writer while its edit is on the way.
LeavesAlone == {Leaves}

\* The owner, ordering the edits of a trio, hands the sequence to a writer.
HandsOver ==
  {[Quiet(Config(<<o, b, c>>, o), {o, b}, {}) EXCEPT
      !.changes = {"sequencer"}, !.appointees = {b}]}
=============================================================================
