---------------------------- MODULE SharedHistory ----------------------------
(***************************************************************************)
(* What the devices of a shared object promise each other: the configs     *)
(* they hold are prefixes of one chain, so are their checkpoints, and a    *)
(* device only moves on along both.                                        *)
(***************************************************************************)
EXTENDS Sequences, SequencesExt

CONSTANT Devices

VARIABLES config, checkpoint  \* what each device holds

Comparable(s, t) == IsPrefix(s, t) \/ IsPrefix(t, s)

Init ==
  \A d, e \in Devices :
    Comparable(config[d], config[e]) /\ Comparable(checkpoint[d], checkpoint[e])

\* d moves on, on the chains the others hold parts of.
Advance(d) ==
  /\ \A e \in Devices \ {d} : config'[e] = config[e] /\ checkpoint'[e] = checkpoint[e]
  /\ IsPrefix(config[d], config'[d]) /\ IsPrefix(checkpoint[d], checkpoint'[d])
  /\ \A e \in Devices :
       Comparable(config'[d], config[e]) /\ Comparable(checkpoint'[d], checkpoint[e])

Next == \E d \in Devices : Advance(d)

Spec == Init /\ [][Next]_<<config, checkpoint>>
=============================================================================
