----------------------------- MODULE MCApplier -----------------------------
(* Instances of Applier for TLC.                                           *)
EXTENDS Applier

\* A process for each lane.
OwnName == [l \in Lane |-> l]

OwnWorkers == Lane
=============================================================================
