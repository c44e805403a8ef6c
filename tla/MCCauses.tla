------------------------------ MODULE MCCauses ------------------------------
(* Instances of ApplierCauses for TLC.                                     *)
EXTENDS ApplierCauses

\* One process: every lane takes its leases under the same name.
OneName == [l \in Lane |-> CHOOSE w \in Worker : TRUE]

\* Two processes: recovery and an applying lane in one, another lane in the other.
TwoNames ==
  LET here == CHOOSE w \in Worker : TRUE
      apart == CHOOSE l \in Applying : TRUE
  IN  [l \in Lane |-> IF l = apart THEN CHOOSE w \in Worker : w # here ELSE here]
=============================================================================
