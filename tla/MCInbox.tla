------------------------------ MODULE MCInbox ------------------------------
(* Instances of Inbox for TLC: two processes, as during a takeover.        *)
EXTENDS Inbox, TLC

CONSTANTS RetryBase, RetryCeiling

\* retryDelayMs: the base doubled once per failure so far, under the ceiling.
Ladder == [n \in 0..MaxAttempts |-> Least(RetryBase * 2^n, RetryCeiling)]

Symmetry ==
  Permutations(Delivery) \cup Permutations(Body) \cup Permutations(Process) \cup Permutations(Token)
=============================================================================
