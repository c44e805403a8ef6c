------------------------------ MODULE MCSweep ------------------------------
(* Instances of Sweep for TLC in which one thing goes wrong or one item is *)
(* closed, and every item is read anew.  What else people do to an item is *)
(* in Reads.                                                               *)
EXTENDS Sweep

AllOpen == \A r \in Repo, n \in Item : item[r][n].open

FiringAnew ==
  \/ \E r \in Repo : Defer(r) \/ Begin(r)
  \/ ReadConfig
  \/ ListItems
  \/ \E n \in Item : ReadItem(n)
  \/ EndWalk
  \/ Decide
  \/ Finish

NextAnew ==
  \/ \E r \in Repo : Declare(r)
  \/ ClaimDue
  \/ FiringAnew
  \/ AllOpen /\ Failure
  \/ AllOpen /\ faults = 0 /\ \E r \in Repo, n \in Item : Close(r, n)
  \/ Roll
  \/ Tick
  \/ Restart

SpecAnew == Init /\ [][NextAnew]_vars /\ Fairness
=============================================================================
