-------------------------- MODULE DeliveryPromise --------------------------
(***************************************************************************)
(* What an acknowledged webhook delivery is promised, with no queue, claim *)
(* or process in sight: from acceptance on it is owed an answer, until it  *)
(* is answered once (kept) or set aside for a human (parked).  A kept      *)
(* delivery is never owed again; it can only be forgotten by retention,    *)
(* after which its GUID is a new one.                                      *)
(***************************************************************************)
CONSTANT Delivery

VARIABLE promise

Promises == {"none", "owed", "kept", "parked"}

Init == promise = [d \in Delivery |-> "none"]

\* Delivery d moves along one edge of the promise.
Move(d, from, to) ==
  /\ promise[d] = from
  /\ promise' = [promise EXCEPT ![d] = to]

Accept(d) == Move(d, "none", "owed")
Keep(d) == Move(d, "owed", "kept")
Park(d) == Move(d, "owed", "parked")
Redrive(d) == Move(d, "parked", "owed")

\* Retention forgets any number of kept deliveries at once.
Forget(gone) ==
  /\ gone # {}
  /\ \A d \in gone : promise[d] = "kept"
  /\ promise' = [d \in Delivery |-> IF d \in gone THEN "none" ELSE promise[d]]

Settle(d) == Keep(d) \/ Park(d)

Next ==
  \/ \E d \in Delivery : Accept(d) \/ Settle(d) \/ Redrive(d)
  \/ \E gone \in SUBSET Delivery : Forget(gone)

Spec == Init /\ [][Next]_promise

FairSpec == Spec /\ \A d \in Delivery : WF_promise(Settle(d))
=============================================================================
