---------------------------- MODULE ApplierCauses ----------------------------
(***************************************************************************)
(* Applier with a history of what may have spoilt the effect's facts.  The *)
(* fold calls a history "inconsistent" that no applier could have written; *)
(* the appliers can write one all the same, in four ways, and the history  *)
(* variable names those a behaviour has gone through.                      *)
(***************************************************************************)
EXTENDS Applier

VARIABLE blamed    \* history: the causes met so far

Cause == {"heldBack", "outlived", "oldList", "unleased"}

\* A call held back before it was sent: "unsent" is recorded with no send of its own.
HeldBack == \E l \in Lane : Hold(l) /\ ledger.fold.open # pass[l].seq

\* A pass outlived its lease, and another took it while the first still worked.
Outlived ==
  /\ lease # None /\ lease.age >= LeaseStale /\ Leased(lease.holder)
  /\ \E l \in Lane : Begin(l) \/ Recover(l)

\* Recovery acts on a send that was closed, or passed, after its list was taken.
OldList ==
  \E l \in Lane :
    \/ (Recover(l) \/ Abandon(l)) /\ ledger.fold.open # pass[l].seq
    \/ Forget(l) /\ ledger.fold.open # ledger.newest

\* Recovery closes a send, with no lease, under a pass that works on the effect.
Unleased ==
  \E l \in Lane : (Forget(l) \/ Abandon(l)) /\ \E k \in Lane : Leased(k)

Met(c) ==
  \/ c = "heldBack" /\ HeldBack
  \/ c = "outlived" /\ Outlived
  \/ c = "oldList" /\ OldList
  \/ c = "unleased" /\ Unleased

InitCauses == Init /\ blamed = {}

NextCauses == Next /\ blamed' = blamed \cup {c \in Cause : Met(c)}

SpecCauses == InitCauses /\ [][NextCauses]_<<vars, blamed>>

----------------------------------------------------------------------------
(* Properties.                                                             *)

\* "Inconsistent is history no applier could have written" (facts.ts), nor do they,
\* delivery, sweep and recovery together and across crashes and losses, unless one of
\* the four happened; so nothing is sent again of an effect that was settled.
ImpossibleOnlyBlamed == Inconsistent(ledger.fold) => blamed # {}

\* Two passes are inside one effect only after a lease was outlived and taken over,
\* whichever lanes share a name to take and to release it by (ledger.ts claim).
TogetherOnlyOutlived == "outlived" \notin blamed => OneHolder
=============================================================================
