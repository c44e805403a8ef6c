------------------------------- MODULE Inbox -------------------------------
(***************************************************************************)
(* The webhook lane: the receiver that persists a delivery before it       *)
(* answers, the durable queue `seen_delivery`, and the processes that      *)
(* claim a delivery, decide it and complete it, with crashes, slow passes, *)
(* stale-claim takeover, counted retries, dead letters and retention.      *)
(*                                                                         *)
(* Time is counted in ticks.  Where the table keeps an instant, a row      *)
(* keeps how long ago it was claimed and ended, and how long until it may  *)
(* be retried, or None for NULL: only these differences are ever compared  *)
(* by the code, never an absolute instant.                                 *)
(***************************************************************************)
EXTENDS Naturals

CONSTANTS
  Delivery,       \* GitHub delivery GUIDs
  Body,           \* what a GUID can carry: one value per (event, payload digest)
  Process,        \* processes sharing the store file
  Token,          \* claim tokens
  None,           \* no token, no body, no claim
  MaxAttempts,    \* MAX_DELIVERY_ATTEMPTS
  RetryDelay,     \* the ladder: attempts so far -> ticks to wait
  StaleAge,       \* STALE_CLAIM_MINUTES, in ticks
  Retention,      \* the sweep's retention of completed rows, in ticks
  AgeCap,         \* ages are not told apart beyond this
  MaxWindow,      \* the longest a refused allowance pool makes a delivery wait
  MaxFaults       \* crashes, overruns and operator interventions in a behaviour

ASSUME CapAssumption == MaxAttempts \in Nat \ {0}
ASSUME LadderAssumption == RetryDelay \in [0..MaxAttempts -> Nat]
ASSUME AgeAssumption ==
  /\ StaleAge \in Nat \ {0} /\ Retention \in Nat \ {0} /\ AgeCap \in Nat
  /\ StaleAge <= AgeCap /\ Retention <= AgeCap
ASSUME BoundAssumption == MaxWindow \in Nat /\ MaxFaults \in Nat

VARIABLES
  row,       \* seen_delivery: one row per GUID, "absent" when there is none
  older,     \* ORDER BY received_at, delivery_id: <<d, e>> when d comes first
  at,        \* where each process's delivery lane stands
  claim,     \* what the pass in hand claimed
  acked,     \* history: the bodies answered 202, until their row is pruned
  answered,  \* history: a whole, unrefused record was made since acceptance
  claims,    \* history: claims since acceptance, redrive or release, up to MaxAttempts+1
  faults     \* history: the faults spent so far

rowVars == <<row, older>>
laneVars == <<at, claim>>
vars == <<row, older, at, claim, acked, answered, claims, faults>>

States == {"absent", "pending", "processing", "done", "failed"}

Age == 0..AgeCap

\* body is what event_name and payload_digest tell, payload whether the bytes
\* themselves are still there; the rest are the columns of the table.
Row == [state : States, body : Body \cup {None}, payload : BOOLEAN,
        claim_worker : Process \cup {None}, claim_token : Token \cup {None},
        claimed_at : Age \cup {None}, completed_at : Age \cup {None},
        attempts : 0..MaxAttempts, retry_not_before : Nat \cup {None}]

Absent == [state |-> "absent", body |-> None, payload |-> FALSE,
           claim_worker |-> None, claim_token |-> None, claimed_at |-> None,
           completed_at |-> None, attempts |-> 0, retry_not_before |-> None]

Claim == [id : Delivery, token : Token, attempts : 0..MaxAttempts, body : Body]

ASSUME NoneAssumption ==
  None \notin Token /\ None \notin Body /\ None \notin Process /\ None \notin Nat /\ None \notin Claim

\* A lane is down, resting between drains, pumping (inside a drain, between
\* two passes), working on a claim, or past recordFor: with a record of its
\* own ("answered") or one decided around a refused read ("refused").
Places == {"down", "resting", "pumping", "working", "answered", "refused"}
Busy == {"working", "answered", "refused"}

Least(a, b) == IF a <= b THEN a ELSE b

----------------------------------------------------------------------------
(* The statements of the store.                                            *)

\* claimed_at <= staleBefore
Stale(d) == row[d].state = "processing" /\ row[d].claimed_at # None /\ row[d].claimed_at >= StaleAge

\* retry_not_before IS NULL OR retry_not_before <= now
Eligible(d) ==
  \/ row[d].state = "pending" /\ row[d].retry_not_before \in {None, 0}
  \/ Stale(d)

\* ORDER BY received_at, delivery_id LIMIT 1
IsNext(d) == Eligible(d) /\ \A e \in Delivery : Eligible(e) => <<e, d>> \notin older

\* lower(hex(randomblob(32))): a value nobody holds.
Fresh(t) ==
  /\ \A d \in Delivery : row[d].claim_token # t
  /\ \A p \in Process : claim[p] # None => claim[p].token # t

Inserted(b) == [Absent EXCEPT !.state = "pending", !.body = b, !.payload = TRUE]

Claimed(d, p, t) ==
  [row[d] EXCEPT !.state = "processing", !.claim_worker = p, !.claim_token = t,
                 !.claimed_at = 0, !.retry_not_before = None]

Unclaimed(r) == [r EXCEPT !.claim_worker = None, !.claim_token = None, !.claimed_at = None]

Requeued(r) == [Unclaimed(r) EXCEPT !.state = "pending"]

Completed(r) ==
  [Unclaimed(r) EXCEPT !.state = "done", !.payload = FALSE, !.completed_at = 0]

\* Mutant: the failure is not counted.
AfterFailureUncounted(r, delay) == [Requeued(r) EXCEPT !.retry_not_before = delay]

\* One statement counts the failure and decides what the count leads to.
AfterFailure(r, delay) ==
  LET last == r.attempts + 1 >= MaxAttempts IN
  [Unclaimed(r) EXCEPT !.attempts = r.attempts + 1,
                       !.state = IF last THEN "failed" ELSE "pending",
                       !.completed_at = IF last THEN 0 ELSE None,
                       !.retry_not_before = IF last THEN None ELSE delay]

Redriven(r) ==
  [Unclaimed(r) EXCEPT !.state = "pending", !.completed_at = None, !.attempts = 0,
                       !.retry_not_before = None]

\* The token, not the worker's name, proves ownership.
OwnedBy(c) == row[c.id].state = "processing" /\ row[c.id].claim_token = c.token

\* Mutant: whoever made the record completes the row.
CompletionUnowned(c) ==
  CASE row[c.id].state = "absent" \/ row[c.id].body # c.body -> "identityMismatch"
    [] row[c.id].state = "done" -> "alreadyCompleted"
    [] OTHER -> "completed"

\* refusedCompletion: identity first, then finished, then ownership.
Completion(c) ==
  CASE row[c.id].state = "absent" \/ row[c.id].body # c.body -> "identityMismatch"
    [] row[c.id].state = "done" -> "alreadyCompleted"
    [] row[c.id].claim_token # c.token -> "notOwned"
    [] OTHER -> "completed"

Stuck == {d \in Delivery : Stale(d)}

Ended(d) == row[d].completed_at # None /\ row[d].completed_at >= Retention

\* Mutant: retention asks only how long ago the row ended.
PrunableByAge == {d \in Delivery : Ended(d)}

Prunable == {d \in Delivery : row[d].state = "done" /\ Ended(d)}

----------------------------------------------------------------------------
Init ==
  /\ row = [d \in Delivery |-> Absent]
  /\ older = {}
  /\ at = [p \in Process |-> "pumping"]      \* the start-up drain
  /\ claim = [p \in Process |-> None]
  /\ acked = [d \in Delivery |-> {}]
  /\ answered = [d \in Delivery |-> FALSE]
  /\ claims = [d \in Delivery |-> 0]
  /\ faults = 0

\* A signed delivery reaches the receiver: the row is written, then 202.
ReceiveNew(p, d, b) ==
  /\ at[p] # "down"
  /\ row[d].state = "absent"
  /\ row' = [row EXCEPT ![d] = Inserted(b)]
  /\ older' = older \cup {<<e, d>> : e \in {x \in Delivery : row[x].state # "absent"}}
  /\ acked' = [acked EXCEPT ![d] = @ \cup {b}]
  /\ answered' = [answered EXCEPT ![d] = FALSE]
  /\ claims' = [claims EXCEPT ![d] = 0]
  /\ UNCHANGED <<laneVars, faults>>

\* Mutant: any redelivery of a known GUID is a duplicate.
AcknowledgesAnyBytes(d, b) == TRUE

\* The GUID is known: the same bytes are a duplicate (202), other bytes a
\* conflict (409).  Neither touches the first row.
Acknowledges(d, b) == row[d].body = b

ReceiveKnown(p, d, b) ==
  /\ at[p] # "down"
  /\ row[d].state # "absent"
  /\ Acknowledges(d, b)
  /\ acked' = [acked EXCEPT ![d] = @ \cup {b}]
  /\ UNCHANGED <<rowVars, laneVars, answered, claims, faults>>

\* drain(): single flight; started at start-up, after an ack, and by the tick.
Drain(p) ==
  /\ at[p] = "resting"
  /\ at' = [at EXCEPT ![p] = "pumping"]
  /\ UNCHANGED <<rowVars, claim, acked, answered, claims, faults>>

\* The tick hands back dead claims, then starts a drain unless one is running.
JobsTick(p) ==
  /\ at[p] # "down"
  /\ Stuck # {}
  /\ row' = [d \in Delivery |-> IF d \in Stuck THEN Requeued(row[d]) ELSE row[d]]
  /\ at' = [at EXCEPT ![p] = IF @ = "resting" THEN "pumping" ELSE @]
  /\ UNCHANGED <<older, claim, acked, answered, claims, faults>>

\* attemptNext: claim the oldest eligible delivery.
ClaimNext(p) ==
  /\ at[p] = "pumping"
  /\ \E d \in Delivery, t \in Token :
       /\ IsNext(d)
       /\ Fresh(t)
       /\ row' = [row EXCEPT ![d] = Claimed(d, p, t)]
       /\ claim' = [claim EXCEPT ![p] = [id |-> d, token |-> t,
                                         attempts |-> row[d].attempts, body |-> row[d].body]]
       /\ claims' = [claims EXCEPT ![d] = Least(@ + 1, MaxAttempts + 1)]
  /\ at' = [at EXCEPT ![p] = "working"]
  /\ UNCHANGED <<older, acked, answered, faults>>

\* Nothing eligible: the drain is over.
Idle(p) ==
  /\ at[p] = "pumping"
  /\ \A d \in Delivery : ~Eligible(d)
  /\ at' = [at EXCEPT ![p] = "resting"]
  /\ UNCHANGED <<rowVars, claim, acked, answered, claims, faults>>

\* recordFor returned one of its five records and no read was refused.
Record(p) ==
  /\ at[p] = "working"
  /\ at' = [at EXCEPT ![p] = "answered"]
  /\ answered' = [answered EXCEPT ![claim[p].id] = @ \/ row[claim[p].id].body = claim[p].body]
  /\ UNCHANGED <<rowVars, claim, acked, claims, faults>>

\* Mutant: the refusals the lane's allowance counted are not asked for.
RecordRefusedUnseen(p) ==
  /\ at[p] = "working"
  /\ at' = [at EXCEPT ![p] = "answered"]
  /\ UNCHANGED <<rowVars, claim, acked, answered, claims, faults>>

\* It returned a record, but the lane's allowance turned a read away meanwhile.
RecordRefused(p) ==
  /\ at[p] = "working"
  /\ at' = [at EXCEPT ![p] = "refused"]
  /\ UNCHANGED <<rowVars, claim, acked, answered, claims, faults>>

\* completeDelivery commits and the drain goes on.
Complete(p) ==
  /\ at[p] = "answered"
  /\ Completion(claim[p]) = "completed"
  /\ row' = [row EXCEPT ![claim[p].id] = Completed(@)]
  /\ at' = [at EXCEPT ![p] = "pumping"]
  /\ claim' = [claim EXCEPT ![p] = None]
  /\ UNCHANGED <<older, acked, answered, claims, faults>>

\* What retry_not_before is set to: the ladder's step, or the refused pool's
\* reset where it names one, which may already be past.
Delays(p) == 0..MaxWindow \cup {RetryDelay[claim[p].attempts]}

\* Mutant: a refused read is not held against the delivery.
AttemptForgiven(p) ==
  /\ at[p] \in {"working", "refused"}
  /\ OwnedBy(claim[p])
  /\ row' = [row EXCEPT ![claim[p].id] =
               IF at[p] = "refused" THEN Requeued(@) ELSE AfterFailure(@, 0)]
  /\ at' = [at EXCEPT ![p] = "pumping"]
  /\ claim' = [claim EXCEPT ![p] = None]
  /\ UNCHANGED <<older, acked, answered, claims, faults>>

\* notCompleted: a throw in recordFor, or a record decided around a refused
\* read, by the process that still owns the claim.  The attempt is counted
\* and the drain steps over it.
AttemptFails(p) ==
  /\ at[p] \in {"working", "refused"}
  /\ OwnedBy(claim[p])
  /\ \E delay \in Delays(p) :
       row' = [row EXCEPT ![claim[p].id] = AfterFailure(@, delay)]
  /\ at' = [at EXCEPT ![p] = "pumping"]
  /\ claim' = [claim EXCEPT ![p] = None]
  /\ UNCHANGED <<older, acked, answered, claims, faults>>

\* The claim was lost while the pass ran: the completion is refused, or the
\* failure finds no row under its token.  Nothing is counted and the drain ends.
LoseClaim(p) ==
  /\ \/ at[p] = "answered" /\ Completion(claim[p]) # "completed"
     \/ at[p] \in {"working", "refused"} /\ ~OwnedBy(claim[p])
  /\ at' = [at EXCEPT ![p] = "resting"]
  /\ claim' = [claim EXCEPT ![p] = None]
  /\ UNCHANGED <<rowVars, acked, answered, claims, faults>>

----------------------------------------------------------------------------
(* The process's and the operator's side.                                  *)

Fault == faults < MaxFaults /\ faults' = faults + 1

Crash(p) ==
  /\ at[p] # "down"
  /\ Fault
  /\ at' = [at EXCEPT ![p] = "down"]
  /\ claim' = [claim EXCEPT ![p] = None]
  /\ UNCHANGED <<rowVars, acked, answered, claims>>

Restart(p) ==
  /\ at[p] = "down"
  /\ at' = [at EXCEPT ![p] = "pumping"]
  /\ UNCHANGED <<rowVars, claim, acked, answered, claims, faults>>

\* redriveDelivery: a dead letter gets a fresh attempt budget.
Redrive(d) ==
  /\ row[d].state = "failed"
  /\ Fault
  /\ row' = [row EXCEPT ![d] = Redriven(@)]
  /\ claims' = [claims EXCEPT ![d] = 0]
  /\ UNCHANGED <<older, laneVars, acked, answered>>

\* releaseDelivery with the current token: back to the queue, uncounted.
Release(d) ==
  /\ row[d].state = "processing"
  /\ Fault
  /\ row' = [row EXCEPT ![d] = Requeued(@)]
  /\ claims' = [claims EXCEPT ![d] = 0]
  /\ UNCHANGED <<older, laneVars, acked, answered>>

\* The sweep's retention: only completed identities past the window go.
Prune ==
  /\ Prunable # {}
  /\ row' = [d \in Delivery |-> IF d \in Prunable THEN Absent ELSE row[d]]
  /\ older' = {pair \in older : pair[1] \notin Prunable /\ pair[2] \notin Prunable}
  /\ acked' = [d \in Delivery |->
                 IF row[d].state = "done" /\ d \in Prunable THEN {} ELSE acked[d]]
  /\ UNCHANGED <<laneVars, answered, claims, faults>>

Older(age) == IF age = None THEN None ELSE Least(age + 1, AgeCap)

Sooner(wait) == IF wait \in {None, 0} THEN wait ELSE wait - 1

Aged(r) ==
  [r EXCEPT !.claimed_at = Older(@), !.completed_at = Older(@), !.retry_not_before = Sooner(@)]

\* A live pass whose claim is about to go stale: one more tick is a fault.
Overrun ==
  \E p \in Process :
    at[p] \in Busy /\ OwnedBy(claim[p]) /\ row[claim[p].id].claimed_at = StaleAge - 1

Clock ==
  /\ row' = [d \in Delivery |-> Aged(row[d])]
  /\ IF Overrun THEN Fault ELSE UNCHANGED faults
  /\ UNCHANGED <<older, laneVars, acked, answered, claims>>

----------------------------------------------------------------------------
Pass(p) ==
  \/ Record(p)
  \/ RecordRefused(p)
  \/ Complete(p)
  \/ AttemptFails(p)
  \/ LoseClaim(p)

Pump(p) == ClaimNext(p) \/ Idle(p)

Next ==
  \/ \E p \in Process, d \in Delivery, b \in Body : ReceiveNew(p, d, b)
  \/ \E p \in Process, d \in Delivery, b \in Body : ReceiveKnown(p, d, b)
  \/ \E p \in Process : Drain(p)
  \/ \E p \in Process : JobsTick(p)
  \/ \E p \in Process : Pump(p)
  \/ \E p \in Process : Pass(p)
  \/ \E p \in Process : Crash(p)
  \/ \E p \in Process : Restart(p)
  \/ \E d \in Delivery : Redrive(d)
  \/ \E d \in Delivery : Release(d)
  \/ Prune
  \/ Clock

Spec == Init /\ [][Next]_vars

\* The process manager restarts a process, the interval keeps ticking, an
\* awaited pass settles (every GitHub request has a deadline), time goes on.
Fairness ==
  /\ \A p \in Process :
       /\ WF_vars(Restart(p))
       /\ WF_vars(Drain(p))
       /\ WF_vars(JobsTick(p))
       /\ WF_vars(Pump(p))
       /\ WF_vars(Pass(p))
  /\ WF_vars(Clock)

FairSpec == Spec /\ Fairness

----------------------------------------------------------------------------
(* Properties.                                                             *)

TypeOK ==
  /\ row \in [Delivery -> Row]
  /\ older \subseteq Delivery \X Delivery
  /\ at \in [Process -> Places]
  /\ claim \in [Process -> Claim \cup {None}]
  /\ acked \in [Delivery -> SUBSET Body]
  /\ answered \in [Delivery -> BOOLEAN]
  /\ claims \in [Delivery -> 0..MaxAttempts + 1]
  /\ faults \in Nat

\* The CHECK of seen_delivery, line for line (schema.ts).
Checked(r) ==
  /\ r.body \in Body
  /\ \/ /\ r.state = "pending" /\ r.payload
        /\ r.claim_worker = None /\ r.claim_token = None
        /\ r.claimed_at = None /\ r.completed_at = None
     \/ /\ r.state = "processing" /\ r.payload
        /\ r.claim_worker # None /\ r.claim_token # None
        /\ r.claimed_at # None /\ r.completed_at = None
        /\ r.retry_not_before = None
     \/ /\ r.state = "done" /\ ~r.payload
        /\ r.claim_worker = None /\ r.claim_token = None
        /\ r.claimed_at = None /\ r.completed_at # None
        /\ r.retry_not_before = None
     \/ /\ r.state = "failed" /\ r.payload
        /\ r.claim_worker = None /\ r.claim_token = None
        /\ r.claimed_at = None /\ r.completed_at # None
        /\ r.retry_not_before = None /\ r.attempts > 0

\* A statement that moves a row to a state leaves every other column as that
\* state needs it: where it did not, SQLite would throw instead, and in the
\* tick or the drain, for ever (schema.ts, inbox.ts).
RowShape == \A d \in Delivery : row[d] = Absent \/ Checked(row[d])

\* "The durable row exists before the ack, so a crash one millisecond later
\* loses nothing" (architecture.md): until retention deletes a completed row,
\* the row of an acknowledged GUID is there and holds the acknowledged bytes.
AckedIsDurable ==
  \A d \in Delivery : \A b \in acked[d] : row[d].state # "absent" /\ row[d].body = b

\* A row is done only after some pass made a whole record of the bytes it
\* holds since they were accepted: no crash, takeover, lost token or refused
\* read can complete a delivery nobody decided (deliveries.ts attemptNext).
RecordBeforeDone ==
  \A d \in Delivery : row[d].state = "done" => answered[d]

\* A delivery waiting or in hand always has an attempt left, and a dead letter
\* has spent them all: the cap is compared with the incremented count.
CapHolds ==
  \A d \in Delivery :
    /\ row[d].state \in {"pending", "processing"} => row[d].attempts < MaxAttempts
    /\ row[d].state = "failed" => row[d].attempts = MaxAttempts

\* Every claim that did not complete was counted as an attempt, except those a
\* crash, an overrun of the stale window or an operator took away.
EveryClaimCounts ==
  \A d \in Delivery :
    row[d].state \in {"pending", "processing", "failed"} =>
      claims[d] <= row[d].attempts + faults + (IF row[d].state = "processing" THEN 1 ELSE 0)

\* Two passes may run on one delivery after a takeover.  Whoever completes it
\* or has its failure counted is the one that claimed it last, in the pass of
\* that claim, and not one it was handed back or taken over from meanwhile
\* (inbox.ts refusedCompletion, releaseDeliveryAfterFailure).
EndedByLastClaimant ==
  [][\A d \in Delivery :
       \/ row[d].state # "done" /\ row'[d].state = "done"
       \/ row'[d].attempts > row[d].attempts
       => \E p \in Process :
            /\ row[d].claim_worker = p
            /\ claim[p] # None /\ claim[p].id = d /\ claim'[p] = None]_vars

\* A live pass loses its claim only to the stale window, or to an operator.
TakeoverOnlyWhenStale ==
  [][\A p \in Process :
       /\ at[p] \in Busy /\ OwnedBy(claim[p])
       /\ claim'[p] = claim[p] /\ ~OwnedBy(claim[p])'
       /\ faults' = faults
       => row[claim[p].id].claimed_at >= StaleAge]_vars

\* What the queue owes the rest of the system: DeliveryPromise.
PromiseOf(r) ==
  CASE r.state = "absent" -> "none"
    [] r.state \in {"pending", "processing"} -> "owed"
    [] r.state = "done" -> "kept"
    [] r.state = "failed" -> "parked"

Promise == INSTANCE DeliveryPromise WITH promise <- [d \in Delivery |-> PromiseOf(row[d])]

\* Every step of the queue is a step of the promise or changes nothing of it.
ImplementsPromise == Promise!Spec

\* And every delivery owed is in the end kept or parked, once faults stop.
KeepsPromise == Promise!FairSpec
=============================================================================
