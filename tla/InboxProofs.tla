---------------------------- MODULE InboxProofs ----------------------------
(* Proofs about Inbox, for any deliveries, processes, tokens and bounds.   *)
EXTENDS Inbox, TLAPS

\* A lane holds a claim exactly while it is inside a pass.
LaneShape == \A p \in Process : at[p] \in Busy <=> claim[p] # None

\* What an owner remembers of its row is still true of it, it claimed it last,
\* and an answered pass that still owns its row made the record it waits for.
OwnerShape ==
  \A p \in Process :
    claim[p] # None /\ OwnedBy(claim[p]) =>
      /\ row[claim[p].id].body = claim[p].body
      /\ row[claim[p].id].claim_worker = p
      /\ at[p] = "answered" => answered[claim[p].id]

\* What the other conjuncts need of a row the table accepts.
ShapeOf(r) ==
  /\ r.claim_token # None <=> r.state = "processing"
  /\ r.claimed_at # None <=> r.state = "processing"
  /\ r.state # "absent" => r.body \in Body

Shape == \A d \in Delivery : ShapeOf(row[d])

IInv ==
  /\ TypeOK
  /\ RowShape
  /\ Shape
  /\ AckedIsDurable
  /\ RecordBeforeDone
  /\ CapHolds
  /\ LaneShape
  /\ OwnerShape

USE DEF Row, Claim, States, Places, Busy

\* An empty store satisfies the invariant.
LEMMA InitIInv == Init => IInv
BY CapAssumption, AgeAssumption, NoneAssumption
DEF Init, IInv, TypeOK, RowShape, Shape, ShapeOf, AckedIsDurable, RecordBeforeDone, CapHolds,
    LaneShape, OwnerShape, OwnedBy, Absent

----------------------------------------------------------------------------
(* What each statement makes of a row.                                     *)

\* Zero is an instant, an age and a count, and no instant is NULL.
LEMMA ZeroFacts ==
  /\ 0 \in Age /\ 0 \in 0..MaxAttempts /\ 0 \in Nat
  /\ None \notin Age /\ None \notin Nat /\ None \notin Process /\ None \notin Token
  /\ None \notin Body
BY AgeAssumption, CapAssumption, NoneAssumption DEF Age

\* A row the table accepts, or none, has the shape the other conjuncts use.
LEMMA CheckedShape == \A r : r = Absent \/ Checked(r) => ShapeOf(r)
BY DEF Absent, Checked, ShapeOf

\* Any row that is there is one the table accepts.
LEMMA RowChecked == ASSUME IInv, NEW d \in Delivery, row[d].state # "absent"
  PROVE Checked(row[d])
BY DEF IInv, RowShape, Absent

\* The fields of the row that Inserted returns, its type, and that it is accepted.
LEMMA InsertedFacts == ASSUME NEW b \in Body
  PROVE /\ Inserted(b) \in Row /\ Checked(Inserted(b))
        /\ Inserted(b).state = "pending" /\ Inserted(b).body = b
        /\ Inserted(b).claim_token = None /\ Inserted(b).attempts = 0
BY ZeroFacts DEF Inserted, Absent, Checked

\* The fields of the row that Absent returns, and its type.
LEMMA AbsentFacts ==
  /\ Absent \in Row
  /\ Absent.state = "absent" /\ Absent.claim_token = None
BY ZeroFacts DEF Absent

\* The fields of the row that Claimed returns, its type, and that it is accepted
\* if the row that was claimed is.
LEMMA ClaimedFacts ==
  ASSUME TypeOK, NEW d \in Delivery, NEW p \in Process, NEW t \in Token
  PROVE LET r == Claimed(d, p, t) IN
        /\ r \in Row
        /\ r.state = "processing" /\ r.body = row[d].body /\ r.claim_token = t
        /\ r.claim_worker = p /\ r.claimed_at = 0 /\ r.attempts = row[d].attempts
        /\ Checked(row[d]) /\ row[d].state \in {"pending", "processing"} => Checked(r)
<1>1. row[d] \in Row BY DEF TypeOK
<1>2. QED BY <1>1, ZeroFacts DEF Claimed, Checked

\* The fields of the row that Requeued returns, its type, and that it is accepted
\* if it was claimed.
LEMMA RequeuedFacts == ASSUME NEW r \in Row
  PROVE /\ Requeued(r) \in Row
        /\ Requeued(r).state = "pending" /\ Requeued(r).body = r.body
        /\ Requeued(r).claim_token = None /\ Requeued(r).attempts = r.attempts
        /\ Checked(r) /\ r.state = "processing" => Checked(Requeued(r))
BY ZeroFacts DEF Requeued, Unclaimed, Checked

\* The fields of the row that Completed returns, its type, and that it is accepted
\* if it was claimed.
LEMMA CompletedFacts == ASSUME NEW r \in Row
  PROVE /\ Completed(r) \in Row
        /\ Completed(r).state = "done" /\ Completed(r).body = r.body
        /\ Completed(r).claim_token = None /\ Completed(r).attempts = r.attempts
        /\ Checked(r) /\ r.state = "processing" => Checked(Completed(r))
BY ZeroFacts DEF Completed, Unclaimed, Checked

\* The fields of the row that AfterFailure returns, its type, and that it is
\* accepted if it was claimed.
LEMMA AfterFailureFacts ==
  ASSUME NEW r \in Row, r.attempts < MaxAttempts, NEW delay \in Nat
  PROVE LET q == AfterFailure(r, delay) IN
        /\ q \in Row
        /\ q.body = r.body /\ q.claim_token = None /\ q.attempts = r.attempts + 1
        /\ \/ q.state = "failed" /\ q.attempts = MaxAttempts
           \/ q.state = "pending" /\ q.attempts < MaxAttempts
        /\ Checked(r) /\ r.state = "processing" => Checked(q)
<1> DEFINE last == r.attempts + 1 >= MaxAttempts
           state == IF last THEN "failed" ELSE "pending"
           ended == IF last THEN 0 ELSE None
           retry == IF last THEN None ELSE delay
<1>1. /\ r.attempts + 1 \in 0..MaxAttempts /\ (last <=> r.attempts + 1 = MaxAttempts)
      /\ r.attempts + 1 > 0
  BY CapAssumption
<1>2. /\ ended \in Age \cup {None} /\ retry \in Nat \cup {None}
      /\ \/ /\ state = "failed" /\ r.attempts + 1 = MaxAttempts
            /\ ended # None /\ retry = None
         \/ /\ state = "pending" /\ r.attempts + 1 < MaxAttempts
            /\ ended = None
  BY <1>1, ZeroFacts, CapAssumption
<1>3. AfterFailure(r, delay) =
        [Unclaimed(r) EXCEPT !.attempts = r.attempts + 1, !.state = state,
                             !.completed_at = ended, !.retry_not_before = retry]
  BY DEF AfterFailure
<1> HIDE DEF last, state, ended, retry
<1> DEFINE q == AfterFailure(r, delay)
<1>4. /\ q.state = state /\ q.body = r.body /\ q.payload = r.payload
      /\ q.claim_worker = None /\ q.claim_token = None /\ q.claimed_at = None
      /\ q.completed_at = ended /\ q.attempts = r.attempts + 1
      /\ q.retry_not_before = retry
  BY <1>3 DEF Unclaimed
<1>5. q \in Row
  BY <1>1, <1>2, <1>3 DEF Unclaimed
<1> HIDE DEF q
<1>6. Checked(r) /\ r.state = "processing" => Checked(q)
  BY <1>1, <1>2, <1>4 DEF Checked
<1>7. QED BY <1>1, <1>2, <1>4, <1>5, <1>6 DEF q

\* The fields of the row that Redriven returns, its type, and that it is accepted
\* if it was a dead letter.
LEMMA RedrivenFacts == ASSUME NEW r \in Row
  PROVE /\ Redriven(r) \in Row
        /\ Redriven(r).state = "pending" /\ Redriven(r).body = r.body
        /\ Redriven(r).claim_token = None /\ Redriven(r).attempts = 0
        /\ Checked(r) /\ r.state = "failed" => Checked(Redriven(r))
BY ZeroFacts DEF Redriven, Unclaimed, Checked

\* An instant grows older and a wait shorter; NULL stays NULL.
LEMMA OlderFacts == ASSUME NEW age \in Age \cup {None}
  PROVE Older(age) \in Age \cup {None} /\ (Older(age) = None <=> age = None)
BY ZeroFacts, AgeAssumption DEF Older, Least, Age

\* The same of a wait.
LEMMA SoonerFacts == ASSUME NEW wait \in Nat \cup {None}
  PROVE Sooner(wait) \in Nat \cup {None} /\ (Sooner(wait) = None <=> wait = None)
BY ZeroFacts DEF Sooner

\* The fields of the row that Aged returns, its type, and that it is accepted if
\* the younger one is.
LEMMA AgedFacts == ASSUME NEW r \in Row
  PROVE /\ Aged(r) \in Row
        /\ Aged(r).state = r.state /\ Aged(r).body = r.body
        /\ Aged(r).claim_token = r.claim_token /\ Aged(r).claim_worker = r.claim_worker
        /\ Aged(r).attempts = r.attempts /\ Aged(r).claimed_at = Older(r.claimed_at)
        /\ Checked(r) => Checked(Aged(r))
<1>1. /\ Older(r.claimed_at) \in Age \cup {None} /\ Older(r.completed_at) \in Age \cup {None}
      /\ Older(r.claimed_at) = None <=> r.claimed_at = None
      /\ Older(r.completed_at) = None <=> r.completed_at = None
  BY OlderFacts
<1>2. /\ Sooner(r.retry_not_before) \in Nat \cup {None}
      /\ Sooner(r.retry_not_before) = None <=> r.retry_not_before = None
  BY SoonerFacts
<1>3. QED BY <1>1, <1>2 DEF Aged, Checked

\* Time leaves no row where there is none.
LEMMA AgedAbsent == Aged(Absent) = Absent
BY DEF Aged, Absent, Older, Sooner

----------------------------------------------------------------------------
(* One lemma per action.                                                   *)

\* None is no token, so it is no claim either.
LEMMA ClaimNotNone == \A c \in Claim : c # None
BY NoneAssumption

\* ReceiveNew keeps the invariant.
LEMMA ReceiveNewStep ==
  ASSUME IInv, NEW p \in Process, NEW d \in Delivery, NEW b \in Body, ReceiveNew(p, d, b)
  PROVE IInv'
<1> USE NoneAssumption DEF ReceiveNew, rowVars, laneVars
<1>1. /\ Inserted(b) \in Row /\ Checked(Inserted(b))
      /\ Inserted(b).state = "pending" /\ Inserted(b).body = b
      /\ Inserted(b).claim_token = None /\ Inserted(b).attempts = 0
  BY InsertedFacts
<1>2. row' \in [Delivery -> Row] /\ \A e \in Delivery : row'[e] = IF e = d THEN Inserted(b) ELSE row[e]
  BY <1>1 DEF IInv, TypeOK
<1>3. older' \subseteq Delivery \X Delivery
  BY DEF IInv, TypeOK
<1>4. claims' \in [Delivery -> 0..MaxAttempts + 1] /\ 0 < MaxAttempts
  BY CapAssumption DEF IInv, TypeOK
<1>5. TypeOK'
  BY <1>1, <1>2, <1>3, <1>4 DEF IInv, TypeOK
<1>6. RowShape'
  BY <1>1, <1>2, <1>3, <1>4 DEF IInv, TypeOK, RowShape
<1>7. AckedIsDurable'
  BY <1>1, <1>2, <1>3, <1>4 DEF IInv, TypeOK, AckedIsDurable, Shape, ShapeOf
<1>8. RecordBeforeDone'
  BY <1>1, <1>2, <1>3, <1>4 DEF IInv, TypeOK, RecordBeforeDone, OwnerShape, LaneShape, Shape, ShapeOf
<1>9. CapHolds'
  BY <1>1, <1>2, <1>3, <1>4 DEF IInv, TypeOK, CapHolds, Shape, ShapeOf
<1>10. Shape'
  BY <1>6, CheckedShape DEF RowShape, Shape
<1>11. LaneShape'
  BY <1>1, <1>2, <1>3, <1>4 DEF IInv, TypeOK, LaneShape
<1>12. OwnerShape'
  <2> SUFFICES ASSUME NEW q \in Process, claim'[q] # None, OwnedBy(claim[q])'
               PROVE  /\ row'[claim'[q].id].body = claim'[q].body
                      /\ row'[claim'[q].id].claim_worker = q
                      /\ at'[q] = "answered" => answered'[claim'[q].id]
    BY DEF OwnerShape
  <2>1. claim'[q] = claim[q] /\ claim[q] \in Claim /\ at' = at
    BY DEF IInv, TypeOK
  <2>2. claim[q].id # d
    BY <1>1, <1>2, <2>1 DEF OwnedBy
  <2>3. OwnedBy(claim[q]) /\ row'[claim[q].id] = row[claim[q].id]
        /\ answered'[claim[q].id] = answered[claim[q].id]
    BY <1>2, <2>1, <2>2 DEF IInv, TypeOK, OwnedBy
  <2>4. /\ row[claim[q].id].body = claim[q].body
        /\ row[claim[q].id].claim_worker = q
        /\ at[q] = "answered" => answered[claim[q].id]
    BY <2>1, <2>3 DEF IInv, OwnerShape
  <2>5. QED BY <2>1, <2>3, <2>4
<1>13. QED BY <1>5, <1>6, <1>7, <1>8, <1>9, <1>10, <1>11, <1>12 DEF IInv

\* ReceiveKnown keeps the invariant.
LEMMA ReceiveKnownStep ==
  ASSUME IInv, NEW p \in Process, NEW d \in Delivery, NEW b \in Body, ReceiveKnown(p, d, b)
  PROVE IInv'
<1> USE NoneAssumption DEF ReceiveKnown, Acknowledges, rowVars, laneVars
<1>1. TypeOK'
  BY DEF IInv, TypeOK
<1>2. RowShape'
  BY DEF IInv, TypeOK, RowShape
<1>3. AckedIsDurable'
  BY DEF IInv, TypeOK, AckedIsDurable, Shape, ShapeOf
<1>4. RecordBeforeDone'
  BY DEF IInv, TypeOK, RecordBeforeDone, OwnerShape, LaneShape, Shape, ShapeOf
<1>5. CapHolds'
  BY DEF IInv, TypeOK, CapHolds, Shape, ShapeOf
<1>6. Shape'
  BY <1>2, CheckedShape DEF RowShape, Shape
<1>7. LaneShape'
  BY DEF IInv, TypeOK, LaneShape
<1>8. OwnerShape'
  BY DEF IInv, TypeOK, OwnerShape, LaneShape, Shape, ShapeOf, OwnedBy
<1>9. QED BY <1>1, <1>2, <1>3, <1>4, <1>5, <1>6, <1>7, <1>8 DEF IInv

\* Drain keeps the invariant.
LEMMA DrainStep ==
  ASSUME IInv, NEW p \in Process, Drain(p)
  PROVE IInv'
<1> USE NoneAssumption DEF Drain, rowVars, laneVars
<1>1. TypeOK'
  BY DEF IInv, TypeOK
<1>2. RowShape'
  BY DEF IInv, TypeOK, RowShape
<1>3. AckedIsDurable'
  BY DEF IInv, TypeOK, AckedIsDurable, Shape, ShapeOf
<1>4. RecordBeforeDone'
  BY DEF IInv, TypeOK, RecordBeforeDone, OwnerShape, LaneShape, Shape, ShapeOf
<1>5. CapHolds'
  BY DEF IInv, TypeOK, CapHolds, Shape, ShapeOf
<1>6. Shape'
  BY <1>2, CheckedShape DEF RowShape, Shape
<1>7. LaneShape'
  BY DEF IInv, TypeOK, LaneShape
<1>8. OwnerShape'
  BY DEF IInv, TypeOK, OwnerShape, LaneShape, Shape, ShapeOf, OwnedBy
<1>9. QED BY <1>1, <1>2, <1>3, <1>4, <1>5, <1>6, <1>7, <1>8 DEF IInv

\* JobsTick keeps the invariant.
LEMMA JobsTickStep ==
  ASSUME IInv, NEW p \in Process, JobsTick(p)
  PROVE IInv'
<1> USE NoneAssumption DEF JobsTick, rowVars, laneVars
<1>1. /\ row' \in [Delivery -> Row]
      /\ \A d \in Delivery :
           \/ row'[d] = row[d]
           \/ /\ row[d].state = "processing" /\ row'[d].state = "pending"
              /\ row'[d].claim_token = None
              /\ row'[d].body = row[d].body /\ row'[d].attempts = row[d].attempts
              /\ Checked(row'[d])
  BY RequeuedFacts, RowChecked DEF IInv, TypeOK, Stuck, Stale
<1> HIDE DEF JobsTick
<1>2. UNCHANGED <<older, claim, acked, answered, claims, faults>>
      /\ at' = [at EXCEPT ![p] = IF @ = "resting" THEN "pumping" ELSE @]
  BY DEF JobsTick
<1>3. TypeOK'
  BY <1>1, <1>2 DEF IInv, TypeOK
<1>4. RowShape'
  BY <1>1, <1>2 DEF IInv, TypeOK, RowShape
<1>5. AckedIsDurable'
  <2> SUFFICES ASSUME NEW d \in Delivery, NEW b \in acked[d]
               PROVE  row'[d].state # "absent" /\ row'[d].body = b
    BY <1>2 DEF AckedIsDurable
  <2>1. QED BY <1>1 DEF IInv, AckedIsDurable
<1>6. RecordBeforeDone'
  BY <1>1, <1>2 DEF IInv, TypeOK, RecordBeforeDone, OwnerShape, LaneShape, Shape, ShapeOf
<1>7. CapHolds'
  BY <1>1, <1>2 DEF IInv, TypeOK, CapHolds, Shape, ShapeOf
<1>8. Shape'
  BY <1>4, CheckedShape DEF RowShape, Shape
<1>9. LaneShape'
  BY <1>1, <1>2 DEF IInv, TypeOK, LaneShape
<1>10. OwnerShape'
  <2> SUFFICES ASSUME NEW q \in Process, claim'[q] # None, OwnedBy(claim[q])'
               PROVE  /\ row'[claim'[q].id].body = claim'[q].body
                      /\ row'[claim'[q].id].claim_worker = q
                      /\ at'[q] = "answered" => answered'[claim'[q].id]
    BY DEF OwnerShape
  <2>1. claim'[q] = claim[q] /\ claim[q] \in Claim /\ OwnedBy(claim[q])
        /\ row'[claim[q].id].body = row[claim[q].id].body
        /\ row'[claim[q].id].claim_worker = row[claim[q].id].claim_worker
        /\ answered'[claim[q].id] = answered[claim[q].id]
        /\ (at'[q] = "answered" => at[q] = "answered")
    BY <1>1, <1>2 DEF IInv, TypeOK, OwnedBy, Shape, ShapeOf, LaneShape
  <2>2. QED BY <2>1 DEF IInv, OwnerShape
<1>11. QED BY <1>3, <1>4, <1>5, <1>6, <1>7, <1>8, <1>9, <1>10 DEF IInv

\* ClaimNext keeps the invariant.
LEMMA ClaimNextStep ==
  ASSUME IInv, NEW p \in Process, ClaimNext(p)
  PROVE IInv'
<1> USE NoneAssumption DEF ClaimNext, rowVars, laneVars
<1>1. PICK d \in Delivery, t \in Token :
        /\ IsNext(d) /\ Fresh(t)
        /\ row' = [row EXCEPT ![d] = Claimed(d, p, t)]
        /\ claim' = [claim EXCEPT ![p] = [id |-> d, token |-> t,
                                          attempts |-> row[d].attempts, body |-> row[d].body]]
        /\ claims' = [claims EXCEPT ![d] = Least(@ + 1, MaxAttempts + 1)]
  BY DEF ClaimNext
<1>2. /\ at[p] = "pumping" /\ at' = [at EXCEPT ![p] = "working"]
      /\ UNCHANGED <<older, acked, answered, faults>>
  BY DEF ClaimNext
<1>3. /\ Claimed(d, p, t) \in Row /\ Checked(Claimed(d, p, t))
      /\ Claimed(d, p, t).state = "processing" /\ Claimed(d, p, t).body = row[d].body
      /\ Claimed(d, p, t).claim_token = t /\ Claimed(d, p, t).claim_worker = p
      /\ Claimed(d, p, t).attempts = row[d].attempts
  <2>1. row[d].state \in {"pending", "processing"}
    BY <1>1 DEF IsNext, Eligible, Stale
  <2>2. QED BY <2>1, ClaimedFacts, RowChecked DEF IInv
<1>4. row' \in [Delivery -> Row] /\ \A e \in Delivery : row'[e] = IF e = d THEN Claimed(d, p, t) ELSE row[e]
  BY <1>1, <1>3 DEF IInv, TypeOK
<1>5. row[d].state \in {"pending", "processing"} /\ row[d].body \in Body
  BY <1>1 DEF IsNext, Eligible, Stale, IInv, Shape, ShapeOf
<1>6. /\ claim'[p] = [id |-> d, token |-> t, attempts |-> row[d].attempts, body |-> row[d].body]
      /\ claim'[p] \in Claim
      /\ claim' \in [Process -> Claim \cup {None}]
      /\ \A q \in Process : q # p => claim'[q] = claim[q]
  BY <1>1, <1>5 DEF IInv, TypeOK
<1>7. claims' \in [Delivery -> 0..MaxAttempts + 1]
  BY <1>1, CapAssumption DEF Least, IInv, TypeOK
<1>8. claim'[p] # None
  BY <1>6, ClaimNotNone
<1>9. /\ \A e \in Delivery : row[e].claim_token # t
      /\ \A q \in Process : claim[q] # None => claim[q].token # t
  BY <1>1 DEF Fresh
<1> HIDE DEF ClaimNext
<1>10. TypeOK'
  BY <1>1, <1>2, <1>3, <1>4, <1>5, <1>6, <1>7, <1>8, <1>9 DEF IInv, TypeOK
<1>11. RowShape'
  BY <1>1, <1>2, <1>3, <1>4, <1>5, <1>6, <1>7, <1>8, <1>9 DEF IInv, TypeOK, RowShape
<1>12. AckedIsDurable'
  BY <1>1, <1>2, <1>3, <1>4, <1>5, <1>6, <1>7, <1>8, <1>9 DEF IInv, TypeOK, AckedIsDurable, Shape, ShapeOf
<1>13. RecordBeforeDone'
  BY <1>1, <1>2, <1>3, <1>4, <1>5, <1>6, <1>7, <1>8, <1>9 DEF IInv, TypeOK, RecordBeforeDone, OwnerShape, LaneShape, Shape, ShapeOf
<1>14. CapHolds'
  BY <1>1, <1>2, <1>3, <1>4, <1>5, <1>6, <1>7, <1>8, <1>9 DEF IInv, TypeOK, CapHolds, Shape, ShapeOf
<1>15. Shape'
  BY <1>11, CheckedShape DEF RowShape, Shape
<1>16. LaneShape'
  BY <1>1, <1>2, <1>3, <1>4, <1>5, <1>6, <1>7, <1>8, <1>9 DEF IInv, TypeOK, LaneShape
<1>17. OwnerShape'
  <2> SUFFICES ASSUME NEW q \in Process, claim'[q] # None, OwnedBy(claim[q])'
               PROVE  /\ row'[claim'[q].id].body = claim'[q].body
                      /\ row'[claim'[q].id].claim_worker = q
                      /\ at'[q] = "answered" => answered'[claim'[q].id]
    BY DEF OwnerShape
  <2>1. CASE q = p
    BY <2>1, <1>2, <1>3, <1>4, <1>6 DEF IInv, TypeOK
  <2>2. CASE q # p
    <3>1. claim'[q] = claim[q] /\ claim[q] \in Claim /\ claim[q].token # t
      BY <2>2, <1>6, <1>9 DEF IInv, TypeOK
    <3>2. claim[q].id # d
      BY <3>1, <1>3, <1>4 DEF OwnedBy
    <3>3. QED BY <2>2, <3>1, <3>2, <1>2, <1>4 DEF IInv, TypeOK, OwnerShape, OwnedBy
  <2>3. QED BY <2>1, <2>2
<1>18. QED BY <1>10, <1>11, <1>12, <1>13, <1>14, <1>15, <1>16, <1>17 DEF IInv

\* Idle keeps the invariant.
LEMMA IdleStep ==
  ASSUME IInv, NEW p \in Process, Idle(p)
  PROVE IInv'
<1> USE NoneAssumption DEF Idle, rowVars, laneVars
<1>1. TypeOK'
  BY DEF IInv, TypeOK
<1>2. RowShape'
  BY DEF IInv, TypeOK, RowShape
<1>3. AckedIsDurable'
  BY DEF IInv, TypeOK, AckedIsDurable, Shape, ShapeOf
<1>4. RecordBeforeDone'
  BY DEF IInv, TypeOK, RecordBeforeDone, OwnerShape, LaneShape, Shape, ShapeOf
<1>5. CapHolds'
  BY DEF IInv, TypeOK, CapHolds, Shape, ShapeOf
<1>6. Shape'
  BY <1>2, CheckedShape DEF RowShape, Shape
<1>7. LaneShape'
  BY DEF IInv, TypeOK, LaneShape
<1>8. OwnerShape'
  BY DEF IInv, TypeOK, OwnerShape, LaneShape, Shape, ShapeOf, OwnedBy
<1>9. QED BY <1>1, <1>2, <1>3, <1>4, <1>5, <1>6, <1>7, <1>8 DEF IInv

\* Record keeps the invariant.
LEMMA RecordStep ==
  ASSUME IInv, NEW p \in Process, Record(p)
  PROVE IInv'
<1> USE NoneAssumption DEF Record, rowVars, laneVars
<1>1. TypeOK'
  BY DEF IInv, TypeOK
<1>2. RowShape'
  BY DEF IInv, TypeOK, RowShape
<1>3. AckedIsDurable'
  BY DEF IInv, TypeOK, AckedIsDurable, Shape, ShapeOf
<1>4. RecordBeforeDone'
  BY DEF IInv, TypeOK, RecordBeforeDone, OwnerShape, LaneShape, Shape, ShapeOf
<1>5. CapHolds'
  BY DEF IInv, TypeOK, CapHolds, Shape, ShapeOf
<1>6. Shape'
  BY <1>2, CheckedShape DEF RowShape, Shape
<1>7. LaneShape'
  BY DEF IInv, TypeOK, LaneShape
<1>8. OwnerShape'
  <2> SUFFICES ASSUME NEW q \in Process, claim'[q] # None, OwnedBy(claim[q])'
               PROVE  /\ row'[claim'[q].id].body = claim'[q].body
                      /\ row'[claim'[q].id].claim_worker = q
                      /\ at'[q] = "answered" => answered'[claim'[q].id]
    BY DEF OwnerShape
  <2>1. claim' = claim /\ row' = row /\ OwnedBy(claim[q]) /\ claim[q] \in Claim
    BY DEF IInv, TypeOK, OwnedBy
  <2>2. /\ row[claim[q].id].body = claim[q].body
        /\ row[claim[q].id].claim_worker = q
        /\ at[q] = "answered" => answered[claim[q].id]
    BY <2>1 DEF IInv, OwnerShape
  <2>3. at'[q] = "answered" => answered'[claim[q].id]
    BY <2>1, <2>2 DEF IInv, TypeOK
  <2>4. QED BY <2>1, <2>2, <2>3
<1>9. QED BY <1>1, <1>2, <1>3, <1>4, <1>5, <1>6, <1>7, <1>8 DEF IInv

\* RecordRefused keeps the invariant.
LEMMA RecordRefusedStep ==
  ASSUME IInv, NEW p \in Process, RecordRefused(p)
  PROVE IInv'
<1> USE NoneAssumption DEF RecordRefused, rowVars, laneVars
<1>1. TypeOK'
  BY DEF IInv, TypeOK
<1>2. RowShape'
  BY DEF IInv, TypeOK, RowShape
<1>3. AckedIsDurable'
  BY DEF IInv, TypeOK, AckedIsDurable, Shape, ShapeOf
<1>4. RecordBeforeDone'
  BY DEF IInv, TypeOK, RecordBeforeDone, OwnerShape, LaneShape, Shape, ShapeOf
<1>5. CapHolds'
  BY DEF IInv, TypeOK, CapHolds, Shape, ShapeOf
<1>6. Shape'
  BY <1>2, CheckedShape DEF RowShape, Shape
<1>7. LaneShape'
  BY DEF IInv, TypeOK, LaneShape
<1>8. OwnerShape'
  <2> SUFFICES ASSUME NEW q \in Process, claim'[q] # None, OwnedBy(claim[q])'
               PROVE  /\ row'[claim'[q].id].body = claim'[q].body
                      /\ row'[claim'[q].id].claim_worker = q
                      /\ at'[q] = "answered" => answered'[claim'[q].id]
    BY DEF OwnerShape
  <2>1. claim' = claim /\ row' = row /\ answered' = answered /\ OwnedBy(claim[q])
        /\ (at'[q] = "answered" => at[q] = "answered")
    BY DEF IInv, TypeOK, OwnedBy
  <2>2. QED BY <2>1 DEF IInv, OwnerShape
<1>9. QED BY <1>1, <1>2, <1>3, <1>4, <1>5, <1>6, <1>7, <1>8 DEF IInv

\* Complete keeps the invariant.
LEMMA CompleteStep ==
  ASSUME IInv, NEW p \in Process, Complete(p)
  PROVE IInv'
<1> USE NoneAssumption DEF Complete, rowVars, laneVars
<1>1. claim[p] # None /\ claim[p] \in Claim
  BY DEF IInv, TypeOK, LaneShape
<1>2. OwnedBy(claim[p]) /\ answered[claim[p].id]
  <2>1. row[claim[p].id].claim_token = claim[p].token
    BY <1>1 DEF Completion
  <2>2. row[claim[p].id].state = "processing"
    BY <1>1, <2>1 DEF IInv, TypeOK, Shape, ShapeOf
  <2>3. QED BY <1>1, <2>1, <2>2 DEF OwnedBy, IInv, OwnerShape
<1>3. LET r == Completed(row[claim[p].id]) IN
      /\ r \in Row /\ Checked(r)
      /\ r.state = "done" /\ r.body = row[claim[p].id].body /\ r.claim_token = None
      /\ r.attempts = row[claim[p].id].attempts
  <2>1. row[claim[p].id] \in Row /\ row[claim[p].id].state = "processing"
    BY <1>1, <1>2 DEF IInv, TypeOK, OwnedBy
  <2>2. Checked(row[claim[p].id])
    BY <1>1, <2>1, RowChecked
  <2>3. QED BY <2>1, <2>2, CompletedFacts
<1>4. row' \in [Delivery -> Row]
      /\ \A e \in Delivery : row'[e] = IF e = claim[p].id THEN Completed(row[claim[p].id]) ELSE row[e]
  BY <1>1, <1>3 DEF IInv, TypeOK
<1>5. TypeOK'
  BY <1>1, <1>2, <1>3, <1>4 DEF IInv, TypeOK
<1>6. RowShape'
  BY <1>3, <1>4 DEF IInv, RowShape
<1>7. AckedIsDurable'
  BY <1>1, <1>2, <1>3, <1>4 DEF IInv, TypeOK, AckedIsDurable, Shape, ShapeOf
<1>8. RecordBeforeDone'
  BY <1>1, <1>2, <1>3, <1>4 DEF IInv, TypeOK, RecordBeforeDone, OwnerShape, LaneShape, Shape, ShapeOf
<1>9. CapHolds'
  BY <1>1, <1>2, <1>3, <1>4 DEF IInv, TypeOK, CapHolds, Shape, ShapeOf
<1>10. Shape'
  BY <1>6, CheckedShape DEF RowShape, Shape
<1>11. LaneShape'
  BY <1>1, <1>2, <1>3, <1>4 DEF IInv, TypeOK, LaneShape
<1>12. OwnerShape'
  <2> SUFFICES ASSUME NEW q \in Process, claim'[q] # None, OwnedBy(claim[q])'
               PROVE  /\ row'[claim'[q].id].body = claim'[q].body
                      /\ row'[claim'[q].id].claim_worker = q
                      /\ at'[q] = "answered" => answered'[claim'[q].id]
    BY DEF OwnerShape
  <2>1. claim'[q] = claim[q] /\ claim[q] \in Claim /\ OwnedBy(claim[q])
        /\ row'[claim[q].id].body = row[claim[q].id].body
        /\ row'[claim[q].id].claim_worker = row[claim[q].id].claim_worker
        /\ answered'[claim[q].id] = answered[claim[q].id]
        /\ (at'[q] = "answered" => at[q] = "answered")
    BY <1>1, <1>2, <1>3, <1>4 DEF IInv, TypeOK, OwnedBy, Shape, ShapeOf, LaneShape
  <2>2. QED BY <2>1 DEF IInv, OwnerShape
<1>13. QED BY <1>5, <1>6, <1>7, <1>8, <1>9, <1>10, <1>11, <1>12 DEF IInv

\* AttemptFails keeps the invariant.
LEMMA AttemptFailsStep ==
  ASSUME IInv, NEW p \in Process, AttemptFails(p)
  PROVE IInv'
<1> USE NoneAssumption DEF AttemptFails, rowVars, laneVars
<1>1. claim[p] # None /\ claim[p] \in Claim
  BY DEF IInv, TypeOK, LaneShape
<1>2. PICK delay \in Delays(p) : row' = [row EXCEPT ![claim[p].id] = AfterFailure(@, delay)]
  BY DEF AttemptFails
<1>3. delay \in Nat
  BY <1>1, LadderAssumption, BoundAssumption DEF Delays
<1>4. /\ row[claim[p].id] \in Row /\ row[claim[p].id].attempts < MaxAttempts
      /\ row[claim[p].id].state = "processing"
  BY <1>1 DEF OwnedBy, IInv, TypeOK, CapHolds
<1>5. LET r == row[claim[p].id]
          q == AfterFailure(r, delay) IN
      /\ q \in Row
      /\ q.body = r.body /\ q.claim_token = None /\ q.attempts = r.attempts + 1
      /\ \/ q.state = "failed" /\ q.attempts = MaxAttempts
         \/ q.state = "pending" /\ q.attempts < MaxAttempts
      /\ Checked(q)
  <2>1. Checked(row[claim[p].id])
    BY <1>1, <1>4, RowChecked
  <2>2. QED BY <1>3, <1>4, <2>1, AfterFailureFacts
<1>6. row' \in [Delivery -> Row]
      /\ \A e \in Delivery :
           row'[e] = IF e = claim[p].id THEN AfterFailure(row[claim[p].id], delay) ELSE row[e]
  BY <1>1, <1>2, <1>5 DEF IInv, TypeOK
<1>7. /\ UNCHANGED <<older, acked, answered, claims, faults>>
      /\ at' = [at EXCEPT ![p] = "pumping"] /\ claim' = [claim EXCEPT ![p] = None]
  BY DEF AttemptFails
<1>8. 0 < MaxAttempts /\ MaxAttempts \in Nat
  BY CapAssumption
<1> HIDE DEF AttemptFails
<1>9. TypeOK'
  BY <1>1, <1>2, <1>3, <1>4, <1>5, <1>6, <1>7, <1>8 DEF IInv, TypeOK
<1>10. RowShape'
  BY <1>1, <1>2, <1>3, <1>4, <1>5, <1>6, <1>7, <1>8 DEF IInv, TypeOK, RowShape
<1>11. AckedIsDurable'
  BY <1>1, <1>2, <1>3, <1>4, <1>5, <1>6, <1>7, <1>8 DEF IInv, TypeOK, AckedIsDurable, Shape, ShapeOf
<1>12. RecordBeforeDone'
  BY <1>1, <1>2, <1>3, <1>4, <1>5, <1>6, <1>7, <1>8 DEF IInv, TypeOK, RecordBeforeDone, OwnerShape, LaneShape, Shape, ShapeOf
<1>13. CapHolds'
  BY <1>1, <1>2, <1>3, <1>4, <1>5, <1>6, <1>7, <1>8 DEF IInv, TypeOK, CapHolds, Shape, ShapeOf
<1>14. Shape'
  BY <1>10, CheckedShape DEF RowShape, Shape
<1>15. LaneShape'
  BY <1>1, <1>2, <1>3, <1>4, <1>5, <1>6, <1>7, <1>8 DEF IInv, TypeOK, LaneShape
<1>16. OwnerShape'
  <2> SUFFICES ASSUME NEW q \in Process, claim'[q] # None, OwnedBy(claim[q])'
               PROVE  /\ row'[claim'[q].id].body = claim'[q].body
                      /\ row'[claim'[q].id].claim_worker = q
                      /\ at'[q] = "answered" => answered'[claim'[q].id]
    BY DEF OwnerShape
  <2>1. claim'[q] = claim[q] /\ claim[q] \in Claim /\ OwnedBy(claim[q])
        /\ row'[claim[q].id].body = row[claim[q].id].body
        /\ row'[claim[q].id].claim_worker = row[claim[q].id].claim_worker
        /\ answered'[claim[q].id] = answered[claim[q].id]
        /\ (at'[q] = "answered" => at[q] = "answered")
    BY <1>1, <1>2, <1>3, <1>4, <1>5, <1>6, <1>7, <1>8 DEF IInv, TypeOK, OwnedBy, Shape, ShapeOf, LaneShape
  <2>2. QED BY <2>1 DEF IInv, OwnerShape
<1>17. QED BY <1>9, <1>10, <1>11, <1>12, <1>13, <1>14, <1>15, <1>16 DEF IInv

\* LoseClaim keeps the invariant.
LEMMA LoseClaimStep ==
  ASSUME IInv, NEW p \in Process, LoseClaim(p)
  PROVE IInv'
<1> USE NoneAssumption DEF LoseClaim, rowVars, laneVars
<1>1. TypeOK'
  BY DEF IInv, TypeOK
<1>2. RowShape'
  BY DEF IInv, TypeOK, RowShape
<1>3. AckedIsDurable'
  BY DEF IInv, TypeOK, AckedIsDurable, Shape, ShapeOf
<1>4. RecordBeforeDone'
  BY DEF IInv, TypeOK, RecordBeforeDone, OwnerShape, LaneShape, Shape, ShapeOf
<1>5. CapHolds'
  BY DEF IInv, TypeOK, CapHolds, Shape, ShapeOf
<1>6. Shape'
  BY <1>2, CheckedShape DEF RowShape, Shape
<1>7. LaneShape'
  BY DEF IInv, TypeOK, LaneShape
<1>8. OwnerShape'
  BY DEF IInv, TypeOK, OwnerShape, LaneShape, Shape, ShapeOf, OwnedBy
<1>9. QED BY <1>1, <1>2, <1>3, <1>4, <1>5, <1>6, <1>7, <1>8 DEF IInv

\* Crash keeps the invariant.
LEMMA CrashStep ==
  ASSUME IInv, NEW p \in Process, Crash(p)
  PROVE IInv'
<1> USE NoneAssumption DEF Crash, rowVars, laneVars
<1>1. faults' \in Nat
  BY BoundAssumption DEF Fault, IInv, TypeOK
<1>2. UNCHANGED rowVars /\ answered' = answered
  OBVIOUS
<1>3. TypeOK'
  BY <1>1, <1>2 DEF IInv, TypeOK
<1>4. RowShape'
  BY <1>1, <1>2 DEF IInv, TypeOK, RowShape
<1>5. AckedIsDurable'
  BY <1>1, <1>2 DEF IInv, TypeOK, AckedIsDurable, Shape, ShapeOf
<1>6. RecordBeforeDone'
  BY <1>1, <1>2 DEF IInv, TypeOK, RecordBeforeDone, OwnerShape, LaneShape, Shape, ShapeOf
<1>7. CapHolds'
  BY <1>1, <1>2 DEF IInv, TypeOK, CapHolds, Shape, ShapeOf
<1>8. Shape'
  BY <1>4, CheckedShape DEF RowShape, Shape
<1>9. LaneShape'
  BY <1>1, <1>2 DEF IInv, TypeOK, LaneShape
<1>10. OwnerShape'
  <2> SUFFICES ASSUME NEW q \in Process, claim'[q] # None, OwnedBy(claim[q])'
               PROVE  /\ row'[claim'[q].id].body = claim'[q].body
                      /\ row'[claim'[q].id].claim_worker = q
                      /\ at'[q] = "answered" => answered'[claim'[q].id]
    BY DEF OwnerShape
  <2>1. claim'[q] = claim[q] /\ claim[q] \in Claim /\ OwnedBy(claim[q])
        /\ row'[claim[q].id].body = row[claim[q].id].body
        /\ row'[claim[q].id].claim_worker = row[claim[q].id].claim_worker
        /\ answered'[claim[q].id] = answered[claim[q].id]
        /\ (at'[q] = "answered" => at[q] = "answered")
    BY <1>1, <1>2 DEF IInv, TypeOK, OwnedBy, Shape, ShapeOf, LaneShape
  <2>2. QED BY <2>1 DEF IInv, OwnerShape
<1>11. QED BY <1>3, <1>4, <1>5, <1>6, <1>7, <1>8, <1>9, <1>10 DEF IInv

\* Restart keeps the invariant.
LEMMA RestartStep ==
  ASSUME IInv, NEW p \in Process, Restart(p)
  PROVE IInv'
<1> USE NoneAssumption DEF Restart, rowVars, laneVars
<1>1. TypeOK'
  BY DEF IInv, TypeOK
<1>2. RowShape'
  BY DEF IInv, TypeOK, RowShape
<1>3. AckedIsDurable'
  BY DEF IInv, TypeOK, AckedIsDurable, Shape, ShapeOf
<1>4. RecordBeforeDone'
  BY DEF IInv, TypeOK, RecordBeforeDone, OwnerShape, LaneShape, Shape, ShapeOf
<1>5. CapHolds'
  BY DEF IInv, TypeOK, CapHolds, Shape, ShapeOf
<1>6. Shape'
  BY <1>2, CheckedShape DEF RowShape, Shape
<1>7. LaneShape'
  BY DEF IInv, TypeOK, LaneShape
<1>8. OwnerShape'
  BY DEF IInv, TypeOK, OwnerShape, LaneShape, Shape, ShapeOf, OwnedBy
<1>9. QED BY <1>1, <1>2, <1>3, <1>4, <1>5, <1>6, <1>7, <1>8 DEF IInv

\* Redrive keeps the invariant.
LEMMA RedriveStep ==
  ASSUME IInv, NEW d \in Delivery, Redrive(d)
  PROVE IInv'
<1> USE NoneAssumption DEF Redrive, rowVars, laneVars
<1>1. faults' \in Nat
  BY BoundAssumption DEF Fault, IInv, TypeOK
<1>2. LET r == Redriven(row[d]) IN
      /\ r \in Row
      /\ r.state = "pending" /\ r.body = row[d].body /\ r.claim_token = None
      /\ r.attempts = 0 /\ Checked(r)
  BY RedrivenFacts, RowChecked DEF IInv, TypeOK
<1>3. row' \in [Delivery -> Row] /\ \A e \in Delivery : row'[e] = IF e = d THEN Redriven(row[d]) ELSE row[e]
  BY <1>2 DEF IInv, TypeOK
<1>4. claims' \in [Delivery -> 0..MaxAttempts + 1] /\ 0 < MaxAttempts
  BY CapAssumption DEF IInv, TypeOK
<1>5. TypeOK'
  BY <1>1, <1>2, <1>3, <1>4 DEF IInv, TypeOK
<1>6. RowShape'
  BY <1>1, <1>2, <1>3, <1>4 DEF IInv, TypeOK, RowShape
<1>7. AckedIsDurable'
  BY <1>1, <1>2, <1>3, <1>4 DEF IInv, TypeOK, AckedIsDurable, Shape, ShapeOf
<1>8. RecordBeforeDone'
  BY <1>1, <1>2, <1>3, <1>4 DEF IInv, TypeOK, RecordBeforeDone, OwnerShape, LaneShape, Shape, ShapeOf
<1>9. CapHolds'
  BY <1>1, <1>2, <1>3, <1>4 DEF IInv, TypeOK, CapHolds, Shape, ShapeOf
<1>10. Shape'
  BY <1>6, CheckedShape DEF RowShape, Shape
<1>11. LaneShape'
  BY <1>1, <1>2, <1>3, <1>4 DEF IInv, TypeOK, LaneShape
<1>12. OwnerShape'
  <2> SUFFICES ASSUME NEW q \in Process, claim'[q] # None, OwnedBy(claim[q])'
               PROVE  /\ row'[claim'[q].id].body = claim'[q].body
                      /\ row'[claim'[q].id].claim_worker = q
                      /\ at'[q] = "answered" => answered'[claim'[q].id]
    BY DEF OwnerShape
  <2>1. claim'[q] = claim[q] /\ claim[q] \in Claim /\ OwnedBy(claim[q])
        /\ row'[claim[q].id].body = row[claim[q].id].body
        /\ row'[claim[q].id].claim_worker = row[claim[q].id].claim_worker
        /\ answered'[claim[q].id] = answered[claim[q].id]
        /\ (at'[q] = "answered" => at[q] = "answered")
    BY <1>1, <1>2, <1>3, <1>4 DEF IInv, TypeOK, OwnedBy, Shape, ShapeOf, LaneShape
  <2>2. QED BY <2>1 DEF IInv, OwnerShape
<1>13. QED BY <1>5, <1>6, <1>7, <1>8, <1>9, <1>10, <1>11, <1>12 DEF IInv

\* Release keeps the invariant.
LEMMA ReleaseStep ==
  ASSUME IInv, NEW d \in Delivery, Release(d)
  PROVE IInv'
<1> USE NoneAssumption DEF Release, rowVars, laneVars
<1>1. faults' \in Nat
  BY BoundAssumption DEF Fault, IInv, TypeOK
<1>2. LET r == Requeued(row[d]) IN
      /\ r \in Row
      /\ r.state = "pending" /\ r.body = row[d].body /\ r.claim_token = None
      /\ r.attempts = row[d].attempts /\ Checked(r)
  BY RequeuedFacts, RowChecked DEF IInv, TypeOK
<1>3. row' \in [Delivery -> Row] /\ \A e \in Delivery : row'[e] = IF e = d THEN Requeued(row[d]) ELSE row[e]
  BY <1>2 DEF IInv, TypeOK
<1>4. claims' \in [Delivery -> 0..MaxAttempts + 1] /\ 0 < MaxAttempts
  BY CapAssumption DEF IInv, TypeOK
<1>5. TypeOK'
  BY <1>1, <1>2, <1>3, <1>4 DEF IInv, TypeOK
<1>6. RowShape'
  BY <1>1, <1>2, <1>3, <1>4 DEF IInv, TypeOK, RowShape
<1>7. AckedIsDurable'
  BY <1>1, <1>2, <1>3, <1>4 DEF IInv, TypeOK, AckedIsDurable, Shape, ShapeOf
<1>8. RecordBeforeDone'
  BY <1>1, <1>2, <1>3, <1>4 DEF IInv, TypeOK, RecordBeforeDone, OwnerShape, LaneShape, Shape, ShapeOf
<1>9. CapHolds'
  BY <1>1, <1>2, <1>3, <1>4 DEF IInv, TypeOK, CapHolds, Shape, ShapeOf
<1>10. Shape'
  BY <1>6, CheckedShape DEF RowShape, Shape
<1>11. LaneShape'
  BY <1>1, <1>2, <1>3, <1>4 DEF IInv, TypeOK, LaneShape
<1>12. OwnerShape'
  <2> SUFFICES ASSUME NEW q \in Process, claim'[q] # None, OwnedBy(claim[q])'
               PROVE  /\ row'[claim'[q].id].body = claim'[q].body
                      /\ row'[claim'[q].id].claim_worker = q
                      /\ at'[q] = "answered" => answered'[claim'[q].id]
    BY DEF OwnerShape
  <2>1. claim'[q] = claim[q] /\ claim[q] \in Claim /\ OwnedBy(claim[q])
        /\ row'[claim[q].id].body = row[claim[q].id].body
        /\ row'[claim[q].id].claim_worker = row[claim[q].id].claim_worker
        /\ answered'[claim[q].id] = answered[claim[q].id]
        /\ (at'[q] = "answered" => at[q] = "answered")
    BY <1>1, <1>2, <1>3, <1>4 DEF IInv, TypeOK, OwnedBy, Shape, ShapeOf, LaneShape
  <2>2. QED BY <2>1 DEF IInv, OwnerShape
<1>13. QED BY <1>5, <1>6, <1>7, <1>8, <1>9, <1>10, <1>11, <1>12 DEF IInv

\* Prune keeps the invariant.
LEMMA PruneStep ==
  ASSUME IInv, Prune
  PROVE IInv'
<1> USE NoneAssumption DEF Prune, rowVars, laneVars
<1>1. row' \in [Delivery -> Row]
      /\ \A d \in Delivery : IF d \in Prunable THEN row'[d] = Absent ELSE row'[d] = row[d]
  BY AbsentFacts DEF IInv, TypeOK
<1>2. \A d \in Prunable : row[d].state = "done"
  BY DEF Prunable
<1>3. older' \subseteq Delivery \X Delivery
  BY DEF IInv, TypeOK
<1>4. Absent.state = "absent" /\ Absent.claim_token = None
  BY AbsentFacts
<1>5. TypeOK'
  BY <1>1, <1>2, <1>3, <1>4 DEF IInv, TypeOK
<1>6. RowShape'
  BY <1>1, <1>2, <1>3, <1>4 DEF IInv, TypeOK, RowShape
<1>7. AckedIsDurable'
  BY <1>1, <1>2, <1>3, <1>4 DEF IInv, TypeOK, AckedIsDurable, Shape, ShapeOf
<1>8. RecordBeforeDone'
  BY <1>1, <1>2, <1>3, <1>4 DEF IInv, TypeOK, RecordBeforeDone, OwnerShape, LaneShape, Shape, ShapeOf
<1>9. CapHolds'
  BY <1>1, <1>2, <1>3, <1>4 DEF IInv, TypeOK, CapHolds, Shape, ShapeOf
<1>10. Shape'
  BY <1>6, CheckedShape DEF RowShape, Shape
<1>11. LaneShape'
  BY <1>1, <1>2, <1>3, <1>4 DEF IInv, TypeOK, LaneShape
<1>12. OwnerShape'
  <2> SUFFICES ASSUME NEW q \in Process, claim'[q] # None, OwnedBy(claim[q])'
               PROVE  /\ row'[claim'[q].id].body = claim'[q].body
                      /\ row'[claim'[q].id].claim_worker = q
                      /\ at'[q] = "answered" => answered'[claim'[q].id]
    BY DEF OwnerShape
  <2>1. claim'[q] = claim[q] /\ claim[q] \in Claim /\ OwnedBy(claim[q])
        /\ row'[claim[q].id].body = row[claim[q].id].body
        /\ row'[claim[q].id].claim_worker = row[claim[q].id].claim_worker
        /\ answered'[claim[q].id] = answered[claim[q].id]
        /\ (at'[q] = "answered" => at[q] = "answered")
    BY <1>1, <1>2, <1>3, <1>4 DEF IInv, TypeOK, OwnedBy, Shape, ShapeOf, LaneShape
  <2>2. QED BY <2>1 DEF IInv, OwnerShape
<1>13. QED BY <1>5, <1>6, <1>7, <1>8, <1>9, <1>10, <1>11, <1>12 DEF IInv

\* Clock keeps the invariant.
LEMMA ClockStep ==
  ASSUME IInv, Clock
  PROVE IInv'
<1> USE NoneAssumption DEF Clock, rowVars, laneVars
<1>1. /\ row' \in [Delivery -> Row]
      /\ \A d \in Delivery :
           /\ row'[d].state = row[d].state /\ row'[d].body = row[d].body
           /\ row'[d].claim_token = row[d].claim_token /\ row'[d].attempts = row[d].attempts
           /\ row'[d].claim_worker = row[d].claim_worker
           /\ row'[d] = Absent \/ Checked(row'[d])
  BY AgedFacts, AgedAbsent DEF IInv, TypeOK, RowShape
<1>2. faults' \in Nat
  BY BoundAssumption DEF Fault, IInv, TypeOK
<1>3. UNCHANGED <<older, at, claim, acked, answered, claims>>
  OBVIOUS
<1> HIDE DEF Clock
<1>4. TypeOK'
  BY <1>1, <1>2, <1>3 DEF IInv, TypeOK
<1>5. RowShape'
  BY <1>1, <1>2, <1>3 DEF IInv, TypeOK, RowShape
<1>6. AckedIsDurable'
  BY <1>1, <1>2, <1>3 DEF IInv, TypeOK, AckedIsDurable, Shape, ShapeOf
<1>7. RecordBeforeDone'
  BY <1>1, <1>2, <1>3 DEF IInv, TypeOK, RecordBeforeDone, OwnerShape, LaneShape, Shape, ShapeOf
<1>8. CapHolds'
  BY <1>1, <1>2, <1>3 DEF IInv, TypeOK, CapHolds, Shape, ShapeOf
<1>9. Shape'
  BY <1>5, CheckedShape DEF RowShape, Shape
<1>10. LaneShape'
  BY <1>1, <1>2, <1>3 DEF IInv, TypeOK, LaneShape
<1>11. OwnerShape'
  <2> SUFFICES ASSUME NEW q \in Process, claim'[q] # None, OwnedBy(claim[q])'
               PROVE  /\ row'[claim'[q].id].body = claim'[q].body
                      /\ row'[claim'[q].id].claim_worker = q
                      /\ at'[q] = "answered" => answered'[claim'[q].id]
    BY DEF OwnerShape
  <2>1. claim'[q] = claim[q] /\ claim[q] \in Claim /\ OwnedBy(claim[q])
        /\ row'[claim[q].id].body = row[claim[q].id].body
        /\ row'[claim[q].id].claim_worker = row[claim[q].id].claim_worker
        /\ answered'[claim[q].id] = answered[claim[q].id]
        /\ (at'[q] = "answered" => at[q] = "answered")
    BY <1>1, <1>2, <1>3 DEF IInv, TypeOK, OwnedBy, Shape, ShapeOf, LaneShape
  <2>2. QED BY <2>1 DEF IInv, OwnerShape
<1>12. QED BY <1>4, <1>5, <1>6, <1>7, <1>8, <1>9, <1>10, <1>11 DEF IInv

----------------------------------------------------------------------------
\* A step that changes nothing keeps the invariant.
LEMMA StutterStep == IInv /\ UNCHANGED vars => IInv'
BY DEF vars, IInv, TypeOK, RowShape, Shape, ShapeOf, AckedIsDurable, RecordBeforeDone, CapHolds,
       LaneShape, OwnerShape, OwnedBy

\* The invariant is inductive: one case for each action.
LEMMA NextStep == IInv /\ [Next]_vars => IInv'
<1> SUFFICES ASSUME IInv, [Next]_vars PROVE IInv'
  OBVIOUS
<1>1. CASE UNCHANGED vars
  BY <1>1, StutterStep
<1>2. CASE \E p \in Process, d \in Delivery, b \in Body : ReceiveNew(p, d, b)
  BY <1>2, ReceiveNewStep
<1>3. CASE \E p \in Process, d \in Delivery, b \in Body : ReceiveKnown(p, d, b)
  BY <1>3, ReceiveKnownStep
<1>4. CASE \E p \in Process : Drain(p) \/ JobsTick(p) \/ Pump(p)
  BY <1>4, DrainStep, JobsTickStep, ClaimNextStep, IdleStep DEF Pump
<1>5. CASE \E p \in Process : Pass(p)
  BY <1>5, RecordStep, RecordRefusedStep, CompleteStep, AttemptFailsStep, LoseClaimStep DEF Pass
<1>6. CASE \E p \in Process : Crash(p) \/ Restart(p)
  BY <1>6, CrashStep, RestartStep
<1>7. CASE \E d \in Delivery : Redrive(d) \/ Release(d)
  BY <1>7, RedriveStep, ReleaseStep
<1>8. CASE Prune \/ Clock
  BY <1>8, PruneStep, ClockStep
<1>9. QED BY <1>1, <1>2, <1>3, <1>4, <1>5, <1>6, <1>7, <1>8 DEF Next

\* The inductive invariant holds in every state of every behaviour.
THEOREM Invariance == Spec => []IInv
<1>1. Init => IInv BY InitIInv
<1>2. IInv /\ [Next]_vars => IInv' BY NextStep
<1>3. QED BY <1>1, <1>2, PTL DEF Spec

\* Type correctness: every variable keeps its type.
THEOREM TypeCorrect == Spec => []TypeOK
<1>1. IInv => TypeOK BY DEF IInv
<1>2. QED BY <1>1, Invariance, PTL

\* No statement of the inbox leaves a row the CHECK of seen_delivery refuses.
THEOREM RowsAreWellShaped == Spec => []RowShape
<1>1. IInv => RowShape BY DEF IInv
<1>2. QED BY <1>1, Invariance, PTL

\* Whatever crashes, takeovers, retries and redeliveries happen, the bytes a
\* 202 acknowledged stay in the row of their GUID until retention.
THEOREM AcknowledgedIsDurable == Spec => []AckedIsDurable
<1>1. IInv => AckedIsDurable BY DEF IInv
<1>2. QED BY <1>1, Invariance, PTL

\* No delivery is completed that no pass made a whole record of.
THEOREM CompletionNeedsRecord == Spec => []RecordBeforeDone
<1>1. IInv => RecordBeforeDone BY DEF IInv
<1>2. QED BY <1>1, Invariance, PTL

\* The attempt cap separates the queue from the dead letters exactly.
THEOREM CapSeparates == Spec => []CapHolds
<1>1. IInv => CapHolds BY DEF IInv
<1>2. QED BY <1>1, Invariance, PTL

\* A row is finished, or its attempts rise.
EndsNow(d) ==
  \/ row[d].state # "done" /\ row'[d].state = "done"
  \/ row'[d].attempts > row[d].attempts

\* Only a pass that owns a row ends it, and the owner claimed it last.
LEMMA NextEndsOwned ==
  ASSUME IInv, [Next]_vars, NEW d \in Delivery, EndsNow(d)
  PROVE  \E p \in Process :
           /\ row[d].claim_worker = p
           /\ claim[p] # None /\ claim[p].id = d /\ claim'[p] = None
<1>1. row[d] \in Row /\ row[d].attempts \in Nat /\ row \in [Delivery -> Row]
  BY CapAssumption DEF IInv, TypeOK
<1>2. row'[d] # row[d]
  BY <1>1 DEF EndsNow
<1>3. CASE UNCHANGED row
  BY <1>2, <1>3
<1>4. CASE \E p \in Process, e \in Delivery, b \in Body : ReceiveNew(p, e, b)
  BY <1>1, <1>2, <1>4, InsertedFacts DEF ReceiveNew, EndsNow
<1>5. CASE \E p \in Process : JobsTick(p)
  BY <1>1, <1>2, <1>5, RequeuedFacts DEF JobsTick, EndsNow
<1>6. CASE \E p \in Process : ClaimNext(p)
  BY <1>1, <1>2, <1>6, ClaimedFacts DEF ClaimNext, EndsNow, IInv
<1>7. CASE \E p \in Process : Complete(p) \/ AttemptFails(p)
  <2>1. PICK p \in Process : Complete(p) \/ AttemptFails(p)
    BY <1>7
  <2>2. claim[p] # None /\ claim[p] \in Claim /\ claim[p].id = d /\ claim'[p] = None
    BY <1>1, <1>2, <2>1 DEF Complete, AttemptFails, IInv, TypeOK, LaneShape
  <2>3. OwnedBy(claim[p])
    <3>1. row[d].claim_token = claim[p].token
      BY <2>1, <2>2 DEF Complete, AttemptFails, Completion, OwnedBy
    <3>2. claim[p].token # None
      BY <2>2, NoneAssumption
    <3>3. QED BY <2>2, <3>1, <3>2 DEF OwnedBy, IInv, Shape, ShapeOf
  <2>4. QED BY <2>2, <2>3 DEF IInv, OwnerShape
<1>8. CASE \E e \in Delivery : Redrive(e)
  BY <1>1, <1>2, <1>8, RedrivenFacts DEF Redrive, EndsNow
<1>9. CASE \E e \in Delivery : Release(e)
  BY <1>1, <1>2, <1>9, RequeuedFacts DEF Release, EndsNow
<1>10. CASE Prune
  BY <1>1, <1>2, <1>10 DEF Prune, EndsNow, Absent
<1>11. CASE Clock
  BY <1>1, <1>11, AgedFacts DEF Clock, EndsNow
<1>12. QED
  BY <1>3, <1>4, <1>5, <1>6, <1>7, <1>8, <1>9, <1>10, <1>11
  DEF Next, Pump, Pass, vars, rowVars, laneVars, ReceiveKnown, Drain, Idle, Record,
      RecordRefused, LoseClaim, Crash, Restart

\* Whoever finishes a delivery, or has its failure counted, claimed it last and
\* was handed nothing back since, whatever was taken over, released or crashed.
THEOREM LastClaimantEnds == Spec => EndedByLastClaimant
<1> DEFINE P == \A d \in Delivery :
       \/ row[d].state # "done" /\ row'[d].state = "done"
       \/ row'[d].attempts > row[d].attempts
       => \E p \in Process :
            /\ row[d].claim_worker = p
            /\ claim[p] # None /\ claim[p].id = d /\ claim'[p] = None
<1>1. IInv /\ [Next]_vars => P
  BY NextEndsOwned DEF EndsNow
<1>2. QED BY <1>1, Invariance, PTL DEF Spec, EndedByLastClaimant

----------------------------------------------------------------------------
(* Refinement: the queue implements DeliveryPromise.                       *)

Mapped == [d \in Delivery |-> PromiseOf(row[d])]

\* The promise of a delivery, read off the state of its row.
LEMMA PromiseCases == ASSUME NEW r \in Row
  PROVE /\ r.state = "absent" => PromiseOf(r) = "none"
        /\ r.state \in {"pending", "processing"} => PromiseOf(r) = "owed"
        /\ r.state = "done" => PromiseOf(r) = "kept"
        /\ r.state = "failed" => PromiseOf(r) = "parked"
BY DEF PromiseOf

\* Writing one row moves one promise.
LEMMA OneRowMoves ==
  ASSUME NEW d \in Delivery, NEW r, row \in [Delivery -> Row], row' = [row EXCEPT ![d] = r]
  PROVE  Mapped' = [Mapped EXCEPT ![d] = PromiseOf(r)]
BY DEF Mapped

\* An empty store promises nothing and has dropped nothing.
LEMMA InitRefines == Init => Promise!Init
BY AbsentFacts, PromiseCases DEF Init, Promise!Init

\* ReceiveNew is a step of the promise, or none.
LEMMA ReceiveNewRefines ==
  ASSUME IInv, NEW p \in Process, NEW d \in Delivery, NEW b \in Body, ReceiveNew(p, d, b)
  PROVE  Promise!Accept(d)
<1>0. row' = [row EXCEPT ![d] = Inserted(b)] /\ row \in [Delivery -> Row]
  BY DEF ReceiveNew, IInv, TypeOK
<1>1. PromiseOf(row[d]) = "none" /\ PromiseOf(Inserted(b)) = "owed"
  BY InsertedFacts, PromiseCases DEF IInv, TypeOK, ReceiveNew
<1> DEFINE r == Inserted(b)
<1>2. Mapped' = [Mapped EXCEPT ![d] = "owed"]
  <2>1. row' = [row EXCEPT ![d] = r] /\ PromiseOf(r) = "owed"
    BY <1>0, <1>1
  <2> HIDE DEF r
  <2>2. Mapped' = [Mapped EXCEPT ![d] = PromiseOf(r)]
    BY <1>0, <2>1, OneRowMoves
  <2>3. QED BY <2>1, <2>2
<1>3. QED BY <1>1, <1>2 DEF Promise!Accept, Promise!Move, Mapped

\* A step that keeps every row on its side of the promise is a stutter.
LEMMA Stutters ==
  ASSUME \A d \in Delivery : PromiseOf(row'[d]) = PromiseOf(row[d])
  PROVE  UNCHANGED Mapped
BY DEF Mapped

\* JobsTick is a step of the promise, or none.
LEMMA JobsTickRefines ==
  ASSUME IInv, NEW p \in Process, JobsTick(p)
  PROVE  UNCHANGED Mapped
<1>1. ASSUME NEW d \in Stuck PROVE PromiseOf(Requeued(row[d])) = PromiseOf(row[d])
  BY RequeuedFacts, PromiseCases DEF Stuck, Stale, IInv, TypeOK
<1>2. \A d \in Delivery : PromiseOf(row'[d]) = PromiseOf(row[d])
  BY <1>1 DEF JobsTick, IInv, TypeOK
<1>3. QED BY <1>2, Stutters

\* ClaimNext is a step of the promise, or none.
LEMMA ClaimNextRefines ==
  ASSUME IInv, NEW p \in Process, ClaimNext(p)
  PROVE  UNCHANGED Mapped
<1>1. PICK d \in Delivery, t \in Token : IsNext(d) /\ row' = [row EXCEPT ![d] = Claimed(d, p, t)]
  BY DEF ClaimNext
<1>2. PromiseOf(row[d]) = "owed"
  BY <1>1, PromiseCases DEF IsNext, Eligible, Stale, IInv, TypeOK
<1>3. PromiseOf(Claimed(d, p, t)) = "owed"
  BY ClaimedFacts, PromiseCases DEF IInv
<1>4. QED BY <1>1, <1>2, <1>3, OneRowMoves DEF IInv, TypeOK, Mapped

\* Complete is a step of the promise, or none.
LEMMA CompleteRefines ==
  ASSUME IInv, NEW p \in Process, Complete(p)
  PROVE  \E d \in Delivery : Promise!Keep(d)
<1> DEFINE d == claim[p].id
<1>1. d \in Delivery /\ row[d] \in Row /\ row[d].state = "processing"
  <2>1. claim[p] \in Claim
    BY DEF Complete, IInv, TypeOK, LaneShape
  <2>2. row[d].claim_token = claim[p].token
    BY <2>1 DEF Complete, Completion
  <2>3. QED BY <2>1, <2>2, NoneAssumption DEF IInv, TypeOK, Shape, ShapeOf
<1>2. PromiseOf(row[d]) = "owed" /\ PromiseOf(Completed(row[d])) = "kept"
  BY <1>1, CompletedFacts, PromiseCases
<1>3. row' = [row EXCEPT ![d] = Completed(row[d])]
  BY DEF Complete
<1>4. row \in [Delivery -> Row]
  BY DEF IInv, TypeOK
<1> DEFINE r == Completed(row[d])
<1> HIDE DEF d
<1>5. row' = [row EXCEPT ![d] = r] /\ PromiseOf(r) = "kept"
  BY <1>2, <1>3
<1> HIDE DEF r
<1>6. Mapped' = [Mapped EXCEPT ![d] = PromiseOf(r)]
  BY <1>1, <1>4, <1>5, OneRowMoves
<1>7. QED BY <1>1, <1>2, <1>5, <1>6 DEF Promise!Keep, Promise!Move, Mapped

\* AttemptFails is a step of the promise, or none.
LEMMA AttemptFailsRefines ==
  ASSUME IInv, NEW p \in Process, AttemptFails(p)
  PROVE  (\E d \in Delivery : Promise!Park(d)) \/ UNCHANGED Mapped
<1> DEFINE d == claim[p].id
<1>1. d \in Delivery /\ row[d] \in Row /\ row[d].state = "processing" /\ row[d].attempts < MaxAttempts
      /\ claim[p] \in Claim
  BY DEF AttemptFails, OwnedBy, IInv, TypeOK, LaneShape, CapHolds
<1>2. PICK delay \in Delays(p) : row' = [row EXCEPT ![d] = AfterFailure(row[d], delay)]
  BY DEF AttemptFails
<1>3. delay \in Nat
  BY <1>1, LadderAssumption, BoundAssumption DEF Delays
<1> DEFINE r == AfterFailure(row[d], delay)
<1>4. r \in Row /\ r.state \in {"failed", "pending"}
  BY <1>1, <1>3, AfterFailureFacts
<1> HIDE DEF r
<1>5. PromiseOf(row[d]) = "owed" /\ PromiseOf(r) \in {"parked", "owed"}
  BY <1>1, <1>4, PromiseCases
<1>6. Mapped' = [Mapped EXCEPT ![d] = PromiseOf(r)]
  BY <1>1, <1>2, OneRowMoves DEF IInv, TypeOK, r
<1>7. CASE PromiseOf(r) = "parked"
  BY <1>1, <1>5, <1>6, <1>7 DEF Promise!Park, Promise!Move, Mapped
<1>8. CASE PromiseOf(r) = "owed"
  BY <1>1, <1>5, <1>6, <1>8 DEF Mapped
<1>9. QED BY <1>5, <1>7, <1>8

\* Redrive is a step of the promise, or none.
LEMMA RedriveRefines ==
  ASSUME IInv, NEW d \in Delivery, Redrive(d)
  PROVE  Promise!Redrive(d)
<1>0. row' = [row EXCEPT ![d] = Redriven(row[d])] /\ row \in [Delivery -> Row]
  BY DEF Redrive, IInv, TypeOK
<1>1. PromiseOf(row[d]) = "parked" /\ PromiseOf(Redriven(row[d])) = "owed"
  BY RedrivenFacts, PromiseCases DEF IInv, TypeOK, Redrive
<1> DEFINE r == Redriven(row[d])
<1>2. Mapped' = [Mapped EXCEPT ![d] = "owed"]
  <2>1. row' = [row EXCEPT ![d] = r] /\ PromiseOf(r) = "owed"
    BY <1>0, <1>1
  <2> HIDE DEF r
  <2>2. Mapped' = [Mapped EXCEPT ![d] = PromiseOf(r)]
    BY <1>0, <2>1, OneRowMoves
  <2>3. QED BY <2>1, <2>2
<1>3. QED BY <1>1, <1>2 DEF Promise!Redrive, Promise!Move, Mapped

\* Release is a step of the promise, or none.
LEMMA ReleaseRefines ==
  ASSUME IInv, NEW d \in Delivery, Release(d)
  PROVE  UNCHANGED Mapped
<1>1. PromiseOf(row[d]) = "owed" /\ PromiseOf(Requeued(row[d])) = "owed"
  BY RequeuedFacts, PromiseCases DEF IInv, TypeOK, Release
<1>2. QED BY <1>1, OneRowMoves DEF Release, IInv, TypeOK, Mapped

\* Prune is a step of the promise, or none.
LEMMA PruneRefines ==
  ASSUME IInv, Prune
  PROVE  Promise!Forget(Prunable)
<1>1. \A d \in Prunable : d \in Delivery /\ PromiseOf(row[d]) = "kept"
  BY PromiseCases DEF Prunable, IInv, TypeOK
<1>2. PromiseOf(Absent) = "none"
  BY AbsentFacts, PromiseCases
<1>3. Mapped' = [d \in Delivery |-> IF d \in Prunable THEN "none" ELSE Mapped[d]]
  BY <1>2 DEF Prune, Mapped, IInv, TypeOK
<1>4. Prunable # {}
  BY DEF Prune
<1>5. QED BY <1>1, <1>3, <1>4 DEF Promise!Forget, Mapped

\* Clock is a step of the promise, or none.
LEMMA ClockRefines ==
  ASSUME IInv, Clock
  PROVE  UNCHANGED Mapped
<1>1. \A d \in Delivery : PromiseOf(Aged(row[d])) = PromiseOf(row[d])
  BY AgedFacts DEF IInv, TypeOK, PromiseOf
<1>2. \A d \in Delivery : PromiseOf(row'[d]) = PromiseOf(row[d])
  BY <1>1 DEF Clock
<1>3. QED BY <1>2, Stutters

\* Every step of the queue is a step of the promise, or none.
LEMMA NextRefines == IInv /\ [Next]_vars => [Promise!Next]_Mapped
<1> SUFFICES ASSUME IInv, [Next]_vars PROVE Promise!Next \/ UNCHANGED Mapped
  OBVIOUS
<1>1. CASE UNCHANGED row
  BY <1>1, Stutters
<1>2. CASE \E p \in Process, d \in Delivery, b \in Body : ReceiveNew(p, d, b)
  BY <1>2, ReceiveNewRefines DEF Promise!Next
<1>3. CASE \E p \in Process : JobsTick(p) \/ ClaimNext(p)
  BY <1>3, JobsTickRefines, ClaimNextRefines
<1>4. CASE \E p \in Process : Complete(p)
  BY <1>4, CompleteRefines DEF Promise!Next, Promise!Settle
<1>5. CASE \E p \in Process : AttemptFails(p)
  BY <1>5, AttemptFailsRefines DEF Promise!Next, Promise!Settle
<1>6. CASE \E d \in Delivery : Redrive(d)
  BY <1>6, RedriveRefines DEF Promise!Next
<1>7. CASE \E d \in Delivery : Release(d)
  BY <1>7, ReleaseRefines
<1>8. CASE Prune
  <2>1. Prunable \in SUBSET Delivery BY DEF Prunable
  <2>2. QED BY <1>8, <2>1, PruneRefines DEF Promise!Next
<1>9. CASE Clock
  BY <1>9, ClockRefines
<1>10. \/ UNCHANGED row
       \/ \E p \in Process, d \in Delivery, b \in Body : ReceiveNew(p, d, b)
       \/ \E p \in Process : JobsTick(p) \/ ClaimNext(p)
       \/ \E p \in Process : Complete(p)
       \/ \E p \in Process : AttemptFails(p)
       \/ \E d \in Delivery : Redrive(d)
       \/ \E d \in Delivery : Release(d)
       \/ Prune
       \/ Clock
  BY DEF Next, Pump, Pass, vars, rowVars, laneVars, ReceiveKnown, Drain, Idle, Record,
         RecordRefused, LoseClaim, Crash, Restart
<1>11. QED BY <1>1, <1>2, <1>3, <1>4, <1>5, <1>6, <1>7, <1>8, <1>9, <1>10

\* The queue implements its promise: from acceptance a delivery is owed an
\* answer until one pass completes it or five failures park it, a completed
\* one is never owed again, and only retention forgets it.
THEOREM QueueImplementsPromise == Spec => ImplementsPromise
<1>1. Init => Promise!Init BY InitRefines
<1>2. IInv /\ [Next]_vars => [Promise!Next]_Mapped BY NextRefines
<1>3. QED BY <1>1, <1>2, Invariance, PTL DEF Spec, ImplementsPromise, Promise!Spec, Mapped

\* The pass of p keeps running and no longer owns its row.
Robbed(p) ==
  /\ at[p] \in Busy /\ OwnedBy(claim[p])
  /\ claim'[p] = claim[p] /\ ~OwnedBy(claim[p])'

\* No step takes a claim from a worker before it is stale.
LEMMA NextKeepsClaims ==
  ASSUME IInv, [Next]_vars, NEW q \in Process, Robbed(q), faults' = faults
  PROVE  row[claim[q].id].claimed_at >= StaleAge
<1> DEFINE d == claim[q].id
<1>1. /\ claim[q] \in Claim /\ claim[q] # None /\ d \in Delivery /\ row[d] \in Row
      /\ row[d].state = "processing" /\ row[d].claim_token = claim[q].token
      /\ ~(row'[d].state = "processing" /\ row'[d].claim_token = row[d].claim_token)
  BY DEF IInv, TypeOK, LaneShape, Robbed, OwnedBy
<1>2. row'[d] # row[d]
  BY <1>1
<1>3. CASE UNCHANGED row
  BY <1>2, <1>3
<1>4. CASE \E p \in Process, e \in Delivery, b \in Body : ReceiveNew(p, e, b)
  BY <1>1, <1>2, <1>4 DEF ReceiveNew, IInv, TypeOK
<1>5. CASE \E p \in Process : JobsTick(p)
  BY <1>1, <1>2, <1>5 DEF JobsTick, Stuck, Stale, IInv, TypeOK
<1>6. CASE \E p \in Process : ClaimNext(p)
  <2>0. PICK p \in Process : ClaimNext(p)
    BY <1>6
  <2>1. PICK e \in Delivery, t \in Token :
          IsNext(e) /\ row' = [row EXCEPT ![e] = Claimed(e, p, t)]
    BY <2>0 DEF ClaimNext
  <2>2. e = d
    BY <1>1, <1>2, <2>1 DEF IInv, TypeOK
  <2>3. QED BY <1>1, <2>1, <2>2 DEF IsNext, Eligible, Stale
<1>7. CASE \E p \in Process : Complete(p)
  <2>1. PICK p \in Process : Complete(p)
    BY <1>7
  <2>2. claim[p] \in Claim /\ claim[p] # None /\ row[claim[p].id].claim_token = claim[p].token
    BY <2>1 DEF Complete, Completion, IInv, TypeOK, LaneShape
  <2>3. p # q
    BY <1>1, <2>1 DEF Complete, Robbed, IInv, TypeOK
  <2>4. claim[p].id = d
    BY <1>1, <1>2, <2>1, <2>2 DEF Complete, IInv, TypeOK
  <2>5. QED BY <1>1, <2>2, <2>3, <2>4 DEF IInv, OwnerShape, OwnedBy
<1>8. CASE \E p \in Process : AttemptFails(p)
  <2>1. PICK p \in Process : AttemptFails(p)
    BY <1>8
  <2>2. claim[p] \in Claim /\ claim[p] # None /\ row[claim[p].id].claim_token = claim[p].token
    BY <2>1 DEF AttemptFails, OwnedBy, IInv, TypeOK, LaneShape
  <2>3. p # q
    BY <1>1, <2>1 DEF AttemptFails, Robbed, IInv, TypeOK
  <2>4. claim[p].id = d
    BY <1>1, <1>2, <2>1, <2>2 DEF AttemptFails, IInv, TypeOK
  <2>5. QED BY <1>1, <2>2, <2>3, <2>4 DEF IInv, OwnerShape, OwnedBy
<1>9. CASE \E e \in Delivery : Redrive(e)
  BY <1>1, <1>2, <1>9 DEF Redrive, IInv, TypeOK
<1>10. CASE \E e \in Delivery : Release(e)
  <2>1. faults \in Nat /\ faults' = faults + 1
    BY <1>10 DEF Release, Fault, IInv, TypeOK
  <2>2. QED BY <2>1
<1>11. CASE Prune
  BY <1>1, <1>2, <1>11 DEF Prune, Prunable, IInv, TypeOK
<1>12. CASE Clock
  BY <1>1, <1>12, AgedFacts DEF Clock, IInv, TypeOK
<1>13. QED
  BY <1>3, <1>4, <1>5, <1>6, <1>7, <1>8, <1>9, <1>10, <1>11, <1>12
  DEF Next, Pump, Pass, vars, rowVars, laneVars, ReceiveKnown, Drain, Idle, Record,
      RecordRefused, LoseClaim, Crash, Restart

\* A live pass is only ever robbed of a claim that outlived the stale window.
THEOREM TakeoverNeedsStaleness == Spec => TakeoverOnlyWhenStale
<1> DEFINE P == \A p \in Process :
       /\ at[p] \in Busy /\ OwnedBy(claim[p])
       /\ claim'[p] = claim[p] /\ ~OwnedBy(claim[p])'
       /\ faults' = faults
       => row[claim[p].id].claimed_at >= StaleAge
<1>1. IInv /\ [Next]_vars => P
  BY NextKeepsClaims DEF Robbed
<1>2. QED BY <1>1, Invariance, PTL DEF Spec, TakeoverOnlyWhenStale

----------------------------------------------------------------------------
(* The attempts and the faults account for every claim.                    *)

\* The claim that holds d is in time: a live pass owns it and it is not stale.
Timely(d) ==
  /\ row[d].claimed_at # None /\ row[d].claimed_at < StaleAge
  /\ \E p \in Process : claim[p] # None /\ claim[p].id = d /\ OwnedBy(claim[p])

\* EveryClaimCounts without its allowance for a claim nobody can settle any more:
\* what made such a claim stale was a fault, and is paid for already.
Accounted(d) ==
  row[d].state \in {"pending", "processing", "failed"} =>
    claims[d] <= row[d].attempts + faults + (IF Timely(d) THEN 1 ELSE 0)

Counted == \A d \in Delivery : Accounted(d)

\* A row whose account no action touches stays accounted for: its claim stays in
\* time, or a fault pays for it.
LEMMA AccountCarries ==
  ASSUME IInv, IInv', NEW d \in Delivery, Accounted(d),
         row'[d].state = row[d].state, row'[d].attempts = row[d].attempts,
         claims'[d] = claims[d], faults' >= faults,
         Timely(d) => Timely(d)' \/ faults' > faults
  PROVE  Accounted(d)'
<1>1. /\ faults \in Nat /\ faults' \in Nat /\ claims[d] \in Nat /\ row[d].attempts \in Nat
  BY CapAssumption DEF IInv, TypeOK
<1>2. CASE Timely(d) /\ ~Timely(d)'
  BY <1>1, <1>2 DEF Accounted
<1>3. CASE ~Timely(d) \/ Timely(d)'
  BY <1>1, <1>3 DEF Accounted
<1>4. QED BY <1>2, <1>3

\* The claim a pass of q holds on d stays in time through a step that leaves the
\* row and that claim alone.
LEMMA TimelyCarries ==
  ASSUME NEW d \in Delivery, Timely(d), row'[d] = row[d],
         \A q \in Process : claim[q] # None /\ claim[q].id = d /\ OwnedBy(claim[q])
                            => claim'[q] = claim[q]
  PROVE  Timely(d)'
BY DEF Timely, OwnedBy

\* A step that moves no row, no claim and no count.
LEMMA QuietCounts ==
  ASSUME IInv, IInv', Counted, UNCHANGED <<row, claim, claims, faults>>
  PROVE  Counted'
<1> SUFFICES ASSUME NEW d \in Delivery PROVE Accounted(d)'
  BY DEF Counted
<1>1. faults' >= faults
  BY DEF IInv, TypeOK
<1>2. Timely(d) => Timely(d)'
  BY TimelyCarries
<1>3. QED BY <1>1, <1>2, AccountCarries DEF Counted

\* ReceiveNew opens an account with no claim in it.
LEMMA ReceiveNewCounts ==
  ASSUME IInv, IInv', Counted, NEW p \in Process, NEW e \in Delivery, NEW b \in Body,
         ReceiveNew(p, e, b)
  PROVE  Counted'
<1> SUFFICES ASSUME NEW d \in Delivery PROVE Accounted(d)'
  BY DEF Counted
<1>1. /\ row' = [row EXCEPT ![e] = Inserted(b)] /\ claims' = [claims EXCEPT ![e] = 0]
      /\ claim' = claim /\ faults' = faults
  BY DEF ReceiveNew, laneVars
<1>2. faults \in Nat /\ faults' \in Nat /\ row'[d].attempts \in Nat
  BY CapAssumption DEF IInv, TypeOK
<1>3. CASE d = e
  <2>1. claims'[d] = 0
    BY <1>1, <1>3 DEF IInv, TypeOK
  <2>2. QED BY <1>2, <2>1 DEF Accounted
<1>4. CASE d # e
  <2>1. row'[d] = row[d] /\ claims'[d] = claims[d] /\ faults' >= faults
    BY <1>1, <1>2, <1>4 DEF IInv, TypeOK
  <2>2. Timely(d) => Timely(d)'
    BY <1>1, <2>1, TimelyCarries
  <2>3. QED BY <2>1, <2>2, AccountCarries DEF Counted
<1>5. QED BY <1>3, <1>4

\* JobsTick hands back stale claims only: their faults are paid.
LEMMA JobsTickCounts ==
  ASSUME IInv, IInv', Counted, NEW p \in Process, JobsTick(p)
  PROVE  Counted'
<1> SUFFICES ASSUME NEW d \in Delivery PROVE Accounted(d)'
  BY DEF Counted
<1>1. /\ row' = [e \in Delivery |-> IF e \in Stuck THEN Requeued(row[e]) ELSE row[e]]
      /\ claims' = claims /\ claim' = claim /\ faults' = faults
  BY DEF JobsTick
<1>2. /\ faults \in Nat /\ claims[d] \in Nat /\ row[d] \in Row /\ row[d].attempts \in Nat
      /\ row[d].claimed_at # None => row[d].claimed_at \in Nat
  BY CapAssumption, AgeAssumption DEF IInv, TypeOK, Age
<1>3. CASE d \in Stuck
  <2>1. /\ row[d].state = "processing"
        /\ row[d].claimed_at # None /\ row[d].claimed_at >= StaleAge
    BY <1>3 DEF Stuck, Stale
  <2>2. row'[d].attempts = row[d].attempts
    BY <1>1, <1>2, <1>3, RequeuedFacts
  <2>3. ~Timely(d)
    BY <1>2, <2>1, AgeAssumption DEF Timely
  <2>4. claims[d] <= row[d].attempts + faults
    BY <1>2, <2>1, <2>3 DEF Counted, Accounted
  <2>5. QED BY <1>1, <1>2, <2>2, <2>4 DEF Accounted
<1>4. CASE d \notin Stuck
  <2>1. row'[d] = row[d] /\ faults' >= faults
    BY <1>1, <1>2, <1>4
  <2>2. Timely(d) => Timely(d)'
    BY <1>1, <2>1, TimelyCarries
  <2>3. QED BY <1>1, <2>1, <2>2, AccountCarries DEF Counted
<1>5. QED BY <1>3, <1>4

\* ClaimNext adds a claim that is in time; a stale one it takes over is paid for.
LEMMA ClaimNextCounts ==
  ASSUME IInv, IInv', Counted, NEW p \in Process, ClaimNext(p)
  PROVE  Counted'
<1> SUFFICES ASSUME NEW d \in Delivery PROVE Accounted(d)'
  BY DEF Counted
<1>1. PICK e \in Delivery, t \in Token :
        /\ IsNext(e)
        /\ row' = [row EXCEPT ![e] = Claimed(e, p, t)]
        /\ claim' = [claim EXCEPT ![p] = [id |-> e, token |-> t,
                                          attempts |-> row[e].attempts, body |-> row[e].body]]
        /\ claims' = [claims EXCEPT ![e] = Least(@ + 1, MaxAttempts + 1)]
  BY DEF ClaimNext
<1>2. at[p] = "pumping" /\ faults' = faults /\ claim[p] = None
  BY DEF ClaimNext, IInv, TypeOK, LaneShape
<1>3. /\ faults \in Nat /\ claims[d] \in Nat /\ row[d] \in Row /\ row[d].attempts \in Nat
      /\ row[d].claimed_at # None => row[d].claimed_at \in Nat
  BY CapAssumption, AgeAssumption DEF IInv, TypeOK, Age
<1>4. CASE d = e
  <2>1. row[d].state \in {"pending", "processing"} /\ ~Timely(d)
    <3>1. CASE row[d].state = "pending"
      BY <3>1, NoneAssumption DEF Timely, OwnedBy
    <3>2. CASE Stale(d)
      BY <1>3, <3>2, AgeAssumption DEF Timely, Stale
    <3>3. QED BY <1>1, <1>4, <3>1, <3>2 DEF IsNext, Eligible
  <2>2. claims[d] <= row[d].attempts + faults
    BY <1>3, <2>1 DEF Counted, Accounted
  <2>3. claims'[d] = Least(claims[d] + 1, MaxAttempts + 1)
    BY <1>1, <1>4 DEF IInv, TypeOK
  <2>4. claims'[d] <= claims[d] + 1 /\ claims'[d] \in Nat
    BY <1>3, <2>3, CapAssumption DEF Least
  <2>5. row'[d] = Claimed(d, p, t)
    BY <1>1, <1>4 DEF IInv, TypeOK
  <2>6. /\ row'[d].attempts = row[d].attempts /\ row'[d].state = "processing"
        /\ row'[d].claim_token = t /\ row'[d].claimed_at = 0
    BY <2>5, ClaimedFacts DEF IInv
  <2>7. claim'[p] = [id |-> d, token |-> t, attempts |-> row[d].attempts, body |-> row[d].body]
    BY <1>1, <1>4 DEF IInv, TypeOK
  <2>8. claim'[p] # None
    <3>1. claim'[p] \in Claim
      BY <1>3, <2>1, <2>7 DEF IInv, Shape, ShapeOf
    <3>2. QED BY <3>1, ClaimNotNone
  <2>9. claim'[p].id = d /\ claim'[p].token = t
    BY <2>7
  <2>10. Timely(d)'
    BY <2>6, <2>8, <2>9, AgeAssumption, ZeroFacts DEF Timely, OwnedBy
  <2>11. QED BY <1>2, <1>3, <2>2, <2>4, <2>6, <2>10 DEF Accounted
<1>5. CASE d # e
  <2>1. row'[d] = row[d] /\ claims'[d] = claims[d] /\ faults' >= faults
    BY <1>1, <1>2, <1>3, <1>5 DEF IInv, TypeOK
  <2>2. \A q \in Process : claim[q] # None => claim'[q] = claim[q]
    BY <1>1, <1>2 DEF IInv, TypeOK
  <2>3. Timely(d) => Timely(d)'
    BY <2>1, <2>2, TimelyCarries
  <2>4. QED BY <2>1, <2>3, AccountCarries DEF Counted
<1>6. QED BY <1>4, <1>5

\* Complete leaves no account to keep.
LEMMA CompleteCounts ==
  ASSUME IInv, IInv', Counted, NEW p \in Process, Complete(p)
  PROVE  Counted'
<1> SUFFICES ASSUME NEW d \in Delivery PROVE Accounted(d)'
  BY DEF Counted
<1> DEFINE e == claim[p].id
<1>1. /\ row' = [row EXCEPT ![e] = Completed(@)] /\ claim' = [claim EXCEPT ![p] = None]
      /\ claims' = claims /\ faults' = faults
  BY DEF Complete
<1>2. faults \in Nat /\ row[d] \in Row
  BY DEF IInv, TypeOK
<1>3. CASE d = e
  <2>1. row'[d] = Completed(row[d])
    BY <1>1, <1>3 DEF IInv, TypeOK
  <2>2. QED BY <1>2, <2>1, CompletedFacts DEF Accounted
<1>4. CASE d # e
  <2>1. row'[d] = row[d] /\ faults' >= faults
    BY <1>1, <1>2, <1>4 DEF IInv, TypeOK
  <2>2. \A q \in Process : claim[q] # None /\ claim[q].id = d => claim'[q] = claim[q]
    BY <1>1, <1>4 DEF IInv, TypeOK
  <2>3. Timely(d) => Timely(d)'
    BY <2>1, <2>2, TimelyCarries
  <2>4. QED BY <1>1, <2>1, <2>3, AccountCarries DEF Counted
<1>5. QED BY <1>3, <1>4

\* AttemptFails counts the attempt its own claim stood for.
LEMMA AttemptFailsCounts ==
  ASSUME IInv, IInv', Counted, NEW p \in Process, AttemptFails(p)
  PROVE  Counted'
<1> SUFFICES ASSUME NEW d \in Delivery PROVE Accounted(d)'
  BY DEF Counted
<1> DEFINE e == claim[p].id
<1>1. PICK delay \in Delays(p) : row' = [row EXCEPT ![e] = AfterFailure(@, delay)]
  BY DEF AttemptFails
<1>2. /\ claim' = [claim EXCEPT ![p] = None] /\ claims' = claims /\ faults' = faults
      /\ OwnedBy(claim[p])
  BY DEF AttemptFails
<1>3. /\ faults \in Nat /\ claims[d] \in Nat /\ row[d] \in Row /\ row[d].attempts \in Nat
  BY CapAssumption DEF IInv, TypeOK
<1>4. CASE d = e
  <2>1. row'[d] = AfterFailure(row[d], delay)
    BY <1>1, <1>4 DEF IInv, TypeOK
  <2>2. row'[d].attempts = row[d].attempts + 1
    BY <1>3, <2>1 DEF AfterFailure
  <2>3. claims[d] <= row[d].attempts + faults + 1
    BY <1>2, <1>3, <1>4 DEF Counted, Accounted, OwnedBy
  <2>4. QED BY <1>2, <1>3, <2>2, <2>3 DEF Accounted
<1>5. CASE d # e
  <2>1. row'[d] = row[d] /\ faults' >= faults
    BY <1>1, <1>2, <1>3, <1>5 DEF IInv, TypeOK
  <2>2. \A q \in Process : claim[q] # None /\ claim[q].id = d => claim'[q] = claim[q]
    BY <1>2, <1>5 DEF IInv, TypeOK
  <2>3. Timely(d) => Timely(d)'
    BY <2>1, <2>2, TimelyCarries
  <2>4. QED BY <1>2, <2>1, <2>3, AccountCarries DEF Counted
<1>6. QED BY <1>4, <1>5

\* A pass that loses its claim held nothing in time: an answered pass that still
\* owned its row would have completed it.
LEMMA LoseClaimCounts ==
  ASSUME IInv, IInv', Counted, NEW p \in Process, LoseClaim(p)
  PROVE  Counted'
<1> SUFFICES ASSUME NEW d \in Delivery PROVE Accounted(d)'
  BY DEF Counted
<1>1. /\ row' = row /\ claim' = [claim EXCEPT ![p] = None] /\ claims' = claims
      /\ faults' = faults
  BY DEF LoseClaim, rowVars
<1>2. faults \in Nat
  BY DEF IInv, TypeOK
<1>3. claim[p] # None => ~OwnedBy(claim[p])
  BY DEF LoseClaim, Completion, OwnedBy, IInv, OwnerShape
<1>4. \A q \in Process : claim[q] # None /\ OwnedBy(claim[q]) => claim'[q] = claim[q]
  BY <1>1, <1>3 DEF IInv, TypeOK
<1>5. Timely(d) => Timely(d)'
  BY <1>1, <1>4, TimelyCarries
<1>6. QED BY <1>1, <1>2, <1>5, AccountCarries DEF Counted

\* A crash is a fault: it pays for the claim it leaves behind.
LEMMA CrashCounts ==
  ASSUME IInv, IInv', Counted, NEW p \in Process, Crash(p)
  PROVE  Counted'
<1> SUFFICES ASSUME NEW d \in Delivery PROVE Accounted(d)'
  BY DEF Counted
<1>1. row' = row /\ claims' = claims /\ faults' = faults + 1 /\ faults \in Nat
  BY DEF Crash, Fault, rowVars, IInv, TypeOK
<1>2. QED BY <1>1, AccountCarries DEF Counted

\* An operator who redrives or releases opens the account anew.
LEMMA OperatorCounts ==
  ASSUME IInv, IInv', Counted, NEW e \in Delivery, Redrive(e) \/ Release(e)
  PROVE  Counted'
<1> SUFFICES ASSUME NEW d \in Delivery PROVE Accounted(d)'
  BY DEF Counted
<1>1. /\ claims' = [claims EXCEPT ![e] = 0] /\ faults' = faults + 1
      /\ \A x \in Delivery : x # e => row'[x] = row[x]
  BY DEF Redrive, Release, Fault, IInv, TypeOK
<1>2. faults \in Nat /\ faults' \in Nat /\ row'[d].attempts \in Nat
  BY CapAssumption DEF IInv, TypeOK
<1>3. CASE d = e
  <2>1. claims'[d] = 0
    BY <1>1, <1>3 DEF IInv, TypeOK
  <2>2. QED BY <1>2, <2>1 DEF Accounted
<1>4. CASE d # e
  <2>1. row'[d] = row[d] /\ claims'[d] = claims[d] /\ faults' > faults /\ faults' >= faults
    BY <1>1, <1>2, <1>4 DEF IInv, TypeOK
  <2>2. QED BY <2>1, AccountCarries DEF Counted
<1>5. QED BY <1>3, <1>4

\* Prune closes the accounts of the rows it deletes.
LEMMA PruneCounts ==
  ASSUME IInv, IInv', Counted, Prune
  PROVE  Counted'
<1> SUFFICES ASSUME NEW d \in Delivery PROVE Accounted(d)'
  BY DEF Counted
<1>1. /\ row' = [e \in Delivery |-> IF e \in Prunable THEN Absent ELSE row[e]]
      /\ claims' = claims /\ claim' = claim /\ faults' = faults
  BY DEF Prune, laneVars
<1>2. faults \in Nat
  BY DEF IInv, TypeOK
<1>3. CASE d \in Prunable
  BY <1>1, <1>3 DEF Accounted, Absent
<1>4. CASE d \notin Prunable
  <2>1. row'[d] = row[d] /\ faults' >= faults
    BY <1>1, <1>2, <1>4
  <2>2. Timely(d) => Timely(d)'
    BY <1>1, <2>1, TimelyCarries
  <2>3. QED BY <1>1, <2>1, <2>2, AccountCarries DEF Counted
<1>5. QED BY <1>3, <1>4

\* A claim in time that the clock makes stale is an overrun, and a fault.
LEMMA ClockCounts ==
  ASSUME IInv, IInv', Counted, Clock
  PROVE  Counted'
<1> SUFFICES ASSUME NEW d \in Delivery PROVE Accounted(d)'
  BY DEF Counted
<1>1. /\ row' = [e \in Delivery |-> Aged(row[e])] /\ claims' = claims /\ claim' = claim
      /\ IF Overrun THEN Fault ELSE UNCHANGED faults
  BY DEF Clock, laneVars
<1>2. faults \in Nat /\ row[d] \in Row
  BY DEF IInv, TypeOK
<1>3. /\ row'[d] = Aged(row[d]) /\ row'[d].state = row[d].state
      /\ row'[d].claim_token = row[d].claim_token /\ row'[d].attempts = row[d].attempts
      /\ row'[d].claimed_at = Older(row[d].claimed_at)
  BY <1>1, <1>2, AgedFacts
<1>4. faults' >= faults /\ (Overrun => faults' > faults)
  BY <1>1, <1>2 DEF Fault
<1>5. Timely(d) => Timely(d)' \/ faults' > faults
  <2> SUFFICES ASSUME Timely(d) PROVE Timely(d)' \/ Overrun
    BY <1>4
  <2>1. PICK q \in Process : claim[q] # None /\ claim[q].id = d /\ OwnedBy(claim[q])
    BY DEF Timely
  <2>2. /\ at[q] \in Busy /\ row[d].state = "processing"
        /\ row[d].claimed_at # None /\ row[d].claimed_at < StaleAge
        /\ row[d].claimed_at \in Nat
    BY <1>2, <2>1, AgeAssumption DEF IInv, LaneShape, OwnedBy, Timely, Age
  <2>3. CASE row[d].claimed_at = StaleAge - 1
    BY <2>1, <2>2, <2>3 DEF Overrun
  <2>4. CASE row[d].claimed_at # StaleAge - 1
    <3>1. row'[d].claimed_at = Least(row[d].claimed_at + 1, AgeCap)
      BY <1>3, <2>2 DEF Older
    <3>2. row'[d].claimed_at < StaleAge /\ row'[d].claimed_at # None
      BY <2>2, <2>4, <3>1, AgeAssumption, ZeroFacts DEF Least
    <3>3. OwnedBy(claim[q])' /\ claim'[q] = claim[q]
      BY <1>1, <1>3, <2>1 DEF OwnedBy
    <3>4. QED BY <2>1, <3>2, <3>3 DEF Timely
  <2>5. QED BY <2>3, <2>4
<1>6. QED BY <1>1, <1>3, <1>4, <1>5, AccountCarries DEF Counted

\* Every step keeps the account.
LEMMA NextCounts ==
  ASSUME IInv, IInv', Counted, [Next]_vars
  PROVE  Counted'
<1>1. CASE UNCHANGED vars
  BY <1>1, QuietCounts DEF vars
<1>2. CASE \E p \in Process, d \in Delivery, b \in Body : ReceiveNew(p, d, b)
  BY <1>2, ReceiveNewCounts
<1>3. CASE \E p \in Process, d \in Delivery, b \in Body : ReceiveKnown(p, d, b)
  BY <1>3, QuietCounts DEF ReceiveKnown, rowVars, laneVars
<1>4. CASE \E p \in Process : Drain(p) \/ JobsTick(p) \/ Pump(p)
  <2>1. ASSUME NEW p \in Process, Drain(p) \/ Idle(p) PROVE Counted'
    BY <2>1, QuietCounts DEF Drain, Idle, rowVars
  <2>2. QED BY <1>4, <2>1, JobsTickCounts, ClaimNextCounts DEF Pump
<1>5. CASE \E p \in Process : Pass(p)
  <2>1. ASSUME NEW p \in Process, Record(p) \/ RecordRefused(p) PROVE Counted'
    BY <2>1, QuietCounts DEF Record, RecordRefused, rowVars
  <2>2. QED BY <1>5, <2>1, CompleteCounts, AttemptFailsCounts, LoseClaimCounts DEF Pass
<1>6. CASE \E p \in Process : Crash(p) \/ Restart(p)
  <2>1. ASSUME NEW p \in Process, Restart(p) PROVE Counted'
    BY <2>1, QuietCounts DEF Restart, rowVars
  <2>2. QED BY <1>6, <2>1, CrashCounts
<1>7. CASE \E d \in Delivery : Redrive(d) \/ Release(d)
  BY <1>7, OperatorCounts
<1>8. CASE Prune \/ Clock
  BY <1>8, PruneCounts, ClockCounts
<1>9. QED BY <1>1, <1>2, <1>3, <1>4, <1>5, <1>6, <1>7, <1>8 DEF Next

\* No claim of a delivery is lost from its attempt count but to a fault, so a
\* delivery that keeps failing reaches the cap and its dead letter.
THEOREM ClaimsAreCounted == Spec => []EveryClaimCounts
<1>1. Init => Counted
  BY CapAssumption DEF Init, Counted, Accounted, Absent
<1>2. IInv /\ IInv' /\ Counted /\ [Next]_vars => Counted'
  BY NextCounts
<1>3. IInv /\ Counted => EveryClaimCounts
  <2> SUFFICES ASSUME IInv, Counted, NEW d \in Delivery,
                      row[d].state \in {"pending", "processing", "failed"}
               PROVE  claims[d] <= row[d].attempts + faults
                                     + (IF row[d].state = "processing" THEN 1 ELSE 0)
    BY DEF EveryClaimCounts
  <2>1. /\ faults \in Nat /\ claims[d] \in Nat /\ row[d].attempts \in Nat
    BY CapAssumption DEF IInv, TypeOK
  <2>2. Timely(d) => row[d].state = "processing"
    BY DEF Timely, OwnedBy
  <2>3. claims[d] <= row[d].attempts + faults + (IF Timely(d) THEN 1 ELSE 0)
    BY DEF Counted, Accounted
  <2>4. QED BY <2>1, <2>2, <2>3
<1>4. QED BY <1>1, <1>2, <1>3, Invariance, PTL DEF Spec
=============================================================================
