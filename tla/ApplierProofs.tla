--------------------------- MODULE ApplierProofs ---------------------------
(***************************************************************************)
(* Theorems of Applier, for any plan, any lanes and workers, any GitHub,   *)
(* any number of faults and any bounds.                                    *)
(***************************************************************************)
EXTENDS ApplierCauses, FiniteSetTheorems, TLAPS

\* An unbroken fold has landed a prefix of the plan; its open call, if any, is
\* within reach of it, and a plan not settled has a call left.
FoldOK(f) ==
  ~f.broken =>
    \E k \in 0..PlanLength :
      /\ f.landed = 1..k
      /\ f.settled = "no" => k < PlanLength
      /\ f.open <= k + 1

\* What the fold says happened did, and calls were sent in the plan's order.
LedgerOK(lg) ==
  /\ FoldOK(lg.fold)
  /\ lg.fold.landed \subseteq lg.landed
  /\ lg.fold.open # 0 => lg.fold.open \in lg.sent
  /\ lg.unclosed \subseteq lg.sent
  /\ \A s \in lg.sent : 1..(s - 1) \subseteq lg.landed
  /\ lg.newest = 0 => lg.sent = {}

Pointing == Places \ {"idle", "driving"}
Journaled == Pointing \ {"fresh", "resume", "holding"}

\* A pass stands at a call whose predecessors landed, and that was recorded
\* before the pass asked GitHub anything about it.
PassOK(p, lg) ==
  /\ p.at \in Pointing => p.seq \in Calls /\ 1..(p.seq - 1) \subseteq lg.landed
  /\ p.at \in Journaled => p.seq \in lg.sent

PassesOK(lg) == pass \in [Lane -> Pass] /\ \A l \in Lane : PassOK(pass[l], lg)

WorldOK(lg) ==
  /\ \A w \in late : w[2] \in lg.sent
  /\ \A s \in Calls : copies[s] > 0 => s \in seen
  /\ \A s \in Comments : copies[s] > 0 => s \in lg.sent
  /\ lg.landed \subseteq seen

IInv ==
  /\ TypeOK
  /\ LedgerOK(ledger)
  /\ PassesOK(ledger)
  /\ WorldOK(ledger)

(* The fold.                                                               *)

\* The fold stays in its type.
LEMMA AfterType ==
  ASSUME NEW f \in Folds, NEW s \in Calls, NEW kind \in CallKinds
  PROVE  After(f, s, kind) \in Folds
<1> USE PlanAssumption DEF Calls
<1> DEFINE R == {"no", "landed", "refused", "abandoned"}
<1>0. 0 \in 0..PlanLength /\ s \in 0..PlanLength
  OBVIOUS
<1>1. /\ f.landed \in SUBSET Calls /\ f.open \in 0..PlanLength /\ f.attempts \in [Calls -> Int]
      /\ f.settled \in R /\ f.anyCall \in BOOLEAN
  BY DEF Folds
<1>2. [f EXCEPT !.broken = TRUE] \in Folds
  BY DEF Folds
<1>3. Sent(f, s) \in Folds
  <2> DEFINE a == [f.attempts EXCEPT ![s] = @ + 1]
  <2>1. a \in [Calls -> Int]
    BY <1>1
  <2>2. Sent(f, s) = [f EXCEPT !.anyCall = TRUE, !.open = s, !.attempts = a]
    BY DEF Sent, Folds
  <2> HIDE DEF a
  <2> QED BY <1>0, <2>1, <2>2 DEF Folds
<1>4. ASSUME kind \in ClosingKinds
      PROVE  Closed(f, s, kind) \in Folds
  <2> DEFINE a == [f.attempts EXCEPT ![s] = IF kind = "unsent" THEN @ - 1 ELSE @]
             d == IF kind = "landed" THEN f.landed \cup {s} ELSE f.landed
             e == IF kind = "unsent" \/ (kind = "landed" /\ s # PlanLength) THEN "no" ELSE kind
  <2>1. a \in [Calls -> Int]
    BY <1>1
  <2>2. d \in SUBSET Calls
    BY <1>1
  <2>3. e \in R
    BY <1>4 DEF ClosingKinds
  <2>4. Closed(f, s, kind) =
          [f EXCEPT !.anyCall = TRUE, !.open = 0, !.landed = d, !.attempts = a, !.settled = e]
    BY DEF Closed, Folds
  <2> HIDE DEF a, d, e
  <2> QED BY <1>0, <2>1, <2>2, <2>3, <2>4 DEF Folds
<1> QED BY <1>2, <1>3, <1>4 DEF After, CallKinds, ClosingKinds, EffectKinds

\* Whatever is appended, a fold that stays unbroken has landed a prefix.
LEMMA AfterKeepsFold ==
  ASSUME NEW f \in Folds, NEW s \in Calls, NEW kind \in CallKinds, FoldOK(f)
  PROVE  FoldOK(After(f, s, kind))
<1> USE PlanAssumption DEF Calls
<1>0. CASE f.broken \/ Impossible(f, s, kind)
  BY <1>0 DEF After, FoldOK, CallKinds, EffectKinds, ClosingKinds, Folds
<1>1. CASE ~f.broken /\ ~Impossible(f, s, kind)
  <2>1. PICK k \in 0..PlanLength :
          f.landed = 1..k /\ (f.settled = "no" => k < PlanLength) /\ f.open <= k + 1
    BY <1>1 DEF FoldOK
  <2>2. f.settled = "no" /\ k < PlanLength
    BY <1>1, <2>1 DEF Impossible
  <2>3. CASE kind = "sent"
    <3>1. s <= k + 1
      BY <1>1, <2>1, <2>3 DEF Impossible, GapBefore
    <3>2. After(f, s, kind) = Sent(f, s)
      BY <1>1, <2>3 DEF After, EffectKinds
    <3>3. Sent(f, s).landed = 1..k /\ Sent(f, s).settled = "no" /\ Sent(f, s).open = s
      BY <2>1, <2>2 DEF Sent, Folds
    <3> QED BY <3>1, <3>2, <3>3, <2>1, <2>2 DEF FoldOK
  <2>4. CASE kind # "sent"
    <3>1. f.open = s /\ s <= k + 1
      BY <1>1, <2>1, <2>4 DEF Impossible
    <3>2. After(f, s, kind) = Closed(f, s, kind)
      BY <1>1, <2>4 DEF After, CallKinds, EffectKinds, ClosingKinds
    <3>3. Closed(f, s, kind).open = 0
      BY DEF Closed, Folds
    <3>4. CASE kind # "landed"
      <4>1. Closed(f, s, kind).landed = 1..k
        BY <3>4, <2>1 DEF Closed, Folds
      <4> QED BY <4>1, <3>2, <3>3, <2>2 DEF FoldOK
    <3>5. CASE kind = "landed"
      <4> DEFINE j == IF s = k + 1 THEN k + 1 ELSE k
      <4>1. Closed(f, s, kind).landed = 1..j
        <5>1. Closed(f, s, kind).landed = (1..k) \cup {s}
          BY <3>5, <2>1 DEF Closed, Folds
        <5> QED BY <5>1, <3>1
      <4>2. Closed(f, s, kind).settled = "no" => s # PlanLength
        BY <3>5 DEF Closed, Folds
      <4>3. j \in 0..PlanLength /\ (s # PlanLength => j < PlanLength)
        BY <2>2, <3>1
      <4>4. /\ j \in 0..PlanLength
            /\ Closed(f, s, kind).landed = 1..j
            /\ Closed(f, s, kind).settled = "no" => j < PlanLength
            /\ Closed(f, s, kind).open <= j + 1
        BY <4>1, <4>2, <4>3, <3>3
      <4> HIDE DEF j
      <4> QED BY <4>4, <3>2 DEF FoldOK
    <3> QED BY <3>4, <3>5
  <2> QED BY <2>3, <2>4
<1> QED BY <1>0, <1>1

\* The call a resumable plan goes on with: in the plan, its predecessors landed.
LEMMA NextSeqFollows ==
  ASSUME NEW f \in Folds, FoldOK(f), Resumable(f)
  PROVE  NextSeq(f) \in Calls /\ 1..(NextSeq(f) - 1) \subseteq f.landed
<1> USE PlanAssumption
<1>1. PICK k \in 0..PlanLength : f.landed = 1..k /\ k < PlanLength
  BY DEF FoldOK, Resumable
<1>2. Cardinality(1..k) = k
  BY <1>1, FS_Interval
<1> QED BY <1>1, <1>2 DEF NextSeq, Calls

\* A fact opens its own call, if any, and lands its own call, if any.
LEMMA AfterOpen ==
  ASSUME NEW f \in Folds, NEW s \in Calls, NEW kind \in CallKinds
  PROVE  /\ After(f, s, kind).open \in {0, s, f.open}
         /\ After(f, s, kind).open = s => kind = "sent" \/ f.open = s
         /\ After(f, s, kind).landed \subseteq f.landed \cup (IF kind = "landed" THEN {s} ELSE {})
  BY PlanAssumption DEF After, Sent, Closed, Folds, Calls

----------------------------------------------------------------------------
(* The ledger.                                                             *)

\* A fact appended at a call of the plan, a send only after its predecessors.
LEMMA AppendKeepsLedger ==
  ASSUME ledger \in Ledger, LedgerOK(ledger),
         NEW s \in Calls, NEW kind \in CallKinds, NEW r \in 0..MaxRevision,
         kind = "sent" => 1..(s - 1) \subseteq ledger.landed
  PROVE  /\ Appended(s, kind, r) \in Ledger
         /\ LedgerOK(Appended(s, kind, r))
         /\ Appended(s, kind, r).sent = IF kind = "sent" THEN ledger.sent \cup {s} ELSE ledger.sent
         /\ Appended(s, kind, r).landed =
              IF kind = "landed" THEN ledger.landed \cup {s} ELSE ledger.landed
<1> USE PlanAssumption, BoundAssumption
<1> DEFINE f == After(ledger.fold, s, kind)
           sent == IF kind = "sent" THEN ledger.sent \cup {s} ELSE ledger.sent
           landed == IF kind = "landed" THEN ledger.landed \cup {s} ELSE ledger.landed
           unclosed == IF kind = "sent" THEN ledger.unclosed \cup {s} ELSE ledger.unclosed \ {s}
           tries == [ledger.tries EXCEPT ![s] =
                      IF kind = "sent" THEN @ + 1 ELSE IF kind = "unsent" THEN @ - 1 ELSE @]
           age == IF kind = "sent" THEN [ledger.age EXCEPT ![s] = 0] ELSE ledger.age
           rev == IF kind = "sent" THEN [ledger.rev EXCEPT ![s] = r] ELSE ledger.rev
           newest == IF kind = "sent" THEN s ELSE ledger.newest
<1>1. /\ ledger.fold \in Folds /\ ledger.sent \in SUBSET Calls /\ ledger.landed \in SUBSET Calls
      /\ ledger.unclosed \in SUBSET Calls /\ ledger.tries \in [Calls -> Int]
      /\ ledger.age \in [Calls -> 0..LeaseStale] /\ ledger.rev \in [Calls -> 0..MaxRevision]
      /\ ledger.newest \in 0..PlanLength
  BY DEF Ledger
<1>2. f \in Folds
  BY <1>1, AfterType
<1>3. FoldOK(f)
  BY <1>1, AfterKeepsFold DEF LedgerOK
<1>4. /\ f.open \in {0, s, ledger.fold.open}
      /\ f.open = s => kind = "sent" \/ ledger.fold.open = s
      /\ f.landed \subseteq ledger.fold.landed \cup (IF kind = "landed" THEN {s} ELSE {})
  BY <1>1, AfterOpen
<1>5. Appended(s, kind, r) =
        [fold |-> f, sent |-> sent, landed |-> landed, unclosed |-> unclosed, tries |-> tries,
         age |-> age, rev |-> rev, newest |-> newest]
  BY DEF Appended
<1>6. s \in 0..PlanLength /\ 0 \in 0..LeaseStale
  BY DEF Calls
<1>7. /\ sent \in SUBSET Calls /\ landed \in SUBSET Calls /\ unclosed \in SUBSET Calls
      /\ newest \in 0..PlanLength
  BY <1>1, <1>6
<1>8. tries \in [Calls -> Int]
  BY <1>1
<1>9. age \in [Calls -> 0..LeaseStale] /\ rev \in [Calls -> 0..MaxRevision]
  BY <1>1, <1>6
<1> HIDE DEF f, tries, age, rev
<1>10. Appended(s, kind, r) \in Ledger
  <2> HIDE DEF sent, landed, unclosed, newest
  <2> QED BY <1>2, <1>5, <1>7, <1>8, <1>9 DEF Ledger
<1>11. LedgerOK([fold |-> f, sent |-> sent, landed |-> landed, unclosed |-> unclosed,
                 tries |-> tries, age |-> age, rev |-> rev, newest |-> newest])
  <2>1. f.landed \subseteq landed
    BY <1>4 DEF LedgerOK
  <2>2. f.open # 0 => f.open \in sent
    BY <1>4 DEF LedgerOK
  <2>3. unclosed \subseteq sent
    BY DEF LedgerOK
  <2>4. \A c \in sent : 1..(c - 1) \subseteq landed
    BY DEF LedgerOK
  <2>5. newest = 0 => sent = {}
    BY DEF LedgerOK, Calls
  <2> HIDE DEF sent, landed, unclosed, newest
  <2> QED BY <1>3, <2>1, <2>2, <2>3, <2>4, <2>5 DEF LedgerOK
<1> HIDE DEF sent, landed, unclosed, newest
<1>12. Appended(s, kind, r).sent = sent /\ Appended(s, kind, r).landed = landed
  BY <1>5
<1> QED BY <1>5, <1>10, <1>11, <1>12 DEF sent, landed

----------------------------------------------------------------------------
(* The passes.                                                             *)

PassesOKNext(lg) == pass' \in [Lane -> Pass] /\ \A l \in Lane : PassOK(pass'[l], lg)

\* What a pass relies on stays true as the ledger grows.
LEMMA PassesGrow ==
  ASSUME NEW lg, NEW more, lg.sent \subseteq more.sent, lg.landed \subseteq more.landed,
         PassesOK(lg)
  PROVE  PassesOK(more)
  BY DEF PassesOK, PassOK

\* A lane at rest relies on nothing.
LEMMA RestingOK ==
  ASSUME NEW lg
  PROVE  Resting \in Pass /\ PassOK(Resting, lg)
  BY PlanAssumption, BoundAssumption
     DEF Resting, Pass, PassOK, Places, Standing, Pointing, Journaled

\* One lane's pass changes.
LEMMA OnePass ==
  ASSUME NEW lg, PassesOK(lg), NEW l \in Lane, NEW p \in Pass, PassOK(p, lg),
         pass' = [pass EXCEPT ![l] = p]
  PROVE  PassesOKNext(lg)
<1>1. pass' \in [Lane -> Pass]
  BY DEF PassesOK
<1>2. ASSUME NEW k \in Lane PROVE PassOK(pass'[k], lg)
  <2>1. pass'[k] = IF k = l THEN p ELSE pass[k]
    BY DEF PassesOK
  <2> QED BY <2>1 DEF PassesOK
<1> QED BY <1>1, <1>2 DEF PassesOKNext

\* A pass goes to another place and keeps its call.
LEMMA GotoOK ==
  ASSUME NEW lg, PassesOK(lg), NEW l \in Lane, NEW place \in Places, Goto(l, place),
         place \in Pointing => pass[l].at \in Pointing,
         place \in Journaled => pass[l].at \in Journaled \/ pass[l].seq \in lg.sent
  PROVE  PassesOKNext(lg)
<1> DEFINE p == [pass[l] EXCEPT !.at = place]
<1>1. pass[l] \in Pass /\ PassOK(pass[l], lg)
  BY DEF PassesOK
<1>2. p \in Pass
  BY <1>1 DEF Pass
<1>3. p.at = place /\ p.seq = pass[l].seq
  BY <1>1 DEF Pass
<1>4. pass' = [pass EXCEPT ![l] = p]
  BY DEF Goto
<1> HIDE DEF p
<1>5. PassOK(p, lg)
  BY <1>1, <1>3 DEF PassOK
<1> QED BY <1>2, <1>4, <1>5, OnePass

\* A lease released or taken is a lease or none.
LEMMA LeaseOK ==
  ASSUME lease \in Lease \cup {None}, NEW l \in Lane
  PROVE  Released(l) \in Lease \cup {None} /\ (Claim(l) => lease' \in Lease \cup {None})
  BY LaneAssumption, BoundAssumption DEF Released, Claim, Lease

\* A pass ends.
LEMMA StopOK ==
  ASSUME NEW lg, PassesOK(lg), lease \in Lease \cup {None}, NEW l \in Lane, Stop(l)
  PROVE  PassesOKNext(lg) /\ lease' \in Lease \cup {None}
  BY RestingOK, OnePass, LeaseOK DEF Stop

\* A call proved: the pass goes on or ends.
LEMMA GoOnOK ==
  ASSUME NEW lg, PassesOK(lg), lease \in Lease \cup {None}, NEW l \in Lane, GoOn(l)
  PROVE  PassesOKNext(lg) /\ lease' \in Lease \cup {None}
<1>1. CASE l \in Applying
  <2>1. "driving" \in Places /\ "driving" \notin Pointing /\ "driving" \notin Journaled
    BY DEF Places, Standing, Pointing, Journaled
  <2>2. Goto(l, "driving") /\ UNCHANGED lease
    BY <1>1 DEF GoOn
  <2>3. PassesOKNext(lg)
    BY <2>1, <2>2, GotoOK
  <2> QED BY <2>2, <2>3
<1>2. CASE l \notin Applying
  BY <1>2, StopOK DEF GoOn
<1> QED BY <1>1, <1>2

----------------------------------------------------------------------------
(* What every kind of step keeps.                                          *)

\* Passes and lease move; the ledger and GitHub stay.
LEMMA QuietStep ==
  ASSUME IInv, UNCHANGED <<ledger, readable, outside>>, warned' \in BOOLEAN,
         lease' \in Lease \cup {None}, PassesOKNext(ledger)
  PROVE  IInv'
<1>1. TypeOK'
  BY DEF IInv, TypeOK, PassesOKNext, outside, world
<1>2. LedgerOK(ledger)' /\ PassesOK(ledger)'
  BY DEF IInv, PassesOKNext, PassesOK, LedgerOK, PassOK
<1>3. WorldOK(ledger)'
  BY DEF IInv, WorldOK, outside, world
<1> QED BY <1>1, <1>2, <1>3 DEF IInv

\* A pass records a fact; GitHub stays.
LEMMA AppendStep ==
  ASSUME IInv, NEW s \in Calls, NEW kind \in CallKinds, NEW r \in 0..MaxRevision,
         kind = "sent" => 1..(s - 1) \subseteq ledger.landed,
         kind = "landed" => s \in seen,
         ledger' = Appended(s, kind, r), UNCHANGED outside,
         readable' \in BOOLEAN, warned' \in BOOLEAN,
         lease' \in Lease \cup {None}, PassesOKNext(ledger')
  PROVE  IInv'
<1>1. ledger \in Ledger /\ LedgerOK(ledger)
  BY DEF IInv, TypeOK
<1>2. /\ ledger' \in Ledger
      /\ LedgerOK(ledger')
      /\ ledger'.sent = IF kind = "sent" THEN ledger.sent \cup {s} ELSE ledger.sent
      /\ ledger'.landed = IF kind = "landed" THEN ledger.landed \cup {s} ELSE ledger.landed
  BY <1>1, AppendKeepsLedger
<1>3. TypeOK'
  BY <1>2 DEF IInv, TypeOK, PassesOKNext, outside, world
<1>4. LedgerOK(ledger)' /\ PassesOK(ledger)'
  BY <1>2 DEF PassesOKNext, PassesOK, LedgerOK, PassOK
<1>5. WorldOK(ledger)'
  BY <1>2 DEF IInv, WorldOK, outside, world
<1> QED BY <1>3, <1>4, <1>5 DEF IInv

\* The passes go on relying on what they relied on as a fact is appended.
LEMMA AppendKeepsPasses ==
  ASSUME IInv, NEW s \in Calls, NEW kind \in CallKinds, NEW r \in 0..MaxRevision,
         kind = "sent" => 1..(s - 1) \subseteq ledger.landed,
         ledger' = Appended(s, kind, r)
  PROVE  PassesOK(ledger') /\ (kind = "sent" => s \in ledger'.sent)
<1>1. ledger \in Ledger /\ LedgerOK(ledger) /\ PassesOK(ledger)
  BY DEF IInv, TypeOK
<1>2. /\ ledger'.sent = IF kind = "sent" THEN ledger.sent \cup {s} ELSE ledger.sent
      /\ ledger'.landed = IF kind = "landed" THEN ledger.landed \cup {s} ELSE ledger.landed
  BY <1>1, AppendKeepsLedger
<1>3. ledger.sent \subseteq ledger'.sent /\ ledger.landed \subseteq ledger'.landed
  BY <1>2
<1>4. PassesOK(ledger')
  BY <1>1, <1>3, PassesGrow
<1> QED BY <1>2, <1>4

\* Whoever points at a call points at one of the plan, its predecessors landed.
LEMMA Pointed ==
  ASSUME IInv, NEW l \in Lane, pass[l].at \in Pointing
  PROVE  /\ pass[l].seq \in Calls /\ 1..(pass[l].seq - 1) \subseteq ledger.landed
         /\ pass[l].rev \in 0..MaxRevision /\ pass[l] \in Pass
         /\ pass[l].at \in Journaled => pass[l].seq \in ledger.sent
  BY DEF IInv, PassesOK, PassOK, Pass

\* A pass that ends with nothing to record.
LEMMA StopQuietlyStep ==
  ASSUME IInv, NEW l \in Lane, StopQuietly(l), UNCHANGED outside
  PROVE  IInv'
<1>1. PassesOKNext(ledger) /\ lease' \in Lease \cup {None}
  BY StopOK DEF IInv, TypeOK, StopQuietly
<1> QED BY <1>1, QuietStep DEF StopQuietly, IInv, TypeOK

\* A pass that goes on to another place at the same call.
LEMMA MoveStep ==
  ASSUME IInv, NEW l \in Lane, NEW place \in Places, Move(l, place), UNCHANGED outside,
         pass[l].at \in Pointing, place \in Journaled => pass[l].at \in Journaled
  PROVE  IInv'
<1>1. PassesOKNext(ledger)
  BY GotoOK DEF IInv, Move
<1> QED BY <1>1, QuietStep DEF Move, IInv, TypeOK

\* A pass that closes its call with a fact, and ends.
LEMMA CloseStep ==
  ASSUME IInv, NEW l \in Lane, NEW kind \in ClosingKinds \ {"landed"},
         Close(l, kind), UNCHANGED outside, pass[l].at \in Pointing
  PROVE  IInv'
<1>1. pass[l].seq \in Calls /\ pass[l].rev \in 0..MaxRevision
  BY Pointed
<1>2. kind \in CallKinds /\ kind # "sent" /\ kind # "landed"
  BY DEF CallKinds, ClosingKinds
<1>3. ledger' = Appended(pass[l].seq, kind, pass[l].rev) /\ readable' \in BOOLEAN
  BY DEF Close, Append
<1>4. PassesOK(ledger')
  BY <1>1, <1>2, <1>3, AppendKeepsPasses
<1>5. PassesOKNext(ledger') /\ lease' \in Lease \cup {None}
  BY <1>4, StopOK DEF IInv, TypeOK, Close
<1>6. warned' \in BOOLEAN
  BY DEF Close, IInv, TypeOK
<1> QED BY <1>1, <1>2, <1>3, <1>5, <1>6, AppendStep

\* A pass that lands its call, its postcondition having held.
LEMMA LandStep ==
  ASSUME IInv, NEW l \in Lane, Land(l), UNCHANGED outside,
         pass[l].at \in Pointing, pass[l].seq \in seen
  PROVE  IInv'
<1>1. pass[l].seq \in Calls /\ pass[l].rev \in 0..MaxRevision
  BY Pointed
<1>2. "landed" \in CallKinds
  BY DEF CallKinds, ClosingKinds
<1>3. ledger' = Appended(pass[l].seq, "landed", pass[l].rev) /\ readable' \in BOOLEAN
  BY DEF Land, Append
<1>4. PassesOK(ledger')
  BY <1>1, <1>2, <1>3, AppendKeepsPasses
<1>5. PassesOKNext(ledger') /\ lease' \in Lease \cup {None}
  BY <1>4, GoOnOK DEF IInv, TypeOK, Land
<1>6. warned' \in BOOLEAN
  BY DEF Land, IInv, TypeOK
<1> QED BY <1>1, <1>2, <1>3, <1>5, <1>6, AppendStep

\* What GitHub answers is there has been there.
LEMMA HoldsWasSeen ==
  ASSUME IInv, NEW s \in Calls, copies[s] > 0
  PROVE  s \in seen
  BY DEF IInv, WorldOK

----------------------------------------------------------------------------
(* One step per action.                                                    *)

\* Where the places are.
LEMMA PlacesKnown ==
  /\ {"fresh", "resume", "holding", "looking", "requesting", "confirming", "reading",
      "resending", "listed"} \subseteq Pointing
  /\ {"looking", "requesting", "confirming", "reading", "resending", "listed"} \subseteq Journaled
  /\ Pointing \subseteq Places /\ Journaled \subseteq Pointing
  /\ {"idle", "driving"} \subseteq Places
  /\ {"idle", "driving"} \cap Pointing = {}
  /\ {"idle", "driving", "fresh", "resume", "holding"} \cap Journaled = {}
  BY DEF Places, Standing, Pointing, Journaled

\* A pass takes its lease, or starts a worklist, from rest.
LEMMA BeginStep ==
  ASSUME IInv, NEW l \in Lane, Begin(l), UNCHANGED outside
  PROVE  IInv'
<1> DEFINE p == [Resting EXCEPT !.at = "driving", !.rev = revision]
<1>1. revision \in 0..MaxRevision
  BY BoundAssumption DEF IInv, TypeOK, Revision
<1>2. p \in Pass /\ p.at = "driving"
  BY <1>1, RestingOK, PlacesKnown DEF Pass
<1>3. PassOK(p, ledger)
  BY <1>2, PlacesKnown DEF PassOK
<1>4. pass' = [pass EXCEPT ![l] = p]
  BY DEF Begin
<1> HIDE DEF p
<1>5. PassesOKNext(ledger)
  BY <1>2, <1>3, <1>4, OnePass DEF IInv
<1>6. lease' \in Lease \cup {None}
  BY LeaseOK DEF Begin, IInv, TypeOK
<1> QED BY <1>5, <1>6, QuietStep DEF Begin, IInv, TypeOK

\* A recovery pass that takes an open send to its list.
LEMMA ListStep ==
  ASSUME IInv, NEW l \in Lane, List(l), UNCHANGED outside
  PROVE  IInv'
<1>1. PICK s \in ledger.unclosed :
        pass' = [pass EXCEPT ![l] =
                   [Resting EXCEPT !.at = "listed", !.seq = s, !.sentRev = ledger.rev[s],
                                   !.tries = ledger.tries[s],
                                   !.readable = readable \/ ledger.newest # s]]
  BY DEF List
<1> DEFINE p == [Resting EXCEPT !.at = "listed", !.seq = s, !.sentRev = ledger.rev[s],
                                !.tries = ledger.tries[s],
                                !.readable = readable \/ ledger.newest # s]
<1>2. ledger \in Ledger /\ LedgerOK(ledger)
  BY DEF IInv, TypeOK
<1>3. s \in Calls /\ s \in ledger.sent
  BY <1>2 DEF LedgerOK, Ledger
<1>4. 1..(s - 1) \subseteq ledger.landed
  BY <1>2, <1>3 DEF LedgerOK
<1>5. ledger.rev[s] \in 0..MaxRevision /\ ledger.tries[s] \in Int /\ s \in 0..PlanLength
  <2>1. ledger.rev \in [Calls -> 0..MaxRevision] /\ ledger.tries \in [Calls -> Int]
    BY <1>2 DEF Ledger
  <2>2. s \in 0..PlanLength
    BY <1>3, PlanAssumption DEF Calls
  <2> QED BY <1>3, <2>1, <2>2
<1>6. p \in Pass /\ p.at = "listed" /\ p.seq = s
  <2>1. (readable \/ ledger.newest # s) \in BOOLEAN
    OBVIOUS
  <2> QED BY <1>5, <2>1, RestingOK, PlacesKnown DEF Pass
<1>7. pass' = [pass EXCEPT ![l] = p]
  BY <1>1
<1> HIDE DEF p
<1>8. PassOK(p, ledger)
  BY <1>3, <1>4, <1>6 DEF PassOK
<1>9. PassesOKNext(ledger)
  BY <1>6, <1>7, <1>8, OnePass DEF IInv
<1> QED BY <1>9, QuietStep DEF List, IInv, TypeOK

\* A pass about to act points at the first call, or at the one after those landed.
LEMMA PointStep ==
  ASSUME IInv, NEW l \in Lane, NEW place \in {"fresh", "resume", "holding"}, NEW s \in Calls,
         1..(s - 1) \subseteq ledger.landed,
         pass' = [pass EXCEPT ![l].at = place, ![l].seq = s],
         UNCHANGED <<ledger, readable, warned, lease, outside>>
  PROVE  IInv'
<1> DEFINE p == [pass[l] EXCEPT !.at = place, !.seq = s]
<1>1. pass \in [Lane -> Pass] /\ pass[l] \in Pass
  BY DEF IInv, TypeOK
<1>2. s \in 0..PlanLength /\ place \in Places
  BY PlacesKnown DEF Calls
<1>3. p \in Pass /\ p.at = place /\ p.seq = s
  BY <1>1, <1>2 DEF Pass
<1>4. pass' = [pass EXCEPT ![l] = p]
  BY <1>1
<1> HIDE DEF p
<1>5. PassOK(p, ledger)
  BY <1>3, PlacesKnown DEF PassOK
<1>6. PassesOKNext(ledger)
  BY <1>3, <1>4, <1>5, OnePass DEF IInv
<1> QED BY <1>6, QuietStep DEF IInv, TypeOK

\* The call a resumable ledger goes on with.
LEMMA NextCall ==
  ASSUME IInv, Resumable(ledger.fold)
  PROVE  NextSeq(ledger.fold) \in Calls /\ 1..(NextSeq(ledger.fold) - 1) \subseteq ledger.landed
  BY NextSeqFollows DEF IInv, TypeOK, LedgerOK, Ledger

\* A pass that finds an open send: it reads back, or closes lost bytes.
LEMMA ResolveStep ==
  ASSUME IInv, NEW l \in Lane, Resolve(l), UNCHANGED outside
  PROVE  IInv'
<1> DEFINE s == ledger.fold.open
<1>1. ledger \in Ledger /\ LedgerOK(ledger) /\ pass \in [Lane -> Pass]
  BY DEF IInv, TypeOK
<1>2. s \in Calls
  BY <1>1, PlanAssumption DEF Resolve, Open, Ledger, Folds, Calls
<1>3. s \in ledger.sent /\ 1..(s - 1) \subseteq ledger.landed
  BY <1>1, <1>2, PlanAssumption DEF LedgerOK, Calls
<1>4. CASE readable
  <2> DEFINE p == [pass[l] EXCEPT !.at = "reading", !.seq = s, !.sentRev = ledger.rev[ledger.newest]]
  <2>1. ledger.newest \in Calls
    BY <1>1, <1>3 DEF LedgerOK, Ledger, Calls
  <2>2. ledger.rev[ledger.newest] \in 0..MaxRevision /\ s \in 0..PlanLength
    <3>1. ledger.rev \in [Calls -> 0..MaxRevision]
      BY <1>1 DEF Ledger
    <3>2. s \in 0..PlanLength
      BY <1>2, PlanAssumption DEF Calls
    <3> QED BY <2>1, <3>1, <3>2
  <2>3. p \in Pass /\ p.at = "reading" /\ p.seq = s
    <3> HIDE DEF s
    <3> QED BY <1>1, <2>2, PlacesKnown DEF Pass
  <2>4. pass' = [pass EXCEPT ![l] = p] /\ UNCHANGED <<ledger, readable, lease>>
    BY <1>4, <1>1 DEF Resolve
  <2> HIDE DEF p
  <2>5. PassOK(p, ledger)
    BY <2>3, <1>2, <1>3 DEF PassOK
  <2>6. PassesOKNext(ledger)
    BY <2>3, <2>4, <2>5, OnePass DEF IInv
  <2> QED BY <2>4, <2>6, QuietStep DEF Resolve, IInv, TypeOK
<1>5. CASE ~readable
  <2>1. ledger' = Appended(s, "refused", pass[l].rev) /\ Stop(l) /\ UNCHANGED readable
    BY <1>5 DEF Resolve
  <2>2. pass[l].rev \in 0..MaxRevision /\ "refused" \in CallKinds
    BY <1>1 DEF Pass, CallKinds, ClosingKinds
  <2> HIDE DEF s
  <2>3. PassesOK(ledger')
    BY <1>2, <2>1, <2>2, AppendKeepsPasses
  <2>4. PassesOKNext(ledger') /\ lease' \in Lease \cup {None}
    BY <2>1, <2>3, StopOK DEF IInv, TypeOK
  <2>5. readable' \in BOOLEAN /\ warned' \in BOOLEAN
    BY <2>1 DEF Resolve, IInv, TypeOK
  <2> QED BY <1>2, <2>1, <2>2, <2>4, <2>5, AppendStep
<1> QED BY <1>4, <1>5

\* A pass that folds the ledger and acts on what the fold says (actionFor).
LEMMA DecideStep ==
  ASSUME IInv, NEW l \in Lane, Decide(l), UNCHANGED outside
  PROVE  IInv'
<1>1. CASE StartFresh(l)
  <2>1. 1 \in Calls /\ 1..(1 - 1) \subseteq ledger.landed
    BY PlanAssumption DEF Calls
  <2> QED BY <1>1, <2>1, PointStep DEF StartFresh
<1>2. CASE SendNext(l)
  <2>1. Resumable(ledger.fold)
    BY <1>2 DEF SendNext
  <2> QED BY <1>2, <2>1, NextCall, PointStep DEF SendNext
<1>3. CASE Resume(l)
  <2>1. Resumable(ledger.fold)
    BY <1>3 DEF Resume
  <2>2. CASE ledger.rev[ledger.newest] = pass[l].rev
    BY <1>3, <2>1, <2>2, NextCall, PointStep DEF Resume
  <2>3. CASE ledger.rev[ledger.newest] # pass[l].rev
    BY <1>3, <2>3, StopQuietlyStep DEF Resume, StopQuietly
  <2> QED BY <2>2, <2>3
<1>4. CASE Resolve(l)
  BY <1>4, ResolveStep
<1>5. CASE Finished(l)
  BY <1>5, StopQuietlyStep DEF Finished
<1> QED BY <1>1, <1>2, <1>3, <1>4, <1>5 DEF Decide

\* The gate of a fresh or resumed plan opens or closes.
LEMMA GateStep ==
  ASSUME IInv, NEW l \in Lane, GateOpens(l) \/ GateCloses(l), UNCHANGED outside
  PROVE  IInv'
<1>1. CASE GateOpens(l)
  <2> DEFINE p == [pass[l] EXCEPT !.at = "holding", !.gated = TRUE]
  <2>1. pass[l].at \in Pointing /\ pass \in [Lane -> Pass] /\ PassOK(pass[l], ledger)
    BY <1>1, PlacesKnown DEF GateOpens, IInv, PassesOK
  <2>2. p \in Pass /\ p.at = "holding" /\ p.seq = pass[l].seq
    BY <2>1, PlacesKnown DEF Pass
  <2>3. pass' = [pass EXCEPT ![l] = p]
    BY <1>1, <2>1 DEF GateOpens
  <2> HIDE DEF p
  <2>4. PassOK(p, ledger)
    BY <2>1, <2>2, PlacesKnown DEF PassOK
  <2>5. PassesOKNext(ledger)
    BY <2>2, <2>3, <2>4, OnePass DEF IInv
  <2> QED BY <1>1, <2>5, QuietStep DEF GateOpens, IInv, TypeOK
<1>2. CASE GateCloses(l)
  BY <1>2, StopQuietlyStep DEF GateCloses
<1> QED BY <1>1, <1>2

\* sendCall up to the request: turned away, held back, or recorded as sent.
LEMMA SendCallStep ==
  ASSUME IInv, NEW l \in Lane, TurnAway(l) \/ Hold(l) \/ Send(l), UNCHANGED outside
  PROVE  IInv'
<1>1. CASE TurnAway(l)
  BY <1>1, StopQuietlyStep DEF TurnAway
<1>2. CASE Hold(l)
  <2>1. "unsent" \in ClosingKinds \ {"landed"}
    BY DEF ClosingKinds
  <2> QED BY <1>2, <2>1, PlacesKnown, CloseStep DEF Hold
<1>3. CASE Send(l)
  <2> DEFINE s == pass[l].seq
             place == IF s \in LooksFirst THEN "looking" ELSE "requesting"
  <2>1. /\ s \in Calls /\ 1..(s - 1) \subseteq ledger.landed /\ pass[l].rev \in 0..MaxRevision
        /\ pass[l].at \in Pointing
    BY <1>3, PlacesKnown, Pointed DEF Send
  <2>2. "sent" \in CallKinds
    BY DEF CallKinds
  <2>3. ledger' = Appended(s, "sent", pass[l].rev) /\ readable' \in BOOLEAN
    BY <1>3 DEF Send, Append
  <2>4. PassesOK(ledger') /\ s \in ledger'.sent
    BY <2>1, <2>2, <2>3, AppendKeepsPasses
  <2>5. Goto(l, place) /\ place \in Places
    BY <1>3, PlacesKnown DEF Send
  <2> HIDE DEF place
  <2>6. PassesOKNext(ledger')
    BY <2>1, <2>4, <2>5, GotoOK
  <2>7. lease' \in Lease \cup {None} /\ warned' \in BOOLEAN
    BY <1>3 DEF Send, IInv, TypeOK
  <2> HIDE DEF s
  <2> QED BY <2>1, <2>2, <2>3, <2>6, <2>7, AppendStep
<1> QED BY <1>1, <1>2, <1>3

\* The read before the write.
LEMMA LookStep ==
  ASSUME IInv, NEW l \in Lane, LookAndFind(l) \/ LookAndMiss(l) \/ Unread(l), UNCHANGED outside
  PROVE  IInv'
<1>1. CASE LookAndFind(l)
  <2>1. pass[l].at \in Pointing /\ pass[l].seq \in Calls /\ copies[pass[l].seq] > 0
    BY <1>1, PlacesKnown, Pointed DEF LookAndFind, Holds
  <2> QED BY <1>1, <2>1, HoldsWasSeen, LandStep DEF LookAndFind
<1>2. CASE LookAndMiss(l)
  <2>1. "requesting" \in Places
    BY PlacesKnown
  <2> QED BY <1>2, <2>1, PlacesKnown, MoveStep DEF LookAndMiss
<1>3. CASE Unread(l)
  BY <1>3, StopQuietlyStep DEF Unread
<1> QED BY <1>1, <1>2, <1>3

\* GitHub's answers to a request and to the read that confirms it.
LEMMA AnswerStep ==
  ASSUME IInv, NEW l \in Lane, UNCHANGED outside,
         \/ FoundDone(l) \/ RefusedByGitHub(l) \/ Unsupported(l)
         \/ Confirmed(l) \/ Unconfirmed(l)
  PROVE  IInv'
<1>0. {"refused", "unsent"} \subseteq ClosingKinds \ {"landed"}
  BY DEF ClosingKinds
<1>1. CASE FoundDone(l)
  <2>1. pass[l].at \in Pointing /\ pass[l].seq \in Calls /\ copies[pass[l].seq] > 0
    BY <1>1, PlacesKnown, Pointed DEF FoundDone
  <2> QED BY <1>1, <2>1, HoldsWasSeen, LandStep DEF FoundDone
<1>2. CASE RefusedByGitHub(l)
  BY <1>0, <1>2, PlacesKnown, CloseStep DEF RefusedByGitHub
<1>3. CASE Unsupported(l)
  BY <1>0, <1>3, PlacesKnown, CloseStep DEF Unsupported
<1>4. CASE Confirmed(l)
  <2>1. pass[l].at \in Pointing /\ pass[l].seq \in Calls /\ copies[pass[l].seq] > 0
    BY <1>4, PlacesKnown, Pointed DEF Confirmed, Holds
  <2> QED BY <1>4, <2>1, HoldsWasSeen, LandStep DEF Confirmed
<1>5. CASE Unconfirmed(l)
  BY <1>5, StopQuietlyStep DEF Unconfirmed
<1> QED BY <1>1, <1>2, <1>3, <1>4, <1>5

\* The read-back of an open send.
LEMMA ReadStep ==
  ASSUME IInv, NEW l \in Lane, UNCHANGED outside, ReadBack(l) \/ ReadUnknown(l)
  PROVE  IInv'
<1>1. CASE ReadLanded(l)
  <2>1. pass[l].at \in Pointing /\ pass[l].seq \in Calls /\ copies[pass[l].seq] > 0
    BY <1>1, PlacesKnown, Pointed DEF ReadLanded, Holds
  <2> QED BY <1>1, <2>1, HoldsWasSeen, LandStep DEF ReadLanded
<1>2. CASE ReadUnderOther(l)
  <2>1. "refused" \in ClosingKinds \ {"landed"}
    BY DEF ClosingKinds
  <2> QED BY <1>2, <2>1, PlacesKnown, CloseStep DEF ReadUnderOther
<1>3. CASE ReadMissing(l)
  <2>1. "resending" \in Places
    BY PlacesKnown
  <2> QED BY <1>3, <2>1, PlacesKnown, MoveStep DEF ReadMissing
<1>4. CASE ReadUnknown(l)
  BY <1>4, StopQuietlyStep DEF ReadUnknown
<1> QED BY <1>1, <1>2, <1>3, <1>4 DEF ReadBack

\* The standing facts, asked again before a call is sent again.
LEMMA StandStep ==
  ASSUME IInv, NEW l \in Lane, UNCHANGED outside, Stand(l) \/ StandingUnread(l)
  PROVE  IInv'
<1>1. CASE StandingOpens(l)
  <2>1. "holding" \in Places
    BY PlacesKnown
  <2> QED BY <1>1, <2>1, PlacesKnown, MoveStep DEF StandingOpens
<1>2. CASE StandingRefuses(l)
  <2>1. "refused" \in ClosingKinds \ {"landed"}
    BY DEF ClosingKinds
  <2> QED BY <1>2, <2>1, PlacesKnown, CloseStep DEF StandingRefuses
<1>3. CASE StandingUnread(l)
  BY <1>3, StopQuietlyStep DEF StandingUnread
<1> QED BY <1>1, <1>2, <1>3 DEF Stand

\* Recovery closes a call without a lease, and its pass is over.
LEMMA ClosedFromList ==
  ASSUME IInv, NEW l \in Lane, NEW s \in Calls, NEW kind \in {"refused", "abandoned"},
         NEW r \in 0..MaxRevision,
         ledger' = Appended(s, kind, r), pass' = [pass EXCEPT ![l] = Resting],
         UNCHANGED <<readable, warned, lease, outside>>
  PROVE  IInv'
<1>1. kind \in CallKinds /\ kind # "sent" /\ kind # "landed"
  BY DEF CallKinds, ClosingKinds
<1>2. PassesOK(ledger')
  BY <1>1, AppendKeepsPasses
<1>3. PassesOKNext(ledger')
  BY <1>2, RestingOK, OnePass
<1> QED BY <1>1, <1>3, AppendStep DEF IInv, TypeOK

\* A recovery pass takes up what it listed, or skips it.
LEMMA TakeStep ==
  ASSUME IInv, NEW l \in Lane, UNCHANGED outside, Take(l) \/ Skip(l)
  PROVE  IInv'
<1>0. /\ pass[l].at = "listed" /\ pass[l].at \in Pointing /\ pass[l].at \in Journaled
      /\ pass \in [Lane -> Pass]
  BY PlacesKnown DEF Take, Forget, Abandon, Recover, Skip, IInv, TypeOK
<1>1. pass[l].seq \in Calls /\ pass[l].seq \in ledger.sent
  BY <1>0, Pointed
<1>2. revision \in 0..MaxRevision
  BY BoundAssumption DEF IInv, TypeOK, Revision
<1>3. CASE Forget(l)
  <2>1. ledger \in Ledger /\ LedgerOK(ledger)
    BY DEF IInv, TypeOK
  <2>2. ledger.newest \in Calls
    BY <1>1, <2>1 DEF LedgerOK, Ledger, Calls
  <2>3. ledger.rev \in [Calls -> 0..MaxRevision]
    BY <2>1 DEF Ledger
  <2>4. ledger.rev[ledger.newest] \in 0..MaxRevision
    BY <2>2, <2>3
  <2> QED BY <1>3, <2>2, <2>4, ClosedFromList DEF Forget
<1>4. CASE Abandon(l)
  BY <1>1, <1>2, <1>4, ClosedFromList DEF Abandon
<1>5. CASE Recover(l)
  <2> DEFINE p == [pass[l] EXCEPT !.at = "reading", !.rev = revision]
  <2>1. PassOK(pass[l], ledger)
    BY DEF IInv, PassesOK
  <2>2. p \in Pass /\ p.at = "reading" /\ p.seq = pass[l].seq
    BY <1>0, <1>2, PlacesKnown DEF Pass
  <2>3. pass' = [pass EXCEPT ![l] = p]
    BY <1>0, <1>5 DEF Recover
  <2> HIDE DEF p
  <2>4. PassOK(p, ledger)
    BY <1>0, <2>1, <2>2 DEF PassOK
  <2>5. PassesOKNext(ledger)
    BY <2>2, <2>3, <2>4, OnePass DEF IInv
  <2>6. lease' \in Lease \cup {None}
    BY <1>5, LeaseOK DEF Recover, IInv, TypeOK
  <2> QED BY <1>5, <2>5, <2>6, QuietStep DEF Recover, IInv, TypeOK
<1>6. CASE Skip(l)
  <2>1. PassesOKNext(ledger)
    BY <1>6, RestingOK, OnePass DEF Skip, IInv
  <2> QED BY <1>6, <2>1, QuietStep DEF Skip, IInv, TypeOK
<1> QED BY <1>3, <1>4, <1>5, <1>6 DEF Take

----------------------------------------------------------------------------
(* GitHub, and the faults.                                                 *)

\* A call performed on GitHub that the ledger has sent.
LEMMA PerformOK ==
  ASSUME TypeOK, WorldOK(ledger), NEW s \in Calls, s \in ledger.sent, Perform(s)
  PROVE  /\ copies' \in [Calls -> 0..2] /\ seen' \subseteq Calls
         /\ \A c \in Calls : copies'[c] > 0 => c \in seen'
         /\ \A c \in Comments : copies'[c] > 0 => c \in ledger.sent
         /\ ledger.landed \subseteq seen'
<1>1. copies \in [Calls -> 0..2] /\ seen \subseteq Calls /\ Comments \subseteq Calls
  BY CallAssumption DEF TypeOK
<1>2. (IF s \in Comments THEN Least(copies[s] + 1, 2) ELSE 1) \in 0..2
  BY <1>1 DEF Least
<1>3. copies' \in [Calls -> 0..2]
  BY <1>1, <1>2 DEF Perform
<1>4. \A c \in Calls : c # s => copies'[c] = copies[c]
  BY <1>1 DEF Perform
<1> QED BY <1>1, <1>3, <1>4 DEF Perform, WorldOK

\* The request is performed and answered.
LEMMA AcceptedStep ==
  ASSUME IInv, NEW l \in Lane, Accepted(l)
  PROVE  IInv'
<1>1. /\ pass[l].at \in Pointing /\ pass[l].at \in Journaled /\ TypeOK /\ WorldOK(ledger)
      /\ PassesOK(ledger)
  BY PlacesKnown DEF Accepted, IInv
<1>2. pass[l].seq \in Calls /\ pass[l].seq \in ledger.sent
  BY <1>1, Pointed
<1>3. /\ copies' \in [Calls -> 0..2] /\ seen' \subseteq Calls
      /\ \A c \in Calls : copies'[c] > 0 => c \in seen'
      /\ \A c \in Comments : copies'[c] > 0 => c \in ledger.sent
      /\ ledger.landed \subseteq seen'
  BY <1>1, <1>2, PerformOK DEF Accepted
<1>4. "confirming" \in Places /\ Goto(l, "confirming")
  BY PlacesKnown DEF Accepted, Move
<1>5. PassesOKNext(ledger)
  BY <1>1, <1>4, GotoOK
<1>6. UNCHANGED <<ledger, readable, warned, lease, late, revision, faults>>
  BY DEF Accepted, Move
<1>7. TypeOK'
  BY <1>1, <1>3, <1>5, <1>6 DEF TypeOK, PassesOKNext
<1>8. LedgerOK(ledger)' /\ PassesOK(ledger)'
  BY <1>5, <1>6 DEF IInv, PassesOKNext, PassesOK, LedgerOK, PassOK
<1>9. WorldOK(ledger)'
  BY <1>1, <1>3, <1>6 DEF WorldOK
<1> QED BY <1>7, <1>8, <1>9 DEF IInv

\* Requests come to be late, or are dropped; nothing else of GitHub changes.
LEMMA LateStep ==
  ASSUME IInv, UNCHANGED <<ledger, copies, seen, revision>>,
         faults' \in Nat, readable' \in BOOLEAN, warned' \in BOOLEAN,
         lease' \in Lease \cup {None}, PassesOKNext(ledger),
         late' \subseteq Lane \X Calls, \A w \in late' : w[2] \in ledger.sent
  PROVE  IInv'
<1>1. TypeOK'
  BY DEF IInv, TypeOK, PassesOKNext
<1>2. LedgerOK(ledger)' /\ PassesOK(ledger)'
  BY DEF IInv, PassesOKNext, PassesOK, LedgerOK, PassOK
<1>3. WorldOK(ledger)'
  BY DEF IInv, WorldOK
<1> QED BY <1>1, <1>2, <1>3 DEF IInv

\* The request is given up on, and may still be performed.
LEMMA UnansweredStep ==
  ASSUME IInv, NEW l \in Lane, Unanswered(l)
  PROVE  IInv'
<1>1. pass[l].at \in Pointing /\ pass[l].at \in Journaled
  BY PlacesKnown DEF Unanswered
<1>2. pass[l].seq \in Calls /\ pass[l].seq \in ledger.sent
  BY <1>1, Pointed
<1>3. late \subseteq Lane \X Calls /\ \A w \in late : w[2] \in ledger.sent
  BY DEF IInv, TypeOK, WorldOK
<1>4. <<l, pass[l].seq>> \in Lane \X Calls /\ <<l, pass[l].seq>>[2] \in ledger.sent
  BY <1>2
<1>5. late' \subseteq Lane \X Calls /\ \A w \in late' : w[2] \in ledger.sent
  BY <1>3, <1>4 DEF Unanswered
<1>6. PassesOKNext(ledger) /\ lease' \in Lease \cup {None}
  BY StopOK DEF Unanswered, StopQuietly, IInv, TypeOK
<1> QED BY <1>5, <1>6, LateStep DEF Unanswered, StopQuietly, IInv, TypeOK

\* GitHub performs a request nobody waits for.
LEMMA PerformLateStep ==
  ASSUME IInv, NEW l \in Lane, NEW s \in Calls, PerformLate(l, s)
  PROVE  IInv'
<1>1. TypeOK /\ WorldOK(ledger) /\ PassesOK(ledger)
  BY DEF IInv
<1>2. s \in ledger.sent
  <2>1. <<l, s>> \in late /\ <<l, s>>[2] = s
    BY DEF PerformLate
  <2> QED BY <1>1, <2>1 DEF WorldOK
<1>3. /\ copies' \in [Calls -> 0..2] /\ seen' \subseteq Calls
      /\ \A c \in Calls : copies'[c] > 0 => c \in seen'
      /\ \A c \in Comments : copies'[c] > 0 => c \in ledger.sent
      /\ ledger.landed \subseteq seen'
  BY <1>1, <1>2, PerformOK DEF PerformLate
<1>4. UNCHANGED <<ledger, readable, warned, lease, pass, revision, faults>> /\ late' \subseteq late
  BY DEF PerformLate
<1>5. TypeOK'
  BY <1>1, <1>3, <1>4 DEF TypeOK
<1>6. LedgerOK(ledger)' /\ PassesOK(ledger)'
  BY <1>1, <1>4 DEF IInv, PassesOK, LedgerOK, PassOK
<1>7. WorldOK(ledger)'
  BY <1>1, <1>3, <1>4 DEF WorldOK
<1> QED BY <1>5, <1>6, <1>7 DEF IInv

\* A human makes or undoes a change.
LEMMA HumanEditStep ==
  ASSUME IInv, NEW s \in Calls, NEW n \in {0, 1}, HumanEdit(s, n)
  PROVE  IInv'
<1>1. TypeOK /\ WorldOK(ledger) /\ PassesOK(ledger)
  BY DEF IInv
<1>2. copies \in [Calls -> 0..2] /\ seen \subseteq Calls /\ faults \in Nat
  BY <1>1 DEF TypeOK
<1>3. copies' \in [Calls -> 0..2] /\ seen' \subseteq Calls /\ faults' \in Nat
  BY <1>2 DEF HumanEdit, Fault
<1>4. \A c \in Calls : copies'[c] = IF c = s THEN n ELSE copies[c]
  BY <1>2 DEF HumanEdit
<1>5. UNCHANGED <<ledger, readable, warned, lease, pass, late, revision>>
  BY DEF HumanEdit
<1>6. Comments \subseteq Calls
  BY CallAssumption
<1>7. WorldOK(ledger)'
  <2>1. \A c \in Calls : copies'[c] > 0 => c \in seen'
    BY <1>1, <1>4 DEF HumanEdit, WorldOK
  <2>2. \A c \in Comments : copies'[c] > 0 => c \in ledger.sent
    BY <1>1, <1>4, <1>6 DEF HumanEdit, WorldOK
  <2>3. ledger.landed \subseteq seen'
    BY <1>1 DEF HumanEdit, WorldOK
  <2> QED BY <1>1, <1>5, <2>1, <2>2, <2>3 DEF WorldOK
<1>8. TypeOK'
  BY <1>1, <1>3, <1>5 DEF TypeOK
<1>9. LedgerOK(ledger)' /\ PassesOK(ledger)'
  BY <1>1, <1>5 DEF IInv, PassesOK, LedgerOK, PassOK
<1> QED BY <1>7, <1>8, <1>9 DEF IInv

\* The configuration changes, bytes are lost, a request is dropped.
LEMMA OutsideStep ==
  ASSUME IInv, Reconfigure \/ Spoil \/ \E l \in Lane, s \in Calls : Drop(l, s)
  PROVE  IInv'
<1>1. UNCHANGED <<ledger, warned, lease, pass, copies, seen>>
  BY DEF Reconfigure, Spoil, Drop, world
<1>2. revision' \in Revision /\ readable' \in BOOLEAN /\ faults' \in Nat
  <2>1. revision \in 1..MaxRevision /\ readable \in BOOLEAN /\ faults \in Nat
    BY DEF IInv, TypeOK, Revision
  <2>2. CASE Reconfigure
    BY <2>1, <2>2, BoundAssumption DEF Reconfigure, Revision
  <2>3. CASE Spoil
    <3>1. UNCHANGED revision
      BY <2>3 DEF Spoil
    <3>2. readable' = FALSE
      BY <2>3 DEF Spoil
    <3>3. faults' = faults + 1
      BY <2>3 DEF Spoil, Fault
    <3>4. revision' \in Revision /\ faults' \in Nat
      BY <2>1, <3>1, <3>3 DEF Revision
    <3>5. readable' \in BOOLEAN
      BY <3>2
    <3> QED BY <3>4, <3>5
  <2>4. ASSUME NEW l \in Lane, NEW s \in Calls, Drop(l, s)
        PROVE  revision' \in Revision /\ readable' \in BOOLEAN /\ faults' \in Nat
    BY <2>1, <2>4 DEF Drop, Revision
  <2> QED BY <2>2, <2>3, <2>4
<1>3. late' \subseteq late
  BY DEF Reconfigure, Spoil, Drop, world
<1>4. TypeOK'
  BY <1>1, <1>2, <1>3 DEF IInv, TypeOK
<1>5. LedgerOK(ledger)' /\ PassesOK(ledger)'
  BY <1>1 DEF IInv, PassesOK, LedgerOK, PassOK
<1>6. WorldOK(ledger)'
  BY <1>1, <1>3 DEF IInv, WorldOK
<1> QED BY <1>4, <1>5, <1>6 DEF IInv

\* A dead process leaves its requests on their way and its lanes at rest.
LEMMA DieOK ==
  ASSUME IInv, NEW w, Die(w)
  PROVE  /\ late' \subseteq Lane \X Calls /\ \A x \in late' : x[2] \in ledger.sent
         /\ pass' \in [Lane -> Pass]
         /\ \A l \in Lane : pass'[l] \in {Resting, pass[l]}
<1>1. /\ late \subseteq Lane \X Calls /\ \A x \in late : x[2] \in ledger.sent
      /\ pass \in [Lane -> Pass]
  BY DEF IInv, TypeOK, WorldOK
<1>2. ASSUME NEW l \in Lane, pass[l].at = "requesting"
      PROVE  <<l, pass[l].seq>> \in Lane \X Calls /\ <<l, pass[l].seq>>[2] \in ledger.sent
  <2>1. pass[l].seq \in Calls /\ pass[l].seq \in ledger.sent
    BY <1>2, PlacesKnown, Pointed
  <2> QED BY <2>1
<1>3. late' \subseteq Lane \X Calls /\ \A x \in late' : x[2] \in ledger.sent
  BY <1>1, <1>2 DEF Die
<1>4. pass' \in [Lane -> Pass] /\ \A l \in Lane : pass'[l] \in {Resting, pass[l]}
  <2>1. Resting \in Pass
    BY RestingOK
  <2> HIDE DEF Resting
  <2> QED BY <1>1, <2>1 DEF Die
<1> QED BY <1>3, <1>4

\* A process dies.
LEMMA CrashStep ==
  ASSUME IInv, NEW w \in Worker, Crash(w)
  PROVE  IInv'
<1>1. /\ late' \subseteq Lane \X Calls /\ \A x \in late' : x[2] \in ledger.sent
      /\ pass' \in [Lane -> Pass]
      /\ \A l \in Lane : pass'[l] \in {Resting, pass[l]}
  BY DieOK DEF Crash
<1>2. PassOK(Resting, ledger)
  BY RestingOK
<1>3. PassesOKNext(ledger)
  BY <1>1, <1>2 DEF PassesOKNext, IInv, PassesOK
<1> QED BY <1>1, <1>3, LateStep DEF Crash, Die, Fault, IInv, TypeOK

\* A process dies between a landed fact and the warning it promises.
LEMMA CrashInLandStep ==
  ASSUME IInv, NEW l \in Lane, CrashInLand(l)
  PROVE  IInv'
<1>1. pass[l].at \in Pointing
  BY PlacesKnown DEF CrashInLand
<1>2. /\ pass[l].seq \in Calls /\ pass[l].rev \in 0..MaxRevision /\ "landed" \in CallKinds
      /\ copies[pass[l].seq] > 0
  BY <1>1, Pointed DEF CallKinds, ClosingKinds, CrashInLand, Holds
<1>3. ledger' = Appended(pass[l].seq, "landed", pass[l].rev)
  BY DEF CrashInLand, Append
<1>4. /\ late' \subseteq Lane \X Calls /\ \A x \in late' : x[2] \in ledger.sent
      /\ pass' \in [Lane -> Pass]
      /\ \A k \in Lane : pass'[k] \in {Resting, pass[k]}
  BY DieOK DEF CrashInLand
<1>5. ledger \in Ledger /\ LedgerOK(ledger) /\ WorldOK(ledger) /\ TypeOK
  BY DEF IInv, TypeOK
<1>6. /\ ledger' \in Ledger /\ LedgerOK(ledger')
      /\ ledger'.sent = ledger.sent /\ ledger'.landed = ledger.landed \cup {pass[l].seq}
  BY <1>2, <1>3, <1>5, AppendKeepsLedger
<1>7. PassesOKNext(ledger')
  <2>1. PassesOK(ledger')
    BY <1>2, <1>3, AppendKeepsPasses
  <2>2. PassOK(Resting, ledger')
    BY RestingOK
  <2> QED BY <1>4, <2>1, <2>2 DEF PassesOKNext, PassesOK
<1>8. /\ UNCHANGED <<copies, seen, revision, warned, lease>> /\ readable' \in BOOLEAN
      /\ faults' \in Nat
  BY <1>5 DEF CrashInLand, Append, Die, Fault, TypeOK
<1>9. pass[l].seq \in seen
  BY <1>2, HoldsWasSeen
<1>10. TypeOK'
  BY <1>4, <1>5, <1>6, <1>8 DEF TypeOK
<1>11. LedgerOK(ledger)' /\ PassesOK(ledger)'
  BY <1>6, <1>7 DEF PassesOKNext, PassesOK, LedgerOK, PassOK
<1>12. WorldOK(ledger)'
  BY <1>4, <1>5, <1>6, <1>8, <1>9 DEF WorldOK
<1> QED BY <1>10, <1>11, <1>12 DEF IInv

\* Time passes: the sends and the lease age.
LEMMA TickStep ==
  ASSUME IInv, Tick
  PROVE  IInv'
<1>1. UNCHANGED <<readable, warned, pass, copies, late, seen, revision>>
  BY DEF Tick, world
<1>2. faults' \in Nat
  BY DEF Tick, Fault, IInv, TypeOK
<1>3. \A n \in 0..LeaseStale : Aged(n) \in 0..LeaseStale
  BY BoundAssumption DEF Aged, Least
<1>4. lease' \in Lease \cup {None}
  <2>1. CASE lease = None
    BY <2>1 DEF Tick
  <2>2. CASE lease # None
    <3>1. lease \in Lease /\ lease.age \in 0..LeaseStale
      BY <2>2 DEF IInv, TypeOK, Lease
    <3>2. lease' = [lease EXCEPT !.age = Aged(lease.age)]
      BY <2>2 DEF Tick
    <3> QED BY <1>3, <3>1, <3>2 DEF Lease
  <2> QED BY <2>1, <2>2
<1>5. ledger \in Ledger /\ LedgerOK(ledger)
  BY DEF IInv, TypeOK
<1> DEFINE age == [s \in Calls |-> IF s \in ledger.sent THEN Aged(ledger.age[s]) ELSE 0]
<1>6. age \in [Calls -> 0..LeaseStale]
  <2>1. ledger.age \in [Calls -> 0..LeaseStale] /\ 0 \in 0..LeaseStale
    BY <1>5, BoundAssumption DEF Ledger
  <2> QED BY <1>3, <2>1
<1>7. ledger' = [ledger EXCEPT !.age = age]
  BY DEF Tick
<1> HIDE DEF age
<1>8. ledger' \in Ledger
  BY <1>5, <1>6, <1>7 DEF Ledger
<1>9. /\ ledger'.fold = ledger.fold /\ ledger'.sent = ledger.sent /\ ledger'.landed = ledger.landed
      /\ ledger'.unclosed = ledger.unclosed /\ ledger'.newest = ledger.newest
  BY <1>5, <1>7 DEF Ledger
<1>10. TypeOK'
  BY <1>1, <1>2, <1>4, <1>8 DEF IInv, TypeOK
<1>11. LedgerOK(ledger)'
  BY <1>5, <1>9 DEF LedgerOK
<1>12. PassesOK(ledger)'
  BY <1>1, <1>9 DEF IInv, PassesOK, PassOK
<1>13. WorldOK(ledger)'
  BY <1>1, <1>9 DEF IInv, WorldOK
<1> QED BY <1>10, <1>11, <1>12, <1>13 DEF IInv

----------------------------------------------------------------------------
(* The theorems.                                                           *)

\* An empty ledger, lanes at rest and an untouched GitHub satisfy the invariant.
LEMMA InitOK ==
  ASSUME Init
  PROVE  IInv
<1> USE PlanAssumption, BoundAssumption
<1>0. 0 \in 0..PlanLength /\ 0 \in 0..LeaseStale /\ 0 \in 0..MaxRevision
  OBVIOUS
<1>1. NoFacts \in Folds /\ NoFacts.broken = FALSE /\ NoFacts.landed = {} /\ NoFacts.open = 0
  BY <1>0 DEF NoFacts, Folds
<1>2. FoldOK(NoFacts)
  <2>1. 0 \in 0..PlanLength /\ NoFacts.landed = 1..0 /\ 0 < PlanLength /\ NoFacts.open <= 0 + 1
    BY <1>1
  <2> QED BY <2>1 DEF FoldOK
<1>3. ledger \in Ledger
  BY <1>0, <1>1 DEF Init, Ledger
<1>4. LedgerOK(ledger)
  <2> HIDE DEF NoFacts
  <2>1. /\ ledger.fold = NoFacts /\ ledger.sent = {} /\ ledger.landed = {} /\ ledger.unclosed = {}
        /\ ledger.newest = 0
    BY DEF Init
  <2> QED BY <1>1, <1>2, <2>1 DEF LedgerOK
<1>5. PassesOK(ledger)
  BY RestingOK DEF Init, PassesOK
<1>6. TypeOK
  <2>1. copies \in [Calls -> 0..2] /\ late \subseteq Lane \X Calls /\ seen \subseteq Calls
    BY DEF Init
  <2>2. revision \in Revision
    BY DEF Init, Revision
  <2> QED BY <1>3, <1>5, <2>1, <2>2 DEF Init, TypeOK, PassesOK
<1>7. WorldOK(ledger)
  BY CallAssumption DEF Init, WorldOK
<1> QED BY <1>4, <1>5, <1>6, <1>7 DEF IInv

\* The invariant is inductive: one case for each action.
LEMMA StepOK ==
  ASSUME IInv, [Next]_vars
  PROVE  IInv'
<1>1. ASSUME NEW l \in Lane, Begin(l), UNCHANGED outside PROVE IInv'
  BY <1>1, BeginStep
<1>2. ASSUME NEW l \in Lane, List(l), UNCHANGED outside PROVE IInv'
  BY <1>2, ListStep
<1>3. ASSUME NEW l \in Lane, Inside(l), UNCHANGED outside PROVE IInv'
  BY <1>3, DecideStep, GateStep, SendCallStep, LookStep, AnswerStep, ReadStep, StandStep, TakeStep
     DEF Inside
<1>4. ASSUME NEW l \in Lane, Advance(l) PROVE IInv'
  BY <1>3, <1>4, AcceptedStep, UnansweredStep DEF Advance
<1>5. ASSUME NEW l \in Lane, NEW s \in Calls, PerformLate(l, s) \/ Drop(l, s) PROVE IInv'
  BY <1>5, PerformLateStep, OutsideStep
<1>6. ASSUME NEW s \in Calls, NEW n \in {0, 1}, HumanEdit(s, n) PROVE IInv'
  BY <1>6, HumanEditStep
<1>7. ASSUME Reconfigure \/ Spoil PROVE IInv'
  BY <1>7, OutsideStep
<1>8. ASSUME NEW w \in Worker, Crash(w) PROVE IInv'
  BY <1>8, CrashStep
<1>9. ASSUME NEW l \in Lane, CrashInLand(l) PROVE IInv'
  BY <1>9, CrashInLandStep
<1>10. ASSUME UNCHANGED vars PROVE IInv'
  <2>1. UNCHANGED <<ledger, readable, warned, lease, pass, copies, late, seen, revision, faults>>
    BY <1>10 DEF vars, world
  <2>2. TypeOK' /\ WorldOK(ledger)'
    BY <2>1 DEF IInv, TypeOK, WorldOK
  <2>3. LedgerOK(ledger)' /\ PassesOK(ledger)'
    BY <2>1 DEF IInv, LedgerOK, PassesOK, PassOK
  <2> QED BY <2>2, <2>3 DEF IInv
<1>11. CASE Next
  BY <1>1, <1>2, <1>4, <1>5, <1>6, <1>7, <1>8, <1>9, <1>11, TickStep DEF Next
<1> QED BY <1>10, <1>11

\* The inductive invariant holds in every state of every behaviour.
THEOREM Invariance == Spec => []IInv
<1>1. Init => IInv
  BY InitOK
<1>2. IInv /\ [Next]_vars => IInv'
  BY StepOK
<1> QED BY <1>1, <1>2, PTL DEF Spec

\* The ledger, the lease, the passes and GitHub stay in their types, for any plan,
\* any lanes and any faults: no fact is ever recorded at a call outside the plan.
THEOREM TypeCorrect == Spec => []TypeOK
<1>1. IInv => TypeOK
  BY DEF IInv
<1> QED BY <1>1, Invariance, PTL

\* Nothing reaches GitHub, or is on its way there, that the ledger did not record
\* first (call.ts sendCall), whatever dies, overruns or steals a lease.
THEOREM SentIsRecorded == Spec => []JournalFirst
<1>1. IInv => JournalFirst
  <2> SUFFICES ASSUME IInv, NEW s \in Calls,
                      \/ \E l \in Lane : <<l, s>> \in late \/ (pass[l].at = "requesting" /\ pass[l].seq = s)
                      \/ s \in Comments /\ copies[s] > 0
               PROVE  s \in ledger.sent
    BY DEF JournalFirst
  <2>1. WorldOK(ledger)
    BY DEF IInv
  <2>2. CASE s \in Comments /\ copies[s] > 0
    BY <2>1, <2>2 DEF WorldOK
  <2>3. ASSUME NEW l \in Lane, <<l, s>> \in late PROVE s \in ledger.sent
    <3>1. <<l, s>>[2] = s
      OBVIOUS
    <3> QED BY <2>1, <2>3, <3>1 DEF WorldOK
  <2>4. ASSUME NEW l \in Lane, pass[l].at = "requesting", pass[l].seq = s PROVE s \in ledger.sent
    BY <2>4, PlacesKnown, Pointed
  <2> QED BY <2>2, <2>3, <2>4
<1> QED BY <1>1, Invariance, PTL

\* A landed fact is never written of a postcondition that has not been true
\* (call.ts: "Nothing is closed that was not read back").
THEOREM LandedIsTrue == Spec => []LandedWasHeld
<1>1. IInv => LandedWasHeld
  BY DEF IInv, WorldOK, LandedWasHeld
<1> QED BY <1>1, Invariance, PTL

\* A notice stands on GitHub only once every act before it has held there
\* (handler.ts planWithNotice), with any number of passes, crashes and late requests.
THEOREM NoticeClaimsTheTruth == Spec => []NoticeAfterAct
<1>1. IInv => NoticeAfterAct
  <2> SUFFICES ASSUME IInv, NEW s \in Comments, copies[s] > 0, NEW earlier \in 1..(s - 1)
               PROVE  earlier \in seen
    BY DEF NoticeAfterAct
  <2>1. s \in ledger.sent /\ ledger.landed \subseteq seen
    BY DEF IInv, WorldOK
  <2>2. 1..(s - 1) \subseteq ledger.landed
    BY <2>1 DEF IInv, LedgerOK
  <2> QED BY <2>1, <2>2
<1> QED BY <1>1, Invariance, PTL

----------------------------------------------------------------------------
(* The lease keeps passes apart, as long as none is taken over from a pass *)
(* that still works, by whatever names the lanes go.                       *)

\* Whoever is inside holds the lease, so nobody else is.
Held == \A l \in Lane : Leased(l) => lease # None /\ lease.holder = l

\* Nor has it outlived the lease.
Exclusive ==
  /\ Held
  /\ \A l \in Lane : Leased(l) => lease.age < LeaseStale

OthersStay(l) == \A k \in Lane \ {l} : pass'[k] = pass[k]

\* One lane's pass changes, the others stay.
LEMMA OneChange ==
  ASSUME pass \in [Lane -> Pass], NEW l \in Lane,
         \/ \E p : pass' = [pass EXCEPT ![l] = p]
         \/ \E place : Goto(l, place)
         \/ Stop(l)
  PROVE  OthersStay(l)
  BY DEF OthersStay, Goto, Stop

\* What a step inside a pass does to the lease: keeps it, gives it up, or takes it.
LEMMA AdvanceShape ==
  ASSUME TypeOK, NEW l \in Lane, Advance(l)
  PROVE  \/ Leased(l) /\ UNCHANGED lease /\ OthersStay(l)
         \/ Leased(l) /\ Stop(l)
         \/ pass'[l] = Resting /\ UNCHANGED lease /\ OthersStay(l)
         \/ Recover(l)
<1> DEFINE Kept == Leased(l) /\ UNCHANGED lease /\ OthersStay(l)
           Ended == Leased(l) /\ Stop(l)
<1>0. pass \in [Lane -> Pass]
  BY DEF TypeOK
<1>1. CASE Decide(l)
  <2>1. Leased(l)
    BY <1>1 DEF Decide, StartFresh, SendNext, Resume, Resolve, Finished, Leased, Standing
  <2>2. CASE Stop(l)
    BY <2>1, <2>2
  <2>3. CASE ~Stop(l)
    <3>1. UNCHANGED lease
      BY <1>1, <2>3 DEF Decide, StartFresh, SendNext, Resume, Resolve, Finished, StopQuietly
    <3>2. OthersStay(l)
      BY <1>0, <1>1, <2>3
         DEF Decide, StartFresh, SendNext, Resume, Resolve, Finished, StopQuietly, OthersStay
    <3> QED BY <2>1, <3>1, <3>2
  <2> QED BY <2>2, <2>3
<1>2. CASE GateOpens(l) \/ GateCloses(l)
  <2>1. Leased(l)
    BY <1>2 DEF GateOpens, GateCloses, Leased, Standing
  <2>2. CASE GateOpens(l)
    <3>1. UNCHANGED lease /\ OthersStay(l)
      BY <1>0, <2>2 DEF GateOpens, OthersStay
    <3> QED BY <2>1, <3>1
  <2>3. CASE GateCloses(l)
    BY <2>1, <2>3 DEF GateCloses, StopQuietly
  <2> QED BY <1>2, <2>2, <2>3
<1>3. CASE TurnAway(l) \/ Hold(l) \/ Send(l)
  <2>1. Leased(l)
    BY <1>3 DEF TurnAway, Hold, Send, Leased, Standing
  <2>2. CASE TurnAway(l) \/ Hold(l)
    BY <2>1, <2>2 DEF TurnAway, Hold, StopQuietly, Close
  <2>3. CASE Send(l)
    BY <1>0, <2>1, <2>3, OneChange DEF Send
  <2> QED BY <1>3, <2>2, <2>3
<1>4. ASSUME Land(l) \/ StopQuietly(l) \/ (\E kind : Close(l, kind)) \/ (\E place : Move(l, place)),
             Leased(l)
      PROVE  Kept \/ Ended
  <2>1. CASE Land(l)
    <3>1. CASE Stop(l)
      BY <1>4, <3>1
    <3>2. CASE ~Stop(l)
      BY <1>0, <1>4, <2>1, <3>2, OneChange DEF Land, GoOn
    <3> QED BY <3>1, <3>2
  <2>2. CASE StopQuietly(l) \/ (\E kind : Close(l, kind))
    BY <1>4, <2>2 DEF StopQuietly, Close
  <2>3. CASE \E place : Move(l, place)
    BY <1>0, <1>4, <2>3, OneChange DEF Move
  <2> QED BY <1>4, <2>1, <2>2, <2>3
<1>5. CASE LookAndFind(l) \/ LookAndMiss(l) \/ Unread(l)
  BY <1>4, <1>5 DEF LookAndFind, LookAndMiss, Unread, Leased, Standing
<1>6. CASE FoundDone(l) \/ RefusedByGitHub(l) \/ Unsupported(l) \/ Confirmed(l) \/ Unconfirmed(l)
  BY <1>4, <1>6
     DEF FoundDone, RefusedByGitHub, Unsupported, Confirmed, Unconfirmed, Leased, Standing
<1>7. CASE ReadBack(l) \/ ReadUnknown(l)
  BY <1>4, <1>7 DEF ReadBack, ReadLanded, ReadUnderOther, ReadMissing, ReadUnknown, Leased, Standing
<1>8. CASE Stand(l) \/ StandingUnread(l)
  BY <1>4, <1>8 DEF Stand, StandingOpens, StandingRefuses, StandingUnread, Leased, Standing
<1>9. CASE Take(l) \/ Skip(l)
  <2>1. CASE Recover(l)
    BY <2>1
  <2>2. CASE Forget(l) \/ Abandon(l) \/ Skip(l)
    <3>1. pass' = [pass EXCEPT ![l] = Resting] /\ UNCHANGED lease
      BY <2>2 DEF Forget, Abandon, Skip
    <3>2. pass'[l] = Resting
      BY <1>0, <3>1
    <3>3. OthersStay(l)
      BY <1>0, <3>1, OneChange
    <3> QED BY <3>1, <3>2, <3>3
  <2> QED BY <1>9, <2>1, <2>2 DEF Take
<1>10. CASE Accepted(l) \/ Unanswered(l)
  BY <1>4, <1>10 DEF Accepted, Unanswered, Leased, Standing
<1> QED BY <1>1, <1>2, <1>3, <1>5, <1>6, <1>7, <1>8, <1>9, <1>10 DEF Advance, Inside

\* No lane comes to be inside, and the lease stays.
LEMMA NobodyEnters ==
  ASSUME Held, \A k \in Lane : Leased(k)' => Leased(k), UNCHANGED lease
  PROVE  Held'
  BY DEF Held

\* A claim that takes nothing over finds nobody inside.
LEMMA ClaimFindsNobody ==
  ASSUME TypeOK, Held, ~Outlived, NEW l \in Lane, Begin(l) \/ Recover(l)
  PROVE  Held' /\ (\A k \in Lane : ~Leased(k)) /\ lease' # None /\ lease'.age < LeaseStale
<1>0. Claim(l) /\ OthersStay(l)
  BY DEF Begin, Recover, OthersStay, TypeOK
<1>1. \A k \in Lane : ~Leased(k)
  <2> SUFFICES ASSUME NEW k \in Lane, Leased(k) PROVE FALSE
    OBVIOUS
  <2>1. lease # None /\ lease.holder = k
    BY DEF Held
  <2>2. lease.age >= LeaseStale
    BY <1>0, <2>1 DEF Claim
  <2> QED BY <2>1, <2>2 DEF Outlived
<1>2. lease' = [worker |-> WorkerOf[l], holder |-> l, age |-> 0]
  BY <1>0 DEF Claim
<1>3. lease' # None /\ lease'.holder = l /\ lease'.age < LeaseStale
  <2>1. lease' \in Lease
    BY <1>2, LaneAssumption, BoundAssumption DEF Lease
  <2> QED BY <1>2, <2>1, NoneAssumption, BoundAssumption
<1>4. \A k \in Lane \ {l} : ~Leased(k)'
  BY <1>0, <1>1 DEF OthersStay, Leased
<1> QED BY <1>1, <1>3, <1>4 DEF Held

\* Every step but a takeover leaves whoever is inside its lease.
LEMMA HeldStep ==
  ASSUME TypeOK, Held, ~Outlived, [Next]_vars
  PROVE  Held'
<1>0. pass \in [Lane -> Pass] /\ ~(Resting.at \in Standing)
  BY DEF TypeOK, Resting, Standing
<1>1. ASSUME NEW l \in Lane, Begin(l) \/ Recover(l) PROVE Held'
  BY <1>1, ClaimFindsNobody
<1>2. ASSUME \A k \in Lane : Leased(k)' => Leased(k), UNCHANGED lease PROVE Held'
  BY <1>2, NobodyEnters
<1>3. ASSUME NEW l \in Lane, List(l) PROVE Held'
  <2>1. UNCHANGED lease /\ OthersStay(l)
    BY <1>0, <1>3 DEF List, OthersStay
  <2>2. pass'[l].at = "listed"
    BY <1>0, <1>3 DEF List, Resting
  <2>3. ~Leased(l)'
    BY <2>2 DEF Leased, Standing
  <2> QED BY <1>2, <2>1, <2>3 DEF OthersStay, Leased
<1>4. ASSUME NEW l \in Lane, Advance(l) PROVE Held'
  <2>1. CASE Leased(l) /\ UNCHANGED lease /\ OthersStay(l)
    BY <1>2, <2>1 DEF OthersStay, Leased
  <2>2. CASE Leased(l) /\ Stop(l)
    <3>1. \A k \in Lane : ~Leased(k)'
      <4>1. pass'[l] = Resting /\ OthersStay(l)
        BY <1>0, <2>2 DEF Stop, OthersStay
      <4>2. \A k \in Lane \ {l} : ~Leased(k)
        BY <2>2 DEF Held
      <4> QED BY <1>0, <4>1, <4>2 DEF OthersStay, Leased
    <3> QED BY <3>1 DEF Held
  <2>3. CASE pass'[l] = Resting /\ UNCHANGED lease /\ OthersStay(l)
    BY <1>0, <1>2, <2>3 DEF OthersStay, Leased
  <2> QED BY <1>1, <1>4, <2>1, <2>2, <2>3, AdvanceShape
<1>5. ASSUME NEW w, Die(w), UNCHANGED lease PROVE Held'
  <2>1. \A k \in Lane : pass'[k] \in {Resting, pass[k]}
    BY <1>5 DEF Die
  <2> QED BY <1>0, <1>2, <1>5, <2>1 DEF Leased
<1>6. CASE Tick
  <2>1. UNCHANGED pass
    BY <1>6 DEF Tick
  <2>2. ASSUME NEW k \in Lane, Leased(k)
        PROVE  lease' # None /\ lease'.holder = k
    <3>1. lease \in Lease /\ lease.holder = k /\ lease # None /\ lease.age \in 0..LeaseStale
      BY <2>2 DEF Held, TypeOK, Lease
    <3>2. lease' = [lease EXCEPT !.age = Aged(lease.age)]
      BY <1>6, <3>1 DEF Tick
    <3>3. Aged(lease.age) \in 0..LeaseStale
      BY <3>1, BoundAssumption DEF Aged, Least
    <3>4. lease' \in Lease /\ lease'.holder = k
      BY <3>1, <3>2, <3>3 DEF Lease
    <3> QED BY <3>4, NoneAssumption
  <2>3. \A k \in Lane : Leased(k)' => Leased(k)
    BY <2>1 DEF Leased
  <2> QED BY <2>2, <2>3 DEF Held
<1>7. ASSUME UNCHANGED <<pass, lease>> PROVE Held'
  BY <1>2, <1>7 DEF Leased
<1>8. ASSUME NEW l \in Lane, NEW s \in Calls, PerformLate(l, s) \/ Drop(l, s) PROVE Held'
  BY <1>7, <1>8 DEF PerformLate, Drop
<1>9. ASSUME NEW s \in Calls, NEW n \in {0, 1}, HumanEdit(s, n) PROVE Held'
  BY <1>7, <1>9 DEF HumanEdit
<1>10. ASSUME Reconfigure \/ Spoil \/ UNCHANGED vars PROVE Held'
  BY <1>7, <1>10 DEF Reconfigure, Spoil, vars
<1>11. ASSUME NEW w \in Worker, Crash(w) PROVE Held'
  BY <1>5, <1>11 DEF Crash
<1>12. ASSUME NEW l \in Lane, CrashInLand(l) PROVE Held'
  BY <1>5, <1>12 DEF CrashInLand
<1>13. CASE Next
  BY <1>1, <1>3, <1>4, <1>6, <1>8, <1>9, <1>10, <1>11, <1>12, <1>13 DEF Next
<1> QED BY <1>10, <1>13

\* Where nothing overruns, whoever is inside is in time.
LEMMA ExclusiveStep ==
  ASSUME ~Overruns, TypeOK, Exclusive, [Next]_vars
  PROVE  Exclusive'
<1>0. pass \in [Lane -> Pass] /\ ~(Resting.at \in Standing)
  BY DEF TypeOK, Resting, Standing
<1>1. ~Outlived
  <2> SUFFICES ASSUME lease # None, lease.age >= LeaseStale, Leased(lease.holder) PROVE FALSE
    BY DEF Outlived
  <2>1. lease \in Lease /\ lease.holder \in Lane /\ lease.age \in 0..LeaseStale
    BY DEF TypeOK, Lease
  <2>2. lease.age < LeaseStale
    BY <2>1 DEF Exclusive
  <2> QED BY <2>1, <2>2, BoundAssumption
<1>2. Held'
  BY <1>1, HeldStep DEF Exclusive
<1> DEFINE InTime == \A l \in Lane : Leased(l)' => lease'.age < LeaseStale
<1>3. ASSUME \A k \in Lane : Leased(k)' => Leased(k), UNCHANGED lease PROVE InTime
  BY <1>3 DEF Exclusive
<1>4. ASSUME NEW l \in Lane, Begin(l) \/ Recover(l) PROVE InTime
  BY <1>1, <1>4, ClaimFindsNobody DEF Exclusive
<1>5. ASSUME NEW l \in Lane, List(l) PROVE InTime
  <2>1. UNCHANGED lease /\ pass' = [pass EXCEPT ![l] = pass'[l]] /\ pass'[l].at = "listed"
    BY <1>0, <1>5 DEF List, Resting
  <2>2. \A k \in Lane : Leased(k)' => Leased(k)
    BY <1>0, <2>1 DEF Leased, Standing
  <2> QED BY <1>3, <2>1, <2>2
<1>6. ASSUME NEW l \in Lane, Advance(l) PROVE InTime
  <2>1. CASE Recover(l)
    BY <1>4, <2>1
  <2>2. CASE Leased(l) /\ Stop(l)
    <3>1. pass'[l] = Resting /\ OthersStay(l)
      BY <1>0, <2>2 DEF Stop, OthersStay
    <3>2. \A k \in Lane \ {l} : ~Leased(k)
      BY <2>2 DEF Exclusive, Held
    <3> QED BY <1>0, <3>1, <3>2 DEF OthersStay, Leased
  <2>3. CASE Leased(l) /\ UNCHANGED lease /\ OthersStay(l)
    BY <1>3, <2>3 DEF OthersStay, Leased
  <2>4. CASE pass'[l] = Resting /\ UNCHANGED lease /\ OthersStay(l)
    BY <1>0, <1>3, <2>4 DEF OthersStay, Leased
  <2> QED BY <1>6, <2>1, <2>2, <2>3, <2>4, AdvanceShape
<1>7. ASSUME NEW w, Die(w), UNCHANGED lease PROVE InTime
  <2>1. \A k \in Lane : pass'[k] \in {Resting, pass[k]}
    BY <1>7 DEF Die
  <2> QED BY <1>0, <1>3, <1>7, <2>1 DEF Leased
<1>8. ASSUME Tick PROVE InTime
  <2>1. UNCHANGED pass /\ ~Overrun
    BY <1>8 DEF Tick
  <2>2. ASSUME NEW k \in Lane, Leased(k)' PROVE lease'.age < LeaseStale
    <3>1. Leased(k)
      BY <2>1, <2>2 DEF Leased
    <3>2. lease \in Lease /\ lease.holder = k /\ lease.age < LeaseStale /\ lease # None
      BY <3>1 DEF Exclusive, Held, TypeOK
    <3>3. lease.age # LeaseStale - 1 /\ lease.age \in 0..LeaseStale
      BY <2>1, <3>1, <3>2 DEF Overrun, Lease
    <3>4. lease' = [lease EXCEPT !.age = Aged(lease.age)]
      BY <1>8, <3>2 DEF Tick
    <3>5. Aged(lease.age) < LeaseStale
      BY <3>2, <3>3, BoundAssumption DEF Aged, Least
    <3> QED BY <3>2, <3>4, <3>5 DEF Lease
  <2> QED BY <2>2
<1>9. ASSUME UNCHANGED <<pass, lease>> PROVE InTime
  BY <1>3, <1>9 DEF Leased
<1>10. ASSUME NEW l \in Lane, NEW s \in Calls, PerformLate(l, s) \/ Drop(l, s) PROVE InTime
  BY <1>9, <1>10 DEF PerformLate, Drop
<1>11. ASSUME NEW s \in Calls, NEW n \in {0, 1}, HumanEdit(s, n) PROVE InTime
  BY <1>9, <1>11 DEF HumanEdit
<1>12. ASSUME Reconfigure \/ Spoil \/ UNCHANGED vars PROVE InTime
  BY <1>9, <1>12 DEF Reconfigure, Spoil, vars
<1>13. ASSUME NEW w \in Worker, Crash(w) PROVE InTime
  BY <1>7, <1>13 DEF Crash
<1>14. ASSUME NEW l \in Lane, CrashInLand(l) PROVE InTime
  BY <1>7, <1>14 DEF CrashInLand
<1>15. ASSUME Next PROVE InTime
  BY <1>4, <1>5, <1>6, <1>8, <1>10, <1>11, <1>12, <1>13, <1>14, <1>15 DEF Next
<1>16. InTime
  BY <1>12, <1>15
<1> QED BY <1>2, <1>16 DEF Exclusive

\* The lease is held under the name of its holder.
Named == lease # None => lease.worker = WorkerOf[lease.holder]

\* A release deletes by name: a step that leaves no lease was taken by a pass that
\* ends and goes by the holder's name, stolen lease or not.
LEMMA ReleaseStep ==
  ASSUME TypeOK, Named, [Next]_vars
  PROVE  /\ Named'
         /\ lease # None /\ lease' = None =>
              \E k \in Lane : WorkerOf[k] = lease.worker /\ Leased(k) /\ ~Leased(k)'
<1> DEFINE Done == \E k \in Lane : WorkerOf[k] = lease.worker /\ Leased(k) /\ ~Leased(k)'
           Goal == Named' /\ (lease # None /\ lease' = None => Done)
<1>0. pass \in [Lane -> Pass] /\ ~(Resting.at \in Standing)
  BY DEF TypeOK, Resting, Standing
<1>1. ASSUME UNCHANGED lease PROVE Goal
  BY <1>1 DEF Named
<1>2. ASSUME NEW l \in Lane, Claim(l) PROVE Goal
  <2>1. lease' = [worker |-> WorkerOf[l], holder |-> l, age |-> 0]
    BY <1>2 DEF Claim
  <2>2. lease' \in Lease
    BY <2>1, LaneAssumption, BoundAssumption DEF Lease
  <2> QED BY <2>1, <2>2, NoneAssumption DEF Named
<1>3. ASSUME NEW l \in Lane, Leased(l), Stop(l) PROVE Goal
  <2>1. pass'[l] = Resting /\ lease' = Released(l)
    BY <1>0, <1>3 DEF Stop
  <2>2. ~Leased(l)'
    BY <1>0, <2>1 DEF Leased
  <2>3. CASE lease # None /\ lease.worker = WorkerOf[l]
    BY <1>3, <2>1, <2>2, <2>3 DEF Released, Named
  <2>4. CASE ~(lease # None /\ lease.worker = WorkerOf[l])
    BY <1>1, <2>1, <2>4 DEF Released
  <2> QED BY <2>3, <2>4
<1>4. ASSUME NEW l \in Lane, Advance(l) PROVE Goal
  BY <1>1, <1>2, <1>3, <1>4, AdvanceShape DEF Recover
<1>5. CASE Tick
  <2>1. CASE lease = None
    BY <1>5, <2>1 DEF Tick, Named
  <2>2. CASE lease # None
    <3>1. lease \in Lease /\ lease.age \in 0..LeaseStale
      BY <2>2 DEF TypeOK, Lease
    <3>2. lease' = [lease EXCEPT !.age = Aged(lease.age)] /\ Aged(lease.age) \in 0..LeaseStale
      BY <1>5, <2>2, <3>1, BoundAssumption DEF Tick, Aged, Least
    <3>3. lease' \in Lease /\ lease'.worker = lease.worker /\ lease'.holder = lease.holder
      BY <3>1, <3>2 DEF Lease
    <3> QED BY <2>2, <3>3, NoneAssumption DEF Named
  <2> QED BY <2>1, <2>2
<1>6. ASSUME NEW l \in Lane, Begin(l) \/ List(l) PROVE Goal
  BY <1>1, <1>2, <1>6 DEF Begin, List
<1>7. ASSUME NEW l \in Lane, NEW s \in Calls, PerformLate(l, s) \/ Drop(l, s) PROVE Goal
  BY <1>1, <1>7 DEF PerformLate, Drop
<1>8. ASSUME NEW s \in Calls, NEW n \in {0, 1}, HumanEdit(s, n) PROVE Goal
  BY <1>1, <1>8 DEF HumanEdit
<1>9. ASSUME Reconfigure \/ Spoil \/ UNCHANGED vars PROVE Goal
  BY <1>1, <1>9 DEF Reconfigure, Spoil, vars
<1>10. ASSUME NEW w \in Worker, Crash(w) PROVE Goal
  BY <1>1, <1>10 DEF Crash
<1>11. ASSUME NEW l \in Lane, CrashInLand(l) PROVE Goal
  BY <1>1, <1>11 DEF CrashInLand
<1>12. CASE Next
  BY <1>4, <1>5, <1>6, <1>7, <1>8, <1>9, <1>10, <1>11, <1>12 DEF Next
<1> QED BY <1>9, <1>12

\* "Releasing after your lease was stolen is a safe no-op" (ledger.ts release), where it
\* matters: with leases outlived and stolen, a pass that works under the lease loses it
\* to no process but its own, and there only to a lane that ends a pass meanwhile.
THEOREM ReleaseTakesOwn == Spec => ReleasesOwn
<1> DEFINE Own == \A l \in Lane :
             /\ lease # None /\ lease.holder = l /\ Leased(l) /\ Leased(l)'
             /\ lease' = None
             => \E k \in Lane \ {l} : WorkerOf[k] = WorkerOf[l] /\ Leased(k) /\ ~Leased(k)'
<1>1. Init => Named
  BY DEF Init, Named
<1>2. TypeOK /\ Named /\ [Next]_vars => Named' /\ [Own]_vars
  <2> SUFFICES ASSUME TypeOK, Named, [Next]_vars PROVE Named' /\ Own
    OBVIOUS
  <2>1. /\ Named'
        /\ lease # None /\ lease' = None =>
             \E k \in Lane : WorkerOf[k] = lease.worker /\ Leased(k) /\ ~Leased(k)'
    BY ReleaseStep
  <2> QED BY <2>1 DEF Named
<1> QED BY <1>1, <1>2, TypeCorrect, PTL DEF Spec, ReleasesOwn

----------------------------------------------------------------------------
(* As long as none of the four causes was met, the history stays possible, *)
(* whichever lanes apply, sweep and recover beside each other.             *)

Asking == {"looking", "requesting", "confirming", "reading", "resending"}

\* A history that has not started has nothing open and settled nothing, and one that
\* is settled has nothing open.
FoldStarted(f) ==
  /\ ~f.anyCall => f.open = 0 /\ f.settled = "no"
  /\ f.open # 0 => f.settled = "no"

\* What a pass is about to record is possible in the history as it stands.
Fits(p, f) ==
  /\ p.at = "fresh" => NeverStarted(f) /\ p.seq = 1
  /\ p.at = "resume" => Resumable(f) /\ p.seq = NextSeq(f)
  /\ p.at = "holding" => f.settled = "no" /\ f.open \in {0, p.seq} /\ ~GapBefore(f, p.seq)
  /\ p.at \in Asking => f.settled = "no" /\ f.open = p.seq /\ ~GapBefore(f, p.seq)

Steady ==
  /\ ~ledger.fold.broken /\ FoldStarted(ledger.fold)
  /\ \A l \in Lane : Fits(pass[l], ledger.fold)

\* A fact the history has room for leaves it possible.
LEMMA AfterPossible ==
  ASSUME NEW f \in Folds, NEW s \in Calls, NEW kind \in CallKinds,
         ~f.broken, f.settled = "no",
         kind = "sent" => f.open \in {0, s} /\ ~GapBefore(f, s),
         kind # "sent" => f.open = s
  PROVE  /\ ~After(f, s, kind).broken
         /\ FoldStarted(After(f, s, kind))
         /\ kind = "sent" => /\ After(f, s, kind).open = s
                             /\ After(f, s, kind).settled = "no"
                             /\ ~GapBefore(After(f, s, kind), s)
<1>1. ~Impossible(f, s, kind) /\ kind \notin EffectKinds
  BY DEF Impossible, CallKinds, ClosingKinds, EffectKinds
<1>2. CASE kind = "sent"
  <2>1. After(f, s, kind) = Sent(f, s)
    BY <1>1, <1>2 DEF After
  <2>2. /\ Sent(f, s).landed = f.landed /\ Sent(f, s).open = s /\ Sent(f, s).settled = "no"
        /\ Sent(f, s).anyCall /\ ~Sent(f, s).broken
    BY DEF Sent, Folds
  <2> QED BY <1>2, <2>1, <2>2 DEF FoldStarted, GapBefore
<1>3. CASE kind # "sent"
  <2>1. After(f, s, kind) = Closed(f, s, kind)
    BY <1>1, <1>3 DEF After
  <2>2. Closed(f, s, kind).anyCall /\ ~Closed(f, s, kind).broken /\ Closed(f, s, kind).open = 0
    BY DEF Closed, Folds
  <2> QED BY <1>3, <2>1, <2>2 DEF FoldStarted
<1> QED BY <1>2, <1>3

\* The call an unsettled history has open, or goes on with, leaves no gap.
LEMMA NoGap ==
  ASSUME NEW f \in Folds, FoldOK(f), ~f.broken
  PROVE  /\ ~GapBefore(f, 1)
         /\ f.open # 0 => f.open \in Calls /\ ~GapBefore(f, f.open)
         /\ Resumable(f) => ~GapBefore(f, NextSeq(f))
<1>1. ~GapBefore(f, 1)
  BY DEF GapBefore
<1>2. ASSUME f.open # 0 PROVE f.open \in Calls /\ ~GapBefore(f, f.open)
  <2>1. PICK k \in 0..PlanLength : f.landed = 1..k /\ f.open <= k + 1
    BY DEF FoldOK
  <2>2. f.open \in 0..PlanLength
    BY DEF Folds
  <2> QED BY <1>2, <2>1, <2>2, PlanAssumption DEF GapBefore, Calls
<1>3. Resumable(f) => ~GapBefore(f, NextSeq(f))
  BY NextSeqFollows DEF GapBefore
<1> QED BY <1>1, <1>2, <1>3

\* The history stays, and one lane's pass changes.
LEMMA QuietCalm ==
  ASSUME Steady, NEW l \in Lane, OthersStay(l), UNCHANGED ledger, Fits(pass'[l], ledger.fold)
  PROVE  Steady'
<1>1. \A k \in Lane : Fits(pass'[k], ledger.fold)
  BY DEF Steady, OthersStay
<1> QED BY <1>1 DEF Steady

\* Whoever rests, holds no more than a list, or folds next, fits any history.
LEMMA RestFits ==
  ASSUME NEW p, p.at \in {"idle", "listed", "driving"}, NEW f
  PROVE  Fits(p, f)
  BY DEF Fits, Asking

\* Whoever is not inside fits any history.
LEMMA OutsideFits ==
  ASSUME TypeOK, NEW k \in Lane, ~Leased(k), NEW f
  PROVE  Fits(pass[k], f)
<1>1. pass[k].at \in Places
  BY DEF TypeOK, Pass
<1>2. pass[k].at \in {"idle", "listed", "driving"}
  BY <1>1 DEF Leased, Places
<1> QED BY <1>2, RestFits

\* Nobody else is inside with a pass that holds the lease.
LEMMA OthersOutside ==
  ASSUME Held, NEW l \in Lane, Leased(l)
  PROVE  \A k \in Lane \ {l} : ~Leased(k)
  BY DEF Held

\* A lane alone inside, or one with nobody inside, records a fact there is room for.
LEMMA AppendCalm ==
  ASSUME IInv, Steady, NEW l \in Lane, \A k \in Lane \ {l} : ~Leased(k), OthersStay(l),
         NEW s \in Calls, NEW kind \in CallKinds, NEW r,
         ledger.fold.settled = "no",
         kind = "sent" => ledger.fold.open \in {0, s} /\ ~GapBefore(ledger.fold, s),
         kind # "sent" => ledger.fold.open = s,
         ledger' = Appended(s, kind, r), Fits(pass'[l], After(ledger.fold, s, kind))
  PROVE  Steady'
<1> DEFINE f == After(ledger.fold, s, kind)
<1>1. ledger.fold \in Folds /\ ~ledger.fold.broken
  BY DEF IInv, TypeOK, Ledger, Steady
<1>2. ~f.broken /\ FoldStarted(f)
  BY <1>1, AfterPossible
<1>3. ledger'.fold = f
  BY DEF Appended
<1>4. ASSUME NEW k \in Lane \ {l} PROVE Fits(pass'[k], f)
  <2>1. Fits(pass[k], f)
    BY OutsideFits DEF IInv
  <2> QED BY <2>1 DEF OthersStay
<1>5. \A k \in Lane : Fits(pass'[k], f)
  BY <1>4
<1> HIDE DEF f
<1> QED BY <1>2, <1>3, <1>5 DEF Steady

\* One lane's step is that lane's alone.
LEMMA AdvanceAlone ==
  ASSUME TypeOK, NEW l \in Lane, Advance(l)
  PROVE  OthersStay(l)
<1>1. pass \in [Lane -> Pass]
  BY DEF TypeOK
<1>2. CASE Stop(l)
  BY <1>1, <1>2, OneChange
<1>3. CASE Recover(l)
  BY <1>1, <1>3 DEF Recover, OthersStay
<1> QED BY <1>2, <1>3, AdvanceShape

\* actionFor answers what the history allows.
LEMMA DecideCalm ==
  ASSUME IInv, Held, Steady, NEW l \in Lane, Decide(l), OthersStay(l)
  PROVE  Steady'
<1>0. /\ pass \in [Lane -> Pass] /\ ledger.fold \in Folds /\ FoldOK(ledger.fold)
      /\ ~ledger.fold.broken /\ Resting.at = "idle"
  BY DEF IInv, TypeOK, Ledger, LedgerOK, Steady, Resting
<1>1. ASSUME Stop(l), UNCHANGED ledger PROVE Steady'
  BY <1>0, <1>1, RestFits, QuietCalm DEF Stop
<1>2. CASE StartFresh(l)
  <2>1. pass'[l].at = "fresh" /\ pass'[l].seq = 1 /\ NeverStarted(ledger.fold)
    BY <1>0, <1>2 DEF StartFresh, Pass
  <2>2. Fits(pass'[l], ledger.fold)
    BY <2>1 DEF Fits, Asking
  <2> QED BY <1>2, <2>2, QuietCalm DEF StartFresh
<1>3. CASE SendNext(l)
  <2>1. pass'[l].at = "holding" /\ pass'[l].seq = NextSeq(ledger.fold) /\ Resumable(ledger.fold)
    BY <1>0, <1>3 DEF SendNext, Pass
  <2>2. Fits(pass'[l], ledger.fold)
    BY <1>0, <2>1, NoGap DEF Fits, Asking, Resumable
  <2> QED BY <1>3, <2>2, QuietCalm DEF SendNext
<1>4. CASE Resume(l) /\ ~Stop(l)
  <2>1. pass'[l].at = "resume" /\ pass'[l].seq = NextSeq(ledger.fold) /\ Resumable(ledger.fold)
    BY <1>0, <1>4 DEF Resume, Pass
  <2>2. Fits(pass'[l], ledger.fold)
    BY <2>1 DEF Fits, Asking
  <2> QED BY <1>4, <2>2, QuietCalm DEF Resume
<1>5. CASE Resolve(l)
  <2>1. /\ ledger.fold.settled = "no" /\ ledger.fold.open \in Calls
        /\ ~GapBefore(ledger.fold, ledger.fold.open)
    BY <1>0, <1>5, NoGap DEF Resolve, Open
  <2>2. CASE readable
    <3>1. pass'[l].at = "reading" /\ pass'[l].seq = ledger.fold.open
      BY <1>0, <1>5, <2>2 DEF Resolve, Pass
    <3>2. Fits(pass'[l], ledger.fold)
      BY <2>1, <3>1 DEF Fits, Asking
    <3> QED BY <1>5, <2>2, <3>2, QuietCalm DEF Resolve
  <2>3. CASE ~readable
    <3>1. ledger' = Appended(ledger.fold.open, "refused", pass[l].rev) /\ Stop(l)
      BY <1>5, <2>3 DEF Resolve
    <3>2. Fits(pass'[l], After(ledger.fold, ledger.fold.open, "refused"))
      BY <1>0, <3>1, RestFits DEF Stop
    <3>3. Leased(l)
      BY <1>5 DEF Resolve, Leased, Standing
    <3>4. "refused" \in CallKinds
      BY DEF CallKinds, ClosingKinds
    <3> QED BY <2>1, <3>1, <3>2, <3>3, <3>4, OthersOutside, AppendCalm
  <2> QED BY <2>2, <2>3
<1>6. CASE Finished(l)
  BY <1>1, <1>6 DEF Finished, StopQuietly
<1> QED BY <1>1, <1>2, <1>3, <1>4, <1>5, <1>6 DEF Decide, Resume

\* A pass that ends with nothing to record, or goes on at its open call.
LEMMA EndCalm ==
  ASSUME IInv, Steady, NEW l \in Lane, StopQuietly(l), OthersStay(l)
  PROVE  Steady'
<1>1. pass'[l].at = "idle" /\ UNCHANGED ledger
  BY DEF StopQuietly, Stop, IInv, TypeOK, Resting
<1> QED BY <1>1, RestFits, QuietCalm

LEMMA MoveCalm ==
  ASSUME IInv, Steady, NEW l \in Lane, NEW place \in Asking \cup {"holding"},
         pass[l].at \in Asking, Move(l, place), OthersStay(l)
  PROVE  Steady'
<1>1. pass'[l].at = place /\ pass'[l].seq = pass[l].seq /\ UNCHANGED ledger
  BY DEF Move, Goto, IInv, TypeOK, Pass
<1>2. /\ ledger.fold.settled = "no" /\ ledger.fold.open = pass[l].seq
      /\ ~GapBefore(ledger.fold, pass[l].seq)
  BY DEF Steady, Fits
<1>3. Fits(pass'[l], ledger.fold)
  BY <1>1, <1>2 DEF Fits, Asking
<1> QED BY <1>1, <1>3, QuietCalm

\* A pass that has asked records what it learned of its open call.
LEMMA RecordCalm ==
  ASSUME IInv, Held, Steady, NEW l \in Lane, NEW kind \in ClosingKinds,
         pass[l].at \in Asking, Append(l, kind), OthersStay(l), pass'[l].at \in {"idle", "driving"}
  PROVE  Steady'
<1>1. pass[l].seq \in Calls /\ Leased(l)
  <2>1. pass[l].at \in Pointing
    BY PlacesKnown DEF Asking
  <2> QED BY <2>1, Pointed DEF Asking, Leased, Standing
<1>2. ledger.fold.settled = "no" /\ ledger.fold.open = pass[l].seq
  BY DEF Steady, Fits
<1>3. kind \in CallKinds /\ kind # "sent"
  BY DEF CallKinds, ClosingKinds
<1>4. ledger' = Appended(pass[l].seq, kind, pass[l].rev)
  BY DEF Append
<1>5. Fits(pass'[l], After(ledger.fold, pass[l].seq, kind))
  BY RestFits
<1> QED BY <1>1, <1>2, <1>3, <1>4, <1>5, OthersOutside, AppendCalm

LEMMA LandCalm ==
  ASSUME IInv, Held, Steady, NEW l \in Lane, pass[l].at \in Asking, Land(l), OthersStay(l)
  PROVE  Steady'
<1>1. pass'[l].at \in {"idle", "driving"}
  BY DEF Land, GoOn, Goto, Stop, IInv, TypeOK, Pass, Resting
<1>2. "landed" \in ClosingKinds
  BY DEF ClosingKinds
<1> QED BY <1>1, <1>2, RecordCalm DEF Land

LEMMA CloseCalm ==
  ASSUME IInv, Held, Steady, NEW l \in Lane, NEW kind \in ClosingKinds,
         pass[l].at \in Asking, Close(l, kind), OthersStay(l)
  PROVE  Steady'
<1>1. pass'[l].at \in {"idle", "driving"}
  BY DEF Close, Stop, IInv, TypeOK, Resting
<1> QED BY <1>1, RecordCalm DEF Close

\* The gate opens or not; the call is turned away, sent, or held back while it is open.
LEMMA SendCalm ==
  ASSUME IInv, Held, Steady, ~HeldBack, NEW l \in Lane, OthersStay(l),
         GateOpens(l) \/ TurnAway(l) \/ Hold(l) \/ Send(l)
  PROVE  Steady'
<1>0. /\ pass \in [Lane -> Pass] /\ ledger.fold \in Folds /\ FoldOK(ledger.fold)
      /\ ~ledger.fold.broken /\ FoldStarted(ledger.fold)
  BY DEF IInv, TypeOK, Ledger, LedgerOK, Steady
<1>1. CASE GateOpens(l)
  <2>1. pass'[l].at = "holding" /\ pass'[l].seq = pass[l].seq /\ UNCHANGED ledger
    BY <1>0, <1>1 DEF GateOpens, Pass
  <2>2. /\ ledger.fold.settled = "no" /\ ledger.fold.open \in {0, pass[l].seq}
        /\ ~GapBefore(ledger.fold, pass[l].seq)
    <3>1. CASE pass[l].at = "fresh"
      <4>1. NeverStarted(ledger.fold) /\ pass[l].seq = 1
        BY <3>1 DEF Steady, Fits
      <4> QED BY <1>0, <4>1, NoGap DEF NeverStarted, FoldStarted
    <3>2. CASE pass[l].at = "resume"
      <4>1. Resumable(ledger.fold) /\ pass[l].seq = NextSeq(ledger.fold)
        BY <3>2 DEF Steady, Fits
      <4> QED BY <1>0, <4>1, NoGap DEF Resumable
    <3> QED BY <1>1, <3>1, <3>2 DEF GateOpens
  <2>3. Fits(pass'[l], ledger.fold)
    BY <2>1, <2>2 DEF Fits, Asking
  <2> QED BY <2>1, <2>3, QuietCalm
<1>2. CASE TurnAway(l)
  BY <1>2, EndCalm DEF TurnAway
<1>3. CASE Hold(l)
  <2>1. pass[l].at = "holding" /\ ledger.fold.open = pass[l].seq /\ Close(l, "unsent")
    BY <1>3 DEF Hold, HeldBack
  <2>2. pass[l].seq \in Calls /\ Leased(l)
    BY <2>1, PlacesKnown, Pointed DEF Leased, Standing
  <2>3. ledger' = Appended(pass[l].seq, "unsent", pass[l].rev) /\ pass'[l].at = "idle"
    BY <1>0, <2>1 DEF Close, Append, Stop, Resting
  <2>4. "unsent" \in CallKinds
    BY DEF CallKinds, ClosingKinds
  <2>5. ledger.fold.settled = "no"
    BY <2>1 DEF Steady, Fits
  <2>6. Fits(pass'[l], After(ledger.fold, pass[l].seq, "unsent"))
    BY <2>3, RestFits
  <2> QED BY <2>1, <2>2, <2>3, <2>4, <2>5, <2>6, OthersOutside, AppendCalm
<1>4. CASE Send(l)
  <2> DEFINE s == pass[l].seq
             f == After(ledger.fold, s, "sent")
  <2>1. pass[l].at = "holding" /\ s \in Calls /\ Leased(l)
    <3>1. pass[l].at = "holding"
      BY <1>4 DEF Send
    <3> QED BY <3>1, PlacesKnown, Pointed DEF Leased, Standing
  <2>2. /\ ledger.fold.settled = "no" /\ ledger.fold.open \in {0, s}
        /\ ~GapBefore(ledger.fold, s)
    BY <2>1 DEF Steady, Fits
  <2>3. "sent" \in CallKinds
    BY DEF CallKinds
  <2>4. f.open = s /\ f.settled = "no" /\ ~GapBefore(f, s)
    BY <1>0, <2>1, <2>2, <2>3, AfterPossible
  <2>5. pass'[l].at \in {"looking", "requesting"} /\ pass'[l].seq = s
    BY <1>0, <1>4 DEF Send, Goto, Pass
  <2>6. ledger' = Appended(s, "sent", pass[l].rev)
    BY <1>4 DEF Send, Append
  <2>7. Fits(pass'[l], f)
    BY <2>4, <2>5 DEF Fits, Asking
  <2> HIDE DEF f
  <2> QED BY <2>1, <2>2, <2>3, <2>6, <2>7, OthersOutside, AppendCalm DEF f
<1> QED BY <1>1, <1>2, <1>3, <1>4

\* Recovery closes, or takes up, a send that is open still, and with nobody inside.
LEMMA TakeCalm ==
  ASSUME IInv, Steady, ~OldList, ~Unleased, NEW l \in Lane, Take(l) \/ Skip(l), OthersStay(l)
  PROVE  Steady'
<1>0. /\ pass \in [Lane -> Pass] /\ ledger.fold \in Folds /\ FoldOK(ledger.fold)
      /\ ~ledger.fold.broken /\ FoldStarted(ledger.fold) /\ Resting.at = "idle"
  BY DEF IInv, TypeOK, Ledger, LedgerOK, Steady, Resting
<1>1. pass[l].at = "listed" /\ pass[l].seq \in Calls /\ pass[l].seq \in ledger.sent
  <2>1. pass[l].at = "listed"
    BY DEF Take, Forget, Abandon, Recover, Skip
  <2> QED BY <2>1, PlacesKnown, Pointed
<1>2. CASE Skip(l)
  <2>1. pass'[l].at = "idle" /\ UNCHANGED ledger
    BY <1>0, <1>2 DEF Skip
  <2> QED BY <2>1, RestFits, QuietCalm
<1>3. CASE Recover(l)
  <2>1. pass'[l].at = "reading" /\ pass'[l].seq = pass[l].seq /\ UNCHANGED ledger
    BY <1>0, <1>3 DEF Recover, Pass
  <2>2. ledger.fold.open = pass[l].seq
    BY <1>3 DEF OldList
  <2>3. ledger.fold.open # 0
    BY <1>1, <2>2, PlanAssumption DEF Calls
  <2>4. ledger.fold.settled = "no" /\ ~GapBefore(ledger.fold, pass[l].seq)
    BY <1>0, <2>2, <2>3, NoGap DEF FoldStarted
  <2>5. Fits(pass'[l], ledger.fold)
    BY <2>1, <2>2, <2>4 DEF Fits, Asking
  <2> QED BY <2>1, <2>5, QuietCalm
<1>4. ASSUME NEW s, NEW kind \in {"refused", "abandoned"}, NEW r, ledger.fold.open = s, s \in Calls,
             ledger' = Appended(s, kind, r), pass' = [pass EXCEPT ![l] = Resting],
             Forget(l) \/ Abandon(l)
      PROVE  Steady'
  <2>1. \A k \in Lane : ~Leased(k)
    BY <1>4 DEF Unleased
  <2>2. kind \in CallKinds /\ kind # "sent"
    BY DEF CallKinds, ClosingKinds
  <2>3. ledger.fold.settled = "no"
    BY <1>0, <1>4, PlanAssumption DEF FoldStarted, Calls
  <2>4. Fits(pass'[l], After(ledger.fold, s, kind))
    BY <1>0, <1>4, RestFits
  <2> QED BY <1>4, <2>1, <2>2, <2>3, <2>4, AppendCalm
<1>5. CASE Forget(l)
  <2>1. ledger.newest \in Calls /\ ledger.fold.open = ledger.newest
    <3>1. ledger.fold.open = ledger.newest
      BY <1>5 DEF OldList
    <3>2. ledger.newest # 0
      BY <1>1 DEF IInv, LedgerOK
    <3>3. ledger.newest \in 0..PlanLength
      BY DEF IInv, TypeOK, Ledger
    <3> QED BY <3>1, <3>2, <3>3, PlanAssumption DEF Calls
  <2> QED BY <1>4, <1>5, <2>1 DEF Forget
<1>6. CASE Abandon(l)
  <2>1. ledger.fold.open = pass[l].seq
    BY <1>6 DEF OldList
  <2> QED BY <1>1, <1>4, <1>6, <2>1 DEF Abandon
<1> QED BY <1>2, <1>3, <1>5, <1>6 DEF Take

\* Whatever a pass does next.
LEMMA AdvanceCalm ==
  ASSUME IInv, Held, Steady, ~HeldBack, ~OldList, ~Unleased, NEW l \in Lane, Advance(l)
  PROVE  Steady'
<1>0. OthersStay(l)
  BY AdvanceAlone DEF IInv
<1>1. {"landed", "refused", "abandoned", "unsent"} = ClosingKinds
  BY DEF ClosingKinds
<1>2. CASE Decide(l)
  BY <1>0, <1>2, DecideCalm
<1>3. CASE GateOpens(l) \/ TurnAway(l) \/ Hold(l) \/ Send(l)
  BY <1>0, <1>3, SendCalm
<1>4. CASE GateCloses(l) \/ Unread(l) \/ Unconfirmed(l) \/ ReadUnknown(l) \/ StandingUnread(l)
           \/ Unanswered(l)
  BY <1>0, <1>4, EndCalm
     DEF GateCloses, Unread, Unconfirmed, ReadUnknown, StandingUnread, Unanswered
<1>5. CASE LookAndFind(l) \/ FoundDone(l) \/ Confirmed(l) \/ ReadLanded(l)
  BY <1>0, <1>5, LandCalm DEF LookAndFind, FoundDone, Confirmed, ReadLanded, Asking
<1>6. CASE RefusedByGitHub(l) \/ Unsupported(l) \/ ReadUnderOther(l) \/ StandingRefuses(l)
  BY <1>0, <1>1, <1>6, CloseCalm
     DEF RefusedByGitHub, Unsupported, ReadUnderOther, StandingRefuses, Asking
<1>7. CASE LookAndMiss(l) \/ ReadMissing(l) \/ StandingOpens(l) \/ Accepted(l)
  BY <1>0, <1>7, MoveCalm DEF LookAndMiss, ReadMissing, StandingOpens, Accepted, Asking
<1>8. CASE Take(l) \/ Skip(l)
  BY <1>0, <1>8, TakeCalm
<1> QED BY <1>2, <1>3, <1>4, <1>5, <1>6, <1>7, <1>8
        DEF Advance, Inside, ReadBack, Stand

\* A process that dies leaves passes at rest.
LEMMA DieCalm ==
  ASSUME IInv, Held, Steady, NEW w, Die(w)
  PROVE  \A k \in Lane : pass'[k].at = "idle" \/ pass'[k] = pass[k]
  BY DEF Die, Resting

LEMMA CrashCalm ==
  ASSUME IInv, Held, Steady, NEW l \in Lane, CrashInLand(l)
  PROVE  Steady'
<1> DEFINE s == pass[l].seq
           f == After(ledger.fold, s, "landed")
<1>1. pass[l].at \in Asking
  BY DEF CrashInLand, Asking
<1>2. s \in Calls /\ Leased(l)
  BY <1>1, PlacesKnown, Pointed DEF Asking, Leased, Standing
<1>3. ledger.fold.settled = "no" /\ ledger.fold.open = s
  BY <1>1 DEF Steady, Fits
<1>4. "landed" \in CallKinds
  BY DEF CallKinds, ClosingKinds
<1>5. ledger.fold \in Folds /\ ~ledger.fold.broken
  BY DEF IInv, TypeOK, Ledger, Steady
<1>6. ~f.broken /\ FoldStarted(f)
  BY <1>2, <1>3, <1>4, <1>5, AfterPossible
<1>7. ledger'.fold = f
  BY DEF CrashInLand, Append, Appended
<1>8. ASSUME NEW k \in Lane PROVE Fits(pass'[k], f)
  <2>1. Die(WorkerOf[l])
    BY DEF CrashInLand
  <2>2. pass'[l].at = "idle"
    BY <2>1 DEF Die, Resting
  <2>3. pass'[k].at = "idle" \/ pass'[k] = pass[k]
    BY <2>1, DieCalm
  <2>4. k # l => Fits(pass[k], f)
    BY <1>2, OthersOutside, OutsideFits DEF IInv
  <2> QED BY <2>2, <2>3, <2>4, RestFits
<1> HIDE DEF f
<1> QED BY <1>6, <1>7, <1>8 DEF Steady

\* Every step that meets no cause.
LEMMA CalmStep ==
  ASSUME IInv, Held, Steady, ~HeldBack, ~OldList, ~Unleased, [Next]_vars
  PROVE  Steady'
<1>0. pass \in [Lane -> Pass] /\ Resting.at = "idle"
  BY DEF IInv, TypeOK, Resting
<1>1. ASSUME UNCHANGED ledger, \A k \in Lane : pass'[k].at \in {"idle", "listed", "driving"} \/ pass'[k] = pass[k]
      PROVE  Steady'
  <2>1. \A k \in Lane : Fits(pass'[k], ledger.fold)
    BY <1>1, RestFits DEF Steady
  <2> QED BY <1>1, <2>1 DEF Steady
<1>2. ASSUME NEW l \in Lane, Begin(l) PROVE Steady'
  <2>1. pass' = [pass EXCEPT ![l] = [Resting EXCEPT !.at = "driving", !.rev = revision]]
    BY <1>2 DEF Begin
  <2>2. [Resting EXCEPT !.at = "driving", !.rev = revision].at = "driving"
    BY DEF Resting
  <2> QED BY <1>0, <1>1, <1>2, <2>1, <2>2 DEF Begin
<1>3. ASSUME NEW l \in Lane, List(l) PROVE Steady'
  <2>1. pass' = [pass EXCEPT ![l] = pass'[l]] /\ pass'[l].at = "listed"
    BY <1>0, <1>3 DEF List, Resting
  <2> QED BY <1>0, <1>1, <1>3, <2>1 DEF List
<1>4. ASSUME NEW l \in Lane, Advance(l) PROVE Steady'
  BY <1>4, AdvanceCalm
<1>5. ASSUME NEW l \in Lane, NEW s \in Calls, PerformLate(l, s) \/ Drop(l, s) PROVE Steady'
  BY <1>1, <1>5 DEF PerformLate, Drop
<1>6. ASSUME NEW s \in Calls, NEW n \in {0, 1}, HumanEdit(s, n) PROVE Steady'
  BY <1>1, <1>6 DEF HumanEdit
<1>7. ASSUME Reconfigure \/ Spoil \/ UNCHANGED vars PROVE Steady'
  BY <1>1, <1>7 DEF Reconfigure, Spoil, vars
<1>8. ASSUME NEW w \in Worker, Crash(w) PROVE Steady'
  <2>1. UNCHANGED ledger /\ Die(w)
    BY <1>8 DEF Crash
  <2> QED BY <1>1, <2>1, DieCalm
<1>9. ASSUME NEW l \in Lane, CrashInLand(l) PROVE Steady'
  BY <1>9, CrashCalm
<1>10. CASE Tick
  <2>1. UNCHANGED pass /\ ledger'.fold = ledger.fold
    BY <1>10 DEF Tick, IInv, TypeOK, Ledger
  <2> QED BY <2>1 DEF Steady
<1>11. CASE Next
  BY <1>2, <1>3, <1>4, <1>5, <1>6, <1>7, <1>8, <1>9, <1>10, <1>11 DEF Next
<1> QED BY <1>7, <1>11

LEMMA InitCalm ==
  ASSUME Init
  PROVE  Held /\ Steady
<1>1. \A l \in Lane : pass[l].at = "idle"
  BY DEF Init, Resting
<1>2. ~ledger.fold.broken /\ FoldStarted(ledger.fold)
  BY DEF Init, NoFacts, FoldStarted
<1> QED BY <1>1, <1>2, RestFits DEF Held, Leased, Standing, Steady

\* What a behaviour with no cause met keeps.
Blameless ==
  /\ IInv
  /\ "outlived" \notin blamed => Held
  /\ blamed = {} => Steady

LEMMA CausesStep ==
  ASSUME Blameless, [NextCauses]_<<vars, blamed>>
  PROVE  Blameless'
<1>0. IInv /\ TypeOK
  BY DEF Blameless, IInv
<1>1. [Next]_vars
  BY DEF NextCauses
<1>2. IInv'
  BY <1>0, <1>1, StepOK
<1>3. CASE UNCHANGED <<vars, blamed>>
  <2>1. ("outlived" \notin blamed' => Held') /\ (blamed' = {} => Steady')
    BY <1>3 DEF Blameless, vars, Held, Steady, Leased
  <2> QED BY <1>2, <2>1 DEF Blameless
<1>4. CASE NextCauses
  <2>1. blamed' = blamed \cup {c \in Cause : Met(c)}
    BY <1>4 DEF NextCauses
  <2>2. ASSUME "outlived" \notin blamed' PROVE Held'
    <3>1. "outlived" \notin blamed /\ ~Outlived
      BY <2>1, <2>2 DEF Cause, Met
    <3>2. Held
      BY <3>1 DEF Blameless
    <3> QED BY <1>0, <1>1, <3>1, <3>2, HeldStep
  <2>3. ASSUME blamed' = {} PROVE Steady'
    <3>1. blamed = {} /\ \A c \in Cause : ~Met(c)
      BY <2>1, <2>3
    <3>2. ~HeldBack /\ ~OldList /\ ~Unleased
      <4>1. ~Met("heldBack") /\ ~Met("oldList") /\ ~Met("unleased")
        BY <3>1 DEF Cause
      <4> QED BY <4>1 DEF Met
    <3>3. Held /\ Steady
      BY <3>1 DEF Blameless
    <3> QED BY <1>0, <1>1, <3>2, <3>3, CalmStep
  <2> QED BY <1>2, <2>2, <2>3 DEF Blameless
<1> QED BY <1>3, <1>4

LEMMA CausesInvariance == SpecCauses => []Blameless
<1>1. InitCauses => Blameless
  BY InitOK, InitCalm DEF InitCauses, Blameless
<1>2. Blameless /\ [NextCauses]_<<vars, blamed>> => Blameless'
  BY CausesStep
<1> QED BY <1>1, <1>2, PTL DEF SpecCauses

\* Two passes are never inside one effect together before a lease was outlived and
\* taken over (ledger.ts claim), for any lanes, names, crashes and lost answers.
THEOREM TogetherMeansOutlived == SpecCauses => []TogetherOnlyOutlived
<1>1. Blameless => TogetherOnlyOutlived
  BY DEF Blameless, TogetherOnlyOutlived, Held, OneHolder
<1> QED BY <1>1, CausesInvariance, PTL

\* "Inconsistent is history no applier could have written" (facts.ts): for any plan, any
\* lanes and any faults, passes and recovery write only histories the fold accepts until
\* a comment is held back unsent, a lease is outlived and taken over, or recovery acts
\* on an old list or without the lease.
THEOREM HistoryStaysPossible == SpecCauses => []ImpossibleOnlyBlamed
<1>1. Blameless => ImpossibleOnlyBlamed
  BY DEF Blameless, Steady, ImpossibleOnlyBlamed, Inconsistent
<1> QED BY <1>1, CausesInvariance, PTL

----------------------------------------------------------------------------
(* A comment is posted at most once, by applying passes and by recovery    *)
(* alike, where no pass outlives its lease and GitHub settles a request    *)
(* before it answers a later read.                                         *)

\* A comment stands once; a request for it, under way or given up on, finds none of it
\* standing, and is the only one.
OnceAt(s) ==
  /\ copies[s] <= 1
  /\ \A l \in Lane : pass[l].at = "requesting" /\ pass[l].seq = s =>
       copies[s] = 0 /\ \A k \in Lane : <<k, s>> \notin late
  /\ \A l \in Lane : <<l, s>> \in late =>
       copies[s] = 0 /\ \A k \in Lane : <<k, s>> \in late => k = l

Once == \A s \in Comments : OnceAt(s)

\* No lane comes to be requesting a comment.
NobodyAsks ==
  \A k \in Lane : pass'[k].at = "requesting" /\ pass'[k].seq \in Comments =>
    pass[k].at = "requesting" /\ pass'[k].seq = pass[k].seq

LEMMA WorldStays ==
  ASSUME Once, NobodyAsks, UNCHANGED <<copies, late>>
  PROVE  Once'
  BY DEF Once, OnceAt, NobodyAsks

\* A lane whose own step leaves it elsewhere.
LEMMA AsksNothing ==
  ASSUME NEW l \in Lane, OthersStay(l), pass'[l].at # "requesting" \/ pass'[l].seq \notin Comments
  PROVE  NobodyAsks
  BY DEF NobodyAsks, OthersStay

\* Where a pass is after a step of its own, but for those that ask GitHub.
LEMMA InsideAsks ==
  ASSUME IInv, NEW l \in Lane, Inside(l), OthersStay(l), ~LookAndMiss(l)
  PROVE  NobodyAsks
<1>0. pass \in [Lane -> Pass] /\ Resting.at = "idle"
  BY DEF IInv, TypeOK, Resting
<1>1. CASE Decide(l)
  <2>1. pass'[l].at # "requesting"
    BY <1>0, <1>1
       DEF Decide, StartFresh, SendNext, Resume, Resolve, Finished, StopQuietly, Stop, Pass
  <2> QED BY <2>1, AsksNothing
<1>2. CASE StopQuietly(l) \/ (\E kind : Close(l, kind)) \/ Land(l)
  <2>1. pass'[l].at # "requesting"
    BY <1>0, <1>2 DEF StopQuietly, Close, Land, GoOn, Goto, Stop, Pass
  <2> QED BY <2>1, AsksNothing
<1>3. ASSUME NEW place, Move(l, place), place # "requesting" PROVE NobodyAsks
  <2>1. pass'[l].at # "requesting"
    BY <1>0, <1>3 DEF Move, Goto, Pass
  <2> QED BY <2>1, AsksNothing
<1>4. CASE GateOpens(l)
  <2>1. pass'[l].at # "requesting"
    BY <1>0, <1>4 DEF GateOpens, Pass
  <2> QED BY <2>1, AsksNothing
<1>5. CASE Send(l)
  <2>1. pass'[l].seq = pass[l].seq
        /\ (pass'[l].at = "requesting" => pass[l].seq \notin LooksFirst)
    BY <1>0, <1>5 DEF Send, Goto, Pass
  <2> QED BY <2>1, AsksNothing, CallAssumption
<1>6. CASE Take(l) \/ Skip(l)
  <2>1. pass'[l].at # "requesting"
    BY <1>0, <1>6 DEF Take, Forget, Abandon, Recover, Skip, Pass
  <2> QED BY <2>1, AsksNothing
<1>7. CASE GateCloses(l) \/ TurnAway(l) \/ Hold(l) \/ Unread(l) \/ Unconfirmed(l)
           \/ ReadUnknown(l) \/ StandingUnread(l)
  BY <1>2, <1>7 DEF GateCloses, TurnAway, Hold, Unread, Unconfirmed, ReadUnknown, StandingUnread
<1>8. CASE LookAndFind(l) \/ FoundDone(l) \/ Confirmed(l) \/ RefusedByGitHub(l) \/ Unsupported(l)
  BY <1>2, <1>8 DEF LookAndFind, FoundDone, Confirmed, RefusedByGitHub, Unsupported
<1>9. CASE ReadBack(l)
  BY <1>2, <1>3, <1>9 DEF ReadBack, ReadLanded, ReadUnderOther, ReadMissing
<1>10. CASE Stand(l)
  BY <1>2, <1>3, <1>10 DEF Stand, StandingOpens, StandingRefuses
<1> QED BY <1>1, <1>4, <1>5, <1>6, <1>7, <1>8, <1>9, <1>10 DEF Inside

\* The read that found nothing was answered after every earlier request was settled.
LEMMA LookKeepsOnce ==
  ASSUME IInv, Exclusive, Once, Prompt, NEW l \in Lane, LookAndMiss(l), UNCHANGED outside,
         OthersStay(l)
  PROVE  Once'
<1>1. /\ pass'[l].seq = pass[l].seq /\ copies[pass[l].seq] = 0
      /\ \A k \in Lane : <<k, pass[l].seq>> \notin late
  BY DEF LookAndMiss, Lacks, Settles, Move, Goto, IInv, TypeOK, Pass
<1>2. UNCHANGED <<copies, late>>
  BY DEF outside, world
<1>3. \A k \in Lane \ {l} : pass'[k] = pass[k]
  BY DEF OthersStay
<1> QED BY <1>1, <1>2, <1>3 DEF Once, OnceAt

\* Only one lane at a time is asking.
LEMMA OneAsks ==
  ASSUME Exclusive, NEW l \in Lane, NEW k \in Lane,
         pass[l].at = "requesting", pass[k].at = "requesting"
  PROVE  l = k
  BY DEF Exclusive, Held, Leased, Standing

\* The request is performed, or given up on.
LEMMA AnswerKeepsOnce ==
  ASSUME IInv, Exclusive, Once, NEW l \in Lane, Accepted(l) \/ Unanswered(l), OthersStay(l)
  PROVE  Once'
<1> DEFINE s == pass[l].seq
<1>0. pass \in [Lane -> Pass] /\ copies \in [Calls -> 0..2] /\ Resting.at = "idle"
  BY DEF IInv, TypeOK, Resting
<1>1. pass[l].at = "requesting" /\ pass'[l].at # "requesting" /\ s \in Calls
  <2>1. pass[l].at = "requesting"
    BY DEF Accepted, Unanswered
  <2>2. s \in Calls
    BY <2>1, PlacesKnown, Pointed
  <2>3. pass'[l].at # "requesting"
    BY <1>0 DEF Accepted, Unanswered, Move, Goto, StopQuietly, Stop, Pass
  <2> QED BY <2>1, <2>2, <2>3
<1>2. ASSUME NEW k \in Lane PROVE pass'[k].at # "requesting"
  BY <1>1, OneAsks DEF OthersStay
<1>3. s \in Comments => copies[s] = 0 /\ \A k \in Lane : <<k, s>> \notin late
  BY <1>1 DEF Once, OnceAt
<1>4. CASE Accepted(l)
  <2>1. late' = late /\ copies' = [copies EXCEPT ![s] = IF s \in Comments THEN Least(@ + 1, 2) ELSE 1]
    BY <1>4 DEF Accepted, Perform
  <2>2. ASSUME NEW c \in Comments PROVE OnceAt(c)'
    <3>1. OnceAt(c) /\ c \in Calls
      BY CallAssumption DEF Once
    <3>2. CASE c = s
      <4>1. copies'[c] = 1
        BY <1>0, <1>1, <1>3, <2>1, <3>2 DEF Least
      <4> QED BY <1>2, <1>3, <2>1, <3>2, <4>1 DEF OnceAt
    <3>3. CASE c # s
      BY <1>0, <1>2, <2>1, <3>1, <3>3 DEF OnceAt
    <3> QED BY <3>2, <3>3
  <2> QED BY <2>2 DEF Once
<1>5. CASE Unanswered(l)
  <2>1. copies' = copies /\ late' \in {late, late \cup {<<l, s>>}}
    BY <1>5 DEF Unanswered
  <2>2. ASSUME NEW c \in Comments PROVE OnceAt(c)'
    <3>1. OnceAt(c)
      BY DEF Once
    <3>2. CASE c = s
      BY <1>2, <1>3, <2>1, <3>1, <3>2 DEF OnceAt
    <3>3. CASE c # s
      BY <1>2, <2>1, <3>1, <3>3 DEF OnceAt
    <3> QED BY <3>2, <3>3
  <2> QED BY <2>2 DEF Once
<1> QED BY <1>4, <1>5

\* GitHub performs a request nobody waits for, or drops it.
LEMMA LateKeepsOnce ==
  ASSUME IInv, Once, NEW l \in Lane, NEW s \in Calls, PerformLate(l, s) \/ Drop(l, s)
  PROVE  Once'
<1>0. copies \in [Calls -> 0..2]
  BY DEF IInv, TypeOK
<1>1. <<l, s>> \in late /\ late' = late \ {<<l, s>>} /\ pass' = pass
  BY DEF PerformLate, Drop
<1>2. ASSUME NEW c \in Comments PROVE OnceAt(c)'
  <2>1. OnceAt(c) /\ c \in Calls
    BY CallAssumption DEF Once
  <2>2. CASE PerformLate(l, s) /\ c = s
    <3>1. copies'[c] = Least(copies[c] + 1, 2)
      BY <1>0, <2>1, <2>2 DEF PerformLate, Perform
    <3>2. copies[c] = 0
      BY <1>1, <2>1, <2>2 DEF OnceAt
    <3>3. copies'[c] = 1
      BY <3>1, <3>2 DEF Least
    <3>4. \A k \in Lane : <<k, c>> \notin late'
      BY <1>1, <2>1, <2>2 DEF OnceAt
    <3>5. \A k \in Lane : ~(pass[k].at = "requesting" /\ pass[k].seq = c)
      BY <1>1, <2>1, <2>2 DEF OnceAt
    <3> QED BY <1>1, <3>3, <3>4, <3>5 DEF OnceAt
  <2>3. CASE Drop(l, s) \/ c # s
    <3>1. copies'[c] = copies[c]
      BY <1>0, <2>1, <2>3 DEF PerformLate, Drop, Perform
    <3> QED BY <1>1, <2>1, <3>1 DEF OnceAt
  <2> QED BY <2>2, <2>3
<1> QED BY <1>2 DEF Once

\* A person may only take a comment of ours away.
LEMMA EditKeepsOnce ==
  ASSUME IInv, Once, NEW s \in Calls, NEW n \in {0, 1}, HumanEdit(s, n)
  PROVE  Once'
<1>1. /\ copies \in [Calls -> 0..2] /\ copies' = [copies EXCEPT ![s] = n]
      /\ UNCHANGED <<pass, late>> /\ (s \in Comments => n = 0)
  BY DEF IInv, TypeOK, HumanEdit
<1>2. \A c \in Comments : copies'[c] = copies[c] \/ copies'[c] = 0
  BY <1>1, CallAssumption
<1> QED BY <1>1, <1>2 DEF Once, OnceAt

\* The requests of a process that dies go on alone.
LEMMA DieKeepsOnce ==
  ASSUME IInv, Exclusive, Once, NEW w, Die(w)
  PROVE  Once'
<1>1. /\ copies' = copies
      /\ \A k \in Lane : pass'[k] = (IF WorkerOf[k] = w THEN Resting ELSE pass[k])
      /\ late' = late \cup {<<l, pass[l].seq>> : l \in {k \in Lane : WorkerOf[k] = w /\ pass[k].at = "requesting"}}
  BY DEF Die
<1>2. Resting.at # "requesting"
  BY DEF Resting
<1>3. ASSUME NEW c \in Comments PROVE OnceAt(c)'
  <2>1. OnceAt(c)
    BY DEF Once
  <2>2. ASSUME NEW k \in Lane, <<k, c>> \in late', <<k, c>> \notin late
        PROVE  pass[k].at = "requesting" /\ pass[k].seq = c /\ WorkerOf[k] = w
    <3>1. PICK j \in Lane : WorkerOf[j] = w /\ pass[j].at = "requesting" /\ <<k, c>> = <<j, pass[j].seq>>
      BY <1>1, <2>2
    <3> QED BY <3>1
  <2>3. ASSUME NEW k \in Lane, <<k, c>> \in late' PROVE copies[c] = 0
    BY <2>1, <2>2, <2>3 DEF OnceAt
  <2>4. ASSUME NEW k \in Lane, NEW j \in Lane, <<k, c>> \in late', <<j, c>> \in late' PROVE j = k
    <3>1. CASE <<k, c>> \in late /\ <<j, c>> \in late
      BY <2>1, <3>1 DEF OnceAt
    <3>2. CASE <<k, c>> \notin late
      <4>1. pass[k].at = "requesting" /\ \A i \in Lane : <<i, c>> \notin late
        BY <2>1, <2>2, <2>4, <3>2 DEF OnceAt
      <4>2. pass[j].at = "requesting"
        BY <2>2, <2>4, <4>1
      <4> QED BY <4>1, <4>2, OneAsks
    <3>3. CASE <<j, c>> \notin late
      <4>1. pass[j].at = "requesting" /\ \A i \in Lane : <<i, c>> \notin late
        BY <2>1, <2>2, <2>4, <3>3 DEF OnceAt
      <4>2. pass[k].at = "requesting"
        BY <2>2, <2>4, <4>1
      <4> QED BY <4>1, <4>2, OneAsks
    <3> QED BY <3>1, <3>2, <3>3
  <2>5. ASSUME NEW k \in Lane, pass'[k].at = "requesting", pass'[k].seq = c
        PROVE  copies[c] = 0 /\ \A j \in Lane : <<j, c>> \notin late'
    <3>1. WorkerOf[k] # w /\ pass[k].at = "requesting" /\ pass[k].seq = c
      BY <1>1, <1>2, <2>5
    <3>2. ASSUME NEW j \in Lane, <<j, c>> \in late' PROVE FALSE
      <4>1. <<j, c>> \notin late
        BY <2>1, <3>1 DEF OnceAt
      <4>2. pass[j].at = "requesting" /\ WorkerOf[j] = w
        BY <2>2, <3>2, <4>1
      <4> QED BY <3>1, <4>2, OneAsks
    <3> QED BY <2>1, <3>1, <3>2 DEF OnceAt
  <2>6. copies'[c] = copies[c]
    BY <1>1
  <2> QED BY <2>1, <2>3, <2>4, <2>5, <2>6 DEF OnceAt
<1> QED BY <1>3 DEF Once

\* Every step.
LEMMA OnceStep ==
  ASSUME IInv, Exclusive, Once, Prompt, [Next]_vars
  PROVE  Once'
<1>0. pass \in [Lane -> Pass] /\ Resting.at = "idle"
  BY DEF IInv, TypeOK, Resting
<1>1. ASSUME UNCHANGED outside, NobodyAsks PROVE Once'
  BY <1>1, WorldStays DEF outside, world
<1>2. ASSUME NEW l \in Lane, Begin(l) \/ List(l), UNCHANGED outside PROVE Once'
  <2>1. OthersStay(l) /\ pass'[l].at # "requesting"
    BY <1>0, <1>2 DEF Begin, List, OthersStay, Resting
  <2>2. NobodyAsks
    BY <2>1, AsksNothing
  <2> QED BY <1>1, <1>2, <2>2
<1>3. ASSUME NEW l \in Lane, Advance(l) PROVE Once'
  <2>1. OthersStay(l)
    BY <1>3, AdvanceAlone DEF IInv
  <2>2. CASE Inside(l) /\ UNCHANGED outside
    BY <1>1, <2>1, <2>2, InsideAsks, LookKeepsOnce
  <2>3. CASE Accepted(l) \/ Unanswered(l)
    BY <2>1, <2>3, AnswerKeepsOnce
  <2> QED BY <1>3, <2>2, <2>3 DEF Advance
<1>4. ASSUME UNCHANGED pass, UNCHANGED <<copies, late>> PROVE Once'
  BY <1>4, WorldStays DEF NobodyAsks
<1>5. CASE Reconfigure \/ Spoil \/ Tick \/ UNCHANGED vars
  BY <1>4, <1>5 DEF Reconfigure, Spoil, Tick, vars, world
<1>6. ASSUME NEW w \in Worker, Crash(w) PROVE Once'
  BY <1>6, DieKeepsOnce DEF Crash
<1>7. ASSUME NEW l \in Lane, CrashInLand(l) PROVE Once'
  BY <1>7, DieKeepsOnce DEF CrashInLand
<1>8. CASE Next
  BY <1>2, <1>3, <1>5, <1>6, <1>7, <1>8, LateKeepsOnce, EditKeepsOnce DEF Next
<1> QED BY <1>5, <1>8

\* "How one approved effect becomes a landed GitHub change, exactly once" (apply.ts): a
\* comment never stands twice, whatever is lost, resent or recovered, for any plan and any
\* lanes, where no pass outlives its lease and GitHub settles a request before a later read.
THEOREM PostedAtMostOnce ==
  ASSUME ~Overruns, Prompt
  PROVE  Spec => []AtMostOnce
<1>1. Init => Exclusive /\ Once
  <2> SUFFICES ASSUME Init PROVE Exclusive /\ Once
    OBVIOUS
  <2>1. \A l \in Lane : pass[l].at = "idle"
    BY DEF Init, Resting
  <2>2. \A s \in Comments : copies[s] = 0
    BY CallAssumption DEF Init
  <2>3. late = {}
    BY DEF Init
  <2> QED BY <2>1, <2>2, <2>3 DEF Exclusive, Held, Leased, Standing, Once, OnceAt
<1>2. IInv /\ Exclusive /\ Once /\ [Next]_vars => (Exclusive /\ Once)'
  BY ExclusiveStep, OnceStep DEF IInv
<1>3. Once => AtMostOnce
  BY DEF Once, OnceAt, AtMostOnce
<1> QED BY <1>1, <1>2, <1>3, Invariance, PTL DEF Spec
=============================================================================
