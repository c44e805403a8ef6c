--------------------------- MODULE EffectHistory ---------------------------
(***************************************************************************)
(* Every history of facts one effect could be given, whoever wrote it, and *)
(* the two readings the program makes of it: fold.ts, which decides what a *)
(* pass does next, and the SQL of ledger.ts, which makes the recovery's    *)
(* worklist and keeps an effect from retention.  Nothing in the code makes *)
(* the two agree but that both are right.                                  *)
(***************************************************************************)
EXTENDS EffectFold, Sequences

CONSTANTS
  MaxFacts,      \* the longest history looked at
  MaxBroken,     \* and the longest an inconsistent one is continued to
  MaxTime,       \* instants a fact may carry, from 1
  Grace          \* how long after a warning its promised act is due

VARIABLE facts   \* effect_fact rows of one effect, in fact_id order

Kinds == CallKinds \cup EffectKinds

Fact == [seq : 0..PlanLength + 1, kind : Kinds, at : 1..MaxTime]

\* The instant of the newest fact; the clock of one store does not go back.
Latest == IF facts = <<>> THEN 1 ELSE facts[Len(facts)].at

\* record(): one statement, and only the first warning binds.
Binds(fact) ==
  fact.kind = "warned" => \A i \in DOMAIN facts : facts[i].kind # "warned"

\* fact_ids of the sends nothing closed since, and of those no newer send replaced.
Sends == {i \in DOMAIN facts : facts[i].kind = "sent"}

StillOpen(i) ==
  \A j \in DOMAIN facts : j > i /\ facts[j].seq = facts[i].seq => facts[j].kind \notin ClosingKinds

LatestSend(i) == \A j \in Sends : facts[j].seq = facts[i].seq => j <= i

AttemptsAt(seq) ==
  Cardinality({i \in Sends : facts[i].seq = seq})
    - Cardinality({i \in DOMAIN facts : facts[i].kind = "unsent" /\ facts[i].seq = seq})

\* open(before): the recovery's worklist.
OpenSends(before) ==
  {[seq |-> facts[i].seq, at |-> facts[i].at, attempts |-> AttemptsAt(facts[i].seq)] :
     i \in {j \in Sends : facts[j].at <= before /\ StillOpen(j) /\ LatestSend(j)}}

PromiseAhead(before) ==
  \E i \in DOMAIN facts : facts[i].kind = "warned" /\ facts[i].at + Grace > before

\* Mutant: retention forgets the open sends.
PrunableOverSends(before) == facts # <<>> /\ Latest <= before /\ ~PromiseAhead(before)

\* prune(before) takes whole effects, never one with an open send or a promise ahead.
Prunable(before) ==
  /\ facts # <<>> /\ Latest <= before
  /\ \A i \in Sends : ~StillOpen(i)
  /\ ~PromiseAhead(before)

\* fold(): the loop over an effect's facts.
Fold(h) ==
  LET after[n \in 0..Len(h)] == IF n = 0 THEN NoFacts ELSE After(after[n - 1], h[n].seq, h[n].kind)
  IN after[Len(h)]

----------------------------------------------------------------------------
Init == facts = <<>>

Record(fact) ==
  /\ Latest <= fact.at
  /\ fact.seq = 0 <=> fact.kind \in EffectKinds
  /\ Binds(fact)
  /\ Len(facts) < IF Inconsistent(Fold(facts)) THEN MaxBroken ELSE MaxFacts
  /\ facts' = Append(facts, fact)

Prune(before) == Prunable(before) /\ facts' = <<>>

Next ==
  \/ \E fact \in Fact : Record(fact)
  \/ \E before \in 1..MaxTime : Prune(before)

Spec == Init /\ [][Next]_facts

----------------------------------------------------------------------------
\* The reference: what the documentation of LedgerState says of a history, with
\* no accumulator, from its call facts, or those before its n-th fact.
CallFacts(h) == {i \in DOMAIN h : h[i].kind \in CallKinds}
CallFactsBefore(h, n) == {i \in CallFacts(h) : i < n}

Settles(fact) ==
  fact.kind \in {"refused", "abandoned"} \/ (fact.kind = "landed" /\ fact.seq = PlanLength)

\* The call that call facts leave open: the last of them is a send.
OpenCall(h, calls) == {h[i].seq : i \in {j \in calls : h[j].kind = "sent" /\ \A k \in calls : k <= j}}

LandedCalls(h, calls) == {h[i].seq : i \in {j \in calls : h[j].kind = "landed"}}

\* The n-th fact could follow: a call of the plan, in order, one at a time, before the end.
MayFollow(h, n) ==
  LET past == CallFactsBefore(h, n)
      seq == h[n].seq
  IN
  /\ seq \in Calls
  /\ \A i \in past : ~Settles(h[i])
  /\ IF h[n].kind = "sent"
     THEN OpenCall(h, past) \subseteq {seq} /\ 1..(seq - 1) \subseteq LandedCalls(h, past)
     ELSE OpenCall(h, past) = {seq}

Possible(h) == \A n \in CallFacts(h) : MayFollow(h, n)

\* The fold calls a history inconsistent exactly when some fact could not follow
\* the ones before it, and reads every other one as its call facts say (fold.ts).
FoldReadsHistory ==
  LET f == Fold(facts)
      calls == CallFacts(facts)
  IN
  /\ Inconsistent(f) <=> ~Possible(facts)
  /\ Possible(facts) =>
       /\ Settled(f) <=> \E i \in calls : Settles(facts[i])
       /\ OpenCall(facts, calls) = IF Open(f) THEN {f.open} ELSE {}
       /\ NeverStarted(f) <=> calls = {}
       /\ Resumable(f) => NextSeq(f) \in Calls \ LandedCalls(facts, calls)

\* The worklist recovery acts on is the open call the fold names, with its
\* instant and the attempts the cap is compared with, and nothing else (D161).
WorklistIsOpenCall ==
  LET f == Fold(facts) IN
  ~Inconsistent(f) =>
    OpenSends(MaxTime) =
      IF Open(f)
      THEN {[seq |-> f.open, attempts |-> f.attempts[f.open],
             at |-> facts[CHOOSE i \in Sends : \A j \in Sends : j <= i].at]}
      ELSE {}

\* Retention never takes an effect whose call may still be unanswered, nor one
\* whose warning promises an act still ahead, whatever the window (D166).
RetentionStep ==
  facts # <<>> /\ facts' = <<>> =>
    /\ ~Open(Fold(facts))
    /\ \A i \in DOMAIN facts : facts[i].kind = "warned" => facts[i].at + Grace <= MaxTime

RetentionKeepsOpenAndPromised == [][RetentionStep]_facts

=============================================================================
