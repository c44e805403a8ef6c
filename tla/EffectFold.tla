----------------------------- MODULE EffectFold -----------------------------
(***************************************************************************)
(* The reading of one effect's facts (fold.ts): where the effect stands,   *)
(* and whether its history is one an applier could have written.  The      *)
(* fold is kept as the accumulator of the source's loop, so that a module  *)
(* may fold a whole history or carry the accumulator from fact to fact.    *)
(***************************************************************************)
EXTENDS Integers, FiniteSets

CONSTANT PlanLength    \* how many calls the effect's plan has

ASSUME PlanAssumption == PlanLength \in Nat \ {0}

Calls == 1..PlanLength

ClosingKinds == {"landed", "refused", "abandoned", "unsent"}
CallKinds == {"sent"} \cup ClosingKinds
EffectKinds == {"warned", "reversed"}   \* about the effect, at seq 0

\* The loop's accumulator; broken stands for its early return.
Folds ==
  [landed : SUBSET Calls, open : 0..PlanLength, attempts : [Calls -> Int],
   settled : {"no", "landed", "refused", "abandoned"}, anyCall : BOOLEAN, broken : BOOLEAN]

NoFacts ==
  [landed |-> {}, open |-> 0, attempts |-> [s \in Calls |-> 0],
   settled |-> "no", anyCall |-> FALSE, broken |-> FALSE]

\* gapBefore: some earlier call never landed.
GapBefore(f, seq) == \E earlier \in 1..(seq - 1) : earlier \notin f.landed

\* Mutant: a gap is overlooked.
ImpossibleWithoutGaps(f, seq, kind) ==
  \/ f.settled # "no"
  \/ seq \notin Calls
  \/ kind = "sent" /\ f.open \notin {0, seq}
  \/ kind # "sent" /\ f.open # seq

Impossible(f, seq, kind) ==
  \/ f.settled # "no"
  \/ seq \notin Calls
  \/ kind = "sent" /\ f.open \notin {0, seq}
  \/ kind = "sent" /\ GapBefore(f, seq)
  \/ kind # "sent" /\ f.open # seq

Sent(f, seq) ==
  [f EXCEPT !.anyCall = TRUE, !.open = seq, !.attempts[seq] = @ + 1]

\* landed and unsent leave the plan to go on; the rest settle the effect.
Closed(f, seq, kind) ==
  [f EXCEPT !.anyCall = TRUE,
            !.open = 0,
            !.landed = IF kind = "landed" THEN @ \cup {seq} ELSE @,
            !.attempts[seq] = IF kind = "unsent" THEN @ - 1 ELSE @,
            !.settled = IF kind = "unsent" \/ (kind = "landed" /\ seq # PlanLength)
                        THEN "no" ELSE kind]

\* One turn of the loop.
After(f, seq, kind) ==
  IF f.broken \/ kind \in EffectKinds THEN f
  ELSE IF Impossible(f, seq, kind) THEN [f EXCEPT !.broken = TRUE]
  ELSE IF kind = "sent" THEN Sent(f, seq)
  ELSE Closed(f, seq, kind)

\* What the fold answers, in the order the source's last lines ask.
Inconsistent(f) == f.broken
Settled(f) == ~f.broken /\ f.settled # "no"
Open(f) == ~f.broken /\ f.settled = "no" /\ f.open # 0
NeverStarted(f) == ~f.broken /\ ~f.anyCall
Resumable(f) == ~f.broken /\ f.anyCall /\ f.settled = "no" /\ f.open = 0

NextSeq(f) == Cardinality(f.landed) + 1
=============================================================================
