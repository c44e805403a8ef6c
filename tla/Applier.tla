------------------------------ MODULE Applier ------------------------------
(***************************************************************************)
(* One approved effect on its way to GitHub: the passes that apply it, the *)
(* recovery passes that re-drive what a pass left open, the lease that is  *)
(* to keep them apart, the ledger they all append to, and a GitHub that    *)
(* may perform a request long after the client stopped waiting for it.     *)
(*                                                                         *)
(* Time is counted in ticks: the ledger keeps how long ago each call was   *)
(* last sent, the lease how long ago it was taken.                         *)
(***************************************************************************)
EXTENDS EffectFold

CONSTANTS
  Applying,      \* lanes that apply decisions: the delivery lane, the sweep
  Recovering,    \* recovery passes: one per tick, and no tick waits for another's
  Worker,        \* names a lease may be taken under
  WorkerOf,      \* the name each lane uses: one per process, not one per lane
  LooksFirst,    \* calls that read GitHub before they write
  Comments,      \* of those, the managed comments: creating one twice makes two
  Records,       \* the plan's comment is the warning of a graced act
  BudgetSpent,   \* other effects may spend the item's comments of the day
  Overruns,      \* a pass may outlive its lease
  Prompt,        \* GitHub performs or drops a request before it answers a later read
  LeaseStale,    \* EFFECT_LEASE_STALE_MINUTES, in ticks
  AttemptCap,    \* EFFECT_ATTEMPT_CAP
  MaxTries,      \* attempts are not counted beyond this
  MaxRevision,   \* configuration revisions in a behaviour
  MaxFaults,     \* crashes, overruns, human edits and lost bytes in a behaviour
  None           \* no lease

Lane == Applying \cup Recovering
Revision == 1..MaxRevision

ASSUME LaneAssumption == Applying \cap Recovering = {} /\ WorkerOf \in [Lane -> Worker]
ASSUME CallAssumption == LooksFirst \subseteq Calls /\ Comments \subseteq LooksFirst
ASSUME ChoiceAssumption == {Records, BudgetSpent, Overruns, Prompt} \subseteq BOOLEAN
ASSUME BoundAssumption ==
  /\ LeaseStale \in Nat \ {0} /\ AttemptCap \in Nat \ {0}
  /\ MaxTries \in Nat /\ MaxRevision \in Nat \ {0} /\ MaxFaults \in Nat

VARIABLES
  ledger,     \* the effect's facts, as the fold and the SQL read them
  readable,   \* the newest send's bytes still parse
  warned,     \* the warned fact on the act this comment warns of
  lease,      \* effect_claim, or None
  pass,       \* where each lane's pass stands
  revision,   \* the repository's configuration, as it would be read now
  copies,     \* GitHub: how often each postcondition stands; more than 1 only for comments
  late,       \* GitHub: requests given up on and not yet performed or dropped
  seen,       \* history: the calls whose postcondition has held
  faults      \* history: the faults spent so far

world == <<copies, late, seen>>
outside == <<world, revision, faults>>
vars == <<ledger, readable, warned, lease, pass, world, revision, faults>>

Standing == {"driving", "fresh", "resume", "holding", "looking",
             "requesting", "confirming", "reading", "resending"}
Places == {"idle", "listed"} \cup Standing

Pass ==
  [at : Places, seq : 0..PlanLength, rev : 0..MaxRevision, sentRev : 0..MaxRevision,
   gated : BOOLEAN, tries : Int, readable : BOOLEAN]

Resting == [at |-> "idle", seq |-> 0, rev |-> 0, sentRev |-> 0,
            gated |-> FALSE, tries |-> 0, readable |-> TRUE]

Ledger ==
  [fold : Folds,
   sent : SUBSET Calls, landed : SUBSET Calls,     \* calls with such a fact
   unclosed : SUBSET Calls,                        \* STILL_OPEN
   tries : [Calls -> Int],                         \* ATTEMPTS_AT
   age : [Calls -> 0..LeaseStale],                 \* since the newest send there
   rev : [Calls -> 0..MaxRevision],                \* and its revision
   newest : 0..PlanLength]                         \* the call sent last

Lease == [worker : Worker, holder : Lane, age : 0..LeaseStale]

ASSUME NoneAssumption == None \notin Lease

Fault == faults < MaxFaults /\ faults' = faults + 1

Least(a, b) == IF a <= b THEN a ELSE b

----------------------------------------------------------------------------
(* The ledger.                                                             *)

\* appendFact, as every reading of the history sees it.
Appended(s, kind, r) ==
  [fold |-> After(ledger.fold, s, kind),
   sent |-> IF kind = "sent" THEN ledger.sent \cup {s} ELSE ledger.sent,
   landed |-> IF kind = "landed" THEN ledger.landed \cup {s} ELSE ledger.landed,
   unclosed |-> IF kind = "sent" THEN ledger.unclosed \cup {s} ELSE ledger.unclosed \ {s},
   tries |-> [ledger.tries EXCEPT ![s] =
                IF kind = "sent" THEN @ + 1 ELSE IF kind = "unsent" THEN @ - 1 ELSE @],
   age |-> IF kind = "sent" THEN [ledger.age EXCEPT ![s] = 0] ELSE ledger.age,
   rev |-> IF kind = "sent" THEN [ledger.rev EXCEPT ![s] = r] ELSE ledger.rev,
   newest |-> IF kind = "sent" THEN s ELSE ledger.newest]

Append(l, kind) ==
  /\ ledger' = Appended(pass[l].seq, kind, pass[l].rev)
  /\ readable' = (kind = "sent" \/ readable)

\* Mutant: a worker finds its own name on the lease and takes it to be its own.
ClaimOwn(l) ==
  /\ lease # None => lease.age >= LeaseStale \/ lease.worker = WorkerOf[l]
  /\ lease' = [worker |-> WorkerOf[l], holder |-> l, age |-> 0]

\* claim: insert, or take over a lease gone stale.
Claim(l) ==
  /\ lease # None => lease.age >= LeaseStale
  /\ lease' = [worker |-> WorkerOf[l], holder |-> l, age |-> 0]

\* release: DELETE ... WHERE effect_id = ? AND worker = ?
Released(l) == IF lease # None /\ lease.worker = WorkerOf[l] THEN None ELSE lease

----------------------------------------------------------------------------
(* How a pass ends a step.                                                 *)

Goto(l, place) == pass' = [pass EXCEPT ![l].at = place]

Stop(l) ==
  /\ pass' = [pass EXCEPT ![l] = Resting]
  /\ lease' = Released(l)

\* A call proved: an applying pass folds again, a recovery pass is over.
GoOn(l) ==
  IF l \in Applying THEN Goto(l, "driving") /\ UNCHANGED lease ELSE Stop(l)

\* Only a pass that carries the warning to record, and only for its comment.
Promises(l) == Records /\ l \in Applying /\ pass[l].seq \in Comments

\* land: the landed fact, then the warning it promises.
Land(l) ==
  /\ Append(l, "landed")
  /\ warned' = (warned \/ Promises(l))
  /\ GoOn(l)

Close(l, kind) ==
  /\ Append(l, kind)
  /\ Stop(l)
  /\ UNCHANGED warned

StopQuietly(l) ==
  /\ Stop(l)
  /\ UNCHANGED <<ledger, readable, warned>>

Move(l, place) ==
  /\ Goto(l, place)
  /\ UNCHANGED <<ledger, readable, warned, lease>>

----------------------------------------------------------------------------
(* An applying pass: claim, then fold and act until something stops it.    *)

Begin(l) ==
  /\ l \in Applying /\ pass[l].at = "idle"
  /\ Claim(l)
  /\ pass' = [pass EXCEPT ![l] = [Resting EXCEPT !.at = "driving", !.rev = revision]]
  /\ UNCHANGED <<ledger, readable, warned>>

\* actionFor, over the state the fold names now.
StartFresh(l) ==
  /\ pass[l].at = "driving" /\ NeverStarted(ledger.fold)
  /\ pass' = [pass EXCEPT ![l].at = "fresh", ![l].seq = 1]
  /\ UNCHANGED <<ledger, readable, warned, lease>>

SendNext(l) ==
  /\ pass[l].at = "driving" /\ Resumable(ledger.fold) /\ pass[l].gated
  /\ pass' = [pass EXCEPT ![l].at = "holding", ![l].seq = NextSeq(ledger.fold)]
  /\ UNCHANGED <<ledger, readable, warned, lease>>

Resume(l) ==
  /\ pass[l].at = "driving" /\ Resumable(ledger.fold) /\ ~pass[l].gated
  /\ IF ledger.rev[ledger.newest] = pass[l].rev
     THEN /\ pass' = [pass EXCEPT ![l].at = "resume", ![l].seq = NextSeq(ledger.fold)]
          /\ UNCHANGED lease
     ELSE Stop(l)
  /\ UNCHANGED <<ledger, readable, warned>>

Resolve(l) ==
  /\ pass[l].at = "driving" /\ Open(ledger.fold)
  /\ IF readable
     THEN /\ pass' = [pass EXCEPT ![l].at = "reading", ![l].seq = ledger.fold.open,
                                  ![l].sentRev = ledger.rev[ledger.newest]]
          /\ UNCHANGED <<ledger, readable, lease>>
     ELSE /\ ledger' = Appended(ledger.fold.open, "refused", pass[l].rev)
          /\ Stop(l)
          /\ UNCHANGED readable
  /\ UNCHANGED warned

Finished(l) ==
  /\ pass[l].at = "driving"
  /\ Settled(ledger.fold) \/ Inconsistent(ledger.fold)
  /\ StopQuietly(l)

\* The gate of a fresh or a resumed plan answers.
GateOpens(l) ==
  /\ pass[l].at \in {"fresh", "resume"}
  /\ pass' = [pass EXCEPT ![l].at = "holding", ![l].gated = TRUE]
  /\ UNCHANGED <<ledger, readable, warned, lease>>

GateCloses(l) ==
  /\ pass[l].at \in {"fresh", "resume"}
  /\ StopQuietly(l)

----------------------------------------------------------------------------
(* sendCall: the lane's allowance, the hold, the fact, the request.        *)

\* Mutant: a call the allowance turned away is recorded like one held back.
TurnAwayUnsent(l) ==
  /\ pass[l].at = "holding" /\ l \in Applying
  /\ Close(l, "unsent")

\* The lane's allowance is spent, or the bound on attempts reached: nothing is recorded.
\* A recovery pass carries no allowance.
TurnAway(l) ==
  /\ pass[l].at = "holding"
  /\ l \in Applying \/ ledger.tries[pass[l].seq] >= MaxTries
  /\ StopQuietly(l)

\* Three comments today and none of them this one: "unsent", with no send of its own.
Hold(l) ==
  /\ pass[l].at = "holding"
  /\ BudgetSpent /\ pass[l].seq \in Comments /\ copies[pass[l].seq] = 0
  /\ Close(l, "unsent")

Send(l) ==
  /\ pass[l].at = "holding"
  /\ ledger.tries[pass[l].seq] < MaxTries
  /\ Append(l, "sent")
  /\ Goto(l, IF pass[l].seq \in LooksFirst THEN "looking" ELSE "requesting")
  /\ UNCHANGED <<warned, lease>>

Settles(s) == Prompt => \A l \in Lane : <<l, s>> \notin late

\* Mutants: a read-back that failed counts as held; as not held.
HoldsUnread(s) == Settles(s)
LacksUnread(s) == Settles(s)

Holds(s) == copies[s] > 0 /\ Settles(s)
Lacks(s) == copies[s] = 0 /\ Settles(s)

\* Read before write: what stands already is landed without a request.
LookAndFind(l) ==
  /\ pass[l].at = "looking" /\ Holds(pass[l].seq)
  /\ Land(l)

LookAndMiss(l) ==
  /\ pass[l].at = "looking" /\ Lacks(pass[l].seq)
  /\ Move(l, "requesting")

\* A read that failed: the send stays open.
Unread(l) ==
  /\ pass[l].at \in {"looking", "confirming"}
  /\ StopQuietly(l)

\* GitHub says it is so already: removeLabel's 404, defineLabel's lost race.
FoundDone(l) ==
  /\ pass[l].at = "requesting" /\ pass[l].seq \notin Comments /\ copies[pass[l].seq] > 0
  /\ Land(l)

\* Mutant: a conflict means somebody else did it.
ConflictIsDone(l) ==
  /\ pass[l].at = "requesting"
  /\ Land(l)

\* conflict or forbidden
RefusedByGitHub(l) ==
  /\ pass[l].at = "requesting"
  /\ Close(l, "refused")

\* No endpoint realises the write.
Unsupported(l) ==
  /\ pass[l].at = "requesting"
  /\ Close(l, "unsent")

Confirmed(l) ==
  /\ pass[l].at = "confirming" /\ Holds(pass[l].seq)
  /\ Land(l)

Unconfirmed(l) ==
  /\ pass[l].at = "confirming" /\ Lacks(pass[l].seq)
  /\ StopQuietly(l)

----------------------------------------------------------------------------
(* resolveOne: a send left open, asked of GitHub before anything else.     *)

ReadLanded(l) ==
  /\ pass[l].at = "reading" /\ Holds(pass[l].seq)
  /\ Land(l)

ReadUnknown(l) ==
  /\ pass[l].at = "reading"
  /\ StopQuietly(l)

\* Not there, and the configuration is another one: the call is closed.
ReadUnderOther(l) ==
  /\ pass[l].at = "reading" /\ Lacks(pass[l].seq)
  /\ pass[l].sentRev # pass[l].rev
  /\ Close(l, "refused")

ReadMissing(l) ==
  /\ pass[l].at = "reading" /\ Lacks(pass[l].seq)
  /\ pass[l].sentRev = pass[l].rev
  /\ Move(l, "resending")

StandingOpens(l) ==
  /\ pass[l].at = "resending"
  /\ Move(l, "holding")

StandingRefuses(l) ==
  /\ pass[l].at = "resending"
  /\ Close(l, "refused")

StandingUnread(l) ==
  /\ pass[l].at = "resending"
  /\ StopQuietly(l)

----------------------------------------------------------------------------
(* recoverOpenSends: a list of open sends, taken once and worked through.  *)

List(l) ==
  /\ l \in Recovering /\ pass[l].at = "idle"
  /\ \E s \in ledger.unclosed :
       /\ ledger.age[s] >= LeaseStale
       /\ pass' = [pass EXCEPT ![l] =
                     [Resting EXCEPT !.at = "listed", !.seq = s, !.sentRev = ledger.rev[s],
                                     !.tries = ledger.tries[s],
                                     !.readable = readable \/ ledger.newest # s]]
  /\ UNCHANGED <<ledger, readable, warned, lease>>

\* Mutant: recovery gives up on the call and leaves its send open.
AbandonUnrecorded(l) ==
  /\ pass[l].at = "listed" /\ pass[l].readable /\ pass[l].tries >= AttemptCap
  /\ pass' = [pass EXCEPT ![l] = Resting]
  /\ UNCHANGED <<ledger, readable, warned, lease>>

\* recover, with no lease: the bytes are lost, or the attempts are spent.  The
\* first closes whatever was sent last, the second the call the list named.
Forget(l) ==
  /\ pass[l].at = "listed" /\ ~pass[l].readable
  /\ ledger' = Appended(ledger.newest, "refused", ledger.rev[ledger.newest])
  /\ pass' = [pass EXCEPT ![l] = Resting]
  /\ UNCHANGED <<readable, warned, lease>>

Abandon(l) ==
  /\ pass[l].at = "listed" /\ pass[l].readable /\ pass[l].tries >= AttemptCap
  /\ ledger' = Appended(pass[l].seq, "abandoned", revision)
  /\ pass' = [pass EXCEPT ![l] = Resting]
  /\ UNCHANGED <<readable, warned, lease>>

Recover(l) ==
  /\ pass[l].at = "listed" /\ pass[l].readable /\ pass[l].tries < AttemptCap
  /\ Claim(l)
  /\ pass' = [pass EXCEPT ![l].at = "reading", ![l].rev = revision]
  /\ UNCHANGED <<ledger, readable, warned>>

\* The configuration could not be read, or a live worker holds the lease.
Skip(l) ==
  /\ pass[l].at = "listed"
  /\ pass' = [pass EXCEPT ![l] = Resting]
  /\ UNCHANGED <<ledger, readable, warned, lease>>

----------------------------------------------------------------------------
(* GitHub, and what can happen to it between two steps of a pass.          *)

Perform(s) ==
  /\ copies' = [copies EXCEPT ![s] = IF s \in Comments THEN Least(@ + 1, 2) ELSE 1]
  /\ seen' = seen \cup {s}

\* The request is performed, and the answer comes back.
Accepted(l) ==
  /\ pass[l].at = "requesting"
  /\ Perform(pass[l].seq)
  /\ Move(l, "confirming")
  /\ UNCHANGED <<late, revision, faults>>

\* No answer: the pass stops, and the request may still be performed.
Unanswered(l) ==
  /\ pass[l].at = "requesting"
  /\ late' \in {late, late \cup {<<l, pass[l].seq>>}}
  /\ StopQuietly(l)
  /\ UNCHANGED <<copies, seen, revision, faults>>

\* GitHub performs a request nobody waits for any more, or never will.
PerformLate(l, s) ==
  /\ <<l, s>> \in late
  /\ late' = late \ {<<l, s>>}
  /\ Perform(s)
  /\ UNCHANGED <<ledger, readable, warned, lease, pass, revision, faults>>

Drop(l, s) ==
  /\ <<l, s>> \in late
  /\ late' = late \ {<<l, s>>}
  /\ UNCHANGED <<ledger, readable, warned, lease, pass, copies, seen, revision, faults>>

\* A human undoes the change, or makes it, except for the App's own comments.
HumanEdit(s, n) ==
  /\ Fault
  /\ n \in {0, 1} /\ copies[s] # n
  /\ s \in Comments => n = 0
  /\ copies' = [copies EXCEPT ![s] = n]
  /\ seen' = IF n = 1 THEN seen \cup {s} ELSE seen
  /\ UNCHANGED <<ledger, readable, warned, lease, pass, late, revision>>

Reconfigure ==
  /\ revision < MaxRevision
  /\ revision' = revision + 1
  /\ UNCHANGED <<ledger, readable, warned, lease, pass, world, faults>>

Spoil ==
  /\ Fault
  /\ readable /\ ledger.unclosed # {}
  /\ readable' = FALSE
  /\ UNCHANGED <<ledger, warned, lease, pass, world, revision>>

\* The process dies: its lanes forget their passes and its requests go on alone.
Die(w) ==
  /\ pass' = [l \in Lane |-> IF WorkerOf[l] = w THEN Resting ELSE pass[l]]
  /\ late' = late \cup {<<l, pass[l].seq>> : l \in {k \in Lane : WorkerOf[k] = w /\ pass[k].at = "requesting"}}
  /\ UNCHANGED <<copies, seen, revision>>

Crash(w) ==
  /\ Fault
  /\ Die(w)
  /\ UNCHANGED <<ledger, readable, warned, lease>>

\* It dies between the landed fact and the warning that fact promises.
CrashInLand(l) ==
  /\ pass[l].at \in {"looking", "confirming", "reading"} /\ Holds(pass[l].seq)
  /\ Promises(l)
  /\ Fault
  /\ Append(l, "landed")
  /\ Die(WorkerOf[l])
  /\ UNCHANGED <<warned, lease>>

Leased(l) == pass[l].at \in Standing

\* A pass about to outlive its lease: one more tick is a fault, where it may be.
Overrun ==
  /\ lease # None /\ lease.age = LeaseStale - 1
  /\ Leased(lease.holder)

Aged(n) == Least(n + 1, LeaseStale)

Tick ==
  /\ lease' = IF lease = None THEN None ELSE [lease EXCEPT !.age = Aged(@)]
  /\ ledger' = [ledger EXCEPT !.age = [s \in Calls |-> IF s \in ledger.sent THEN Aged(@[s]) ELSE 0]]
  /\ IF Overrun THEN Overruns /\ Fault ELSE UNCHANGED faults
  /\ UNCHANGED <<readable, warned, pass, world, revision>>

----------------------------------------------------------------------------
Init ==
  /\ ledger = [fold |-> NoFacts, sent |-> {}, landed |-> {}, unclosed |-> {},
               tries |-> [s \in Calls |-> 0], age |-> [s \in Calls |-> 0],
               rev |-> [s \in Calls |-> 0], newest |-> 0]
  /\ readable = TRUE /\ warned = FALSE
  /\ lease = None
  /\ pass = [l \in Lane |-> Resting]
  /\ revision = 1
  /\ copies = [s \in Calls |-> 0] /\ late = {} /\ seen = {}
  /\ faults = 0

Decide(l) ==
  StartFresh(l) \/ SendNext(l) \/ Resume(l) \/ Resolve(l) \/ Finished(l)

ReadBack(l) == ReadLanded(l) \/ ReadUnderOther(l) \/ ReadMissing(l)

Stand(l) == StandingOpens(l) \/ StandingRefuses(l)

Take(l) == Forget(l) \/ Abandon(l) \/ Recover(l)

\* What a pass does with GitHub's state as it is.
Inside(l) ==
  \/ Decide(l)
  \/ GateOpens(l) \/ GateCloses(l)
  \/ TurnAway(l) \/ Hold(l) \/ Send(l)
  \/ LookAndFind(l) \/ LookAndMiss(l) \/ Unread(l)
  \/ FoundDone(l) \/ RefusedByGitHub(l) \/ Unsupported(l)
  \/ Confirmed(l) \/ Unconfirmed(l)
  \/ ReadBack(l) \/ ReadUnknown(l)
  \/ Stand(l) \/ StandingUnread(l)
  \/ Take(l) \/ Skip(l)

Advance(l) == (Inside(l) /\ UNCHANGED outside) \/ Accepted(l) \/ Unanswered(l)

Next ==
  \/ \E l \in Lane : Begin(l) /\ UNCHANGED outside
  \/ \E l \in Lane : List(l) /\ UNCHANGED outside
  \/ \E l \in Lane : Advance(l)
  \/ \E l \in Lane, s \in Calls : PerformLate(l, s) \/ Drop(l, s)
  \/ \E s \in Calls, n \in {0, 1} : HumanEdit(s, n)
  \/ Reconfigure
  \/ Spoil
  \/ \E w \in Worker : Crash(w)
  \/ \E l \in Lane : CrashInLand(l)
  \/ Tick

Spec == Init /\ [][Next]_vars

\* The interval keeps ticking and every recovery pass goes on; GitHub's reads, the
\* configuration and the standing externals answer it again and again.
Fairness ==
  /\ SF_vars(Tick)
  /\ \A l \in Recovering :
       /\ WF_vars(Advance(l))
       /\ WF_vars(List(l) /\ UNCHANGED outside)
       /\ SF_vars(Take(l) /\ UNCHANGED outside)
       /\ SF_vars(ReadBack(l) /\ UNCHANGED outside)
       /\ SF_vars(Stand(l) /\ UNCHANGED outside)

FairSpec == Spec /\ Fairness

----------------------------------------------------------------------------
(* Properties.                                                             *)

TypeOK ==
  /\ ledger \in Ledger
  /\ readable \in BOOLEAN /\ warned \in BOOLEAN
  /\ lease \in Lease \cup {None}
  /\ pass \in [Lane -> Pass]
  /\ revision \in Revision
  /\ copies \in [Calls -> 0..2] /\ late \subseteq Lane \X Calls /\ seen \subseteq Calls
  /\ faults \in Nat

\* "Nothing is sent the ledger did not record first" (call.ts): a request under
\* way, given up on, or performed has its sent fact, whatever dies in between.
JournalFirst ==
  \A s \in Calls :
    \/ \E l \in Lane : <<l, s>> \in late \/ (pass[l].at = "requesting" /\ pass[l].seq = s)
    \/ s \in Comments /\ copies[s] > 0
    => s \in ledger.sent

\* "A notice can never claim an act that did not land" (handler.ts): a comment of
\* ours stands only if every call before it has held on GitHub at some time.
NoticeAfterAct ==
  \A s \in Comments : copies[s] > 0 => \A earlier \in 1..(s - 1) : earlier \in seen

\* "Nothing is closed that was not read back" (call.ts): a landed fact means the
\* postcondition has been true.
LandedWasHeld == ledger.landed \subseteq seen

\* The lease keeps passes apart: nobody outlives it, nobody else is inside.
OneHolder ==
  \A l, k \in Lane : Leased(l) /\ Leased(k) => l = k

\* "How one approved effect becomes a landed GitHub change, exactly once" (apply.ts).
AtMostOnce == \A s \in Comments : copies[s] <= 1

\* "Releasing after your lease was stolen is a safe no-op" (ledger.ts): a pass that
\* works under the lease loses it only to another pass of its own worker name that
\* releases what it thinks is its own; never to another process's.
ReleasesOwn ==
  [][\A l \in Lane :
       /\ lease # None /\ lease.holder = l /\ Leased(l) /\ Leased(l)'
       /\ lease' = None
       => \E k \in Lane \ {l} : WorkerOf[k] = WorkerOf[l] /\ Leased(k) /\ ~Leased(k)']_vars

\* Once applying passes leave the effect alone, recovery closes every send they
\* left open, as landed, refused, unsent or, at the cap, abandoned (jobs.ts).
RecoveryCloses ==
  <>[](\A l \in Applying : pass[l].at = "idle")
    => \A s \in Calls : s \in ledger.unclosed ~> s \notin ledger.unclosed
=============================================================================
