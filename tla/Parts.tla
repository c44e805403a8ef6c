-------------------------------- MODULE Parts --------------------------------
(***************************************************************************)
(* Ten parts of the program that share no state in it, checked side by     *)
(* side: a lane's share of a pool (Allowance), one effect's facts and      *)
(* their readings (EffectHistory), one hosted process (Lifecycle), a sweep *)
(* that answers an item from a stored read (Sweep), a list walked page by  *)
(* page while it changes (Evidence), the record of one item put together   *)
(* from many requests (Reading), a dashboard that reports checks read one  *)
(* by one (Dashboard), the file a maintainer writes (Settings), the record *)
(* put to every capability in turn (Engine) and who answers what a         *)
(* capability declares it needs (Contract).  A behaviour is about one of   *)
(* the ten, chosen at the start; the variables of the others stay unset.   *)
(***************************************************************************)
EXTENDS Integers, Sequences, FiniteSets, TLC

CONSTANTS
  None, Unknown, Unread, Invalid,
  Request, Limit, Assumed, Share, Denominator, MostPoints, WriteCalls, Window, Slack, Foreign,
  MaxUnheard,
  PlanLength, MaxFacts, MaxBroken, MaxTime, Grace,
  Connection, Recovery, MaxQueue,
  Repo, Item, Cadence, Settle, MaxAge, ReviewLag, Budget, ListCost, ItemCost, GateCost,
  WriteCap, Happens, MaxFaults,
  PageSize, ReadCap, MaxPages, CreationLag, OwnWindow, MaxEntries, MaxNow,
  Person, Pull, ItemPage, ItemPages, MaxCommits, BatchSize, MaxChanges,
  Nobody, Lane, Enablings, CommentCap, MaxReads, MaxDoings,
  PerSecond, MinGrace, Absent, Garbled, Capability, RequiresWord, Hours, RemindDefault,
  ReapDefault, MinReap, MaxClock, MaxEdits,
  MaxAsks, MaxIntents,
  Author, Wide, Askable

ASSUME NoneAssumption == None \notin Int /\ None \notin {"none", "newer", "unknown"}

ASSUME AllowanceAssumption ==
  /\ Limit \in Nat /\ Assumed \in Nat /\ Denominator \in Nat \ {0} /\ Share \in 0..Denominator
  /\ MostPoints \in Nat \ {0} /\ WriteCalls \in Nat
  /\ Window \in Nat \ {0} /\ Slack \in 0..(Window - 1) /\ Foreign \subseteq Nat
  /\ MaxUnheard \in Nat

ASSUME HistoryAssumption ==
  /\ PlanLength \in Nat \ {0} /\ MaxFacts \in Nat /\ MaxBroken \in Nat
  /\ MaxTime \in Nat \ {0} /\ Grace \in Nat

ASSUME SweepAssumption ==
  /\ None \notin Repo /\ Item \subseteq Nat \ {0}
  /\ Cadence \in Nat \ {0} /\ {Settle, MaxAge, ReviewLag} \subseteq Nat
  /\ {Budget, WriteCap} \subseteq Nat \ {0} /\ {ListCost, ItemCost, GateCost, MaxFaults} \subseteq Nat

ASSUME SettingsAssumption ==
  /\ "inactivity" \in Capability /\ RequiresWord \subseteq Capability
  /\ Hours \subseteq Nat
  /\ {RemindDefault, ReapDefault, MinReap, MaxClock} \subseteq Nat
  /\ PerSecond \in Nat \ {0} /\ MinGrace \in Nat \ {0}

ASSUME EngineAssumption == MaxAsks \in Nat /\ MaxIntents \in Nat /\ IsFiniteSet(Capability)

ASSUME DashboardAssumption ==
  /\ IsFiniteSet(Lane) /\ Lane # {} /\ CommentCap \in Nat /\ MaxReads \in Nat /\ MaxDoings \in Nat
  /\ Enablings \subseteq SUBSET {"commits", "mergeConflicts", "linkedIssues", "assignedIssues"}
  /\ {} \notin Enablings
  /\ Nobody \notin {"needsReview", "needsRevision", "readyToMerge", "noPosition"}

VARIABLES
  part,       \* which of the ten this behaviour is about
  ends, used, flight, limit, resetAt, charged, written, unheard, misled,
  facts,
  phase, armed, startup, conn, waiting, lane, refused, sweep, recovery, ticking, stop, joined, asked,
  row, before, item, snap, at, queue, hand, listed, listAge, held, records, next, left, spent,
  writes, owed, away, since, faults,
  entries, grown, now, landed, cause, walk, there, deletions, answer,
  subject, working, open, closing, assignees, draft, line, made, read, record, standing,
  counted, shifted, late,
  enabled, truth, ready, label, human, doings, comments, others, posted, runs, pass, blind,
  file, visible, process, reading, decision,
  fact, declared, mode, warned, ordering, turn, handle, intents, approved, outcomes, stopped, earned,
  fleet, on, stored, unserved

A == INSTANCE Allowance WITH spent <- charged, Whole <- Denominator
H == INSTANCE EffectHistory
L == INSTANCE Lifecycle WITH queue <- waiting
W == INSTANCE Sweep WITH Lag <- ReviewLag
E == INSTANCE Evidence WITH Lag <- CreationLag, Window <- OwnWindow, line <- entries
R == INSTANCE Reading WITH PageSize <- ItemPage, MaxPages <- ItemPages
D == INSTANCE Dashboard WITH draft <- ready
S == INSTANCE Settings
N == INSTANCE Engine WITH Capable <- Capability, Nil <- None
C == INSTANCE Contract WITH Nil <- None, Foreign <- Garbled

\* Where the limit assumed before any answer grants the lane a point, GitHub's own does.
ASSUME LaneAssumption ==
  /\ IsFiniteSet(Request) /\ Request # {}
  /\ None \notin A!Sent \cup A!Answered
  /\ A!CapUnder(Assumed) > 0 => A!CapUnder(Limit) > 0

allowance == <<ends, used, flight, limit, resetAt, charged, written, unheard, misled>>
history == <<facts>>
hosted == <<phase, armed, startup, conn, waiting, lane, refused, sweep, recovery, ticking, stop,
            joined, asked>>
sweeping == <<row, before, item, snap, at, queue, hand, listed, listAge, held, records, next, left,
              spent, writes, owed, away, since, faults>>
evidence == <<entries, grown, now, landed, cause, walk, there, deletions, answer>>
itemRead == <<subject, working, open, closing, assignees, draft, line, made, read, record,
              standing, counted, shifted, late>>
dashboard == <<enabled, truth, ready, label, human, doings, comments, others, posted, runs, pass, blind>>
settings == <<file, visible, process, reading, decision>>
engine == <<fact, declared, mode, warned, ordering, turn, handle, intents, approved, outcomes,
            stopped, earned>>
contract == <<fleet, on, stored, unserved>>

vars == <<part, allowance, history, hosted, sweeping, evidence, itemRead, dashboard, settings, engine,
          contract>>

----------------------------------------------------------------------------
NoAllowance ==
  /\ ends = None /\ used = None /\ flight = None /\ limit = None /\ resetAt = None
  /\ charged = None /\ written = None /\ unheard = None /\ misled = None

NoHistory == facts = None

NoProcess ==
  /\ phase = None /\ armed = None /\ startup = None /\ conn = None /\ waiting = None /\ lane = None
  /\ refused = None /\ sweep = None /\ recovery = None /\ ticking = None /\ stop = None
  /\ joined = None /\ asked = None

NoSweep ==
  /\ row = None /\ before = None /\ item = None /\ snap = None /\ at = None /\ queue = None
  /\ hand = None /\ listed = None /\ listAge = None /\ held = None /\ records = None
  /\ next = None /\ left = None /\ spent = None /\ writes = None /\ owed = None /\ away = None
  /\ since = None /\ faults = None

NoEvidence ==
  /\ entries = None /\ grown = None /\ now = None /\ landed = None /\ cause = None
  /\ walk = None /\ there = None /\ deletions = None /\ answer = None

NoItemRead ==
  /\ subject = None /\ working = None /\ open = None /\ closing = None /\ assignees = None
  /\ draft = None /\ line = None /\ made = None /\ read = None /\ record = None
  /\ standing = None /\ counted = None /\ shifted = None /\ late = None

NoDashboard ==
  /\ enabled = None /\ truth = None /\ ready = None /\ label = None /\ human = None
  /\ doings = None /\ comments = None /\ others = None /\ posted = None /\ runs = None
  /\ pass = None /\ blind = None

NoSettings ==
  /\ file = None /\ visible = None /\ process = None /\ reading = None /\ decision = None

NoEngine ==
  /\ fact = None /\ declared = None /\ mode = None /\ warned = None /\ ordering = None
  /\ turn = None /\ handle = None /\ intents = None /\ approved = None /\ outcomes = None
  /\ stopped = None /\ earned = None

NoContract == fleet = None /\ on = None /\ stored = None /\ unserved = None

Init ==
  /\ part \in {"allowance", "history", "process", "sweep", "evidence", "item", "dashboard",
              "settings", "engine", "contract"}
  /\ IF part = "allowance" THEN A!Init ELSE NoAllowance
  /\ IF part = "history" THEN H!Init ELSE NoHistory
  /\ IF part = "process" THEN L!Init ELSE NoProcess
  /\ IF part = "sweep" THEN W!Init ELSE NoSweep
  /\ IF part = "evidence" THEN E!EvidenceInit ELSE NoEvidence
  /\ IF part = "item" THEN R!ReadingInit ELSE NoItemRead
  /\ IF part = "dashboard" THEN D!DashboardInit ELSE NoDashboard
  /\ IF part = "settings" THEN S!SettingsInit ELSE NoSettings
  /\ IF part = "engine" THEN N!EngineInit ELSE NoEngine
  /\ IF part = "contract" THEN C!ContractInit ELSE NoContract

Next ==
  /\ IF part = "allowance" THEN A!Next ELSE UNCHANGED allowance
  /\ IF part = "history" THEN H!Next ELSE UNCHANGED history
  /\ IF part = "process" THEN L!Next ELSE UNCHANGED hosted
  /\ IF part = "sweep" THEN W!Next ELSE UNCHANGED sweeping
  /\ IF part = "evidence" THEN E!EvidenceNext ELSE UNCHANGED evidence
  /\ IF part = "item" THEN R!ReadingNext ELSE UNCHANGED itemRead
  /\ IF part = "dashboard" THEN D!DashboardNext ELSE UNCHANGED dashboard
  /\ IF part = "settings" THEN S!SettingsNext ELSE UNCHANGED settings
  /\ IF part = "engine" THEN N!EngineNext ELSE UNCHANGED engine
  /\ IF part = "contract" THEN C!ContractNext ELSE UNCHANGED contract
  /\ UNCHANGED part

Spec == Init /\ [][Next]_vars

\* The people of an item read are alike, and so are the lanes of a dashboard.
Alike == Permutations(Person) \cup Permutations(Lane)

----------------------------------------------------------------------------
\* A lane uses no more of GitHub's window than its share and what it had out when it
\* reached it (allowance.ts).
LaneStaysWithinShare == part = "allowance" => A!LaneStaysWithinShare

\* The fold and the worklist's SQL read every history as the ledger documents it, and
\* agree on the call it leaves open (fold.ts, ledger.ts).
FoldReadsHistory == part = "history" => H!FoldReadsHistory /\ H!WorklistIsOpenCall

\* Retention takes no effect with an open call or a promise ahead (ledger.ts, prune).
RetentionKeepsOpenAndPromised == [][part = "history" => H!RetentionStep]_facts

\* A stopped process leaves no delivery and no sweep row claimed behind it, and a
\* suspended one asks GitHub for nothing on any lane (shutdown.ts, jobs.ts).
ProcessHoldsBack == part = "process" => L!NothingIsClaimedBehind /\ L!SuspendedAsksNothing

\* A stored read the sweep decides from misses no change of its item that the open-item
\* list can show (sweep.ts, snapshots.ts).
ReuseHeedsTheList == [][part = "sweep" => W!ReuseStep]_sweeping

\* Reading a list page by page while it changes hides no person's change and never
\* answers "absent" of what both looks could see (externals.ts, readback.ts); and a record
\* put together from requests of many instants leaves out no pull request that closed the
\* issue all along, starts no assignee's clock early and dates a standing change request by
\* its own event (items.ts, facts.ts, links.ts); and no record leaves out what a capability
\* of an admitted fleet needs of it, but for a read that failed (declaration.ts, sweep.ts).
ReadsMissNothing ==
  /\ part = "evidence" => E!NoChangeIsHidden /\ E!AbsenceIsReal
  /\ part = "item" => R!NoLinkIsLost /\ R!ClocksNeverRunEarly /\ R!ModesAreDatedByTheirEvents
  /\ part = "contract" => C!WokenIsServed

\* A dashboard asks for review only of what passed, an undisturbed recheck leaves it true,
\* and its comments stay within the day's budget (prDashboard, postManagedComment.ts).
DashboardSpeaksTrue == part = "dashboard" => D!DashboardSpeaksTrue

\* In an accepted file one label carries one meaning, and every ladder that acts leaves
\* the grace between its reminder and its act (sections.ts, settings.ts).
AcceptedFileIsSound == part = "settings" => S!OneMeaningPerLabel /\ S!GraceOutlastsReminder

\* A pass acts for a capability only where every level consented (mode.ts, item.ts, run.ts),
\* only on what that capability's own evaluation was let to finish, and on a graced act only
\* with its warning recorded (invoke.ts, decide.ts); and what one capability did, or failed
\* to do, takes nothing from another.
ActsByConsent ==
  [][/\ part = "settings" => S!ConsentStep
     /\ part = "engine" => N!OnlyTheSoundActs' /\ N!NobodyIsSilenced']_<<settings, engine>>
=============================================================================
