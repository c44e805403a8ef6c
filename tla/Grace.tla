-------------------------------- MODULE Grace --------------------------------
(***************************************************************************)
(* The grace of a clock-triggered act, from the warning to the act: an     *)
(* issue whose stale assignees are released one by one, or a pull request  *)
(* that is closed (capabilities/inactivity, engine/decide.ts, the gates in *)
(* shell/apply/gates.ts, shell/decide/warnings.ts).  Only sweeps decide    *)
(* these, one pass at a time.  The plan after the act, its notice, is in   *)
(* Applier.  Instants are ticks; GitHub dates by them.                     *)
(***************************************************************************)
EXTENDS Safety

CONSTANTS
  Person,       \* the assignees
  RemindAfter,  \* how long an assignment may idle, in ticks
  Hours,        \* graces the repository may set: after minus remindAfter
  MaxNow,       \* bound on the clock
  LastChange,   \* nothing but the App changes anything after this instant
  MaxHuman,     \* bound on people's changes
  MaxFaults     \* bound on crashes

ASSUME GraceAssumption ==
  /\ RemindAfter \in Nat \ {0} /\ Hours \subseteq Nat \ {0} /\ Hours # {}
  /\ MaxNow \in Nat \ {0} /\ LastChange \in Nat /\ MaxHuman \in Nat /\ MaxFaults \in Nat
  /\ "close" \notin Person

VARIABLES
  kind,      \* "issue" or "pullRequest", for ever
  stored,    \* whether the ledger outlives a run: a server has a store, an action has none
  assigned,  \* per person: since when assigned, None if not
  working,   \* per person: newest qualifying activity, None if none
  item,      \* [meanings, closedBy, linked]: linked is whether a pull request is open for it
  humanAt,   \* newest change of the item by a person, None if none
  config,    \* mode and grace the repository set
  comments,  \* per topic: the warning comment that stands there, None if none
  rewritten, \* the warning comments that were rewritten for another (for the properties)
  warned,    \* per act's effect id: the recorded warning, None if none
  settled,   \* effects the ledger holds as landed
  open,      \* warnings posted whose landing is not recorded yet
  pass,      \* the sweep's pass over the item
  now, humans, faults

posts == <<comments, rewritten>>
world == <<kind, stored, assigned, working, item, humanAt, config, posts>>
ledger == <<warned, settled, open>>
vars == <<world, ledger, pass, now, humans, faults>>

Max2(a, b) == IF a = None THEN b ELSE IF b = None THEN a ELSE IF a > b THEN a ELSE b
NewestOf(instants) ==
  LET dated == instants \ {None}
  IN IF dated = {} THEN None ELSE CHOOSE t \in dated : \A u \in dated : u <= t

(* What the capability asks for, from the facts of one read.               *)

\* A pull request's acts all name the pull request; an issue's name one assignee each.
TopicOf(subject) == subject
Subjects == IF kind = "issue" THEN Person ELSE {"close"}
Topics == Person \cup {"close"}

\* What the facts carry of a pull request's activity is its assignees' (the commits, which
\* both readings take, are left out); what the gate reads live is anybody's.
AssigneesActivity(facts) == NewestOf({facts.working[p] : p \in {q \in Person : facts.assigned[q] # None}})
ActivityAt(facts, subject) == IF facts.kind = "issue" THEN facts.working[subject] ELSE AssigneesActivity(facts)

LiveActivity == NewestOf({working[p] : p \in Person})

\* The reason's start, here 0, moved by the activity.
assigneeClock(facts, p) == Max2(facts.assigned[p], facts.working[p])
pullRequestClock(facts) == Max2(0, AssigneesActivity(facts))
IdleSince(facts, subject) == IF facts.kind = "issue" THEN assigneeClock(facts, subject) ELSE pullRequestClock(facts)

\* The act of an intent: what a warning authorises and a request names.
release(p, since) ==
  [capability |-> "inactivity", change |-> p, cause |-> "assignmentWentStale", observed |-> since]
close(since) ==
  [capability |-> "inactivity", change |-> "close", cause |-> "pullRequestWentStale", observed |-> since]
Act(subject, since) == IF kind = "issue" THEN release(subject, since) ELSE close(since)

\* deriveIdempotencyKey: capability, item, operation and cause are one here, which leaves
\* the instant.  Whom the act is about is no part of it.
EffectId(act) == <<act.observed, "act">>
WarningId(act) == <<act.observed, "warning">>
EffectIds == (0..MaxNow) \X {"act"}
WarningIds == (0..MaxNow) \X {"warning"}

stillOnTheLadder(facts) == facts.closedBy = Open /\ "blocked" \notin facts.meanings

\* Every assignee past the clock of the assignment, unless a pull request is open for the
\* issue; the pull request past its own.
onIssue(facts) ==
  {p \in Person : /\ ~facts.linked /\ facts.assigned[p] # None
                  /\ facts.observed - assigneeClock(facts, p) >= RemindAfter}
onPullRequest(facts) == {s \in {"close"} : facts.observed - pullRequestClock(facts) >= RemindAfter}
StaleSubjects(facts) ==
  IF ~stillOnTheLadder(facts) THEN {} ELSE IF facts.kind = "issue" THEN onIssue(facts) ELSE onPullRequest(facts)

(* The decision (gateIntent, from the recorded warning on).                *)

Observed(meanings, closedBy) ==
  Project(IF kind = "issue" THEN "issue" ELSE "pullRequest", meanings, closedBy)

\* The configuration is the one the pass began with.
Write(facts, class, claims, seen, since) ==
  [capability |-> "inactivity", class |-> class,
   config |-> [mode |-> facts.config.mode, enabled |-> {"inactivity"},
               stated |-> [c \in {"inactivity"} |-> None]],
   missing |-> {}, kill |-> FALSE,
   world |-> DeriveWorld(Observed(seen.meanings, seen.closedBy), claims, {}),
   human |-> humanAt, since |-> since]

\* The act claims what the record showed; its warning only that the item is open.
ActClaims(facts) ==
  [present |-> facts.meanings, absent |-> {}, closed |-> facts.closedBy, mode |-> "noClaim"]
WarningClaims == [present |-> {}, absent |-> {}, closed |-> Open, mode |-> "noClaim"]

WarningVerdict(facts, seen, since) ==
  WriteVerdict(Write(facts, "humanFacingOutput", WarningClaims, seen, since))
ActVerdict(facts, seen, since, act, activity, instant) ==
  DestructiveVerdict(Write(facts, "clockTriggeredDestructive", ActClaims(facts), seen, since),
                     act, warned[EffectId(act)], activity, instant)

\* A warning effect on first sight, the act once its grace is over, nothing meanwhile.
Asked(facts, subject) ==
  LET act == Act(subject, IdleSince(facts, subject))
  IN [act |-> act, hours |-> facts.config.hours, activity |-> ActivityAt(facts, subject),
      does |-> IF warned[EffectId(act)] = None THEN "warn" ELSE "act"]
Approves(facts, effect) ==
  IF effect.does = "warn" THEN WarningVerdict(facts, facts, facts.observed) = "apply"
  ELSE ActVerdict(facts, facts, facts.observed, effect.act, effect.activity, facts.observed) = "apply"
Approved(facts) ==
  {effect \in {Asked(facts, subject) : subject \in StaleSubjects(facts)} : Approves(facts, effect)}

Instants == 0..MaxNow \cup {None}
Configs == [mode : {"active", "observe"}, hours : Hours]
Items == [meanings : SUBSET {"blocked"}, closedBy : {Open, "closedByApp"}, linked : BOOLEAN]
Named == [capability : {"inactivity"}, change : Topics,
          cause : {"assignmentWentStale", "pullRequestWentStale"}, observed : 0..MaxNow]
Comment == [act : Named, hours : Hours, at : 0..MaxNow]
Warning == [act : Named, warned : 0..MaxNow, hours : Hours, earliest : Nat]

ASSUME NoneAssumption == None \notin Nat /\ None \notin Comment

\* A pass is idle, holds what it read, or takes its effects one after another.
Facts == [at : {"read"}, kind : {kind}, observed : 0..MaxNow, assigned : [Person -> Instants],
          working : [Person -> Instants], meanings : SUBSET {"blocked"},
          closedBy : {Open, "closedByApp"}, linked : BOOLEAN, config : Configs]
Effects == [act : Named, hours : Hours, activity : Instants, does : {"warn", "act"}]
Passes ==
  [at : {"idle"}] \cup Facts
    \cup [at : {"next"}, effect : Effects, left : SUBSET Effects, facts : Facts,
          evaluated : 0..MaxNow]
    \cup [at : {"gate", "warn", "posted", "landed", "act"}, effect : Effects,
          left : SUBSET Effects, facts : Facts, evaluated : 0..MaxNow, seen : Items,
          live : Instants]
Idle == [at |-> "idle"]

Init ==
  /\ kind \in {"issue", "pullRequest"} /\ stored \in BOOLEAN
  /\ assigned \in [Person -> {None, 0, 1}] /\ (\E p \in Person : assigned[p] = 0)
  /\ working = [p \in Person |-> None]
  /\ item = [meanings |-> {}, closedBy |-> Open, linked |-> FALSE] /\ humanAt = None
  /\ config \in [mode : {"active"}, hours : Hours]
  /\ comments = [t \in Topics |-> None] /\ rewritten = {}
  /\ warned = [id \in EffectIds |-> None] /\ settled = {} /\ open = {}
  /\ pass = Idle /\ now = 1 /\ humans = 0 /\ faults = 0

\* hydrateWarnings: a run without a store reads the records its own comments carry.
Hydrated ==
  [id \in EffectIds |->
     LET standing == {t \in Topics : comments[t] # None /\ EffectId(comments[t].act) = id}
     IN IF standing = {} THEN None
        ELSE LET c == comments[CHOOSE t \in standing : TRUE]
             IN [act |-> c.act, warned |-> c.at, hours |-> c.hours, earliest |-> c.at + c.hours]]

\* The producer reads the item; a run of the action starts from its comments alone.
SweepReads ==
  /\ pass = Idle
  /\ pass' = [at |-> "read", kind |-> kind, observed |-> now, assigned |-> assigned,
              working |-> working,
              meanings |-> item.meanings, closedBy |-> item.closedBy, linked |-> item.linked,
              config |-> config]
  /\ IF stored THEN UNCHANGED ledger
     ELSE warned' = Hydrated /\ settled' = {} /\ open' = {}
  /\ UNCHANGED <<world, now, humans, faults>>

\* The effects one at a time, in the order the record lists their subjects, which is any.
Turns(left, facts, evaluated) ==
  IF left = {} THEN {Idle}
  ELSE {[at |-> "next", effect |-> e, left |-> left \ {e}, facts |-> facts,
         evaluated |-> evaluated] : e \in left}

\* decide(): every subject of the record.
Decide ==
  /\ pass.at = "read"
  /\ pass' \in Turns(Approved(pass), pass, now)
  /\ UNCHANGED <<world, ledger, now, humans, faults>>

Id(effect) == IF effect.does = "warn" THEN WarningId(effect.act) ELSE EffectId(effect.act)
GoesOn == pass' \in Turns(pass.left, pass.facts, pass.evaluated)

\* An effect whose history says it is done is skipped.
Skips ==
  /\ pass.at = "next" /\ Id(pass.effect) \in settled
  /\ GoesOn
  /\ UNCHANGED <<world, ledger, now, humans, faults>>

\* fresh(): the item, and for a pull request's act the live activity.
GateReads ==
  /\ pass.at = "next" /\ Id(pass.effect) \notin settled
  /\ pass' = [at |-> "gate", effect |-> pass.effect, left |-> pass.left, facts |-> pass.facts,
              evaluated |-> pass.evaluated, seen |-> item,
              live |-> IF kind = "pullRequest" THEN LiveActivity ELSE None]
  /\ UNCHANGED <<world, ledger, now, humans, faults>>

\* activityCancels: the later of the decision's reading and the live one.
NewestActivity(effect, live) == Max2(effect.activity, live)

\* What a person's change is compared with: the instant the decision began, which an
\* approved effect carries to its gate.  Mutant: the gate's own.
GateInstant == now
EvaluatedAt == pass.evaluated

GateVerdict ==
  IF pass.effect.does = "warn" THEN WarningVerdict(pass.facts, pass.seen, EvaluatedAt)
  ELSE ActVerdict(pass.facts, pass.seen, EvaluatedAt, pass.effect.act,
                  NewestActivity(pass.effect, pass.live), now)

GateJudges ==
  /\ pass.at = "gate"
  /\ IF GateVerdict = "apply" THEN pass' = [pass EXCEPT !.at = pass.effect.does] ELSE GoesOn
  /\ UNCHANGED <<world, ledger, now, humans, faults>>

\* The warning comment, created or rewritten in place under its topic.
Posted(effect) == [act |-> effect.act, hours |-> effect.hours, at |-> now]
WarningPosts ==
  /\ pass.at = "warn"
  /\ LET topic == TopicOf(pass.effect.act.change)
         stands == comments[topic] # None /\ comments[topic].act = pass.effect.act
                     /\ comments[topic].hours = pass.effect.hours
     IN IF stands THEN UNCHANGED posts
        ELSE /\ comments' = [comments EXCEPT ![topic] = Posted(pass.effect)]
             /\ rewritten' = rewritten \cup ({comments[topic]} \ {None})
  /\ open' = open \cup {Id(pass.effect)}
  /\ pass' = [pass EXCEPT !.at = "posted"]
  /\ UNCHANGED <<kind, stored, assigned, working, item, humanAt, config, warned, settled, now,
                 humans, faults>>

WarningLands ==
  /\ pass.at = "posted"
  /\ settled' = settled \cup {Id(pass.effect)} /\ open' = open \ {Id(pass.effect)}
  /\ pass' = [pass EXCEPT !.at = "landed"]
  /\ UNCHANGED <<world, warned, now, humans, faults>>

\* recordWarning: dated when it landed; the first one binds.
Recorded(effect) ==
  [act |-> effect.act, warned |-> now, hours |-> effect.hours, earliest |-> now + effect.hours]
WarningRecorded ==
  /\ pass.at = "landed"
  /\ LET id == EffectId(pass.effect.act)
     IN warned' = IF warned[id] # None THEN warned
                  ELSE [warned EXCEPT ![id] = Recorded(pass.effect)]
  /\ GoesOn
  /\ UNCHANGED <<world, settled, open, now, humans, faults>>

ActLands ==
  /\ pass.at = "act"
  /\ IF kind = "issue" THEN assigned' = [assigned EXCEPT ![pass.effect.act.change] = None] /\ UNCHANGED item
     ELSE item' = [item EXCEPT !.closedBy = "closedByApp"] /\ UNCHANGED assigned
  /\ settled' = settled \cup {Id(pass.effect)}
  /\ GoesOn
  /\ UNCHANGED <<kind, stored, working, humanAt, config, posts, warned, open, now, humans, faults>>

\* The pass dies.  A run of the action keeps nothing.
Crash ==
  /\ pass # Idle /\ faults < MaxFaults
  /\ faults' = faults + 1 /\ pass' = Idle
  /\ UNCHANGED <<world, ledger, now, humans>>

\* recover(): the posted comment is found and lands, and its pass carries no records.
Recovers ==
  /\ pass = Idle /\ stored
  /\ \E id \in open : open' = open \ {id} /\ settled' = settled \cup {id}
  /\ UNCHANGED <<world, warned, pass, now, humans, faults>>

(* People and the clock.                                                   *)

\* What a person does to an item is the newest human change of it: a comment or a commit,
\* an assignment, a label.  A pull request opened for an issue is not, nor is it read again.
MayChange == humans < MaxHuman /\ now <= LastChange

Works(p) ==
  /\ MayChange /\ working[p] # now
  /\ working' = [working EXCEPT ![p] = now]
  /\ humanAt' = now /\ humans' = humans + 1
  /\ UNCHANGED <<kind, stored, assigned, item, config, posts, ledger, pass, now, faults>>

Reassigns(p) ==
  /\ MayChange
  /\ assigned' = [assigned EXCEPT ![p] = IF @ = None THEN now ELSE None]
  /\ humanAt' = now /\ humans' = humans + 1
  /\ UNCHANGED <<kind, stored, working, item, config, posts, ledger, pass, now, faults>>

Pauses ==
  /\ MayChange
  /\ item' = [item EXCEPT !.meanings = {"blocked"} \ @]
  /\ humanAt' = now /\ humans' = humans + 1
  /\ UNCHANGED <<kind, stored, assigned, working, config, posts, ledger, pass, now, faults>>

Links ==
  /\ MayChange /\ kind = "issue"
  /\ item' = [item EXCEPT !.linked = ~@] /\ humans' = humans + 1
  /\ UNCHANGED <<kind, stored, assigned, working, humanAt, config, posts, ledger, pass, now, faults>>

Configures ==
  /\ MayChange
  /\ config' \in Configs \ {config}
  /\ humans' = humans + 1
  /\ UNCHANGED <<kind, stored, assigned, working, item, humanAt, posts, ledger, pass, now, faults>>

Tick ==
  /\ now < MaxNow
  /\ now' = now + 1
  /\ UNCHANGED <<world, ledger, pass, humans, faults>>

PassSteps ==
  \/ SweepReads \/ Decide \/ Skips \/ GateReads \/ GateJudges
  \/ WarningPosts \/ WarningLands \/ WarningRecorded \/ ActLands

Next ==
  \/ PassSteps \/ Crash \/ Recovers
  \/ \E p \in Person : Works(p) \/ Reassigns(p)
  \/ Pauses \/ Links \/ Configures \/ Tick

\* Sweeps come for ever, so that a step of a pass is always possible: weak fairness of
\* PassSteps is that they are taken for ever.
Fairness == []<><<PassSteps>>_vars /\ WF_vars(Recovers) /\ WF_vars(Tick)

Spec == Init /\ [][Next]_vars /\ Fairness

-----------------------------------------------------------------------------

TypeOK ==
  /\ kind \in {"issue", "pullRequest"} /\ stored \in BOOLEAN
  /\ assigned \in [Person -> Instants] /\ working \in [Person -> Instants]
  /\ item \in Items /\ humanAt \in Instants /\ config \in Configs
  /\ comments \in [Topics -> Comment \cup {None}] /\ rewritten \subseteq Comment
  /\ warned \in [EffectIds -> Warning \cup {None}]
  /\ settled \subseteq EffectIds \cup WarningIds /\ open \subseteq WarningIds
  /\ pass \in Passes
  /\ now \in 1..MaxNow /\ humans \in 0..MaxHuman /\ faults \in 0..MaxFaults

Acts(subject) ==
  \/ pass.at = "act" /\ kind = "issue" /\ pass.effect.act.change = subject /\ assigned'[subject] = None
                     /\ assigned[subject] # None /\ humans' = humans
  \/ kind = "pullRequest" /\ subject = "close" /\ item.closedBy = Open
                     /\ item'.closedBy = "closedByApp"

\* Whoever is acted on was told first, by a comment that names this very act, and has had
\* the whole grace that comment announced, whatever crashed, whatever the repository set
\* meanwhile, and whoever else idles since the same instant (grace.md 2 and 3).  For an
\* issue it is the comment that stands; a pull request's may have been rewritten since for
\* another act, as its clock goes back when an assignee who worked is unassigned.
Announced(c) == c.act = pass.effect.act /\ now >= c.at + c.hours
NobodyIsActedOnUntold ==
  [][\A subject \in Subjects : Acts(subject) =>
       LET standing == {comments[TopicOf(subject)]} \ {None}
       IN \E c \in (IF kind = "issue" THEN standing ELSE standing \cup rewritten) : Announced(c)]_vars

\* What a subject's clock started at, as things stand.
OwnSince(subject) ==
  IdleSince([kind |-> kind, assigned |-> assigned, working |-> working], subject)

\* Whoever the gate lets an act go to still idles since the instant the act names, as
\* things stand when the gate speaks and not when the pass read them: the assignee is
\* still assigned and did nothing since, and nobody touched a pull request since the
\* warning is recorded at (D119, D223, activityCancels).  What an unassigned author does
\* after the comment is posted and before it is recorded is not heeded, nor what anybody
\* does between the gate and the call, nor a pull request opened for the issue meanwhile.
ActivityIsHeeded ==
  [][pass.at = "gate" /\ pass'.at = "act" =>
       LET act == pass.effect.act
       IN /\ OwnSince(act.change) = act.observed
          /\ kind = "issue" => assigned[act.change] # None
          /\ kind = "pullRequest" =>
               LiveActivity = None \/ LiveActivity < warned[EffectId(act)].warned]_vars

\* Once people are quiet, a subject that idles under an active configuration is acted on
\* in the end, unless its first warning was posted and not recorded, the act of another
\* assignee who idles since the same instant already took the effect id they share, or
\* somebody who is not assigned worked on the pull request after the warning, which the
\* gate heeds and no clock does.
Due(subject) ==
  /\ subject \in Subjects /\ now = MaxNow /\ config.mode = "active"
  /\ item = [meanings |-> {}, closedBy |-> Open, linked |-> FALSE]
  /\ kind = "issue" => assigned[subject] # None
Unrecorded(subject) ==
  stored /\ <<OwnSince(subject), "warning">> \in settled /\ warned[<<OwnSince(subject), "act">>] = None
SharesId(subject) ==
  LET id == <<OwnSince(subject), "act">>
  IN warned[id] # None /\ warned[id].act.change # subject
Unfinished(subject) ==
  LET w == warned[<<OwnSince(subject), "act">>] IN w # None /\ w.earliest > MaxNow
HeededOnly(subject) ==
  LET w == warned[<<OwnSince(subject), "act">>]
  IN kind = "pullRequest" /\ w # None /\ ActivitySinceWarning(LiveActivity, w)
Stalled(subject) ==
  /\ Due(subject) /\ ~Unfinished(subject)
  /\ ~Unrecorded(subject) /\ ~SharesId(subject) /\ ~HeededOnly(subject)
StaleIsActedOn == \A subject \in Topics : []<>~Stalled(subject)
=============================================================================
