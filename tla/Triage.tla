------------------------------- MODULE Triage -------------------------------
(***************************************************************************)
(* A new issue at the front gate, from its webhook deliveries to the calls *)
(* they earn: engine/events.ts and normalize/issues.ts read the payload,   *)
(* the triageQueue capability answers it, engine/decide.ts gates what it   *)
(* asks, and shell/decide/item.ts applies the effects one after another.   *)
(* GitHub delivers in any order, and each payload shows the issue as it    *)
(* was when it was made; one lane decides a delivery at a time.            *)
(***************************************************************************)
EXTENDS Safety

CONSTANTS
  MaxNow,       \* bound on the clock
  MaxChanges,   \* bound on what people and machines do to the issue
  MaxFailures   \* bound on reads and calls that fail

VARIABLES
  settings,   \* the capability's block: lockUntilTriaged, welcome, skill
  author,     \* who opened the issue
  labels,     \* its mapped labels: meanings, and "skill" for a mapped tier
  locked,
  welcome,    \* the managed welcome, None before it is posted: [skills, from]
  now,
  changes,    \* the timeline: what was done to the issue, and by whom
  inbox,      \* deliveries not decided yet
  pass,       \* the lane
  failures,
  silent,     \* history: the welcome could not be read for, or posted
  lockedThen  \* history: whether it was locked when its timeline last grew

issue == <<labels, locked, welcome>>
vars == <<settings, author, issue, now, changes, inbox, pass, failures, silent, lockedThen>>

Person == {"author", "maintainer"}
Machine == {"machine"}
Positions == IssueMeanings

Idle == [at |-> "idle"]

\* A payload: the action, what it is about, and the issue as it was.
Payload(action, about, by, id) ==
  [action |-> action, about |-> about, by |-> by, at |-> now, id |-> id,
   labels |-> labels', locked |-> locked]

Opened(by, labelled) ==
  [action |-> "opened", about |-> None, by |-> by, at |-> 0, id |-> 0,
   labels |-> labelled, locked |-> FALSE]

Init ==
  /\ settings \in [lockUntilTriaged : BOOLEAN, welcome : {FALSE}, skill : BOOLEAN]
  /\ settings.lockUntilTriaged \/ settings.skill   \* a bound: no settings, no lock
  /\ labels \in {{}, {"awaitingTriage"}}   \* a template may have labelled it
  /\ author = "author" \/ (author = "machine" /\ labels = {} /\ ~settings.skill)
  /\ locked = FALSE /\ welcome = None /\ now = 0 /\ changes = <<>>
  /\ inbox = {Opened(author, labels)}
  /\ pass = Idle /\ failures = 0 /\ silent = FALSE /\ lockedThen = FALSE

----------------------------------------------------------------------------
(* The issue's side.                                                       *)

Did(kind, about, by) == [kind |-> kind, about |-> about, by |-> by, at |-> now]

\* A label moves, and its delivery is made from what the issue then shows.
Relabels(by, about) ==
  /\ Len(changes) < MaxChanges
  /\ labels' = IF about \in labels THEN labels \ {about} ELSE labels \cup {about}
  /\ LET action == IF about \in labels THEN "unlabeled" ELSE "labeled"
     IN /\ changes' = Append(changes, Did(action, about, by))
        /\ inbox' = inbox \cup {Payload(action, about, by, Len(changes) + 1)}
  /\ lockedThen' = locked
  /\ UNCHANGED <<settings, author, locked, welcome, now, pass, failures, silent>>

\* A comment counts as a change of whoever wrote it; this capability hears none.
Comments(by) ==
  /\ Len(changes) < MaxChanges
  /\ changes' = Append(changes, Did("commented", None, by))
  /\ lockedThen' = locked
  /\ UNCHANGED <<settings, author, issue, now, inbox, pass, failures, silent>>

Tick ==
  /\ now < MaxNow
  /\ now' = now + 1
  /\ UNCHANGED <<settings, author, issue, changes, inbox, pass, failures, silent, lockedThen>>

----------------------------------------------------------------------------
(* The delivery, read: what arrived, and what the payload shows.           *)

Meanings(shown) == shown \ {"skill"}
Projection(shown) == Project("issue", Meanings(shown), Open)

\* arrival, as normalize/issues.ts spells it.
IsOpening(d) == d.action = "opened"
Added(d, about) == d.action = "labeled" /\ d.about = about
Removed(d, about) == d.action = "unlabeled" /\ d.about = about
MovedSkill(d) == Added(d, "skill") \/ Removed(d, "skill")

\* causeFingerprintOf and takeShownLabel: of the changes by the delivery's own hand in its
\* second whose result the payload shows, the first of each label counts for nothing.
IsShown(d, change) ==
  /\ change.by = d.by /\ SecondOf(change.at) = SecondOf(d.at)
  /\ change.kind \in {"labeled", "unlabeled"}
  /\ (change.about \in d.labels) = (change.kind = "labeled")
IsOwn(d, k) ==
  /\ IsShown(d, changes[k])
  /\ \A j \in 1..(k - 1) : IsShown(d, changes[j]) => changes[j].about # changes[k].about

HumanAt(d) ==
  LET counted == {k \in 1..Len(changes) :
                    changes[k].by \in Person /\ ~IsOwn(d, k)}
  IN IF counted = {} THEN None
     ELSE CHOOSE at \in {changes[k].at : k \in counted} :
            \A k \in counted : changes[k].at <= at

----------------------------------------------------------------------------
(* triageQueue: what the capability asks for, in the order it asks.        *)

Ask(op, body) == [op |-> op, body |-> body]
When(condition, ask) == IF condition THEN <<ask>> ELSE <<>>

\* checklist: one row for each requirement, read from the payload.
Checklist(d) == [skills |-> d.labels \cap {"skill"}, from |-> d.id]

\* onOpened
\* Mutant: the lock goes first.
OnOpenedLockFirst(d) ==
  LET before == PositionIn(Projection(d.labels))
  IN IF before \notin {NoPosition, "awaitingTriage"} THEN <<>>
     ELSE When(settings.lockUntilTriaged /\ ~d.locked, Ask("lockIssue", None))
          \o When(before = NoPosition, Ask("applyMappedLabel", None))
          \o When(settings.welcome \/ settings.lockUntilTriaged \/ settings.skill,
                  Ask("postManagedComment", Checklist(d)))
OnOpened(d) ==
  LET projection == Projection(d.labels)
      before == PositionIn(projection)
  IN IF IsConflict(projection) \/ before \notin {NoPosition, "awaitingTriage"} THEN <<>>
     ELSE When(before = NoPosition, Ask("applyMappedLabel", None))
          \o When(settings.welcome \/ settings.lockUntilTriaged \/ settings.skill,
                  Ask("postManagedComment", Checklist(d)))
          \o When(settings.lockUntilTriaged /\ ~d.locked, Ask("lockIssue", None))

\* onChecklistChanged
OnChecklistChanged(d) ==
  When(settings.skill /\ Projection(d.labels).positions = {"awaitingTriage"},
       Ask("postManagedComment", Checklist(d)))

\* onTriaged; its confirmation is one more comment, left out.
OnTriaged(d) == When(settings.lockUntilTriaged /\ d.locked, Ask("unlockIssue", None))

\* completesTriage
CompletesTriage(d) ==
  \/ Added(d, "ready")
  \/ Removed(d, "awaitingTriage") /\ Projection(d.labels).positions = {"ready"}

Asked(d) ==
  CASE IsOpening(d) -> IF author \in Machine THEN <<>> ELSE OnOpened(d)
    [] ~IsOpening(d) /\ CompletesTriage(d) -> IF d.by \in Machine THEN <<>> ELSE OnTriaged(d)
    [] ~IsOpening(d) /\ ~CompletesTriage(d) /\ MovedSkill(d) ->
         IF author \in Machine THEN <<>> ELSE OnChecklistChanged(d)
    [] OTHER -> <<>>

----------------------------------------------------------------------------
(* The gates, at the decision and at the act.                              *)

ActiveConfig ==
  [mode |-> "active", enabled |-> {"triageQueue"}, stated |-> [c \in {"triageQueue"} |-> None]]

\* derivedClaims: what the record shows holds, and the label it adds is not there yet.
Claims(d, ask) ==
  [present |-> Meanings(d.labels),
   absent |-> IF ask.op = "applyMappedLabel" THEN {"awaitingTriage"} \ d.labels ELSE {},
   closed |-> Open, mode |-> "noClaim"]

Ladder(d, ask, shown, human, since) ==
  WriteVerdict([capability |-> "triageQueue",
                class |-> IF ask.op = "postManagedComment" THEN "humanFacingOutput"
                          ELSE "reversibleStateChange",
                config |-> ActiveConfig, missing |-> {}, kill |-> FALSE,
                world |-> DeriveWorld(Projection(shown), Claims(d, ask), {}),
                human |-> human, since |-> since])

Screened(d, ask) ==
  ask.op = "applyMappedLabel" =>
    ScreenMove(Projection(d.labels), "awaitingTriage", "intakeObserved") = "ok"

\* decide(): every intent is judged by the payload.
Judged(d, human, since, n) ==
  LET asks == Asked(d)
  IN When(n \in DOMAIN asks /\ Screened(d, asks[n])
            /\ Ladder(d, asks[n], d.labels, human, since) = "apply", asks[n])

\* What is approved, in its order and as of when the delivery was made; nothing asks for
\* more than three effects.
\* Mutant: judged by when the evaluation began, as the act is.
ApprovedAsOfNow(d, human) ==
  Judged(d, human, now + 1, 1) \o Judged(d, human, now + 1, 2) \o Judged(d, human, now + 1, 3)
Approved(d, human) ==
  Judged(d, human, d.at, 1) \o Judged(d, human, d.at, 2) \o Judged(d, human, d.at, 3)

\* The next effect, or the delivery is done.
WithEffects(p, left) ==
  IF left = <<>> THEN Idle ELSE [p EXCEPT !.at = "gate", !.left = left]

Decides(d) ==
  /\ pass = Idle /\ d \in inbox
  /\ inbox' = inbox \ {d}
  /\ \E human \in {HumanAt(d)} \cup (IF failures < MaxFailures THEN {Unknown} ELSE {}) :
       /\ pass' = WithEffects([at |-> "deciding", delivery |-> d, evaluated |-> now,
                               left |-> <<>>, seen |-> {}],
                              Approved(d, human))
       /\ failures' = IF human = Unknown THEN failures + 1 ELSE failures
  /\ UNCHANGED <<settings, author, issue, now, changes, silent, lockedThen>>

Doing == Head(pass.left)
Onward == pass' = WithEffects(pass, Tail(pass.left))
Silences == silent' = (silent \/ Doing.op = "postManagedComment")

\* fresh(): the item, and then the newest human change and the ladder.
GateReads ==
  /\ pass.at = "gate"
  /\ pass' = [pass EXCEPT !.at = "seen", !.seen = labels]
  /\ UNCHANGED <<settings, author, issue, now, changes, inbox, failures, silent, lockedThen>>

GateJudges ==
  LET d == pass.delivery
      verdict == Ladder(d, Doing, pass.seen, HumanAt(d), pass.evaluated)
  IN /\ pass.at = "seen"
     /\ IF verdict = "apply" THEN pass' = [pass EXCEPT !.at = "send"] ELSE Onward
     /\ UNCHANGED <<settings, author, issue, now, changes, inbox, failures, silent, lockedThen>>

\* The call lands, and the next effect is taken up.
Lands ==
  /\ pass.at = "send"
  /\ labels' = IF Doing.op = "applyMappedLabel" THEN labels \cup {"awaitingTriage"} ELSE labels
  /\ locked' = CASE Doing.op = "lockIssue" -> TRUE
                 [] Doing.op = "unlockIssue" -> FALSE
                 [] OTHER -> locked
  /\ welcome' = IF Doing.op = "postManagedComment" THEN Doing.body ELSE welcome
  /\ Onward
  /\ UNCHANGED <<settings, author, now, changes, inbox, failures, silent, lockedThen>>

\* A read or a call fails: this effect waits for nobody, and the next one is taken up.
Fails ==
  /\ pass.at \in {"gate", "seen", "send"} /\ failures < MaxFailures
  /\ failures' = failures + 1
  /\ Silences
  /\ Onward
  /\ UNCHANGED <<settings, author, issue, now, changes, inbox, lockedThen>>

Next ==
  \/ \E about \in {"awaitingTriage", "ready", "skill", "blocked"} : Relabels("maintainer", about)
  \/ \E about \in {"ready", "skill"} : Relabels("machine", about)
  \/ Comments("author")
  \/ Tick
  \/ \E d \in inbox : Decides(d)
  \/ GateReads \/ GateJudges \/ Lands \/ Fails

Spec == Init /\ [][Next]_vars

-----------------------------------------------------------------------------

TypeOK ==
  /\ labels \subseteq Meaning \cup {"skill"} /\ locked \in BOOLEAN
  /\ now \in 0..MaxNow /\ Len(changes) <= MaxChanges /\ failures \in 0..MaxFailures
  /\ pass.at \in {"idle", "gate", "seen", "send"}

Last == changes[Len(changes)]

\* The issue stands triaged: the newest thing anybody did is the maintainer's, it left the
\* clean `ready` position, the issue was locked by then, and whatever else people did in
\* that second is the maintainer's too and still shows.
StandsTriaged ==
  /\ changes # <<>> /\ lockedThen
  /\ Last.by = "maintainer"
  /\ \/ Last.kind = "labeled" /\ Last.about = "ready"
     \/ Last.kind = "unlabeled" /\ Last.about = "awaitingTriage"
  /\ Meanings(labels) = {"ready"}
  /\ \A k \in 1..(Len(changes) - 1) :
       changes[k].by \in Person /\ SecondOf(changes[k].at) = SecondOf(Last.at) =>
         /\ changes[k].by = "maintainer" /\ changes[k].kind # "commented"
         /\ \A j \in (k + 1)..Len(changes) : changes[j].about # changes[k].about

\* A person who leaves a locked issue at `ready` finds it unlocked when its deliveries
\* have been decided, in whatever order they came: the one that shows the clean position
\* releases it, and the changes made in the same second do not refuse each other (D217).
TriagedIsUnlocked ==
  pass = Idle /\ inbox = {} /\ failures = 0 /\ settings.lockUntilTriaged /\ StandsTriaged
    => ~locked

\* The platform's lock never stands without the word that explains it: the word is posted
\* first, and a person's change that stops it at its gate stops the lock at the next
\* (design.md: "a lock with no word about why is the one outcome an author resents").
\* Two things part them: a word that could not be sent, and a machine's labels, which no
\* ordering counts, in conflict at the first gate and not at the second.
LockIsExplained ==
  locked => welcome # None \/ silent \/ \E k \in 1..Len(changes) : changes[k].by \in Machine

\* A checklist drawn from an older payload never replaces a newer one, although GitHub
\* delivers in any order and the lane compares no payloads: the newer delivery was some
\* person's change, and that refuses the older.  A machine's change is nobody's, so a
\* tier that a machine moved may be overwritten by the tier it replaced.
ChecklistStep ==
  welcome # None /\ welcome' # welcome =>
    \/ welcome'.from >= welcome.from
    \/ \E k \in 1..Len(changes) : changes[k].by \in Machine /\ changes[k].about = "skill"

NewerChecklistStays == [][ChecklistStep]_vars
=============================================================================
