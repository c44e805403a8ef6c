----------------------------- MODULE LabelMove -----------------------------
(***************************************************************************)
(* A move of one pull request between positions, from the facts a pass     *)
(* read to the last of its calls (engine/decide.ts, shell/apply/gates.ts,  *)
(* operations/applyMappedLabel.ts, and recovery in shell/apply/apply.ts).  *)
(* Several passes, recovery and people work on the item at once.  The plan *)
(* is defineLabel, addLabel, removeLabel; the label is taken as defined.   *)
(***************************************************************************)
EXTENDS Safety

CONSTANTS
  Lane,        \* passes that may run at once
  Delivery,    \* those that a delivery brings back after a crash
  Movable,     \* positions passes and people move the item between
  MaxNow,      \* bound on the clock
  MaxHuman,    \* bound on people's changes
  MaxLosses    \* bound on answers lost and passes cut off

ASSUME LabelMoveAssumption ==
  /\ Delivery \subseteq Lane /\ Movable \subseteq PrMeanings
  /\ MaxNow \in Nat /\ MaxHuman \in Nat /\ MaxLosses \in Nat

VARIABLES
  labels,     \* the item's mapped labels, as meanings
  closedBy,   \* its closure
  now,
  humanAt,    \* when a person last changed either, None if nobody did
  pass,       \* per lane: where its pass stands
  half,       \* per lane: the move a crash cut off after its first call
  open,       \* sends without an answer, which recovery finds in the ledger
  mending,    \* the send recovery read back as not held, about to be sent again
  humans, losses,
  resent,     \* history: recovery has sent a removal again
  crossed     \* history: lanes whose item somebody else changed since their gate read it

item == <<labels, closedBy>>
vars == <<item, now, humanAt, pass, half, open, mending, humans, losses, resent, crossed>>

Idle == [at |-> "idle"]
Call(verb, meaning) == [verb |-> verb, meaning |-> meaning]

Positions(meanings) == meanings \cap PrMeanings

\* derivedClaims: everything the record shows, and the label it does not show yet.
Claims(p) ==
  [present |-> p.facts, absent |-> {p.to} \ p.facts, closed |-> p.closed, mode |-> "noClaim"]

\* displacedBy: the position the record held.
\* Mutant: a position alone is left where it is.
DisplacedIfTwo(p) ==
  IF Cardinality(Positions(p.facts)) > 1 THEN Positions(p.facts) \ {p.to} ELSE {}
Displaced(p) == Positions(p.facts) \ {p.to}

Init ==
  /\ labels \in {{}, {"needsReview"}} /\ closedBy = Open
  /\ now = 0 /\ humanAt = None
  /\ pass = [l \in Lane |-> Idle] /\ half = [l \in Lane |-> None]
  /\ open = {} /\ mending = None
  /\ humans = 0 /\ losses = 0 /\ resent = FALSE /\ crossed = {}

Is(l, place) == pass[l].at = place
Goes(l, place) == pass' = [pass EXCEPT ![l].at = place]
Stops(l) == pass' = [pass EXCEPT ![l] = Idle]

\* The producer's record: what the item shows, and when it was seen.
ReadFacts(l) ==
  /\ Is(l, "idle") /\ half[l] = None
  /\ pass' = [pass EXCEPT ![l] = [at |-> "read", facts |-> labels,
                                  closed |-> IF closedBy = Open THEN Open ELSE "closed",
                                  observed |-> now]]
  /\ UNCHANGED <<item, now, humanAt, half, open, mending, humans, losses, resent, crossed>>

ActiveConfig ==
  [mode |-> "active", enabled |-> {"prDashboard"}, stated |-> [c \in {"prDashboard"} |-> None]]

\* gateIntent and fresh: one ladder, over what was read and the newest human change.
LadderVerdict(p, meanings, closure, since) ==
  WriteVerdict([capability |-> "prDashboard", class |-> "reversibleStateChange",
                config |-> ActiveConfig, missing |-> {}, kill |-> FALSE,
                world |-> DeriveWorld(Project("pullRequest", meanings, closure), Claims(p), {}),
                human |-> humanAt, since |-> since])

\* The decision, judged by when its facts were seen and stamped with when it began.
Decides(p, to, cause) ==
  LET closure == IF p.closed = Open THEN Open ELSE "closedByHuman"
      asked == [at |-> "approved", facts |-> p.facts, closed |-> p.closed,
                observed |-> p.observed, to |-> to, evaluated |-> now]
  IN IF /\ p.closed = Open
        /\ ScreenMove(Project("pullRequest", p.facts, closure), to, cause) = "ok"
        /\ LadderVerdict(asked, p.facts, closure, p.observed) = "apply"
     THEN asked ELSE Idle

Decide(l) ==
  /\ Is(l, "read")
  /\ \E to \in Movable, cause \in CausesOf("pullRequest") :
       pass' = [pass EXCEPT ![l] = Decides(pass[l], to, cause)]
  /\ UNCHANGED <<item, now, humanAt, half, open, mending, humans, losses, resent, crossed>>

\* fresh(): the item is read, then the newest human change, then the ladder answers.
GateReads(l) ==
  /\ Is(l, "approved")
  /\ pass' = [pass EXCEPT ![l] = [at |-> "seen", facts |-> @.facts, closed |-> @.closed,
                                  observed |-> @.observed, to |-> @.to, evaluated |-> @.evaluated,
                                  seen |-> labels, closure |-> closedBy]]
  /\ crossed' = crossed \ {l}
  /\ UNCHANGED <<item, now, humanAt, half, open, mending, humans, losses, resent>>

GateJudges(l) ==
  LET p == pass[l]
  IN /\ Is(l, "seen")
     /\ IF LadderVerdict(p, p.seen, p.closure, p.evaluated) = "apply"
        THEN pass' = [pass EXCEPT ![l] = [at |-> "add", facts |-> p.facts, to |-> p.to,
                                          closed |-> p.closed, observed |-> p.observed]]
        ELSE Stops(l)
     /\ UNCHANGED <<item, now, humanAt, half, open, mending, humans, losses, resent, crossed>>

\* What one call does to the item.
Performed(call) ==
  IF call.verb = "addLabel" THEN labels \cup {call.meaning} ELSE labels \ {call.meaning}

\* Mutant: the old position goes first.
PlanRemovingFirst(p) ==
  {Call("removeLabel", old) : old \in IF p.at = "add" THEN Displaced(p) ELSE {}}
    \cup {Call("addLabel", p.to) : x \in IF p.at = "remove" \/ Displaced(p) = {} THEN {1} ELSE {}}
NextCalls(p) ==
  IF p.at = "add" THEN {Call("addLabel", p.to)}
  ELSE {Call("removeLabel", old) : old \in Displaced(p)}

\* Everyone else's gate read is out of date.
Crosses(l) == crossed' = IF labels' = labels THEN crossed ELSE crossed \cup (Lane \ {l})

\* A call that is performed and read back as held; the plan goes on or is over.
Lands(l) ==
  LET p == pass[l]
  IN /\ p.at \in {"add", "remove"}
     /\ \E call \in NextCalls(p) : labels' = Performed(call)
     /\ IF p.at = "add" /\ Displaced(p) # {} THEN Goes(l, "remove") ELSE Stops(l)
     /\ Crosses(l)
     /\ UNCHANGED <<closedBy, now, humanAt, half, open, mending, humans, losses, resent>>

\* A call whose answer is lost, performed or not: its send stays open.
IsLost(l) ==
  LET p == pass[l]
  IN /\ p.at \in {"add", "remove"} /\ losses < MaxLosses
     /\ \E call \in NextCalls(p) :
          /\ labels' \in {labels, Performed(call)}
          /\ open' = open \cup {call}
     /\ losses' = losses + 1
     /\ Stops(l)
     /\ Crosses(l)
     /\ UNCHANGED <<closedBy, now, humanAt, half, mending, humans, resent>>

\* The pass ends between two calls: its allowance is spent, or the process dies.  Only
\* a delivery that a crash cut off is decided again, from the same payload.
IsCutOff(l) ==
  /\ pass[l].at \in {"add", "remove"} /\ losses < MaxLosses
  /\ losses' = losses + 1
  /\ half' \in {half, IF Is(l, "remove") /\ l \in Delivery
                      THEN [half EXCEPT ![l] = pass[l]] ELSE half}
  /\ Stops(l)
  /\ UNCHANGED <<item, now, humanAt, open, mending, humans, resent, crossed>>

\* The same effect again: the plan has begun, so only the standing gate is asked.
Resume(l) ==
  LET p == half[l]
      closure == IF p.closed = Open THEN Open ELSE "closedByHuman"
  IN /\ Is(l, "idle") /\ p # None
     /\ half' = [half EXCEPT ![l] = None]
     /\ pass' = [pass EXCEPT ![l] = IF LadderVerdict(p, p.facts, closure, p.observed) = "apply"
                                    THEN p ELSE Idle]
     /\ UNCHANGED <<item, now, humanAt, open, mending, humans, losses, resent, crossed>>

\* recover(): the one open call is read back.  Held, it landed; the rest of its plan is
\* not recovery's.  Not held, it is sent again past the standing gate, which reads no item.
Held(call) == (call.verb = "addLabel") = (call.meaning \in labels)

RecoveryReads ==
  /\ mending = None
  /\ \E call \in open : IF Held(call) THEN open' = open \ {call} /\ UNCHANGED mending
                        ELSE mending' = call /\ UNCHANGED open
  /\ UNCHANGED <<item, now, humanAt, pass, half, humans, losses, resent, crossed>>

Resend ==
  /\ mending # None
  /\ labels' = Performed(mending)
  /\ open' = open \ {mending}
  /\ mending' = None
  /\ crossed' = IF labels' = labels THEN crossed ELSE Lane
  /\ resent' = (resent \/ mending.verb = "removeLabel")
  /\ UNCHANGED <<closedBy, now, humanAt, pass, half, humans, losses>>

\* A person moves, pauses, closes or reopens the item.
Human ==
  /\ humans < MaxHuman
  /\ \/ \E meaning \in Movable \cup {"blocked"} :
          labels' \in {labels \cup {meaning}, labels \ {meaning}} /\ labels' # labels
        /\ UNCHANGED closedBy
     \/ closedBy' = (IF closedBy = Open THEN "closedByHuman" ELSE Open) /\ UNCHANGED labels
  /\ humanAt' = now
  /\ humans' = humans + 1
  /\ crossed' = Lane
  /\ UNCHANGED <<now, pass, half, open, mending, losses, resent>>

Tick ==
  /\ now < MaxNow
  /\ now' = now + 1
  /\ UNCHANGED <<item, humanAt, pass, half, open, mending, humans, losses, resent, crossed>>

PassSteps(l) ==
  ReadFacts(l) \/ Decide(l) \/ GateReads(l) \/ GateJudges(l) \/ Lands(l) \/ Resume(l)

Next ==
  \/ \E l \in Lane : PassSteps(l) \/ IsLost(l) \/ IsCutOff(l)
  \/ RecoveryReads \/ Resend \/ Human \/ Tick

Spec == Init /\ [][Next]_vars

-----------------------------------------------------------------------------

TypeOK ==
  /\ labels \subseteq PrMeanings \cup {"blocked"} /\ closedBy \in {Open, "closedByHuman"}
  /\ now \in 0..MaxNow /\ humanAt \in 0..MaxNow \cup {None}
  /\ \A l \in Lane : pass[l].at \in {"idle", "read", "approved", "seen", "add", "remove"}
  /\ open \subseteq [verb : {"addLabel", "removeLabel"}, meaning : PrMeanings]
  /\ mending \in open \cup {None} /\ crossed \subseteq Lane

\* A person's change made after the facts were seen, or after the decision began, always
\* stops the move at its gate, however the change falls between the gate's reads and
\* within the second GitHub dates it with (rules.ts newerHumanChange, D33, D221).
GateYieldsToHuman ==
  [][\A l \in Lane : Is(l, "seen") /\ pass'[l].at = "add" =>
       humanAt = None \/ (humanAt < pass[l].observed /\ humanAt < pass[l].evaluated)]_vars

\* A move from a position that runs to its end, and that nobody crossed since its gate
\* read the item, leaves exactly the position it was asked for: one label added, every
\* other gone.  A move from none has no such promise: its record claims the absence of
\* its own label only, so a position that came since is joined, not displaced.
MoveLandsWhole ==
  [][\A l \in Lane : pass[l].at \in {"add", "remove"} /\ Is(l, "idle")' /\ l \notin crossed
                       /\ losses' = losses /\ Positions(pass[l].facts) # {}
                       => Positions(labels)' = {pass[l].to}]_vars

\* Passes never leave an item without the position it had, whatever they do at once and
\* whichever of them are lost or cut off: the only removals that can are one recovery sent
\* again, and one whose item somebody changed since its gate (applyMappedLabel.ts plan).
PositionIsKept ==
  [][Positions(labels) # {} /\ Positions(labels)' = {} =>
       \/ humans' # humans
       \/ resent'
       \/ \E l \in crossed : Is(l, "remove") /\ Is(l, "idle")']_vars
=============================================================================
