------------------------------ MODULE Workflow ------------------------------
(***************************************************************************)
(* Positions and the map between them (core/workflow): what an item's      *)
(* labels say of it, which moves the map draws, and what the platform      *)
(* screens a label move against (engine/invoke.ts).  A label stands for    *)
(* the meaning the repository maps it to.                                  *)
(***************************************************************************)
EXTENDS Naturals, FiniteSets

NoPosition == "noPosition"
Open == "open"

Flow == {"issue", "pullRequest"}
IssueMeanings == {"awaitingTriage", "ready", "inProgress"}
PrMeanings == {"needsReview", "needsRevision", "readyToMerge"}
Meaning == IssueMeanings \cup PrMeanings \cup {"blocked"}

PositionsOf(flow) == IF flow = "issue" THEN IssueMeanings ELSE PrMeanings

Edge(from, to, causes) == [from |-> from, to |-> to, causes |-> causes]

IssueEdges ==
  { Edge(NoPosition, "awaitingTriage", {"intakeObserved"}),
    Edge("awaitingTriage", "ready", {"triageCompleted"}),
    Edge("ready", "inProgress", {"contributorAssigned"}),
    Edge("inProgress", "ready", {"lastContributorUnassigned", "reclaimCompleted"}),
    Edge("awaitingTriage", "closed", {"humanClosed"}),
    Edge("ready", "closed", {"humanClosed", "linkedMergeClosed"}),
    Edge("inProgress", "closed", {"humanClosed", "linkedMergeClosed"}) }

PrEdges ==
  { Edge(NoPosition, "needsReview", {"checksPassed"}),
    Edge(NoPosition, "needsRevision", {"checksFailed"}),
    Edge("needsReview", "needsRevision", {"checksFailed", "reviewRequestedChanges"}),
    Edge("needsRevision", "needsReview", {"revisionResolved"}),
    Edge("needsReview", "readyToMerge", {"reviewPolicySatisfied"}),
    Edge("readyToMerge", "needsReview", {"approvalInvalidated"}),
    Edge("readyToMerge", "needsRevision", {"checksFailed"}) }
    \cup {Edge(position, "closed", {"humanClosed", "merged"}) : position \in PrMeanings}

EdgesOf(flow) == IF flow = "issue" THEN IssueEdges ELSE PrEdges
CausesOf(flow) == UNION {e.causes : e \in EdgesOf(flow)}

\* closureReasonFor
ClosureReasonFor(cause) ==
  CASE cause = "merged" -> "merged"
    [] cause = "linkedMergeClosed" -> "completedByLinkedMerge"
    [] cause = "humanClosed" -> "closedByHuman"
    [] OTHER -> Open

(* project.ts: what the mapped labels of an item say of it.                *)

Project(flow, meanings, closedBy) ==
  [flow |-> flow, positions |-> meanings \cap PositionsOf(flow),
   blocked |-> "blocked" \in meanings, closedBy |-> closedBy,
   ignored |-> meanings \ (PositionsOf(flow) \cup {"blocked"})]

IsConflict(projection) == Cardinality(projection.positions) > 1

PositionIn(projection) ==
  IF projection.positions = {} THEN NoPosition ELSE CHOOSE p \in projection.positions : TRUE

\* observedMeaningsOf
ObservedMeanings(projection) ==
  projection.positions \cup projection.ignored
    \cup (IF projection.blocked THEN {"blocked"} ELSE {})

(* world.ts: whether a claim still holds of what was observed.             *)

\* A claim of closure is Open, "closed" or None, no claim.
ExpectedHolds(claims, projection, modes) ==
  LET observed == ObservedMeanings(projection)
      closed == IF projection.closedBy = Open THEN Open ELSE "closed"
  IN /\ claims.present \subseteq observed
     /\ claims.absent \cap observed = {}
     /\ claims.closed \in {"noClaim", closed}
     /\ claims.mode \in modes \cup {"noClaim"}

\* deriveWorld: no projection, or a conflicted one, holds no precondition.
DeriveWorld(projection, claims, modes) ==
  [meanings |-> ObservedMeanings(projection), closure |-> projection.closedBy,
   holds |-> ~IsConflict(projection) /\ ExpectedHolds(claims, projection, modes)]

(* transitions.ts and invoke.ts: the moves a capability may ask for.       *)

Verdict(flow, from, to, cause) ==
  LET edges == {e \in EdgesOf(flow) : e.from = from /\ e.to = to}
  IN IF edges = {} THEN "noSuchEdge"
     ELSE IF \A e \in edges : cause \notin e.causes THEN "causeNotAccepted"
     ELSE "allowed"

\* reference.ts walk: one transition of an item's state, by its rulebook.
Walk(flow, state, request) ==
  LET verdict == Verdict(flow, request.from, request.to, request.cause)
      refused == CASE state.closedBy # Open -> "itemClosed"
                   [] state.closedBy = Open /\ state.blocked -> "itemBlocked"
                   [] state.closedBy = Open /\ ~state.blocked /\ state.meaning # request.from -> "stalePrecondition"
                   [] OTHER -> verdict
  IN [verdict |-> refused,
      state |-> IF refused # "allowed" THEN state
                ELSE IF request.to = "closed"
                THEN [state EXCEPT !.closedBy = ClosureReasonFor(request.cause)]
                ELSE [state EXCEPT !.meaning = request.to]]

\* applyReopen: reopening clears the closure and moves nothing.
Reopen(state) ==
  CASE state.closedBy = Open -> [verdict |-> "notClosed", state |-> state]
    [] state.closedBy = "merged" -> [verdict |-> "mergedNotReopenable", state |-> state]
    [] OTHER -> [verdict |-> "allowed", state |-> [state EXCEPT !.closedBy = Open]]

\* screenTransition
ScreenMove(projection, to, cause) ==
  CASE IsConflict(projection) -> "positionConflict"
    [] ~IsConflict(projection) /\ to = "blocked" -> "pauseNotCapabilityWritable"
    [] ~IsConflict(projection) /\ to \notin PositionsOf(projection.flow) \cup {"blocked"} ->
         "meaningWrongEntity"
    [] OTHER -> IF Verdict(projection.flow, PositionIn(projection), to, cause) = "allowed"
                THEN "ok" ELSE "transitionNotOnMap"
=============================================================================
