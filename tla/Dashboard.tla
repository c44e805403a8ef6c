----------------------------- MODULE Dashboard -----------------------------
(***************************************************************************)
(* prDashboard: one pull request's checks, read one resolver at a time     *)
(* (capabilities/prDashboard, adapter/reads/resolvers.ts), the comment     *)
(* that reports them, created once and rewritten in place                  *)
(* (operations/postManagedComment.ts, adapter/writes/readback.ts), and the *)
(* position the verdict earns.  Two lanes may be at it at once, while      *)
(* people go on.  The label's two calls are one step here (see LabelMove), *)
(* and each gate one read (see Safety, Grace).                             *)
(***************************************************************************)
EXTENDS Workflow, Sequences

CONSTANTS
  Nobody,       \* no target, no rows yet
  Lane,         \* the webhook lane and the sweep
  Enablings,      \* the sets of checks a repository may turn on
  CommentCap,   \* ITEM_COMMENT_BUDGET
  MaxReads, MaxDoings    \* bounds on resolvers asked, and on what people do

VARIABLES
  enabled,   \* the checks turned on
  truth,     \* what a read of each check would find now
  draft, label,
  human,     \* the instant of the last human change the timeline shows
  doings,    \* what people did so far, and the instant of it
  comments,  \* the App's comments under the dashboard's identity, oldest first
  others,    \* its other comments of the day
  posted,    \* comments ever created here: the next one's number
  runs,      \* resolvers to be asked by the evaluations begun
  pass,      \* per lane
  blind      \* history: a comment was created whose budget could not be read

gitHub == <<enabled, truth, draft, label, human, doings>>
dashboardVars == <<gitHub, comments, others, posted, runs, pass, blind>>

\* In the order rowsFor asks them.
IfOn(check) == IF check \in enabled THEN <<check>> ELSE <<>>
Checks == IfOn("commits") \o IfOn("mergeConflicts") \o IfOn("linkedIssues") \o IfOn("assignedIssues")
Check == enabled
Position == PrMeanings \cup {NoPosition}
Edited == <<"edited">>

Resting == [at |-> "idle", began |-> 0, draft |-> FALSE, from |-> NoPosition, rows |-> <<>>,
            to |-> Nobody, found |-> Nobody, wasTrue |-> {}, quiet |-> FALSE]

DashboardInit ==
  /\ enabled \in Enablings
  /\ truth \in [Check -> BOOLEAN] /\ draft = FALSE /\ label \in Position
  /\ human = 0 /\ doings = 0
  /\ comments = <<>> /\ others \in 0..CommentCap /\ posted = 0
  /\ runs = 0 /\ pass = [l \in Lane |-> Resting] /\ blind = FALSE

----------------------------------------------------------------------------
(* What people do.                                                         *)

Does ==
  /\ doings < MaxDoings /\ doings' = doings + 1
  /\ pass' = [l \in Lane |-> [pass[l] EXCEPT !.quiet = FALSE,
                                !.wasTrue = @ \cup {c \in Check : truth'[c]}]]
  /\ UNCHANGED <<enabled, others, posted, runs, blind>>

\* A push is a human change, dated by its commits, which may be older than it is, and so may
\* be what a merge conflict came or went by, unless the base branch moved.  A link edited into
\* the body, and an assignment on the issue linked, are none of this pull request's timeline.
Dates(c) == IF c \in {"commits", "mergeConflicts"} THEN human..(doings + 1) ELSE {human}
Turns(c) ==
  /\ truth' = [truth EXCEPT ![c] = ~@] /\ human' \in Dates(c)
  /\ UNCHANGED <<draft, label, comments>> /\ Does

TurnsDraft ==
  /\ draft' = ~draft /\ human' = doings + 1
  /\ UNCHANGED <<truth, label, comments>> /\ Does

Relabels(position) ==
  /\ position # label
  /\ label' = position /\ human' = doings + 1
  /\ UNCHANGED <<truth, draft, comments>> /\ Does

EditsComment(i) ==
  /\ comments' = [comments EXCEPT ![i].body = Edited]
  /\ UNCHANGED <<truth, draft, label, human>> /\ Does

DeletesComment(i) ==
  /\ comments' = SubSeq(comments, 1, i - 1) \o SubSeq(comments, i + 1, Len(comments))
  /\ UNCHANGED <<truth, draft, label, human>> /\ Does

----------------------------------------------------------------------------
(* The capability.                                                         *)

Enter(l, change) == pass' = [pass EXCEPT ![l] = change]
Alone(l) == \A other \in Lane \ {l} : pass[other].at \in {"idle", "done"}
Rest == UNCHANGED <<gitHub, others, runs>>

\* The record: the payload's draft and labels, or the list's.
Begins(l) ==
  /\ pass[l].at \in {"idle", "done"} /\ runs + Len(Checks) <= MaxReads
  /\ runs' = runs + Len(Checks)
  /\ pass' = [k \in Lane |->
       IF k = l THEN [Resting EXCEPT !.at = "reading", !.began = doings, !.draft = draft, !.from = label,
                        !.wasTrue = {c \in Check : truth[c]}, !.quiet = Alone(l)]
       ELSE [pass[k] EXCEPT !.quiet = FALSE]]
  /\ UNCHANGED <<gitHub, comments, others, posted, blind>>

Answered(c) == IF truth[c] THEN "pass" ELSE "fail"
\* Mutant: a resolver that could not answer is no objection.
UnansweredPasses == "pass"
\* unanswered: never a pass.
Unanswered == "undetermined"

Asks(l, c) == pass[l].at = "reading" /\ Checks[Len(pass[l].rows) + 1] = c

Reports(l, row) ==
  LET p == pass[l]
  IN Enter(l, [p EXCEPT !.rows = Append(@, row), !.quiet = @ /\ row # Unanswered,
                 !.at = IF Len(p.rows) + 1 = Len(Checks) THEN "judging" ELSE @])

\* Each resolver answers for its own instant.  The commits at their ceiling, a merge GitHub is
\* still computing, and a request that failed are all no answer.
Reads(l, c) ==
  /\ Asks(l, c)
  /\ \E ok \in BOOLEAN : Reports(l, IF ok THEN Answered(c) ELSE Unanswered)
  /\ Rest /\ UNCHANGED <<comments, posted, blind>>

ReadsCommits(l) == Reads(l, "commits")
ReadsMergeable(l) == Reads(l, "mergeConflicts")
ReadsLinks(l) == Reads(l, "linkedIssues")

\* The assignees of each linked issue: of links nobody read, not asked.
HasLinks(l) == pass[l].rows[Len(pass[l].rows)] # "undetermined"
ReadsAssignees(l) == Asks(l, "assignedIssues") /\ HasLinks(l) /\ Reads(l, "assignedIssues")
CannotAsk(l) ==
  /\ Asks(l, "assignedIssues") /\ ~HasLinks(l)
  /\ Reports(l, "undetermined")
  /\ Rest /\ UNCHANGED <<comments, posted, blind>>

Outcomes(rows) == {rows[i] : i \in DOMAIN rows}

\* positionFor
PositionFor(rows, isDraft, current) ==
  CASE "fail" \in Outcomes(rows) -> "needsRevision"
    [] Outcomes(rows) = {"pass"} /\ ~isDraft /\ current \in {NoPosition, "needsRevision"} -> "needsReview"
    [] OTHER -> Nobody

\* labelIntent: moveTo draws the edge, or nothing is asked.
HasEdge(from, to) == \E e \in PrEdges : e.from = from /\ e.to = to
Target(p) ==
  LET to == PositionFor(p.rows, p.draft, p.from) IN IF to # Nobody /\ HasEdge(p.from, to) THEN to ELSE Nobody

\* No change by a person since the record, and still the record's own position.
Permits(p) == human <= p.began /\ label = p.from

\* evaluate, and decide's gates: both intents are judged by one ordering.
Judges(l) ==
  LET p == pass[l]
  IN /\ p.at = "judging"
     /\ Enter(l, IF Outcomes(p.rows) = {"undetermined"} \/ human > p.began THEN [p EXCEPT !.at = "done"]
                 ELSE [p EXCEPT !.at = "gate", !.to = Target(p)])
     /\ Rest /\ UNCHANGED <<comments, posted, blind>>

----------------------------------------------------------------------------
(* The comment.  Whatever becomes of it, the label comes next.             *)

GatesComment(l) ==
  LET p == pass[l]
  IN /\ p.at = "gate"
     /\ Enter(l, [p EXCEPT !.at = IF Permits(p) THEN "budget" ELSE "label"])
     /\ Rest /\ UNCHANGED <<comments, posted, blind>>

Stands == comments # <<>>
Created == others + Len(comments)

Spent == Created >= CommentCap

\* hold: a rewrite is never held, and neither is a call whose comments could not be read.
Holds(l) ==
  LET p == pass[l]
  IN /\ p.at = "budget"
     /\ \/ /\ Enter(l, [p EXCEPT !.at = IF ~Stands /\ Spent THEN "label" ELSE "look"])
           /\ UNCHANGED blind
        \/ Enter(l, [p EXCEPT !.at = "look", !.quiet = FALSE]) /\ blind' = TRUE
     /\ Rest /\ UNCHANGED <<comments, posted>>

\* A match with the same body is `already`.
Says(comment, rows) == comment.body = rows

\* matchedComment's list: the first comment under the identity.
Looks(l) ==
  LET p == pass[l]
  IN /\ p.at = "look"
     /\ Enter(l, CASE ~Stands -> [p EXCEPT !.at = "again"]
                   [] Stands /\ Says(Head(comments), p.rows) -> [p EXCEPT !.at = "label"]
                   [] OTHER -> [p EXCEPT !.at = "update", !.found = Head(comments).id])
     /\ Rest /\ UNCHANGED <<comments, posted, blind>>

\* commentPresence's last read, a gap after the first: only "absent" creates.
LooksAgain(l) ==
  LET p == pass[l]
  IN /\ p.at = "again"
     /\ Enter(l, [p EXCEPT !.at = IF Stands THEN "label" ELSE "create"])
     /\ Rest /\ UNCHANGED <<comments, posted, blind>>

Creates(l) ==
  LET p == pass[l]
  IN /\ p.at = "create"
     /\ comments' = Append(comments, [id |-> posted + 1, body |-> p.rows])
     /\ posted' = posted + 1
     /\ Enter(l, [p EXCEPT !.at = "label"])
     /\ Rest /\ UNCHANGED blind

\* A comment deleted since is not found, and nothing is made of it.
Updates(l) ==
  LET p == pass[l]
  IN /\ p.at = "update"
     /\ comments' = [i \in DOMAIN comments |->
          IF comments[i].id = p.found THEN [comments[i] EXCEPT !.body = p.rows] ELSE comments[i]]
     /\ Enter(l, [p EXCEPT !.at = "label"])
     /\ Rest /\ UNCHANGED <<posted, blind>>

CommentFails(l) ==
  /\ pass[l].at \in {"gate", "look", "again", "create", "update"}
  /\ Enter(l, [pass[l] EXCEPT !.at = "label", !.quiet = FALSE])
  /\ Rest /\ UNCHANGED <<comments, posted, blind>>

----------------------------------------------------------------------------
MovesLabel(l) ==
  LET p == pass[l]
  IN /\ p.at = "label"
     /\ label' = IF p.to # Nobody /\ Permits(p) THEN p.to ELSE label
     /\ Enter(l, [p EXCEPT !.at = "done"])
     /\ UNCHANGED <<enabled, truth, draft, human, doings, comments, others, posted, runs, blind>>

LabelFails(l) ==
  /\ pass[l].at = "label" /\ pass[l].to # Nobody
  /\ Enter(l, [pass[l] EXCEPT !.at = "done", !.quiet = FALSE])
  /\ Rest /\ UNCHANGED <<comments, posted, blind>>

DashboardNext ==
  \/ \E c \in Check : Turns(c)
  \/ TurnsDraft \/ \E position \in Position : Relabels(position)
  \/ \E i \in DOMAIN comments : EditsComment(i) \/ DeletesComment(i)
  \/ \E l \in Lane : \/ Begins(l) \/ ReadsCommits(l) \/ ReadsMergeable(l) \/ ReadsLinks(l)
                     \/ ReadsAssignees(l) \/ CannotAsk(l) \/ Judges(l)
                     \/ GatesComment(l) \/ Holds(l) \/ Looks(l) \/ LooksAgain(l)
                     \/ Creates(l) \/ Updates(l) \/ CommentFails(l)
                     \/ MovesLabel(l) \/ LabelFails(l)

DashboardSpec == DashboardInit /\ [][DashboardNext]_dashboardVars

-----------------------------------------------------------------------------

\* Review is asked only where every check passed at some instant of the evaluation, of a
\* pull request that was ready when it began, and never from readyToMerge.  It is not asked
\* of one instant: a base branch that moved between two reads, or a link edited since, is
\* the next evaluation's; a push or a draft the gate refuses, unless its commits are older.
ReviewIsEarned ==
  \A l \in Lane : pass[l].to = "needsReview" =>
    pass[l].wasTrue = Check /\ ~pass[l].draft /\ pass[l].from # "readyToMerge"

\* An evaluation that had the pull request to itself from its record to its last write, and
\* met no failure, leaves a first dashboard that says what is so, unless the day's budget
\* keeps it from creating one, and the position that goes with it.
RecheckTellsTruth ==
  \A l \in Lane : pass[l].at = "done" /\ pass[l].quiet =>
    LET rows == [n \in 1..Len(Checks) |-> Answered(Checks[n])]
    IN human <= pass[l].began =>
         /\ IF Stands THEN Head(comments).body = rows ELSE Spent
         /\ "fail" \in Outcomes(rows) => label = "needsRevision"
         /\ Outcomes(rows) = {"pass"} /\ ~draft /\ pass[l].from # "readyToMerge" => label = "needsReview"

\* The comments of the day stay within the budget, but for one more per other lane at the
\* same check, as long as the reads it counts by answered.
CreationsStayBudgeted == ~blind => Created < CommentCap + Cardinality(Lane)

DashboardSpeaksTrue == ReviewIsEarned /\ RecheckTellsTruth /\ CreationsStayBudgeted
=============================================================================
