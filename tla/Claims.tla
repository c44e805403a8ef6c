------------------------------- MODULE Claims -------------------------------
(***************************************************************************)
(* Claiming and releasing work by comment: normalize/issue-comment.ts, the *)
(* assignment capability, its two questions (adapter/reads/resolvers.ts),  *)
(* the gates and the two acts (operations/{assign,unassign}.ts).  A claim  *)
(* is decided from several reads of GitHub and landed by a call; people,   *)
(* other passes and machines change the same issues in between.            *)
(***************************************************************************)
EXTENDS Safety

CONSTANTS
  Lane,        \* passes that may run at once: one when hosted, a run each as an action
  Issue, Login,
  MaxOpen,     \* autoAssign.maxOpen
  Denies,      \* autoAssign.notClaimableWhen
  Ignores,     \* autoAssign.capIgnores
  MaxNow, MaxChanges, MaxFailures   \* bounds

ASSUME ClaimsAssumption ==
  /\ Denies \subseteq Meaning /\ Ignores \subseteq Meaning /\ MaxOpen \in Nat
  /\ {MaxNow, MaxChanges, MaxFailures} \subseteq Nat

\* What stands for no answer is no instant and no command.
ASSUME AnswersAssumption ==
  /\ None \notin Int \cup {Unknown, Invalid, "assign", "unassign"}
  /\ Unknown \notin Int /\ Invalid \notin Int

VARIABLES
  assignees, labels,   \* of each issue
  now,
  timeline,   \* of each issue: what people did to it
  made,       \* how much was done altogether
  inbox,      \* commands not decided yet
  pass,       \* per lane
  failures,
  stale,      \* history: per lane, which of its reads no longer hold
  disturbed   \* history: issues a machine relabelled, or spoken of behind a pass's gate

github == <<assignees, labels, timeline, made>>
claimsVars == <<github, now, inbox, pass, failures, stale, disturbed>>

Idle == [at |-> "idle"]

ClaimsInit ==
  /\ assignees = [i \in Issue |-> {}]
  /\ \E i \in Issue, ignored \in {{}, Ignores} : labels = [j \in Issue |-> IF j = i THEN ignored ELSE {}]
  /\ now = 0 /\ timeline = [i \in Issue |-> <<>>] /\ made = 0
  /\ inbox = {} /\ pass = [k \in Lane |-> Idle] /\ failures = 0
  /\ stale = [k \in Lane |-> {}] /\ disturbed = {}

----------------------------------------------------------------------------
(* People and machines.                                                    *)

Does(i, kind, by, what) ==
  /\ made < MaxChanges
  /\ made' = made + 1
  /\ timeline' = [timeline EXCEPT ![i] =
       Append(@, [kind |-> kind, by |-> by, at |-> now, what |-> what])]

\* What a change of an issue makes of the lanes' reads: of a pass on that issue, at one of
\* the places, what it read there; of any other pass of these logins, its count.
Outdates(i, what, logins, places) ==
  stale' = [k \in Lane |->
    IF pass[k] = Idle THEN stale[k]
    ELSE LET d == pass[k].delivery
             exposed == pass[k].at \in places
         IN stale[k] \cup (IF d.issue = i /\ exposed THEN what ELSE {})
                     \cup (IF d.by \in logins /\ (d.issue # i \/ exposed) THEN {"count"} ELSE {})]

\* A person's change of its own issue outdates a pass only once its gate has judged.
PastGate == {"send"}
Places == {"holders", "counting", "judging", "gate", "seen", "send"}

\* commandOf: a new comment whose line opens with a mapped word; the payload shows the
\* labels as they are.
Commands(by, i, command) ==
  /\ Does(i, "commented", by, command)
  /\ inbox' = inbox \cup {[issue |-> i, by |-> by, command |-> command,
                           labels |-> labels[i], at |-> now, id |-> made]}
  /\ disturbed' = IF \E k \in Lane : pass[k].at = "send" /\ pass[k].delivery.issue = i
                  THEN disturbed \cup {i} ELSE disturbed
  /\ UNCHANGED <<assignees, labels, now, pass, failures, stale>>

\* GitHub's own control, which answers to no gate.
Natively(i, login) ==
  /\ Does(i, IF login \in assignees[i] THEN "unassigned" ELSE "assigned", "maintainer", None)
  /\ assignees' = [assignees EXCEPT ![i] = IF login \in @ THEN @ \ {login} ELSE @ \cup {login}]
  /\ Outdates(i, {"holders"}, {login}, PastGate)
  /\ UNCHANGED <<labels, now, inbox, pass, failures, disturbed>>

Toggled(i, meaning) ==
  labels' = [labels EXCEPT ![i] = IF meaning \in @ THEN @ \ {meaning} ELSE @ \cup {meaning}]

\* A label by a person, or by a machine, which no ordering counts.
Labels(i) ==
  /\ \E meaning \in Denies : Toggled(i, meaning)
  /\ \/ Does(i, "labeled", "maintainer", None) /\ UNCHANGED disturbed
        /\ Outdates(i, {"gate"}, assignees[i], PastGate)
     \/ made < MaxChanges /\ made' = made + 1 /\ UNCHANGED timeline
        /\ disturbed' = disturbed \cup {i}
        /\ Outdates(i, {"gate"}, assignees[i], Places)
  /\ UNCHANGED <<assignees, now, inbox, pass, failures>>

Tick ==
  /\ now < MaxNow
  /\ now' = now + 1
  /\ UNCHANGED <<github, inbox, pass, failures, stale, disturbed>>

----------------------------------------------------------------------------
(* The evaluation: onAssign and onUnassign.                                *)

Is(k, place) == pass[k].at = place
Goes(k, place) == pass' = [pass EXCEPT ![k].at = place]
Stops(k) == pass' = [pass EXCEPT ![k] = Idle]
World == UNCHANGED <<github, now, inbox, disturbed>>

Takes(k, d) ==
  /\ Is(k, "idle") /\ d \in inbox
  /\ inbox' = inbox \ {d}
  /\ pass' = [pass EXCEPT ![k] = [at |-> "holders", delivery |-> d, evaluated |-> now, seen |-> {}]]
  /\ stale' = [stale EXCEPT ![k] = {}]
  /\ UNCHANGED <<github, now, failures, disturbed>>

Holders(d) == assignees[d.issue]

\* onAssign: an issue someone holds, or one a deny label is on, is not for claiming.
AssignGoes(d) ==
  IF Holders(d) # {} \/ d.labels \cap Denies # {} THEN "idle"
  ELSE IF MaxOpen > 0 THEN "counting" ELSE "judging"

\* onUnassign: only what the author holds is theirs to release.
UnassignGoes(d) == IF d.by \in Holders(d) THEN "judging" ELSE "idle"

\* assigneesOf, then everything the payload answers.
AsksHolders(k) ==
  LET d == pass[k].delivery
      goes == IF d.command = "assign" THEN AssignGoes(d) ELSE UnassignGoes(d)
  IN /\ Is(k, "holders")
     /\ IF goes = "idle" THEN Stops(k) ELSE Goes(k, goes)
     /\ stale' = [stale EXCEPT ![k] = @ \ {"holders"}]
     /\ World /\ UNCHANGED failures

Held(login) == {i \in Issue : login \in assignees[i] /\ labels[i] \cap Ignores = {}}

\* openAssignments: the count stands where it is below the cap.
UnderCap(login) == Cardinality(Held(login)) < MaxOpen

AsksOpen(k) ==
  /\ Is(k, "counting")
  /\ IF UnderCap(pass[k].delivery.by) THEN Goes(k, "judging") ELSE Stops(k)
  /\ stale' = [stale EXCEPT ![k] = @ \ {"count"}]
  /\ World /\ UNCHANGED failures

----------------------------------------------------------------------------
(* The gates.                                                              *)

\* newestIn: the command's own comment is used up by the first that matches it.
HumanAt(d) ==
  LET line == timeline[d.issue]
      matches == {n \in 1..Len(line) :
                    line[n].kind = "commented" /\ line[n].by = d.by
                      /\ SecondOf(line[n].at) = SecondOf(d.at)}
      first == {n \in matches : \A m \in matches : n <= m}
      ats == {line[n].at : n \in (1..Len(line)) \ first}
  IN IF ats = {} THEN None ELSE CHOOSE at \in ats : \A other \in ats : other <= at

ClaimsOf(d) ==
  [present |-> d.labels, absent |-> IF d.command = "assign" THEN Denies ELSE {},
   closed |-> Open, mode |-> "noClaim"]

ActiveConfig ==
  [mode |-> "active", enabled |-> {"assignment"}, stated |-> [c \in {"assignment"} |-> None]]

Ladder(d, shown, since) ==
  WriteVerdict([capability |-> "assignment", class |-> "reversibleStateChange",
                config |-> ActiveConfig, missing |-> {}, kill |-> FALSE,
                world |-> DeriveWorld(Project("issue", shown, Open), ClaimsOf(d), {}),
                human |-> HumanAt(d), since |-> since])

Judges(k) ==
  LET d == pass[k].delivery
  IN /\ Is(k, "judging")
     /\ IF Ladder(d, d.labels, d.at) = "apply" THEN Goes(k, "gate") ELSE Stops(k)
     /\ World /\ UNCHANGED <<failures, stale>>

GateReads(k) ==
  /\ Is(k, "gate")
  /\ pass' = [pass EXCEPT ![k].at = "seen", ![k].seen = labels[pass[k].delivery.issue]]
  /\ stale' = [stale EXCEPT ![k] = @ \ {"gate"}]
  /\ World /\ UNCHANGED failures

\* Mutant: the act is judged by its own instant alone.
JudgedSince(p) == now + PerSecond
Since(p) == p.evaluated

GateJudges(k) ==
  /\ Is(k, "seen")
  /\ IF Ladder(pass[k].delivery, pass[k].seen, Since(pass[k])) = "apply"
     THEN Goes(k, "send") ELSE Stops(k)
  /\ World /\ UNCHANGED <<failures, stale>>

\* assign and unassign: one named login; GitHub may take the call and decline the assign.
Lands(k) ==
  LET d == pass[k].delivery
      held == assignees[d.issue]
      then == IF d.command = "assign" THEN held \cup {d.by} ELSE held \ {d.by}
  IN /\ Is(k, "send")
     /\ \/ assignees' = [assignees EXCEPT ![d.issue] = then] /\ UNCHANGED failures
        \/ /\ failures < MaxFailures /\ failures' = failures + 1 /\ UNCHANGED assignees
     /\ stale' = [j \in Lane |->
          IF j = k \/ pass[j] = Idle THEN stale[j]
          ELSE stale[j] \cup (IF pass[j].delivery.issue = d.issue THEN {"holders"} ELSE {})
                        \cup (IF pass[j].delivery.by = d.by THEN {"count"} ELSE {})]
     /\ Stops(k)
     /\ UNCHANGED <<labels, timeline, made, now, inbox, disturbed>>

\* A question nobody answers is a skip, and a gate nobody answers is no act.
Fails(k) ==
  /\ pass[k] # Idle /\ failures < MaxFailures
  /\ failures' = failures + 1
  /\ Stops(k)
  /\ World /\ UNCHANGED stale

PassSteps(k) ==
  AsksHolders(k) \/ AsksOpen(k) \/ Judges(k) \/ GateReads(k) \/ GateJudges(k) \/ Lands(k)

ClaimsNext ==
  \/ \E by \in Login, i \in Issue, command \in {"assign", "unassign"} : Commands(by, i, command)
  \/ \E i \in Issue : Labels(i) \/ \E login \in Login : Natively(i, login)
  \/ Tick
  \/ \E k \in Lane : (\E d \in inbox : Takes(k, d)) \/ PassSteps(k) \/ Fails(k)

-----------------------------------------------------------------------------

ClaimsTypeOK ==
  /\ assignees \in [Issue -> SUBSET Login] /\ labels \in [Issue -> SUBSET Meaning]
  /\ now \in 0..MaxNow /\ made \in 0..MaxChanges /\ failures \in 0..MaxFailures
  /\ \A k \in Lane : pass[k].at \in Places \cup {"idle"}

\* The step by which lane k's claim lands.
ClaimLands(k) ==
  /\ Is(k, "send") /\ Is(k, "idle")' /\ pass[k].delivery.command = "assign"
  /\ assignees' # assignees

\* A claim joins nobody but whom another pass's call, or a person after this claim's gate
\* judged, put on the issue: a person who assigned by hand before that is in the timeline
\* the gate reads, and the claim gives way.  The list of assignees is not a claimed fact
\* (design.md: two contributors may both be assigned), so nothing stands between two
\* passes.  The count is read once and no gate reads it again: the claim keeps within the
\* cap unless the person's other holdings moved since that read.
ClaimWithin ==
  \A k \in Lane : ClaimLands(k) =>
    LET d == pass[k].delivery
    IN /\ assignees[d.issue] = {} \/ "holders" \in stale[k]
       /\ (MaxOpen > 0 /\ "count" \notin stale[k]) => Cardinality(Held(d.by)) < MaxOpen

\* A claim never lands on an issue under a deny label, unless a machine put it on after
\* the gate's read or a person after the gate's judgement: a person's is ordered after the
\* command, a machine's is a claimed absence that the gate reads.
ClaimAllowed ==
  \A k \in Lane : ClaimLands(k) /\ "gate" \notin stale[k] =>
    labels[pass[k].delivery.issue] \cap Denies = {}

\* Nothing but a person's word can stop a pass at the ladder: one position at most, no pause.
Clear(shown) ==
  LET projection == Project("issue", shown, Open)
  IN ~IsConflict(projection) /\ ~projection.blocked

\* The newest thing done to the issue is a person's release, alone in its second.
ReleaseIsNewest(i) ==
  LET line == timeline[i]
      last == line[Len(line)]
  IN /\ line # <<>> /\ last.what = "unassign"
     /\ \A m \in 1..(Len(line) - 1) : SecondOf(line[m].at) < SecondOf(last.at)

\* The last command stands: when nothing is left to decide and nothing failed, an issue
\* whose newest change is a person's release, alone in its second, no longer holds that
\* person, although GitHub may have delivered an older claim of theirs after it.  Only a
\* claim already past its gate when the release was written may outlive it, and a paused
\* or conflicted issue, where no capability acts, keeps whom it holds.
ReleaseStands ==
  inbox = {} /\ failures = 0 /\ (\A k \in Lane : pass[k] = Idle) =>
    \A i \in Issue \ disturbed :
      ReleaseIsNewest(i) /\ Clear(labels[i]) =>
        timeline[i][Len(timeline[i])].by \notin assignees[i]
=============================================================================
