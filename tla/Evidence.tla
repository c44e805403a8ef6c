------------------------------ MODULE Evidence ------------------------------
(***************************************************************************)
(* Two questions asked of a list GitHub keeps in pages, while the list     *)
(* changes between one page and the next: when a person last changed the   *)
(* item (adapter/reads/externals.ts), and whether an entry is there        *)
(* (adapter/writes/readback.ts, and the walk of adapter/reads/items.ts).   *)
(* GitHub's list is external: entries are dated to the second, in order;   *)
(* they are added at its end and a comment can be deleted anywhere in it.  *)
(***************************************************************************)
EXTENDS Naturals, Sequences, FiniteSets, SequencesExt

CONSTANTS
  None, Unknown,
  PageSize,     \* TIMELINE_PAGE_SIZE, READ_BACK_PAGE_SIZE
  ReadCap,      \* TIMELINE_READ_CAP
  MaxPages,     \* MAX_READ_BACK_PAGES
  Lag,          \* CREATION_LAG_SECONDS
  Window,       \* OWN_WRITE_WINDOW_MS
  MaxEntries, MaxNow    \* bounds on GitHub's side

VARIABLES
  line,       \* the list
  grown,      \* entries it was ever given
  now,
  landed,     \* releases the ledger holds as landed: [login, at]
  cause,      \* the delivery's cause, None in a sweep
  walk,       \* the read: [question, at, round, page, last, seen]
  there,      \* history: what was on the list when each round began
  deletions,  \* history: the rounds in which something was deleted
  answer

evidenceVars == <<line, grown, now, landed, cause, walk, there, deletions, answer>>

Entry(kind, by, about, origin) == [kind |-> kind, by |-> by, about |-> about,
                                   origin |-> origin, at |-> now, id |-> grown + 1]

\* causeFingerprintOf: a label change whose payload shows it or not, an opening, a comment.
Causes ==
  {[action |-> "labeled", about |-> "x", at |-> 0, createdWith |-> {}, labels |-> labels] :
     labels \in {None, {"x", "y"}}}
  \cup {[action |-> "opened", about |-> None, at |-> 0, createdWith |-> {"x"}, labels |-> None],
        [action |-> "commented", about |-> None, at |-> 0, createdWith |-> {}, labels |-> None]}

Resting(question) == [question |-> question, at |-> "idle", round |-> 0, page |-> 0, last |-> 0, seen |-> <<>>]

EvidenceInit ==
  /\ line = <<>> /\ grown = 0 /\ now = 0 /\ landed = {}
  /\ \/ cause \in Causes \cup {None} /\ walk = Resting("ordering")
     \/ cause = None /\ walk = Resting("presence")
  /\ there = <<{}, {}>> /\ deletions = {} /\ answer = None

----------------------------------------------------------------------------
(* GitHub's side.                                                          *)

Grows(entry) ==
  /\ grown < MaxEntries
  /\ grown' = grown + 1
  /\ line' = Append(line, entry)
  /\ UNCHANGED <<now, cause, walk, there, deletions, answer>>

\* People: the item's author, who caused the delivery, and somebody else.
Acts ==
  {<<"labeled", "author", "x">>, <<"unlabeled", "author", "x">>, <<"labeled", "author", "y">>,
   <<"unassigned", "other", "other">>}
HumanActs ==
  \/ \E act \in Acts : walk.question = "ordering" /\ Grows(Entry(act[1], act[2], act[3], "person"))
  \/ Grows(Entry("commented", "other", None, "person"))

\* What no person's change is: a bot's, and what a deleted account leaves.
Noise ==
  /\ walk.question = "ordering"
  /\ \/ Grows(Entry("labeled", "bot", "x", "bot"))
     \/ Grows(Entry("labeled", "nobody", "x", "ghost"))

\* The delivery's own cause, once, at its instant; an opening shows as what it came with.
CauseShows ==
  /\ cause # None /\ now = cause.at
  /\ \A i \in 1..Len(line) : line[i].origin # "cause"
  /\ Grows(IF cause.action = "opened" THEN Entry("labeled", "author", "x", "cause")
           ELSE Entry(cause.action, "author", cause.about, "cause"))
  /\ UNCHANGED landed

\* Code owners' reviews, which GitHub requests in the name of whoever opened.
GitHubRequests ==
  /\ cause # None /\ cause.action = "opened" /\ now <= cause.at + Lag
  /\ Grows(Entry("review_requested", "author", None, "github"))

\* A release of ours shows in the released person's name; its fact follows the answer.
AppReleases ==
  \E at \in {now, now + Window} :
    /\ landed = {} /\ walk.question = "ordering"
    /\ Grows(Entry("unassigned", "other", "other", "app"))
    /\ landed' = {[login |-> "other", at |-> at]}

\* Bound: one in each walk.
Deletes ==
  /\ walk.round \notin deletions /\ walk.at \in {"walking", "pausing"}
  /\ \E i \in 1..Len(line) :
       /\ line[i].kind = "commented" /\ line[i].origin # "sought"
       /\ line' = RemoveAt(line, i)
  /\ deletions' = deletions \cup {walk.round}
  /\ UNCHANGED <<grown, now, landed, cause, walk, there, answer>>

Passes ==
  /\ now < MaxNow
  /\ now' = now + 1
  /\ UNCHANGED <<line, grown, landed, cause, walk, there, deletions, answer>>

----------------------------------------------------------------------------
(* Which entries are a person's, and which of those are the cause's own.   *)

Counted == {"labeled", "unlabeled", "unassigned", "commented", "review_requested"}

ReleasedByApp(entry) ==
  /\ entry.kind = "unassigned"
  /\ \E write \in landed :
       write.login = entry.about /\ write.at >= entry.at /\ write.at <= entry.at + Window

\* humanChangeAt: counts, does not count, or cannot be trusted.
IsHumanChange(entry) ==
  entry.kind \in Counted /\ entry.by \notin {"bot", "nobody"} /\ ~ReleasedByApp(entry)
IsUnreadable(entry) == entry.kind \in Counted /\ entry.by = "nobody"

WithinLag(entry) == entry.at >= cause.at /\ entry.at <= cause.at + Lag

IsOwnersRequest(entry) ==
  /\ cause.action = "opened" /\ entry.kind = "review_requested"
  /\ entry.by = "author" /\ WithinLag(entry)

IsCreationEntry(entry, pending) ==
  entry.kind = "labeled" /\ entry.by = "author" /\ WithinLag(entry) /\ entry.about \in pending

\* takeShownLabel: one change for each name, where the payload shows what came of it.
ShowsIn(labels, entry) ==
  entry.kind \in {"labeled", "unlabeled"} /\ (entry.about \in labels) = (entry.kind = "labeled")
IsShownLabel(entry, taken) ==
  /\ cause.labels # None /\ entry.by = "author" /\ entry.at = cause.at
  /\ ShowsIn(cause.labels, entry) /\ entry.about \notin taken

IsCause(entry) ==
  /\ cause.labels = None
  /\ entry.kind = cause.action /\ entry.by = "author" /\ entry.at = cause.at
  /\ entry.about = cause.about

\* Mutant: every match of the cause is the cause.
KeepsCause(live) == live
Spent(live) == FALSE

Later(newest, at) == IF newest = None \/ at > newest THEN at ELSE newest

\* newestIn: each entry of the cause is used up by the first that matches it.
Weigh(so, entry) ==
  IF so.unreadable \/ IsUnreadable(entry) THEN [so EXCEPT !.unreadable = TRUE]
  ELSE IF ~IsHumanChange(entry) THEN so
  ELSE IF cause = None THEN [so EXCEPT !.newest = Later(@, entry.at)]
  ELSE IF IsOwnersRequest(entry) THEN so
  ELSE IF so.live /\ IsCreationEntry(entry, so.pending) THEN [so EXCEPT !.pending = @ \ {entry.about}]
  ELSE IF so.live /\ IsShownLabel(entry, so.taken) THEN [so EXCEPT !.taken = @ \cup {entry.about}]
  ELSE IF so.live /\ IsCause(entry) THEN [so EXCEPT !.live = Spent(@)]
  ELSE [so EXCEPT !.newest = Later(@, entry.at)]

NewestIn(entries) ==
  LET so == FoldLeft(Weigh, [newest |-> None, unreadable |-> FALSE, live |-> TRUE, taken |-> {},
                             pending |-> IF cause = None THEN {} ELSE cause.createdWith], entries)
  IN IF so.unreadable THEN Unknown ELSE so.newest

----------------------------------------------------------------------------
(* The walks.  A page is whatever the list holds there when it is asked.   *)

Page(n) ==
  IF n * PageSize > Len(line) THEN SubSeq(line, (n - 1) * PageSize + 1, Len(line))
  ELSE SubSeq(line, (n - 1) * PageSize + 1, n * PageSize)
LastPage == IF line = <<>> THEN 1 ELSE (Len(line) + PageSize - 1) \div PageSize

IdsOn(list) == {list[i].id : i \in 1..Len(list)}

Answers(what) == answer' = what /\ walk' = [walk EXCEPT !.at = "done"]
Quiet == UNCHANGED <<line, grown, now, landed, cause, deletions>>

\* A delivery is decided after its cause shows.
Asks ==
  /\ walk.at = "idle"
  /\ cause # None => \E i \in 1..Len(line) : line[i].origin = "cause"
  /\ walk' = [walk EXCEPT !.at = "walking", !.round = 1, !.page = 1, !.last = 1]
  /\ there' = <<IdsOn(line), {}>>
  /\ Quiet /\ UNCHANGED answer

\* Any read may be refused, and a list that cannot be read whole answers nothing.
IsRefused ==
  /\ walk.at = "walking"
  /\ Answers(Unknown)
  /\ Quiet /\ UNCHANGED there

\* readOrdering: page one names the last, then backwards while nothing was found.
ReadsFirst ==
  /\ walk.question = "ordering" /\ walk.at = "walking" /\ walk.last = 1
  /\ IF LastPage = 1 THEN Answers(NewestIn(Page(1)))
     ELSE walk' = [walk EXCEPT !.page = LastPage, !.last = LastPage, !.seen = Page(1)]
          /\ UNCHANGED answer
  /\ Quiet /\ UNCHANGED there

Covers(last) == last <= ReadCap

ReadsBack ==
  LET first == SubSeq(walk.seen, 1, PageSize)
      recent == SubSeq(walk.seen, PageSize + 1, Len(walk.seen)) \o Page(walk.page)
      newest == NewestIn(recent)
      isLast == walk.page = 2 \/ walk.last - walk.page + 1 = ReadCap - 1
  IN /\ walk.question = "ordering" /\ walk.at = "walking" /\ walk.last > 1
     /\ IF newest # None THEN Answers(newest)
        ELSE IF ~isLast
        THEN walk' = [walk EXCEPT !.page = @ - 1, !.seen = first \o recent] /\ UNCHANGED answer
        ELSE Answers(IF Covers(walk.last) THEN NewestIn(recent \o first) ELSE Unknown)
     /\ Quiet /\ UNCHANGED there

\* readList and allPages: ascending to the last page, and on while a next is advertised.
IsSought(entry) == entry.origin = "sought"

Confirmed(round) == IF round = 2 THEN "absent" ELSE "again"

ReadsOn ==
  LET seen == walk.seen \o Page(walk.page)
      last == IF walk.page = 1 THEN LastPage ELSE walk.last
      ended == walk.page >= last /\ walk.page >= LastPage
  IN /\ walk.question = "presence" /\ walk.at = "walking"
     /\ CASE last > MaxPages \/ (~ended /\ walk.page = MaxPages) -> Answers(Unknown)
          [] last <= MaxPages /\ ended ->
               IF \E i \in 1..Len(seen) : IsSought(seen[i]) THEN Answers("present")
               ELSE IF Confirmed(walk.round) = "absent" THEN Answers("absent")
               ELSE walk' = [walk EXCEPT !.at = "pausing", !.seen = <<>>] /\ UNCHANGED answer
          [] OTHER -> walk' = [walk EXCEPT !.page = @ + 1, !.last = last, !.seen = seen]
                      /\ UNCHANGED answer
     /\ Quiet /\ UNCHANGED there

\* The second look, a full gap later: longer than GitHub takes to show what it was told.
LooksAgain ==
  /\ walk.at = "pausing"
  /\ walk' = [walk EXCEPT !.at = "walking", !.round = 2, !.page = 1, !.last = 1]
  /\ there' = [there EXCEPT ![2] = IdsOn(line)]
  /\ Quiet /\ UNCHANGED answer

\* The comment of an earlier request: written before the read, shown by its second look.
SoughtShows ==
  /\ walk.question = "presence" /\ walk.round < 2
  /\ \A i \in 1..Len(line) : ~IsSought(line[i])
  /\ Grows(Entry("commented", "bot", None, "sought")) /\ UNCHANGED landed

EvidenceNext ==
  /\ walk.at # "done"
  /\ \/ (HumanActs \/ Noise \/ GitHubRequests) /\ UNCHANGED landed
     \/ CauseShows \/ AppReleases \/ SoughtShows
     \/ Deletes \/ Passes
     \/ Asks \/ IsRefused \/ ReadsFirst \/ ReadsBack \/ ReadsOn \/ LooksAgain

EvidenceSpec == EvidenceInit /\ [][EvidenceNext]_evidenceVars

-----------------------------------------------------------------------------

Shown == {line[i] : i \in 1..Len(line)}

\* What the code gives up on purpose: an unassignment within the window of a release of
\* ours, a quick relabel by whoever opened, and the changes the payload itself shows.
GivenUp(entry) ==
  \/ /\ entry.kind = "unassigned"
     /\ \E write \in landed : write.at \in entry.at..(entry.at + Window)
  \/ /\ cause # None /\ entry.by = "author"
     /\ \/ /\ cause.action = "opened" /\ entry.about \in cause.createdWith
           /\ entry.at <= cause.at + Lag
        \/ /\ cause.labels # None /\ entry.at = cause.at
           /\ (entry.about \in cause.labels) = (entry.kind = "labeled")

\* An answer about ordering hides no person's change that was on the timeline when it was
\* asked: an entry is excused once for each thing the delivery's cause left there, an
\* unreadable entry or a timeline that was not covered answers "unknown", and the rest
\* count, however many share a second.  A comment deleted between two pages is the one
\* way past it: what stood at the head of a page is then on the page already read.
NoChangeIsHidden ==
  walk.at = "done" /\ walk.question = "ordering" /\ answer # Unknown =>
    \A entry \in Shown :
      entry.origin = "person" /\ entry.id \in there[1] /\ deletions = {} /\ ~GivenUp(entry)
        => answer # None /\ entry.at <= answer

\* "Absent" is never answered of an entry that both looks could have seen, unless a
\* deletion shifted the list under each of them; nor under the second alone, of one that
\* GitHub showed between the two (D46: a wrong absent posts a comment twice).
AbsenceIsReal ==
  walk.question = "presence" /\ walk.at = "done" /\ answer = "absent" =>
    \A entry \in Shown : IsSought(entry) =>
      /\ entry.id \in there[1] => {1, 2} \subseteq deletions
      /\ entry.id \in there[2] => 2 \in deletions
=============================================================================
