------------------------------ MODULE Reading ------------------------------
(***************************************************************************)
(* How a sweep reads one item: its row on the open-item list, the pull     *)
(* requests that close it, and the folds over its timeline, its comments,  *)
(* its reviews and its commits (adapter/reads/{items,facts,links}.ts and   *)
(* groups/, joined by shell/sweep/sweep.ts).  Each request answers for its *)
(* own instant and a list is walked page by page, while people go on; the  *)
(* record is decided as one.  The item read is number 1.                   *)
(***************************************************************************)
EXTENDS Naturals, Sequences, FiniteSets, SequencesExt

CONSTANTS
  None,
  Unread,       \* UNREAD
  Person,
  Pull,         \* the other items a list may hold: pull requests
  PageSize,
  MaxPages,
  MaxCommits,   \* MAX_COMMITS
  BatchSize,    \* MAX_BATCH_ALIASES
  MaxChanges    \* bound on what people do

VARIABLES
  subject,    \* "issue" or "pullRequest"
  working,    \* mappings.commands.working is spelled
  open,       \* other open items
  closing,    \* per pull request: "none", or where its references name item 1
  assignees, draft,
  line,       \* the item's timeline
  made,       \* changes made, and the instant of the last
  read,       \* the request in hand: [at, page, last, seen, held]
  record,     \* the record as far as it was read
  standing,   \* history: pull requests open and closing since the list was asked for
  counted,    \* history: what of the timeline stood when the item's row was read
  shifted,    \* history: an entry moved to a page already read
  late        \* history: modes entered after the timeline was walked

github == <<open, closing, assignees, draft, line, made>>
reading == <<read, record>>
readingVars == <<subject, working, github, reading, standing, counted, shifted, late>>

Reasons == {"needsRevision", "changesRequested", "draft"}
NoRecord ==
  [listed |-> FALSE, logins |-> {}, links |-> Unread, timeline |-> Unread, assigned |-> Unread,
   clocks |-> Unread, requested |-> Unread, entered |-> Unread, commit |-> Unread, draft |-> Unread]

Start(at) == [at |-> at, page |-> 1, last |-> 1, seen |-> <<>>, held |-> <<>>]

\* Some of what people did stands already: an assignment, a reference or a request.
ReadingInit ==
  /\ subject \in {"issue", "pullRequest"} /\ working \in BOOLEAN
  /\ \E p \in Pull : open = Pull \ {p}
  /\ closing \in [Pull -> {"none", "near", "far"}] /\ Cardinality({p \in Pull : closing[p] # "none"}) <= 1
  /\ \E first \in Person :
       \E more \in {<<>>} \cup {<<[kind |-> "requestsChanges", by |-> p, at |-> 1]>> : p \in Person} :
         /\ assignees = {first} /\ line = <<[kind |-> "assigned", by |-> first, at |-> 0]>> \o more
         /\ subject = "issue" => more = <<>>
  /\ subject = "pullRequest" => \A p \in Pull : closing[p] = "none"
  /\ draft = FALSE /\ made = 1
  /\ read = Start("idle") /\ record = NoRecord
  /\ standing = {} /\ counted = {} /\ shifted = FALSE /\ late = {}

----------------------------------------------------------------------------
(* What people do.                                                         *)

Changes == made < MaxChanges /\ made' = made + 1 /\ UNCHANGED <<subject, working, reading>>
Shows(kind, by) == line' = Append(line, [kind |-> kind, by |-> by, at |-> made + 1])
IsPull == subject = "pullRequest"
Walked == record.timeline # Unread \/ read.at \notin {"idle", "list", "timeline"}

Assigns(p) ==
  /\ p \notin assignees /\ Changes /\ Shows("assigned", p)
  /\ assignees' = assignees \cup {p}
  /\ UNCHANGED <<open, closing, draft, standing, counted, shifted, late>>

Unassigns(p) ==
  /\ p \in assignees /\ Changes /\ Shows("unassigned", p)
  /\ assignees' = assignees \ {p}
  /\ UNCHANGED <<open, closing, draft, standing, counted, shifted, late>>

Comments(p) ==
  /\ Changes /\ \E kind \in {"working", "chatter"} : Shows(kind, p)
  /\ UNCHANGED <<open, closing, assignees, draft, standing, counted, shifted, late>>

IsComment(entry) == entry.kind \in {"working", "chatter"}
CommentsIn(entries) == SelectSeq(entries, IsComment)

\* Was the entry's place on a page the walk in hand is past?
Behind(list, entry) ==
  \E i \in 1..Len(list) : list[i] = entry /\ i <= (read.page - 1) * PageSize

Deletes ==
  \E i \in 1..Len(line) :
    /\ IsComment(line[i]) /\ Changes
    /\ line' = RemoveAt(line, i)
    /\ counted' = counted \ {line[i]}
    /\ shifted' = (shifted \/ (read.at = "timeline" /\ Behind(line, line[i]))
                           \/ (read.at = "comments" /\ Behind(CommentsIn(line), line[i])))
    /\ UNCHANGED <<open, closing, assignees, draft, standing, late>>

Enters(kind, mode, by) ==
  /\ IsPull /\ Changes /\ Shows(kind, by)
  /\ late' = IF Walked THEN late \cup {mode} ELSE late
  /\ UNCHANGED <<open, closing, assignees, standing, counted, shifted>>

Drafts == draft' = TRUE /\ Enters("convertToDraft", "draft", None)
Reviews(p) == UNCHANGED draft /\ Enters("requestsChanges", "changesRequested", p)

Progresses(p) ==
  /\ IsPull /\ Changes /\ \E kind \in {"approves", "commits"} : Shows(kind, p)
  /\ UNCHANGED <<open, closing, assignees, draft, standing, counted, shifted, late>>

\* A dismissal changes the review where it stands.
Dismisses ==
  \E i \in 1..Len(line) :
    /\ line[i].kind = "requestsChanges" /\ Changes
    /\ line' = [line EXCEPT ![i].kind = "dismissed"]
    /\ counted' = counted \ {line[i]}
    /\ UNCHANGED <<open, closing, assignees, draft, standing, shifted, late>>

\* GitHub lists the newest first.
Listing == SetToSortSeq(open \cup {1}, LAMBDA m, n : m > n)

Opens(p) ==
  /\ p \notin open /\ Changes
  /\ open' = open \cup {p}
  /\ UNCHANGED <<closing, assignees, draft, line, standing, counted, shifted, late>>

Closes(p) ==
  /\ p \in open /\ Changes
  /\ open' = open \ {p} /\ standing' = standing \ {p}
  /\ shifted' = (shifted \/ (read.at = "list" /\ Behind(Listing, p)))
  /\ UNCHANGED <<closing, assignees, draft, line, counted, late>>

\* A reference on the connection's first page, or behind it.
Refers(p) ==
  /\ subject = "issue" /\ Changes
  /\ \E place \in {"none", "near", "far"} \ {closing[p]} :
       /\ closing' = [closing EXCEPT ![p] = place]
       /\ standing' = IF place = "none" THEN standing \ {p} ELSE standing
  /\ UNCHANGED <<open, assignees, draft, line, counted, shifted, late>>

----------------------------------------------------------------------------
(* allPages.                                                               *)

Page(list, n) ==
  SubSeq(list, (n - 1) * PageSize + 1, IF n * PageSize < Len(list) THEN n * PageSize ELSE Len(list))
LastPage(list) == IF list = <<>> THEN 1 ELSE (Len(list) + PageSize - 1) \div PageSize

LastKnown(list) == IF read.page = 1 THEN LastPage(list) ELSE read.last
Ends(list) == read.page >= LastKnown(list) /\ read.page >= LastPage(list)

Seen(list) == read.seen \o Page(list, read.page)
Whole(list) == Ends(list)
Longer(list) == ~Ends(list) /\ read.page < MaxPages
Onward(list) ==
  [read EXCEPT !.page = @ + 1, !.seen = Seen(list),
               !.last = IF read.page = 1 THEN LastPage(list) ELSE @]

Quiet == UNCHANGED <<subject, working, github, standing, shifted, late>>

\* One request of a walk: its page, or the whole list and what is made of it.
Walks(at, list, next, made_of) ==
  /\ read.at = at
  /\ \/ Longer(list) /\ read' = Onward(list) /\ UNCHANGED record
     \/ Whole(list) /\ read' = Start(next) /\ record' = made_of
  /\ Quiet

----------------------------------------------------------------------------
(* The list and the links.                                                 *)

AsksList ==
  /\ read.at = "idle"
  /\ read' = Start("list")
  /\ standing' = {p \in open : closing[p] # "none"}
  /\ UNCHANGED <<subject, working, github, record, counted, shifted, late>>

\* Only an issue has links to read: from every pull request the list held.
ToLinks == IF subject = "issue" THEN [Start("links") EXCEPT !.seen = Seen(Listing)] ELSE Start("timeline")

\* readOpenItems: the row is the item's as it stands on its page; an item the walk did
\* not meet is not read.
WalksList ==
  LET met == 1 \in ToSet(Page(Listing, read.page))
      row == [record EXCEPT !.listed = TRUE, !.logins = assignees]
      now == IF met THEN row ELSE record
  IN /\ read.at = "list"
     /\ \/ Longer(Listing) /\ read' = Onward(Listing)
        \/ Whole(Listing) /\ read' = IF now.listed THEN ToLinks ELSE Start("missed")
     /\ record' = now
     /\ counted' = IF met THEN ToSet(line) ELSE counted
     /\ Quiet

\* readLinkedIssuesBatch: each chunk answers for its own instant; a connection with more
\* pages is read on its own, and that answer stands.
ChunkOf(pulls) == SubSeq(pulls, 1, IF Len(pulls) < BatchSize THEN Len(pulls) ELSE BatchSize)
IsListedPull(number) == number # 1
HeldBack(pulls) == SelectSeq(pulls, LAMBDA p : closing[p] = "far")

\* read.seen holds the pull requests still to ask of, read.held those to ask again.
Linked == IF record.links = Unread THEN {} ELSE record.links

AsksLinks ==
  LET pulls == SelectSeq(read.seen, IsListedPull)
      chunk == ChunkOf(pulls)
      rest == SubSeq(pulls, Len(chunk) + 1, Len(pulls))
      held == read.held \o HeldBack(chunk)
  IN /\ read.at = "links"
     /\ record' = [record EXCEPT !.links = Linked \cup {p \in ToSet(chunk) : closing[p] = "near"}]
     /\ read' = CASE rest # <<>> -> [read EXCEPT !.seen = rest, !.held = held]
                  [] rest = <<>> /\ held # <<>> -> [Start("held") EXCEPT !.held = held]
                  [] OTHER -> Start("timeline")
     /\ UNCHANGED counted /\ Quiet

AsksHeldBack ==
  LET p == Head(read.held)
  IN /\ read.at = "held"
     /\ record' = [record EXCEPT !.links = IF closing[p] = "none" THEN @ \ {p} ELSE @ \cup {p}]
     /\ read' = IF Len(read.held) = 1 THEN Start("timeline") ELSE [read EXCEPT !.held = Tail(@)]
     /\ UNCHANGED counted /\ Quiet

----------------------------------------------------------------------------
(* The folds.                                                              *)

Newest(ats) == IF ats = {} THEN None ELSE CHOOSE at \in ats : \A other \in ats : other <= at
\* newer: the fold every "newest per login" read uses.
Newer(ats) == Newest(ats)

DatesOf(entries, kind, by) ==
  {entries[i].at : i \in {j \in 1..Len(entries) : entries[j].kind = kind /\ entries[j].by = by}}

\* readTimeline, memoised; readAssignedAt's fold.
WalksTimeline ==
  /\ Walks("timeline", line, IF working THEN "comments" ELSE "folded",
       [record EXCEPT !.timeline = Seen(line),
          !.assigned = [p \in Person |-> Newer(DatesOf(Seen(line), "assigned", p))]])
  /\ UNCHANGED counted

After == IF IsPull THEN "reviews" ELSE "done"

\* readClocks: a login with no assignment event makes the whole read unusable.
Clocks(worked) ==
  IF \E p \in record.logins : record.assigned[p] = None THEN Unread
  ELSE [p \in record.logins |-> [assigned |-> record.assigned[p], worked |-> worked[p]]]

\* readLastWorkingAt; without a spelling no comment is read.
WalksComments ==
  LET list == CommentsIn(line)
  IN /\ Walks("comments", list, After,
          [record EXCEPT !.clocks = Clocks([p \in Person |-> Newer(DatesOf(Seen(list), "working", p))])])
     /\ UNCHANGED counted

Folds ==
  /\ read.at = "folded"
  /\ read' = Start(After)
  /\ record' = [record EXCEPT !.clocks = Clocks([p \in Person |-> None])]
  /\ UNCHANGED counted /\ Quiet

\* readChangesRequestedAt: each reviewer's latest deciding review.
IsDeciding(entry) == entry.kind \in {"approves", "requestsChanges", "dismissed"}
LatestOf(reviews, p) ==
  LET own == SelectSeq(reviews, LAMBDA review : review.by = p) IN IF own = <<>> THEN None ELSE Last(own)
\* Mutant: the latest review is everybody's.
StandingOfLast(reviews) ==
  IF reviews = <<>> \/ Last(reviews).kind # "requestsChanges" THEN {} ELSE {Last(reviews).at}
StandingIn(reviews) ==
  {LatestOf(reviews, p).at : p \in {q \in Person : LatestOf(reviews, q) # None
                                      /\ LatestOf(reviews, q).kind = "requestsChanges"}}

WalksReviews ==
  LET list == SelectSeq(line, IsDeciding)
  IN /\ Walks("reviews", list, "pull",
          [record EXCEPT !.requested = Newest(StandingIn(Seen(list)))])
     /\ UNCHANGED counted

\* readReapableSince: the pull request's own record, then the timeline already walked.
\* A failed walk is remembered too.
EnteredBy(kind) == IF kind = "convertToDraft" THEN "draft" ELSE "changesRequested"
EnteredIn(entries) ==
  [reason \in Reasons |->
     Newest({0} \cup {entries[i].at : i \in {j \in 1..Len(entries) :
        entries[j].kind \in {"convertToDraft", "requestsChanges"}
          /\ EnteredBy(entries[j].kind) = reason}})]

AsksPull ==
  /\ read.at = "pull"
  /\ read' = Start(IF record.timeline = Unread THEN "done" ELSE "commits")
  /\ record' = [record EXCEPT !.draft = draft,
       !.requested = IF record.timeline = Unread THEN Unread ELSE @,
       !.entered = IF record.timeline = Unread THEN Unread ELSE EnteredIn(record.timeline)]
  /\ UNCHANGED counted /\ Quiet

\* readLastCommitAt: a list at the ceiling is no answer.
WalksCommits ==
  LET list == SelectSeq(line, LAMBDA entry : entry.kind = "commits")
  IN /\ Walks("commits", list, "done",
          [record EXCEPT !.commit = IF Len(Seen(list)) >= MaxCommits THEN Unread
                                    ELSE Newest({Seen(list)[i].at : i \in 1..Len(Seen(list))})])
     /\ UNCHANGED counted

\* A failed request, or a list too long, leaves its group unread; no group half read.  A
\* list that failed ends the firing, and so does a read the allowance refused.
NextAfterFailure ==
  CASE read.at = "list" -> "unlisted"
    [] read.at \in {"links", "held"} -> "timeline"
    [] read.at \in {"timeline", "comments"} -> After
    [] read.at \in {"reviews", "pull", "commits"} -> "done"

Asking == read.at \in {"list", "links", "held", "timeline", "comments", "reviews", "pull", "commits"}
Failed ==
  CASE read.at \in {"links", "held"} -> [record EXCEPT !.links = Unread]
    [] read.at \in {"pull", "commits"} -> [record EXCEPT !.requested = Unread, !.entered = Unread]
    [] OTHER -> record

Fails ==
  /\ Asking
  /\ read' = Start(NextAfterFailure)
  /\ record' = Failed
  /\ UNCHANGED counted /\ Quiet

IsRefused ==
  /\ Asking
  /\ read' = Start("turnedAway") /\ record' = NoRecord
  /\ UNCHANGED counted /\ Quiet

Ended == {"done", "missed", "unlisted", "turnedAway"}

People ==
  \/ \E p \in Person : Assigns(p) \/ Unassigns(p) \/ Comments(p) \/ Reviews(p) \/ Progresses(p)
  \/ Deletes \/ Drafts \/ Dismisses
  \/ \E p \in Pull : Opens(p) \/ Closes(p) \/ Refers(p)

Reads ==
  \/ AsksList \/ WalksList \/ AsksLinks \/ AsksHeldBack
  \/ WalksTimeline \/ WalksComments \/ Folds \/ WalksReviews \/ AsksPull \/ WalksCommits
  \/ Fails \/ IsRefused

ReadingNext == read.at \notin Ended /\ (People \/ Reads)

ReadingSpec == ReadingInit /\ [][ReadingNext]_readingVars

-----------------------------------------------------------------------------

Complete == read.at = "done"

\* An issue's record never leaves out a pull request that was open and closed it from
\* before the list was asked for until the links were read: what could not be read of any
\* pull request leaves every issue's links unread.  Only an item that closed between two
\* pages of the list hides one, by moving it to a page already read.
NoLinkIsLost ==
  Complete /\ subject = "issue" /\ record.links # Unread /\ ~shifted => standing \subseteq record.links

StartOf(ats) == Newest({0} \cup {at \in ats : at # None})
DatedIn(entries, kind, by) == {e.at : e \in {d \in entries : d.kind = kind /\ d.by = by}}

\* A clock never starts before what its person did by the time the item's row was read,
\* however the reads that make it were spread: the newest assignment, and the newest
\* command where there is one.
ClocksNeverRunEarly ==
  Complete /\ record.clocks # Unread /\ ~shifted =>
    \A p \in DOMAIN record.clocks :
      LET clock == record.clocks[p]
      IN /\ \A at \in DatedIn(counted, "assigned", p) : clock.assigned >= at
         /\ working => \A at \in DatedIn(counted, "working", p) : StartOf({clock.worked}) >= at

\* changesOutstanding, and the clock of a reason (capability/facts.ts).
Outstanding == record.requested # None /\ (record.commit = None \/ record.commit < record.requested)
PullClock(reason) ==
  StartOf({record.entered[reason], record.commit} \cup {record.clocks[p].worked : p \in DOMAIN record.clocks})

\* A reapable mode is counted from no earlier than the event that began it, and a standing
\* request is not hidden by another reviewer's word.  The timeline is walked first and
\* kept: a mode entered between it and the reads after it is dated by what came before.
ModesAreDatedByTheirEvents ==
  Complete /\ IsPull /\ Unread \notin {record.requested, record.entered, record.commit, record.clocks} =>
    /\ Outstanding /\ "changesRequested" \notin late /\ ~shifted
         => PullClock("changesRequested") >= record.requested
    /\ \A p \in Person :
         LET own == {e \in counted : e.by = p /\ IsDeciding(e)}
         IN own # {} /\ Cardinality({e \in ToSet(line) : e.by = p /\ IsDeciding(e)}) = Cardinality(own)
              => LET latest == CHOOSE e \in own : \A other \in own : other.at <= e.at
                 IN latest.kind = "requestsChanges"
                      => record.requested # None /\ record.requested >= latest.at
=============================================================================
