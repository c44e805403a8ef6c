------------------------------- MODULE Sweep -------------------------------
(***************************************************************************)
(* The fact sweep: the schedule row of each repository, the pass of a tick *)
(* over the rows that are due, and the firing of one row, which lists the  *)
(* open items, reads those past the cursor or answers them from a stored   *)
(* read, hands each to the decision and arms the row again.  GitHub's      *)
(* limits are a window of requests shared by all repositories.             *)
(*                                                                         *)
(* Time is counted in ticks, and every instant is kept as its distance     *)
(* from now, saturating where the code no longer tells distances apart.    *)
(***************************************************************************)
EXTENDS Naturals, FiniteSets

CONSTANTS
  Repo,        \* repositories with a sweep row, or to have one
  Item,        \* issue and pull request numbers
  None,        \* no repository in hand, no cursor, no stored read
  Cadence,     \* cadenceMs, in ticks
  Settle,      \* REVIEW_SETTLE_MS, in ticks
  MaxAge,      \* snapshotMaxAgeMs, in ticks
  Lag,         \* how late a review may reach updated_at, in ticks
  Budget,      \* the cap of the read pools in one window
  ListCost,    \* the most the list and the batch of links are charged
  ItemCost,    \* the most one item's reads are charged
  GateCost,    \* the most the reads for one item's writes are charged
  WriteCap,    \* SWEEP_WRITE_CALLS
  Happens,     \* what people do: subset of {"touch", "review", "close", "open"}
  MaxFaults    \* crashes and failures in a behaviour

ASSUME RepoAssumption == None \notin Repo
ASSUME ItemAssumption == Item \subseteq Nat \ {0} /\ None \notin Nat
ASSUME TimeAssumption ==
  Cadence \in Nat \ {0} /\ Settle \in Nat /\ MaxAge \in Nat /\ Lag \in Nat
ASSUME BudgetAssumption ==
  /\ Budget \in Nat \ {0} /\ ListCost \in Nat /\ ItemCost \in Nat
  /\ GateCost \in Nat
  /\ WriteCap \in Nat \ {0} /\ MaxFaults \in Nat

VARIABLES
  row,      \* schedule: one row per repository
  before,   \* ORDER of started_at, null first: <<r, s>> when r comes before s
  item,     \* GitHub's items: open, time since updated_at, a review not yet in it
  snap,     \* item_snapshot: one stored read per item, or None
  at,       \* where the sweep of the process stands
  queue,    \* rows this tick claimed and has not fired
  hand,     \* the repository of the firing in hand
  listed,   \* the open-item list of the firing: time since updated_at, or None
  listAge,  \* time since that list was read
  held,     \* listed items a stored read still stands for
  records,  \* walk: items answered; decide: items still to decide
  next,     \* resumeAfter of the firing
  left,     \* did the walk stop before the end of the list
  spent,    \* what the read pools were charged in this window
  writes,   \* what the mutation lane was charged since it was armed
  owed,     \* history: items open since the round began, not decided in it
  away,     \* history: repositories turned away since their last firing
  since,    \* history: the repositories fired since this one was turned away
  faults    \* history: the faults spent so far

rowVars == <<row, before>>
gitVars == <<item>>
listVars == <<listed, listAge, held>>
walkVars == <<records, next, left>>
firingVars == <<at, queue, hand, listVars, walkVars>>
historyVars == <<owed, away, since>>
vars == <<rowVars, gitVars, snap, firingVars, spent, writes, historyVars, faults>>

Least(a, b) == IF a <= b THEN a ELSE b
Later(a, b) == IF a >= b THEN a ELSE b

\* Ages of an update past this are past Settle and past MaxAge alike.
UpdCap == Later(Settle, MaxAge) + 1

Row == [status : {"absent", "pending", "running"}, due : 0..Cadence, resume : Item \cup {None}]
GitItem == [open : BOOLEAN, upd : 0..UpdCap, late : 0..Lag \cup {None}]
\* A stored read past MaxAge is never decided from: it counts as none.
Snapshot == [upd : 0..UpdCap, read : 0..MaxAge, facts : 0..MaxAge, behind : BOOLEAN]

Kept(s) == IF s.read < MaxAge THEN s ELSE None

Undeclared == [status |-> "absent", due |-> 0, resume |-> None]
ClosedItem == [open |-> FALSE, upd |-> UpdCap, late |-> None]
OldItem == [open |-> TRUE, upd |-> UpdCap, late |-> None]

Places == {"down", "idle", "pass", "config", "list", "walk", "decide"}

OpenItems(r) == {n \in Item : item[r][n].open}
Listed == {n \in Item : listed[n] # None}

----------------------------------------------------------------------------
(* What the code computes.                                                 *)

\* exhausted(): any lane; readsStalled(): the read pools only.
ReadsStalled == spent >= Budget
Exhausted == ReadsStalled \/ writes >= WriteCap

Charged(c) == Least(spent + c, Budget)

Due == {r \in Repo : row[r].status = "pending" /\ row[r].due = 0}

\* Mutant: claimed rows are fired as the statement returns them.
AnyTurn(r) == r \in queue

\* firedFirst: the row whose last firing began longest ago.
Turn(r) == r \in queue /\ \A s \in queue : <<s, r>> \notin before

\* Mutant: the list's own field is not compared.
StandsIfYoung(s, upd) == s # None /\ upd > Settle /\ s.read < MaxAge

\* stillStands, at the instant the list was read.
StillStands(s, upd) ==
  /\ s # None
  /\ s.upd = upd
  /\ upd > Settle
  /\ s.read < MaxAge

\* Past the cursor; a null cursor starts the list again.
Eligible(r) == {n \in Listed : row[r].resume = None \/ n > row[r].resume}

ToRead(r) == Eligible(r) \ records

\* Items are taken in number order.
First(n, S) == n \in S /\ \A m \in S : n <= m

Highest(S) == CHOOSE n \in S : \A m \in S : n >= m

\* Mutant: the cursor names the first item not read.
ResumeAtNext(r) == IF ToRead(r) = {} THEN None ELSE CHOOSE n \in ToRead(r) : First(n, ToRead(r))

\* The cursor handed to the next firing.
ResumeAfter(r) ==
  CASE ToRead(r) = {} -> None
    [] ToRead(r) # {} /\ records # {} -> Highest(records)
    [] OTHER -> row[r].resume

\* The row's start goes last; a row never fired keeps its place ahead of all.
StartedLast(r) == {pair \in before : pair[1] # r} \cup {<<s, r>> : s \in Repo \ {r}}

\* What a stored read becomes when its item changes.
Overtaken(r, n) ==
  [snap EXCEPT ![r][n] = IF @ = None THEN None ELSE [@ EXCEPT !.behind = TRUE]]

----------------------------------------------------------------------------
Init ==
  /\ row = [r \in Repo |-> Undeclared]
  /\ before = {}
  /\ item = [r \in Repo |-> [n \in Item |-> OldItem]]
  /\ snap = [r \in Repo |-> [n \in Item |-> None]]
  /\ at = "idle"
  /\ queue = {}
  /\ hand = None
  /\ listed = [n \in Item |-> None]
  /\ listAge = 0
  /\ held = {}
  /\ records = {}
  /\ next = None
  /\ left = FALSE
  /\ spent = 0
  /\ writes = 0
  /\ owed = [r \in Repo |-> {}]
  /\ away = {}
  /\ since = [r \in Repo |-> {}]
  /\ faults = 0

Fault == faults < MaxFaults /\ faults' = faults + 1

\* declareSweep on every delivery: INSERT OR IGNORE, due now.
Declare(r) ==
  /\ row[r].status = "absent"
  /\ row' = [row EXCEPT ![r] = [@ EXCEPT !.status = "pending"]]
  /\ UNCHANGED <<before, gitVars, snap, firingVars, spent, writes, historyVars, faults>>

\* fireDue: one statement claims every due row, and the mutation lane is armed.
ClaimDue ==
  /\ at = "idle"
  /\ Due # {}
  /\ row' = [r \in Repo |-> IF r \in Due THEN [row[r] EXCEPT !.status = "running"] ELSE row[r]]
  /\ queue' = Due
  /\ writes' = 0
  /\ at' = "pass"
  /\ UNCHANGED <<before, gitVars, snap, hand, listVars, walkVars, spent, historyVars, faults>>

----------------------------------------------------------------------------
(* The re-arm, and what a firing leaves behind.                            *)

Forget ==
  /\ hand' = None
  /\ listed' = [n \in Item |-> None]
  /\ listAge' = 0
  /\ held' = {}
  /\ records' = {}
  /\ next' = None
  /\ left' = FALSE

\* On to the next claimed row, or the pass is over.
GoOn(rest) ==
  /\ queue' = rest
  /\ at' = IF rest = {} THEN "idle" ELSE "pass"
  /\ Forget

Armed(r, due, resume) ==
  row' = [row EXCEPT ![r] = [status |-> "pending", due |-> due, resume |-> resume]]

\* A firing that ran: its start is the row's, and it was not turned away.
Ran(r) ==
  /\ before' = StartedLast(r)
  /\ away' = away \ {r}
  /\ since' = [s \in Repo |-> IF s = r THEN {}
                              ELSE IF s \in away THEN since[s] \cup {r} ELSE since[s]]

\* Mutant: the row of a deferred firing takes the firing's start.
TurnedAwayLast(r) ==
  /\ Armed(r, 0, row[r].resume)
  /\ before' = StartedLast(r)
  /\ away' = away \cup {r}
  /\ UNCHANGED since

\* deferred(): due at once, cursor and place in the order as they were.
TurnedAway(r) ==
  /\ Armed(r, 0, row[r].resume)
  /\ away' = away \cup {r}
  /\ UNCHANGED <<before, since>>

\* nothingRead(): a cadence out, and the cursor as it stood.
NothingRead(r) ==
  /\ Armed(r, Cadence, row[r].resume)
  /\ Ran(r)

----------------------------------------------------------------------------
(* One firing.                                                             *)

\* Its turn comes with a lane spent: untouched, for the next tick.
Defer(r) ==
  /\ at = "pass"
  /\ Turn(r)
  /\ Exhausted
  /\ TurnedAway(r)
  /\ GoOn(queue \ {r})
  /\ UNCHANGED <<gitVars, snap, spent, writes, owed, faults>>

Begin(r) ==
  /\ at = "pass"
  /\ Turn(r)
  /\ ~Exhausted
  /\ hand' = r
  /\ queue' = queue \ {r}
  /\ at' = "config"
  /\ UNCHANGED <<rowVars, gitVars, snap, listVars, walkVars, spent, writes, historyVars, faults>>

\* configuration() resolved to a file that wants sweeping: 304 is free.
ReadConfig ==
  /\ at = "config"
  /\ \E c \in 0..1 :
       /\ spent' = Charged(c)
       /\ IF spent' >= Budget \/ writes >= WriteCap
          THEN /\ TurnedAway(hand)
               /\ GoOn(queue)
          ELSE /\ at' = "list"
               /\ UNCHANGED <<rowVars, queue, hand, listVars, walkVars, away, since>>
  /\ UNCHANGED <<gitVars, snap, writes, owed, faults>>

\* The file was unreadable or wants no sweeping, or reading it threw.
ReadsNothing ==
  /\ at = "config"
  /\ Fault
  /\ spent' \in {spent, Charged(1)}
  /\ NothingRead(hand)
  /\ GoOn(queue)
  /\ UNCHANGED <<gitVars, snap, writes, owed>>

\* The list is unusable: the allowance refused a page, or GitHub did.
ListFails ==
  /\ at = "list"
  /\ \/ spent + ListCost > Budget /\ spent' = Budget /\ UNCHANGED faults
     \/ Fault /\ UNCHANGED spent
  /\ NothingRead(hand)
  /\ GoOn(queue)
  /\ UNCHANGED <<gitVars, snap, writes, owed>>

\* openItems() answered: drop the reads of what is no longer open, keep those
\* that stand and answer the groups now needed, then read the missing links.
ListItems ==
  /\ at = "list"
  /\ \E c \in 0..ListCost : spent' = Charged(c)
  /\ listed' = [n \in Item |-> IF item[hand][n].open THEN item[hand][n].upd ELSE None]
  /\ listAge' = 0
  /\ snap' = [snap EXCEPT ![hand] =
                [n \in Item |-> IF n \in OpenItems(hand) THEN @[n] ELSE None]]
  /\ \E standing \in SUBSET {n \in OpenItems(hand) :
                               StillStands(snap[hand][n], item[hand][n].upd)} :
       held' = standing
  /\ owed' = IF row[hand].resume = None THEN [owed EXCEPT ![hand] = OpenItems(hand)] ELSE owed
  /\ at' = "walk"
  /\ UNCHANGED <<rowVars, gitVars, queue, hand, walkVars, writes, away, since, faults>>

\* The next item in number order has a stored read that stands.
Reuse(n) ==
  /\ at = "walk"
  /\ ~ReadsStalled
  /\ First(n, ToRead(hand))
  /\ n \in held
  /\ records' = records \cup {n}
  /\ UNCHANGED <<rowVars, gitVars, snap, at, queue, hand, listVars, next, left,
                 spent, writes, historyVars, faults>>

\* putSnapshot: the list's field and the list's instant, the facts of now.
Stored(n) == [upd |-> listed[n], read |-> listAge, facts |-> 0, behind |-> FALSE]

\* It is read, and what it said is stored.
ReadItem(n) ==
  /\ at = "walk"
  /\ ~ReadsStalled
  /\ First(n, ToRead(hand))
  /\ n \notin held
  /\ \E c \in 0..ItemCost : spent + c <= Budget /\ spent' = spent + c
  /\ snap' = [snap EXCEPT ![hand][n] = Kept(Stored(n))]
  /\ records' = records \cup {n}
  /\ UNCHANGED <<rowVars, gitVars, at, queue, hand, listVars, next, left,
                 writes, historyVars, faults>>

\* The walk is over: at the end of the list, at a spent pool before an item, or
\* at a refusal within one, whose record is not kept.
EndWalk ==
  /\ at = "walk"
  /\ \/ ToRead(hand) = {} /\ spent' = spent
     \/ ToRead(hand) # {} /\ ReadsStalled /\ spent' = spent
     \/ /\ ~ReadsStalled
        /\ \E n \in Item \ held : First(n, ToRead(hand))
        /\ spent + ItemCost > Budget
        /\ spent' = Budget
  /\ next' = ResumeAfter(hand)
  /\ left' = (ToRead(hand) # {})
  /\ at' = "decide"
  /\ UNCHANGED <<rowVars, gitVars, snap, queue, hand, listVars, records, writes,
                 historyVars, faults>>

\* decideItem, with what it writes and reads for it.
Decide ==
  /\ at = "decide"
  /\ \E n \in records :
       /\ First(n, records)
       /\ records' = records \ {n}
       /\ owed' = [owed EXCEPT ![hand] = @ \ {n}]
  /\ writes' \in writes..WriteCap
  /\ \E c \in 0..GateCost : spent' = Charged(c)
  /\ UNCHANGED <<rowVars, gitVars, snap, at, queue, hand, listVars, next, left,
                 away, since, faults>>

\* A decision threw: the whole reading counts as nothing read.
DecideThrows ==
  /\ at = "decide"
  /\ records # {}
  /\ Fault
  /\ NothingRead(hand)
  /\ GoOn(queue)
  /\ UNCHANGED <<gitVars, snap, spent, writes, owed>>

\* The one re-arm rule: partial, which is a cursor, is due at once.
Finish ==
  /\ at = "decide"
  /\ records = {}
  /\ Armed(hand, IF next # None THEN 0 ELSE Cadence, next)
  /\ Ran(hand)
  /\ GoOn(queue)
  /\ UNCHANGED <<gitVars, snap, spent, writes, owed, faults>>

\* A throw outside the contained half (processorFor, the store) ends the pass:
\* no claimed row is handed back.
PassFails ==
  /\ at \in {"pass", "config", "list", "walk", "decide"}
  /\ Fault
  /\ GoOn({})
  /\ UNCHANGED <<rowVars, gitVars, snap, spent, writes, historyVars>>

----------------------------------------------------------------------------
(* GitHub, people and the process.                                         *)

\* A comment, a label, a push: updated_at moves with the change.
Touch(r, n) ==
  /\ "touch" \in Happens
  /\ item[r][n].open
  /\ item' = [item EXCEPT ![r][n].upd = 0]
  /\ snap' = Overtaken(r, n)
  /\ UNCHANGED <<rowVars, firingVars, spent, writes, historyVars, faults>>

\* A review: a read sees it at once, updated_at only later.
Review(r, n) ==
  /\ "review" \in Happens
  /\ item[r][n].open
  /\ item[r][n].late = None
  /\ item' = [item EXCEPT ![r][n].late = 0]
  /\ snap' = Overtaken(r, n)
  /\ UNCHANGED <<rowVars, firingVars, spent, writes, historyVars, faults>>

\* updated_at takes the review's own instant.
Reviewed(i) == [i EXCEPT !.upd = Least(i.upd, i.late), !.late = None]

Propagate(r, n) ==
  /\ item[r][n].late # None
  /\ item' = [item EXCEPT ![r][n] = Reviewed(@)]
  /\ UNCHANGED <<rowVars, snap, firingVars, spent, writes, historyVars, faults>>

Close(r, n) ==
  /\ "close" \in Happens
  /\ item[r][n].open
  /\ item' = [item EXCEPT ![r][n] = ClosedItem]
  /\ snap' = Overtaken(r, n)
  /\ owed' = [owed EXCEPT ![r] = @ \ {n}]
  /\ UNCHANGED <<rowVars, firingVars, spent, writes, away, since, faults>>

Open(r, n) ==
  /\ "open" \in Happens
  /\ ~item[r][n].open
  /\ item' = [item EXCEPT ![r][n] = [OldItem EXCEPT !.upd = 0]]
  /\ snap' = Overtaken(r, n)
  /\ UNCHANGED <<rowVars, firingVars, spent, writes, historyVars, faults>>

\* GitHub's window ends, and the allowance starts the next one.
Roll ==
  /\ spent > 0
  /\ spent' = 0
  /\ UNCHANGED <<rowVars, gitVars, snap, firingVars, writes, historyVars, faults>>

Older(a, cap) == Least(a + 1, cap)

AgedSnap(s) ==
  IF s = None THEN None
  ELSE Kept([s EXCEPT !.upd = Older(@, UpdCap), !.read = Older(@, MaxAge),
                      !.facts = Older(@, MaxAge)])

AgedItem(i) == [i EXCEPT !.upd = Older(@, UpdCap), !.late = IF @ = None THEN None ELSE @ + 1]

\* Time passes; a review reaches updated_at within Lag.
Tick ==
  /\ \A r \in Repo, n \in Item : item[r][n].late # None => item[r][n].late < Lag
  /\ row' = [r \in Repo |-> [row[r] EXCEPT !.due = IF @ = 0 THEN 0 ELSE @ - 1]]
  /\ item' = [r \in Repo |-> [n \in Item |-> AgedItem(item[r][n])]]
  /\ snap' = [r \in Repo |-> [n \in Item |-> AgedSnap(snap[r][n])]]
  /\ listed' = [n \in Item |-> IF listed[n] = None THEN None ELSE Older(listed[n], UpdCap)]
  /\ listAge' = IF at \in {"walk", "decide"} THEN Older(listAge, MaxAge) ELSE listAge
  /\ UNCHANGED <<before, at, queue, hand, held, walkVars, spent, writes, historyVars, faults>>

\* The process dies: the store and GitHub stay, what it held in memory goes.
Crash ==
  /\ at # "down"
  /\ Fault
  /\ at' = "down"
  /\ queue' = {}
  /\ spent' = 0
  /\ writes' = 0
  /\ Forget
  /\ UNCHANGED <<rowVars, gitVars, snap, historyVars>>

Restart ==
  /\ at = "down"
  /\ at' = "idle"
  /\ UNCHANGED <<rowVars, gitVars, snap, queue, hand, listVars, walkVars, spent, writes,
                 historyVars, faults>>

----------------------------------------------------------------------------
Firing ==
  \/ \E r \in Repo : Defer(r) \/ Begin(r)
  \/ ReadConfig
  \/ ListItems
  \/ \E n \in Item : Reuse(n)
  \/ \E n \in Item : ReadItem(n)
  \/ EndWalk
  \/ Decide
  \/ Finish

Failure == ReadsNothing \/ ListFails \/ DecideThrows \/ PassFails \/ Crash

People ==
  \E r \in Repo, n \in Item : Touch(r, n) \/ Review(r, n) \/ Close(r, n) \/ Open(r, n)

Next ==
  \/ \E r \in Repo : Declare(r)
  \/ ClaimDue
  \/ Firing
  \/ Failure
  \/ People
  \/ \E r \in Repo, n \in Item : Propagate(r, n)
  \/ Roll
  \/ Tick
  \/ Restart

Spec == Init /\ [][Next]_vars

\* The interval keeps ticking, what a firing awaits settles, time goes on.  A
\* window ends again and again while the sweep rests on a spent one: a pass that
\* only turns rows away sends nothing and is over at once, so a window practically
\* never ends inside one.
Fairness ==
  /\ WF_vars(ClaimDue)
  /\ WF_vars(Firing)
  /\ WF_vars(Tick)
  /\ WF_vars(Restart)
  /\ \A r \in Repo, n \in Item : WF_vars(Propagate(r, n))
  /\ SF_vars(at = "idle" /\ ReadsStalled /\ Roll)

FairSpec == Spec /\ Fairness

----------------------------------------------------------------------------
(* Properties.                                                             *)

TypeOK ==
  /\ row \in [Repo -> Row]
  /\ before \subseteq Repo \X Repo
  /\ item \in [Repo -> [Item -> GitItem]]
  /\ snap \in [Repo -> [Item -> Snapshot \cup {None}]]
  /\ at \in Places
  /\ queue \subseteq Repo
  /\ hand \in Repo \cup {None}
  /\ listed \in [Item -> 0..UpdCap \cup {None}]
  /\ listAge \in 0..MaxAge
  /\ held \subseteq Item
  /\ records \subseteq Item
  /\ next \in Item \cup {None}
  /\ left \in BOOLEAN
  /\ spent \in 0..Budget
  /\ writes \in 0..WriteCap
  /\ owed \in [Repo -> SUBSET Item]
  /\ away \subseteq Repo
  /\ since \in [Repo -> SUBSET Repo]
  /\ faults \in 0..MaxFaults

InFiring(r) == r = hand /\ at \in {"config", "list", "walk", "decide"}

\* A row is running while the pass in hand still owes it a re-arm; one that
\* nobody holds was left so by a crash or by a throw that ended its pass.
Stranded(r) == row[r].status = "running" /\ r \notin queue /\ ~InFiring(r)

RunningIsHeld ==
  /\ \A r \in queue : row[r].status = "running"
  /\ \A r \in Repo : InFiring(r) => row[r].status = "running" /\ r \notin queue
  /\ \A r \in Repo : Stranded(r) => faults > 0

\* The cursor skips nothing: an item open since its round began that the cursor
\* has passed was decided in that round, whatever was opened, closed, deferred,
\* refused or thrown in between (sweep.ts readRecords, D170).
CursorSkipsNothing ==
  \A r \in Repo : \A n \in owed[r] : row[r].resume # None => n > row[r].resume

\* A firing that reads to the end of the list ends the round with every item
\* that was open throughout it decided.
RoundIsWhole ==
  at = "decide" /\ records = {} /\ ~left => owed[hand] = {}

Lists == at = "list" /\ at' = "walk"

\* A stored read the sweep decides from misses no change of its item, except a
\* review that has not reached updated_at, or a change made in the very tick
\* of both the list it was stored with and the update that list showed (D193).
ReuseStep ==
  Lists => \A n \in held' :
    snap[hand][n].behind =>
      \/ item[hand][n].late # None
      \/ snap[hand][n].upd = snap[hand][n].read
ReuseHeedsTheList == [][ReuseStep]_vars

\* A repository turned away because a lane was spent is not passed over in favour of one that was
\* fired since (claimDue's order, D192).
NoOvertaking ==
  [][\A r \in queue :
       queue' = queue \ {r} => \A s \in queue' \cap away : r \notin since[s]]_vars

InHand(r, n) == InFiring(r) /\ at = "decide" /\ First(n, records)

Alone(r) == \A s \in Repo \ {r} : row[s].status = "absent"

\* Every open item of the one repository there is a row for is decided again and
\* again: no deferral, spent window, cursor or failed reading stops its round.
ItemComesRound ==
  \A r \in Repo, n \in Item :
    row[r].status # "absent" /\ item[r][n].open
      ~> InHand(r, n) \/ ~item[r][n].open \/ Stranded(r) \/ ~Alone(r)

\* Every row is fired again and again, whatever the other repositories spend.
RowComesRound ==
  \A r \in Repo : row[r].status # "absent" ~> InFiring(r) \/ Stranded(r)

\* The sweep comes round: to every declared row, and in it to every open item.
ComesRound == RowComesRound /\ ItemComesRound
=============================================================================
