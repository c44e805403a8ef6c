----------------------------- MODULE Allowance -----------------------------
(***************************************************************************)
(* The share one lane holds of one of GitHub's pools                       *)
(* (adapter/client/allowance.ts, as http.ts asks and charges it).          *)
(* Requests are in flight together and are answered in any order, across   *)
(* the ends of GitHub's windows; an answer may drift, and may name another *)
(* pool's later window.  Instants are the ticks until them; one clock.     *)
(***************************************************************************)
EXTENDS Integers, FiniteSets

CONSTANTS
  Request,     \* requests that may be in flight together
  None,
  Limit,       \* GitHub's limit of the pool
  Assumed,     \* ASSUMED_POOL_LIMIT: the limit before a response names one
  Share,       \* the lane's share, in parts of Whole
  Whole,
  MostPoints,  \* the most one request may cost
  WriteCalls,  \* what a tick arms the mutation lane with
  Window,      \* ticks of GitHub's window
  Slack,       \* WINDOW_SLACK_S
  Foreign,     \* how much later a window an answer may name by mistake
  MaxUnheard   \* bound: performed requests per window whose answer is lost

VARIABLES
  ends,      \* GitHub: ticks until the pool's window ends, 0 when none is open
  used,      \* GitHub: what the lane has used of that window
  flight,    \* per request: None, what was sent, or what was answered
  limit,     \* PoolLedger.limit
  resetAt,   \* PoolLedger.resetAt, to Slack past it
  spent,     \* PoolLedger.spent
  written,   \* mutationsSpent
  unheard,   \* history: performed requests of GitHub's window that brought nothing home
  misled     \* history: with no live end to hold against it, the ledger took a wrong one

github == <<ends, used, unheard>>
ledger == <<limit, resetAt, spent>>
vars == <<github, flight, ledger, written, misled>>

Sent == [step : {"sent"}, mutation : BOOLEAN]
Answered == [step : {"answered"}, mutation : BOOLEAN, cost : 0..MostPoints,
             reset : Nat, own : BOOLEAN]

Init ==
  /\ ends = 0 /\ used = 0 /\ unheard = 0
  /\ flight = [r \in Request |-> None]
  /\ limit = Assumed /\ resetAt = None /\ spent = 0
  /\ written = 0 /\ misled = FALSE

Is(r, step) == flight[r] # None /\ flight[r].step = step

\* capOf
CapUnder(ofLimit) == (Share * ofLimit) \div Whole
Cap == CapUnder(limit)

\* rollIfDue: the ledger every question is asked of.
RollDue == resetAt # None /\ resetAt <= 0
SpentNow == IF RollDue THEN 0 ELSE spent
ResetNow == IF RollDue THEN None ELSE resetAt

Refuses(mutation) == SpentNow >= Cap \/ (mutation /\ written >= WriteCalls)

\* The client asks before each send, and the asking rolls a window that is due.
Sends(r, mutation) ==
  /\ flight[r] = None
  /\ ~Refuses(mutation)
  /\ flight' = [flight EXCEPT ![r] = [step |-> "sent", mutation |-> mutation]]
  /\ spent' = SpentNow
  /\ resetAt' = ResetNow
  /\ UNCHANGED <<github, limit, written, misled>>

\* costOf: a mutation is one of the core pool whatever its answer was, a read is its
\* points, or nothing when it was not modified.
CostsOf(mutation) == IF mutation THEN {1} ELSE 0..MostPoints

\* GitHub charges what it performs to the window that is open; the first request
\* after the end of the last one opens the next.
Performs(r, cost, later) ==
  LET end == IF ends = 0 THEN Window ELSE ends
  IN /\ Is(r, "sent")
     /\ cost \in CostsOf(flight[r].mutation)
     /\ ends' = end
     /\ used' = (IF ends = 0 THEN 0 ELSE used) + cost
     /\ flight' = [flight EXCEPT ![r] = [step |-> "answered", mutation |-> flight[r].mutation,
                                         cost |-> cost, reset |-> end + later, own |-> later = 0]]
     /\ unheard' = IF ends = 0 THEN 0 ELSE unheard
     /\ UNCHANGED <<ledger, written, misled>>

\* The kept window has an end, and it has not passed.
Live == resetAt # None /\ resetAt > 0

\* observed(): which answers change the window, by the reset they name.
\* Mutant: a later reset opens a new window though the kept one has not ended.
OpensOnLaterReset(reset) == reset > 0 /\ (resetAt = None \/ reset > resetAt + Slack)
OpensWindow(reset) ==
  /\ reset > 0
  /\ resetAt = None \/ (resetAt <= 0 /\ reset > resetAt + Slack)

MovesEnd(reset) ==
  /\ reset > 0
  /\ resetAt # None /\ reset > resetAt /\ reset <= resetAt + Slack

\* The window is read before the charge: a rolled window starts at this one.
Charges(r) ==
  LET f == flight[r]
      adopts == OpensWindow(f.reset) \/ MovesEnd(f.reset)
  IN /\ Is(r, "answered")
     /\ limit' = Limit
     /\ resetAt' = IF adopts THEN f.reset ELSE resetAt
     /\ spent' = (IF OpensWindow(f.reset) THEN 0 ELSE spent) + f.cost
     /\ written' = IF f.mutation THEN written + 1 ELSE written
     /\ flight' = [flight EXCEPT ![r] = None]
     /\ misled' = (misled \/ (adopts /\ ~f.own /\ (~Live \/ MovesEnd(f.reset))))
     /\ UNCHANGED github

\* A request that brings no response home charges nothing, performed or not.
IsLost(r) ==
  /\ flight[r] # None
  /\ unheard' = IF Is(r, "answered") THEN unheard + 1 ELSE unheard
  /\ unheard' <= MaxUnheard
  /\ flight' = [flight EXCEPT ![r] = None]
  /\ UNCHANGED <<ends, used, ledger, written, misled>>

\* A firing arms its write lane.
ArmMutations ==
  /\ written' = 0
  /\ UNCHANGED <<github, flight, ledger, misled>>

Passed(ticks) == IF ticks = 0 THEN 0 ELSE ticks - 1

Tick ==
  /\ ends' = Passed(ends)
  /\ resetAt' = IF resetAt = None \/ resetAt = -Slack THEN resetAt ELSE resetAt - 1
  /\ flight' = [r \in Request |-> IF Is(r, "answered")
                                  THEN [flight[r] EXCEPT !.reset = Passed(@)] ELSE flight[r]]
  /\ UNCHANGED <<used, unheard, limit, spent, written, misled>>

Next ==
  \/ \E r \in Request :
       \/ \E mutation \in BOOLEAN : Sends(r, mutation)
       \/ \E cost \in 0..MostPoints, later \in 0..Slack \cup Foreign : Performs(r, cost, later)
       \/ Charges(r)
       \/ IsLost(r)
  \/ ArmMutations
  \/ Tick

Spec == Init /\ [][Next]_vars

-----------------------------------------------------------------------------

TypeOK ==
  /\ ends \in 0..Window /\ used \in Nat /\ spent \in Nat /\ limit \in {Assumed, Limit}
  /\ flight \in [Request -> Sent \cup Answered \cup {None}]
  /\ resetAt \in Int \cup {None}
  /\ written \in Nat /\ unheard \in 0..MaxUnheard
  /\ misled \in BOOLEAN

\* What a lane may have out, past the request that fills its share.
OverShoot == Cardinality(Request) * MostPoints

\* A lane uses no more of GitHub's window than its share and what it had out when it
\* reached it, for as long as the end it keeps was truly named: no answer that comes
\* late, drifts, belongs to a window that is over or to another pool lets it start
\* the same window again (observed, D196, D231).
LaneStaysWithinShare ==
  ~misled /\ limit = Limit => 
    used <= CapUnder(Limit) + OverShoot - 1 + unheard * MostPoints
=============================================================================
