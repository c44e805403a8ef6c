----------------------------- MODULE HttpClient -----------------------------
(***************************************************************************)
(* The one authenticated path to GitHub (adapter/client/http.ts), as its   *)
(* concurrent callers share it: the secondary-limit hold, the content      *)
(* creation lane, the pacing slots, the cache of one resource's validators *)
(* and the token source.  The allowance refuses or not (see Allowance).    *)
(***************************************************************************)
EXTENDS TokenSource, Sequences, FiniteSets

CONSTANTS
  Caller,            \* concurrent calls of request()
  Asked,             \* the kinds of request they make
  HoldTicks,         \* SECONDARY_LIMIT_HOLD_MS
  LongHold,          \* a retry-after longer than that
  SpacingTicks,      \* CONTENT_CREATION_SPACING_MS
  HourTicks,         \* HOUR_MS
  Hourly,            \* CONTENT_CREATION_HOURLY
  MaxWait,           \* MAX_RETRY_WAIT_MS
  Backoff,           \* the first of BACKOFF_MS, jitter included
  Resets             \* how far ahead a pool at its reserve may say it resets

ASSUME ClientAssumption ==
  /\ HoldTicks \in Nat \ {0} /\ LongHold \in Nat /\ SpacingTicks \in Nat \ {0}
  /\ HourTicks \in Nat \ {0} /\ Hourly \in Nat \ {0} /\ MaxWait \in Nat /\ Backoff \in Nat
  /\ Resets \subseteq Nat

VARIABLES
  at,        \* where each call stands
  kind,      \* what it asks
  got,       \* its answer from the token source
  mine,      \* the token it carries is the last one that was held
  tries,     \* earlier failures of this call
  timer,     \* ticks it still sleeps
  waited,    \* ticks its own waits have cost it
  body,      \* a read in flight: what it will bring home
  hold,      \* ticks until secondaryHeldUntil, 0 if none holds
  lane,      \* creations in the order of the lane, the first of them at work
  gap,       \* ticks until lastCreationAt + spacing
  hour,      \* ticks until the creation hour ends
  created,   \* createdThisHour
  slot,      \* per pool: ticks until the reset of one at its reserve
  cache,     \* the resource's validator: "none", "fresh", "stale" or "late"
  sends,     \* history: how often GitHub performed a call's write
  caught     \* history: calls that had passed the hold check when a hold began

callVars == <<at, kind, got, mine, tries, timer, waited, body>>
laneVars == <<lane, gap, hour, created>>
vars == <<tokenVars, callVars, laneVars, hold, slot, cache, sends, caught>>

Places == {"idle", "lane", "space", "rest", "mint", "token", "sent"}

(* The requests: endpoints.ts and requests.ts.                             *)

Writes == {"createLabel", "addLabel", "removeLabel", "createComment", "updateComment",
           "closePullRequest", "assign", "releaseAssignment", "lockIssue", "unlockIssue"}
Kinds == Writes \cup {"get", "query"}
NonIdempotent == {"createLabel", "createComment"}
ContentCreation == {"createComment"}

ASSUME AskedAssumption == Asked \subseteq Kinds /\ None \notin Kinds

PoolOf(k) == IF k = "query" THEN "graphql" ELSE "core"
Pool == {PoolOf(k) : k \in Asked}

\* Mutant: a comment is taken for a write that may be repeated.
RetriesComments(k) == k # "createLabel"
MayRetryInClient(k) == k \notin NonIdempotent

(* A response: what failures.ts reads of it, and what it makes of that.     *)

Response ==
  [status : {200, 304, 301, 401, 404, 422, 408, 400, 500}]
    \cup [status : {403, 429}, spent : BOOLEAN, limited : BOOLEAN,
          after : {"missing", "invalid", "long", "short"}, other : BOOLEAN]

\* No response at all: a transport failure or the deadline.
Lost == [status |-> 0]

ClassifyFailure(r, pastExpiry) ==
  CASE r.status = 301 -> "redirected"
    [] r.status = 401 -> IF pastExpiry THEN "tokenExpired" ELSE "badCredentials"
    [] r.status \in {403, 429} ->
         IF r.spent THEN "primaryExhausted"
         ELSE IF ~r.limited /\ r.status = 403
              THEN (IF r.other THEN "permissionMissing" ELSE "forbiddenUnrecognized")
         ELSE IF r.after \in {"invalid", "long"} THEN "rateLimitResponseUnusable"
         ELSE "secondaryLimit"
    [] r.status = 404 -> "notFoundOrNotInstalled"
    [] r.status = 422 -> "validationError"
    [] r.status = 400 -> "clientError"
    [] OTHER -> "transient"

\* What the client does about a failure: responseClassOf and retryAdvice.
Reaction(class) ==
  CASE class = "tokenExpired" -> "refresh"
    [] class = "primaryExhausted" -> "awaitReset"
    [] class = "transient" -> "backOff"
    [] class \in {"secondaryLimit", "rateLimitResponseUnusable"} -> "hold"
    [] OTHER -> "return"

\* By whether the token looked expired when the request left.
Reactions(pastExpiry) ==
  {Reaction(ClassifyFailure(r, pastExpiry)) : r \in Response \cup {Lost}}
FreshReactions == Reactions(FALSE)
PastReactions == Reactions(TRUE)

\* nextStep: core's advice under the caps this client puts below its own.  The wait
\* before another try, or None to hand the failure back.
AttemptCap(reaction) == IF reaction \in {"refresh", "backOff"} THEN 2 ELSE 3

Advice(reaction, reset) ==
  CASE reaction = "refresh" -> 0
    [] reaction = "backOff" -> Backoff
    [] reaction = "awaitReset" -> reset
    [] OTHER -> None

NextStep(reaction, reset, attempt, spent) ==
  LET advice == Advice(reaction, reset)
  IN IF advice = None \/ attempt + 1 >= AttemptCap(reaction) THEN None
     ELSE IF spent + advice > MaxWait THEN None
     ELSE advice

Init ==
  /\ TokenInit
  /\ at = [c \in Caller |-> "idle"]
  /\ kind = [c \in Caller |-> None]
  /\ got = [c \in Caller |-> "none"]
  /\ mine = [c \in Caller |-> FALSE]
  /\ tries = [c \in Caller |-> 0]
  /\ timer = [c \in Caller |-> 0]
  /\ waited = [c \in Caller |-> 0]
  /\ body = [c \in Caller |-> "none"]
  /\ hold = 0 /\ lane = <<>> /\ gap = 0 /\ hour = 0 /\ created = 0
  /\ slot = [p \in Pool |-> None]
  /\ cache = "none"
  /\ sends = [c \in Caller |-> 0]
  /\ caught = {}

Goes(c, place) == at' = [at EXCEPT ![c] = place]
Waits(c, place, ticks) == Goes(c, place) /\ timer' = [timer EXCEPT ![c] = ticks]

\* A read that is out when a write's call is over still brings the old validator home.
Late(b) == IF b = "stale" THEN "late" ELSE b

\* Mutant: a comment's write names no representation it stales.
DropsInPlace(k, notSent) == k \in Writes \ ContentCreation /\ ~notSent
Drops(k, notSent) == k \in Writes /\ ~notSent

\* Mutant: a creation that is turned away keeps its lane.
LaneAfterSent(k, notSent) == IF k \in ContentCreation /\ ~notSent THEN Tail(lane) ELSE lane
LaneAfter(k, notSent) == IF k \in ContentCreation THEN Tail(lane) ELSE lane

\* The call is over: what it carried goes, its lane is free, and unless it says that
\* nothing was sent, the validators its write staled are dropped.  One that says so after
\* GitHub performed the write leaves them, and nothing will drop them any more.
Ends(c, k, notSent, validator) ==
  LET drops == Drops(k, notSent)
      leaves == notSent /\ sends[c] > 0
  IN /\ Waits(c, "idle", 0)
     /\ kind' = [kind EXCEPT ![c] = None]
     /\ got' = [got EXCEPT ![c] = "none"]
     /\ mine' = [mine EXCEPT ![c] = FALSE]
     /\ tries' = [tries EXCEPT ![c] = 0]
     /\ waited' = [waited EXCEPT ![c] = 0]
     /\ sends' = [sends EXCEPT ![c] = 0]
     /\ body' = [x \in Caller |-> IF x = c THEN "none"
                                  ELSE IF drops \/ leaves THEN Late(body[x]) ELSE body[x]]
     /\ cache' = IF drops THEN "none" ELSE IF leaves THEN Late(validator) ELSE validator
     /\ lane' = LaneAfter(k, notSent)

\* Mutant: the hold is read before the first attempt only.
HeldAtFirst(c) == hold > 0 /\ tries[c] = 0
Held(c) == hold > 0

\* The head of the attempt loop: the hold, then the token.
Attempt(c, k) ==
  IF Held(c)
  THEN Ends(c, k, FALSE, cache) /\ UNCHANGED tokenVars
  ELSE /\ \/ /\ Serves
             /\ Goes(c, "token")
             /\ got' = [got EXCEPT ![c] = IF Expired(cached) THEN "expired" ELSE "alive"]
             /\ mine' = [mine EXCEPT ![c] = TRUE]
             /\ UNCHANGED tokenVars
          \/ /\ Repeats
             /\ Goes(c, "token")
             /\ got' = [got EXCEPT ![c] = "failure"]
             /\ UNCHANGED <<tokenVars, mine>>
          \/ /\ Mints
             /\ Goes(c, "mint")
             /\ StartMint
             /\ UNCHANGED <<got, mine>>
       /\ kind' = [kind EXCEPT ![c] = k]
       /\ UNCHANGED <<tries, timer, waited, body, lane, cache, sends>>

\* deliver: a pool known to be at its reserve is waited out, or not asked.
Deliver(c, k) ==
  LET reset == slot[PoolOf(k)]
      wait == NextStep("awaitReset", reset, 0, 0)
  IN CASE reset = None -> Attempt(c, k)
       [] reset # None /\ wait = None -> Ends(c, k, FALSE, cache) /\ UNCHANGED tokenVars
       [] OTHER -> /\ Waits(c, "rest", wait)
                   /\ waited' = [waited EXCEPT ![c] = wait]
                   /\ kind' = [kind EXCEPT ![c] = k]
                   /\ UNCHANGED <<tokenVars, got, mine, tries, body, lane, cache, sends>>

\* A call of request(), admitted: its place in the lane, or straight to GitHub.
Request(c, k) ==
  /\ at[c] = "idle"
  /\ IF k \in ContentCreation
     THEN /\ Goes(c, "lane")
          /\ lane' = Append(lane, c)
          /\ kind' = [kind EXCEPT ![c] = k]
          /\ UNCHANGED <<tokenVars, got, mine, tries, timer, waited, body, cache, sends>>
     ELSE Deliver(c, k)
  /\ UNCHANGED <<gap, hour, created, hold, slot, caught>>

\* throughCreationLane and spaceCreation: the turn of the lane's first.
HasTurn(c) == at[c] = "lane" /\ c = Head(lane)
HourIsOver == hour = 0
HourIsFull == ~HourIsOver /\ created >= Hourly

TakesSlot(c) ==
  /\ HasTurn(c) /\ ~Held(c) /\ ~HourIsFull
  /\ hour' = IF HourIsOver THEN HourTicks ELSE hour
  /\ created' = IF HourIsOver THEN 1 ELSE created + 1
  /\ Waits(c, "space", gap)
  /\ UNCHANGED <<tokenVars, kind, got, mine, tries, waited, body, lane, gap, hold, slot, cache,
                 sends, caught>>

IsStopped(c) ==
  /\ HasTurn(c)
  /\ Held(c) \/ HourIsFull
  /\ Ends(c, kind[c], ~Held(c), cache)
  /\ UNCHANGED <<tokenVars, gap, hour, created, hold, slot, caught>>

Spaced(c) ==
  /\ at[c] = "space"
  /\ timer[c] = 0
  /\ gap' = SpacingTicks
  /\ Deliver(c, kind[c])
  /\ UNCHANGED <<hour, created, hold, slot, caught>>

Wake(c) ==
  /\ at[c] = "rest"
  /\ timer[c] = 0
  /\ Attempt(c, kind[c])
  /\ UNCHANGED <<gap, hour, created, hold, slot, caught>>

\* The pending mint settles for everyone who waits for it.
Waiting == {c \in Caller : at[c] = "mint"}

MintSettles(answer) ==
  /\ at' = [c \in Caller |-> IF c \in Waiting THEN "token" ELSE at[c]]
  /\ got' = [c \in Caller |-> IF c \in Waiting THEN answer ELSE got[c]]
  /\ UNCHANGED <<kind, tries, timer, waited, body, laneVars, hold, slot, cache, sends, caught>>

MintArrives(life) ==
  /\ MintSucceeds(life)
  /\ MintSettles(IF life = 0 THEN "expired" ELSE "alive")
  /\ mine' = [c \in Caller |-> c \in Waiting]

MintIsLost(limited) ==
  /\ MintFails(limited)
  /\ MintSettles(IF Outlived THEN "failure" ELSE "alive")
  /\ mine' = [c \in Caller |-> mine[c] \/ (c \in Waiting /\ ~Outlived)]

\* No token, a grant the token lacks, or an allowance that refuses: nothing is sent.
IsRefused(c) ==
  /\ at[c] = "token"
  /\ \E notSent \in BOOLEAN : Ends(c, kind[c], notSent /\ tries[c] = 0, cache)
  /\ caught' = caught \ {c}
  /\ UNCHANGED <<tokenVars, gap, hour, created, hold, slot>>

Send(c) ==
  /\ at[c] = "token"
  /\ got[c] # "failure"
  /\ Goes(c, "sent")
  /\ caught' = caught \ {c}
  /\ UNCHANGED <<tokenVars, kind, got, mine, tries, timer, waited, body, laneVars, hold, slot,
                 cache, sends>>

\* GitHub performs what was sent.  A write makes every older answer stale.
Staled(b) == IF b = "fresh" THEN "stale" ELSE b

Perform(c) ==
  LET write == kind[c] \in Writes
      mark == IF write THEN "done" ELSE "fresh"
  IN /\ at[c] = "sent"
     /\ body[c] = "none"
     /\ body' = [x \in Caller |-> IF x = c THEN mark
                                  ELSE IF write THEN Staled(body[x]) ELSE body[x]]
     /\ cache' = IF write THEN Staled(cache) ELSE cache
     /\ sends' = IF write THEN [sends EXCEPT ![c] = @ + 1] ELSE sends
     /\ UNCHANGED <<tokenVars, at, kind, got, mine, tries, timer, waited, laneVars, hold, slot,
                    caught>>

\* The charged pool's slot remembers the reset of a pool at its reserve.
Remembers(reset) == \E p \in Pool : slot' = [slot EXCEPT ![p] = reset]

\* A 200 is kept with its validator or drops the kept one; a 304 keeps it.
Kept(c, retained) ==
  IF kind[c] # "get" THEN cache ELSE IF retained THEN body[c] ELSE "none"

Succeeds(c, retained, reset) ==
  /\ at[c] = "sent"
  /\ body[c] # "none"
  /\ Remembers(reset)
  /\ Ends(c, kind[c], FALSE, Kept(c, retained))
  /\ UNCHANGED <<tokenVars, gap, hour, created, hold, caught>>

IsUnmodified(c, reset) ==
  /\ at[c] = "sent"
  /\ kind[c] = "get" /\ body[c] # "none" /\ cache # "none"
  /\ Remembers(reset)
  /\ Ends(c, kind[c], FALSE, cache)
  /\ UNCHANGED <<tokenVars, gap, hour, created, hold, caught>>

\* holdForSecondaryLimit: the later of the two ends holds.
HoldFor(ticks) ==
  /\ hold' = Largest(hold, ticks)
  /\ caught' = IF hold = 0 THEN {x \in Caller : at[x] \in {"mint", "token"}} ELSE caught

\* invalidate() drops the token only while it is the one held.
TokenAfter(c, reaction) ==
  IF reaction = "refresh" /\ mine[c] /\ cached # None THEN Invalidate ELSE UNCHANGED tokenVars

\* The call rests before its next attempt, with nothing of the last one.
Rests(c, wait) ==
  /\ Waits(c, "rest", wait)
  /\ tries' = [tries EXCEPT ![c] = @ + 1]
  /\ waited' = [waited EXCEPT ![c] = @ + wait]
  /\ got' = [got EXCEPT ![c] = "none"]
  /\ mine' = [mine EXCEPT ![c] = FALSE]
  /\ body' = [body EXCEPT ![c] = "none"]
  /\ UNCHANGED <<kind, lane, cache, sends>>

\* An answer too large or cut off may hide what was performed.
Fails(c, reaction, reset) ==
  LET wait == IF MayRetryInClient(kind[c])
              THEN NextStep(reaction, reset, tries[c], waited[c]) ELSE None
  IN /\ at[c] = "sent"
     /\ reaction \in IF got[c] = "expired" THEN PastReactions ELSE FreshReactions
     /\ body[c] # "none" => reaction \in {"backOff", "return"}
     /\ reaction = "awaitReset" => reset # None
     /\ Remembers(reset) \/ (reaction = "backOff" /\ UNCHANGED slot)
     /\ IF reaction = "hold" THEN \E ticks \in {HoldTicks, LongHold} : HoldFor(ticks)
                             ELSE UNCHANGED <<hold, caught>>
     /\ TokenAfter(c, reaction)
     /\ IF wait = None THEN Ends(c, kind[c], FALSE, cache) ELSE Rests(c, wait)
     /\ UNCHANGED <<gap, hour, created>>

\* A seam that breaks (the clock, a sleep, the token source, the signal, a response read
\* half-way) ends the call as not sent, an earlier try or this one performed or not.  A
\* pending mint is settled for all who wait for it, and what an answer charged is Fails;
\* a creation's spacing does not break here, which would cost a place of the hour.
Breaks(c) ==
  /\ HasTurn(c) \/ at[c] \in {"rest", "token", "sent"}
  /\ Ends(c, kind[c], TRUE, cache)
  /\ caught' = caught \ {c}
  /\ UNCHANGED <<tokenVars, gap, hour, created, hold, slot>>

\* The cache's own bounds push the resource out.
Evict ==
  /\ cache # "none"
  /\ cache' = "none"
  /\ UNCHANGED <<tokenVars, callVars, laneVars, hold, slot, sends, caught>>

\* Nothing sleeps between a token's answer and the send, nor before the first check.
Tick ==
  /\ \A c \in Caller : at[c] # "token"
  /\ TokenTick
  /\ timer' = [c \in Caller |-> Less(timer[c])]
  /\ hold' = Less(hold) /\ gap' = Less(gap) /\ hour' = Less(hour)
  /\ slot' = [p \in Pool |-> IF slot[p] = None THEN None ELSE Less(slot[p])]
  /\ caught' = IF hold <= 1 THEN {} ELSE caught
  /\ UNCHANGED <<at, kind, got, mine, tries, waited, body, lane, created, cache, sends>>

MintSettling ==
  \/ \E life \in Lives : MintArrives(life)
  \/ \E limited \in BOOLEAN : MintIsLost(limited)

Answers(c) ==
  \E reset \in Resets \cup {None} :
    \/ \E retained \in BOOLEAN : Succeeds(c, retained, reset)
    \/ IsUnmodified(c, reset)
    \/ \E reaction \in FreshReactions \cup PastReactions : Fails(c, reaction, reset)

Advances(c) ==
  TakesSlot(c) \/ IsStopped(c) \/ Spaced(c) \/ Wake(c) \/ IsRefused(c) \/ Send(c)

Next ==
  \/ \E c \in Caller : \/ \E k \in Asked : Request(c, k)
                        \/ Advances(c) \/ Perform(c) \/ Answers(c) \/ Breaks(c)
  \/ MintSettling
  \/ Evict
  \/ Tick

\* The event loop runs what is ready, every exchange has a deadline, time passes.
Fairness ==
  /\ \A c \in Caller : WF_vars(Advances(c) \/ Answers(c))
  /\ WF_vars(MintSettling)
  /\ SF_vars(Tick)

SafeSpec == Init /\ [][Next]_vars
Spec == SafeSpec /\ Fairness

-----------------------------------------------------------------------------

TypeOK ==
  /\ TokenTypeOK
  /\ at \in [Caller -> Places] /\ kind \in [Caller -> Asked \cup {None}]
  /\ got \in [Caller -> {"none", "alive", "expired", "failure"}]
  /\ mine \in [Caller -> BOOLEAN] /\ tries \in [Caller -> 0..2]
  /\ timer \in [Caller -> Nat] /\ waited \in [Caller -> 0..MaxWait]
  /\ body \in [Caller -> {"none", "done", "fresh", "stale", "late"}]
  /\ hold \in Nat /\ gap \in 0..SpacingTicks /\ hour \in 0..HourTicks /\ created \in 0..Hourly
  /\ lane \in Seq(Caller) /\ slot \in [Pool -> Nat \cup {None}]
  /\ cache \in {"none", "fresh", "stale", "late"}
  /\ sends \in [Caller -> Nat] /\ caught \subseteq Caller

\* While a secondary limit holds, nothing leaves but the calls that had passed the
\* check and were waiting for a token when it began (http.ts heldBySecondaryLimit):
\* no lane, no retry, no paced call and no later caller gets through.
HoldIsHeeded ==
  [][\A c \in Caller : at[c] = "token" /\ at'[c] = "sent" /\ hold > 0 => c \in caught]_vars

\* A creation GitHub may have performed is never sent again by the client, and two
\* comment creations are never out together, in whatever order their calls, their
\* pacing and their failures fall (throughCreationLane, mayRetryInClient).
Out(c) == at[c] \in {"space", "rest", "mint", "token", "sent"}

CreationsAreSingle ==
  /\ \A c \in Caller : kind[c] \in NonIdempotent => sends[c] <= 1
  /\ \A c, d \in Caller :
       kind[c] \in ContentCreation /\ kind[d] \in ContentCreation /\ Out(c) /\ Out(d) => c = d

\* A kept validator that a performed write has staled does not outlive that write's call
\* (request, D46), but for two that are marked "late": one that came home after the call
\* was over, and one whose call a broken seam ended as not sent although it was performed.
ValidatorsAreDropped ==
  cache = "stale" =>
    \E c \in Caller : at[c] # "idle" /\ kind[c] \in Writes /\ sends[c] > 0

\* Every call gets its answer: no lane, hold, pause, pacing rest or retry keeps one
\* for ever, and none of them waits on another in a circle.
EveryCallEnds == \A c \in Caller : at[c] # "idle" ~> at[c] = "idle"

=============================================================================
