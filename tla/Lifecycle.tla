----------------------------- MODULE Lifecycle -----------------------------
(***************************************************************************)
(* One hosted process from its environment to its exit                     *)
(* (shell/compose/{composition,main,shell,live}.ts, jobs/jobs.ts,          *)
(* jobs/shutdown.ts, inbound/receiver.ts).  The HTTP edge, the delivery    *)
(* lane, the sweep and the recovery passes share one store and run between *)
(* each other's awaits; a signal may come at any point.  What the lanes do *)
(* with their claims is in Inbox, Sweep and Applier: here they are work    *)
(* that holds the store and reaches GitHub.                                *)
(***************************************************************************)
EXTENDS Naturals, FiniteSets

CONSTANTS
  Connection,    \* connections the edge may hold at once
  Recovery,      \* recovery passes that may run at once: a tick joins none
  MaxQueue       \* bound on deliveries waiting

VARIABLES
  phase,      \* "unborn", "refused", "starting", "ready", "draining", "gone"
  armed,      \* what the environment armed: see Composition
  startup,    \* the start-up drain has not settled
  conn,       \* per connection: "none", "reading", "idle"
  queue,      \* deliveries a claim could be made of
  lane,       \* the delivery lane: "none", "claiming", "deciding"
  refused,    \* its allowance turned a read away since the claim
  sweep,      \* "none", "firing"
  recovery,   \* per pass: "none", "reading", "resending"
  ticking,    \* the interval is armed
  stop,       \* where the shutdown stands: "no", "closing", "settling", "closed"
  joined,     \* what settled() waits for
  asked       \* history: something reached GitHub

work == <<queue, lane, refused, sweep, recovery>>
vars == <<phase, armed, startup, conn, work, ticking, stop, joined, asked>>

----------------------------------------------------------------------------
(* parseComposition: the environment judged as a whole.                    *)

Environment ==
  [secret : BOOLEAN, named : BOOLEAN, credentials : {"none", "partial", "all"},
   slug : {"unset", "unspellable", "login"}, cadence : {"unset", "typo", "hours"},
   bounds : {"good", "typo", "retired"}, suspended : BOOLEAN, key : BOOLEAN]

Refusals(env) ==
  LET backed == env.credentials = "all"
      Refusal(name, earned) == IF earned THEN {name} ELSE {}
  IN Refusal("credentials", env.credentials = "partial")
       \cup Refusal("required", ~(env.secret /\ (env.named \/ backed)))
       \cup Refusal("slug", env.slug = "unspellable")
       \cup Refusal("slugUnbacked", env.slug = "login" /\ ~backed)
       \cup Refusal("cadence", env.cadence = "typo")
       \cup Refusal("cadenceUnbacked", env.cadence = "hours" /\ ~backed)
       \cup Refusal("bounds", env.bounds = "typo")
       \cup Refusal("requestCap", env.bounds = "retired")

\* authenticate: the key file is read before anything is built on it.
KeyIsRead(env) == env.credentials = "all" => env.key

\* The lanes: GitHub or the local file; a write path under the App's own login; the sweep.
IsLive(env) == env.credentials = "all"
WritePath(env) == IsLive(env) /\ env.slug = "login"
SweepLane(env) == IsLive(env) /\ env.cadence = "hours"

Composition(env) ==
  [live |-> IsLive(env), writes |-> WritePath(env), sweep |-> SweepLane(env), suspended |-> env.suspended]

Unarmed == [live |-> FALSE, writes |-> FALSE, sweep |-> FALSE, suspended |-> FALSE]

Init ==
  /\ phase = "unborn" /\ armed = Unarmed /\ startup = FALSE
  /\ conn = [c \in Connection |-> "none"]
  /\ queue \in 0..MaxQueue
  /\ lane = "none" /\ refused = FALSE /\ sweep = "none"
  /\ recovery = [r \in Recovery |-> "none"]
  /\ ticking = FALSE /\ stop = "no" /\ joined = {} /\ asked = FALSE

\* createShell: the lanes wired to what is armed, and the interval running.
CreatesShell(env) == armed' = Composition(env) /\ ticking' = TRUE

\* main.ts: refuse, or build everything, start the start-up drain, and listen.
Boot(env) ==
  /\ phase = "unborn"
  /\ IF Refusals(env) # {} \/ ~KeyIsRead(env)
     THEN phase' = "refused" /\ UNCHANGED <<armed, startup, lane, ticking>>
     ELSE phase' = "starting" /\ startup' = TRUE /\ lane' = "claiming" /\ CreatesShell(env)
  /\ UNCHANGED <<conn, queue, refused, sweep, recovery, stop, joined, asked>>

Alive == phase \in {"starting", "ready", "draining"}

\* The start-up drain has settled, and readiness is for traffic nobody has stopped.
BecomesReady ==
  /\ startup /\ lane = "none" /\ Alive
  /\ startup' = FALSE
  /\ phase' = IF phase = "starting" THEN "ready" ELSE phase
  /\ UNCHANGED <<armed, conn, work, ticking, stop, joined, asked>>

\* deliveries.drain(): one at a time, a second call shares the first.
DrainFrom(place) == IF place = "none" THEN "claiming" ELSE place

----------------------------------------------------------------------------
(* receiver.ts                                                             *)

\* A closing server takes no new connection; one that is kept alive may ask again.
Connects(c) ==
  /\ conn[c] = "idle" \/ (conn[c] = "none" /\ stop = "no")
  /\ conn' = [conn EXCEPT ![c] = "reading"]
  /\ UNCHANGED <<phase, armed, startup, work, ticking, stop, joined, asked>>

\* A probe, a wrong method, a body too large, an unsigned or nameless one: no row.
RefusesRequest(c) ==
  /\ conn[c] = "reading"
  /\ \E after \in {"idle", "none"} : conn' = [conn EXCEPT ![c] = after]
  /\ UNCHANGED <<phase, armed, startup, work, ticking, stop, joined, asked>>

\* acceptThenAck: the row, the answer and the drain, with nothing awaited between.
AcceptsDelivery(c) ==
  /\ conn[c] = "reading" /\ queue < MaxQueue
  /\ queue' = queue + 1
  /\ lane' = DrainFrom(lane)
  /\ conn' = [conn EXCEPT ![c] = "idle"]
  /\ UNCHANGED <<phase, armed, startup, refused, sweep, recovery, ticking, stop, joined, asked>>

Leaves(c) ==
  /\ conn[c] = "idle"
  /\ conn' = [conn EXCEPT ![c] = "none"]
  /\ UNCHANGED <<phase, armed, startup, work, ticking, stop, joined, asked>>

----------------------------------------------------------------------------
(* The delivery lane, as attemptNext and recordFor walk it.                *)

Claims ==
  /\ lane = "claiming"
  /\ IF queue = 0 THEN lane' = "none" /\ UNCHANGED queue
     ELSE lane' = "deciding" /\ queue' = queue - 1
  /\ refused' = FALSE
  /\ UNCHANGED <<phase, armed, startup, conn, sweep, recovery, ticking, stop, joined, asked>>

\* Suspended, or for a repository that is not served, a record is made of the bytes alone.
Reads ==
  /\ lane = "deciding" /\ armed.live /\ ~armed.suspended
  /\ asked' = TRUE
  /\ refused' \in {refused, TRUE}
  /\ UNCHANGED <<phase, armed, startup, conn, queue, lane, sweep, recovery, ticking, stop, joined>>

\* Mutant: a failed delivery is due again at once.
SettlesRetried ==
  /\ lane = "deciding"
  /\ lane' = "claiming"
  /\ queue' \in {queue, queue + 1} /\ queue' <= MaxQueue
  /\ UNCHANGED <<phase, armed, startup, conn, refused, sweep, recovery, ticking, stop, joined, asked>>
\* Completed, or its attempt counted and its retry spaced out of this drain's reach.
Settles ==
  /\ lane = "deciding"
  /\ lane' = "claiming"
  /\ UNCHANGED <<phase, armed, startup, conn, queue, refused, sweep, recovery, ticking, stop,
                 joined, asked>>

----------------------------------------------------------------------------
(* jobs.ts                                                                 *)

\* Mutant: the switch is the lanes' alone.
RecoversEver == armed.writes
Recovers == armed.writes /\ ~armed.suspended

\* The four in order, none of them awaited: recovery is the one that joins nothing.
Tick ==
  /\ ticking
  /\ \/ /\ Recovers
        /\ \E r \in Recovery : recovery[r] = "none" /\ recovery' = [recovery EXCEPT ![r] = "reading"]
     \/ UNCHANGED recovery
  /\ lane' = DrainFrom(lane)
  /\ sweep' = IF armed.sweep THEN "firing" ELSE sweep
  /\ UNCHANGED <<phase, armed, startup, conn, queue, refused, ticking, stop, joined, asked>>

\* The file is read on the delivery lane's allowance, whatever that lane is deciding.
RecoveryReads(r) ==
  /\ recovery[r] = "reading"
  /\ asked' = TRUE
  /\ \/ recovery' = [recovery EXCEPT ![r] = "resending"] /\ UNCHANGED refused
     \/ recovery' = [recovery EXCEPT ![r] = "none"]
        /\ refused' \in {refused, refused \/ lane = "deciding"}
  /\ UNCHANGED <<phase, armed, startup, conn, queue, lane, sweep, ticking, stop, joined>>

\* The next row, or the last: each statement on a closed store throws and ends its row.
RecoveryEnds(r) ==
  /\ recovery[r] = "resending"
  /\ recovery' = [recovery EXCEPT ![r] = "none"]
  /\ UNCHANGED <<phase, armed, startup, conn, queue, lane, refused, sweep, ticking, stop, joined,
                 asked>>

SweepReads ==
  /\ sweep = "firing" /\ armed.live /\ ~armed.suspended
  /\ asked' = TRUE
  /\ UNCHANGED <<phase, armed, startup, conn, work, ticking, stop, joined>>

SweepEnds ==
  /\ sweep = "firing"
  /\ sweep' = "none"
  /\ UNCHANGED <<phase, armed, startup, conn, queue, lane, refused, recovery, ticking, stop,
                 joined, asked>>

----------------------------------------------------------------------------
(* shutdown.ts: the socket, then the tick, then the passes, then the store. *)

\* A second signal during a shutdown changes nothing.
Signal ==
  /\ Alive /\ stop = "no"
  /\ phase' = "draining"
  /\ stop' = "closing"
  /\ ticking' = FALSE
  /\ conn' = [c \in Connection |-> IF conn[c] = "idle" THEN "none" ELSE conn[c]]
  /\ UNCHANGED <<armed, startup, work, joined, asked>>

\* settled(): the passes in flight when it is asked.
InFlight ==
  {part \in {"lane", "sweep"} : IF part = "lane" THEN lane # "none" ELSE sweep # "none"}

SocketClosed == stop = "closing" /\ \A c \in Connection : conn[c] = "none"

Joins ==
  /\ SocketClosed
  /\ stop' = "settling"
  /\ joined' = InFlight
  /\ UNCHANGED <<phase, armed, startup, conn, work, ticking, asked>>

\* Each promise settles once, whatever its lane does afterwards.
OneSettles ==
  /\ \E part \in joined : part \notin InFlight /\ joined' = joined \ {part}
  /\ UNCHANGED <<phase, armed, startup, conn, work, ticking, stop, asked>>

ClosesStore ==
  /\ stop = "settling" /\ joined = {}
  /\ stop' = "closed"
  /\ UNCHANGED <<phase, armed, startup, conn, work, ticking, joined, asked>>

Exits ==
  /\ Alive /\ stop = "closed"
  /\ phase' = "gone"
  /\ recovery' = [r \in Recovery |-> "none"]
  /\ UNCHANGED <<armed, startup, conn, queue, lane, refused, sweep, ticking, stop, joined, asked>>

----------------------------------------------------------------------------
LaneSteps == Claims \/ Settles
StopSteps == Joins \/ OneSettles \/ ClosesStore \/ Exits

Running ==
  \/ BecomesReady \/ Tick \/ Signal
  \/ \E c \in Connection : Connects(c) \/ RefusesRequest(c) \/ AcceptsDelivery(c) \/ Leaves(c)
  \/ LaneSteps \/ Reads \/ SweepReads \/ SweepEnds
  \/ \E r \in Recovery : RecoveryReads(r) \/ RecoveryEnds(r)
  \/ StopSteps

Next == (\E env \in Environment : Boot(env)) \/ (Alive /\ Running)

\* GitHub abandons a delivery after about ten seconds and keeps no connection busy for
\* ever (shell.ts), a pass settles (every request has a deadline and a drain steps over
\* what failed), and the shutdown is one async function.
Fairness ==
  /\ WF_vars(Alive /\ LaneSteps) /\ WF_vars(Alive /\ SweepEnds) /\ WF_vars(Alive /\ StopSteps)
  /\ \A c \in Connection :
       WF_vars(Alive /\ RefusesRequest(c)) /\ SF_vars(Alive /\ Leaves(c))

Spec == Init /\ [][Next]_vars /\ Fairness

TypeOK ==
  /\ phase \in {"unborn", "refused", "starting", "ready", "draining", "gone"}
  /\ armed \in [DOMAIN Unarmed -> BOOLEAN]
  /\ conn \in [Connection -> {"none", "reading", "idle"}] /\ queue \in 0..MaxQueue
  /\ lane \in {"none", "claiming", "deciding"} /\ sweep \in {"none", "firing"}
  /\ recovery \in [Recovery -> {"none", "reading", "resending"}]
  /\ stop \in {"no", "closing", "settling", "closed"} /\ joined \subseteq {"lane", "sweep"}

\* "Stop in the order that loses nothing": no delivery and no sweep row is claimed by a
\* process whose store is closed, although a connection may start a drain, and a drain
\* claim the next delivery, after the signal.  A recovery pass is not joined: it is the
\* one thing that may find the store closed under it, between a request and its fact.
NothingIsClaimedBehind == stop = "closed" => lane = "none" /\ sweep = "none"

\* A signal is always followed by the exit: nothing the shutdown waits for waits for it,
\* and nothing it does not wait for can hold it.
StopEnds == (stop = "closing") ~> (phase = "gone")

\* A suspended process answers, records and re-arms, and asks GitHub for nothing: the
\* switch is three lanes' and not one's (D171).
SuspendedAsksNothing == armed.suspended => ~asked
=============================================================================
