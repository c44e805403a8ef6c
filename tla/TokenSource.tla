---------------------------- MODULE TokenSource ----------------------------
(***************************************************************************)
(* The installation token a client calls with (adapter/client/token.ts).  *)
(* Callers share one pending mint; a held token has three ages: too new to *)
(* doubt, due for refresh, past expiry.  Instants are kept as the ticks    *)
(* until them or since them, by our own clock; GitHub's may differ, so a   *)
(* fresh token may look expired from its first moment.                     *)
(***************************************************************************)
EXTENDS Integers

CONSTANTS
  None,
  Lives,         \* how long a new token may seem to live, by our clock
  MintFloor,     \* MINT_FLOOR_SECONDS
  RefreshSkew,   \* REFRESH_SKEW_SECONDS
  MintCooldown   \* MINT_RETRY_COOLDOWN_SECONDS

ASSUME TokenAssumption ==
  /\ Lives \subseteq Nat /\ Lives # {}
  /\ MintFloor \in Nat \ {0} /\ RefreshSkew \in Nat /\ MintCooldown \in Nat \ {0}
  /\ None \notin Nat /\ None \notin [age : Nat, left : Nat]

VARIABLES
  cached,    \* the held token: its age (to MintFloor) and the ticks it has left
  pending,   \* a mint is in flight
  retry,     \* ticks until a failed mint may be tried again, 0 if it may
  quiet,     \* history: ticks since the last mint settled, to Spacing
  excused    \* history: since then the held token was dropped or ran out

tokenVars == <<cached, pending, retry, quiet, excused>>

Least(a, b) == IF a < b THEN a ELSE b
Largest(a, b) == IF a < b THEN b ELSE a
Less(a) == IF a = 0 THEN 0 ELSE a - 1

Spacing == Least(MintFloor, MintCooldown)

Token == [age : 0..MintFloor, left : Nat]
Expired(t) == t.left = 0
DueForRefresh(t) == t.left <= RefreshSkew
RetryPaused == retry > 0

\* Mutant: the floor is forgotten, so that a clock that is ahead mints for every call.
ServesByExpiry(t) == ~Expired(t) /\ (~DueForRefresh(t) \/ RetryPaused)
MayServe(t) ==
  \/ t.age < MintFloor
  \/ ~Expired(t) /\ (~DueForRefresh(t) \/ RetryPaused)

\* The three answers of current(): the held token, the failure a pause repeats,
\* or a mint, which is joined when one is pending.
Serves == cached # None /\ MayServe(cached)
Repeats == ~Serves /\ RetryPaused
Mints == ~Serves /\ ~RetryPaused

Outlived == cached = None \/ Expired(cached)

TokenInit == cached = None /\ pending = FALSE /\ retry = 0 /\ quiet = Spacing /\ excused = FALSE

StartMint == pending' = TRUE /\ UNCHANGED <<cached, retry, quiet, excused>>

Settled == pending /\ pending' = FALSE /\ quiet' = 0 /\ excused' = FALSE

MintSucceeds(life) ==
  /\ Settled
  /\ cached' = [age |-> 0, left |-> life]
  /\ retry' = 0

\* A pause ends with the token it protects; a secondary limit gives no better sign.
Pause(limited) ==
  IF Outlived THEN MintCooldown
  ELSE IF limited THEN cached.left
  ELSE Least(cached.left, MintCooldown)

MintFails(limited) ==
  /\ Settled
  /\ retry' = Pause(limited)
  /\ UNCHANGED cached

\* GitHub rejected the token that is held; one that was replaced is ignored.
Invalidate ==
  /\ cached' = None
  /\ retry' = 0
  /\ excused' = TRUE
  /\ UNCHANGED <<pending, quiet>>

Aged(t) == [age |-> Least(t.age + 1, MintFloor), left |-> Less(t.left)]

TokenTick ==
  /\ cached' = IF cached = None THEN None ELSE Aged(cached)
  /\ retry' = Less(retry)
  /\ quiet' = Least(quiet + 1, Spacing)
  /\ excused' = (excused \/ (cached # None /\ cached.left = 1))
  /\ UNCHANGED pending

TokenTypeOK ==
  /\ cached \in Token \cup {None}
  /\ pending \in BOOLEAN /\ excused \in BOOLEAN
  /\ retry \in Nat /\ quiet \in 0..Spacing

\* Mint requests keep their distance whatever the two clocks say: one follows
\* another sooner than the floor or the cooldown only when the held token was
\* rejected or ran out in between (token.ts mayServeHeldToken, heldTokenOrFailure).
MintsAreSpaced == [][~pending /\ pending' => quiet = Spacing \/ excused]_tokenVars
=============================================================================
