---------------------------- MODULE ClientProofs ----------------------------
(***************************************************************************)
(* Theorems of HttpClient and TokenSource, for any callers, requests,      *)
(* holds, pacing, resets, token lives and cooldowns.                       *)
(***************************************************************************)
EXTENDS HttpClient, TLAPS

\* Until the spacing is over, something keeps the next mint away: the held token is too
\* new to doubt, or the pause after a failure lasts the cooldown out or the token's life.
Covered ==
  ~pending /\ ~excused /\ quiet < Spacing =>
    \/ cached # None /\ cached.age <= quiet
    \/ retry + quiet >= MintCooldown
    \/ cached # None /\ cached.left > 0 /\ retry >= cached.left

\* While a hold lasts, whoever waits for a token was caught by it.
HeldBack == hold > 0 => {c \in Caller : at[c] \in {"mint", "token"}} \subseteq caught

Creates(c) == kind[c] \in ContentCreation
InLane(c) == \E i \in DOMAIN lane : lane[i] = c

\* The lane holds the calls that create content, each once, and only its first is out.
Laned ==
  /\ \A c \in Caller : Creates(c) <=> InLane(c)
  /\ \A i, j \in DOMAIN lane : lane[i] = lane[j] => i = j
  /\ \A c \in Caller : Creates(c) /\ Out(c) => c = lane[1]

\* What a call carries: nothing before it is admitted, a performed write only while its
\* response is out or an attempt has failed, one write at most if it may not retry, and
\* an answer of its own kind.
CallOK(c) ==
  /\ at[c] = "idle" <=> kind[c] = None
  /\ at[c] \in {"idle", "lane"} => tries[c] = 0
  /\ sends[c] > 0 => at[c] = "sent" \/ tries[c] > 0
  /\ kind[c] \in NonIdempotent =>
       /\ sends[c] > 0 => at[c] = "sent" /\ body[c] # "none"
       /\ sends[c] <= 1
  /\ body[c] = "done" => kind[c] \in Writes
Carried == \A c \in Caller : CallOK(c)

\* A stale validator, kept or on its way home, is the work of a call that still lasts.
Marked ==
  cache = "stale" \/ (\E c \in Caller : body[c] = "stale") =>
    \E c \in Caller : kind[c] \in Writes /\ sends[c] > 0

IInv == TypeOK /\ Covered /\ HeldBack /\ Laned /\ Carried /\ Marked

-----------------------------------------------------------------------------
(* The token source by itself.                                             *)

\* What a step of the client does to the token source, if anything.
TokenNext ==
  \/ Mints /\ StartMint
  \/ \E life \in Lives : MintSucceeds(life)
  \/ \E limited \in BOOLEAN : MintFails(limited)
  \/ Invalidate
  \/ TokenTick

\* Spacing is a number no larger than the floor and the cooldown.
LEMMA SpacingFacts ==
  /\ Spacing \in Nat \ {0} /\ MintFloor \in Nat \ {0} /\ MintCooldown \in Nat \ {0}
  /\ Spacing <= MintFloor /\ Spacing <= MintCooldown
BY TokenAssumption DEF Spacing, Least

\* A held token is a record, never the absence of one.
LEMMA HeldToken ==
  ASSUME NEW a \in Nat, NEW b \in Nat
  PROVE  [age |-> a, left |-> b] # None
BY TokenAssumption

\* While something covers the spacing, no mint is due.
LEMMA CoveredIsKept ==
  ASSUME TokenTypeOK, Covered, ~pending, Mints
  PROVE  quiet = Spacing \/ excused
<1> SUFFICES ASSUME quiet < Spacing, ~excused PROVE FALSE
  BY SpacingFacts DEF TokenTypeOK
<1>1. retry = 0
  BY DEF Mints, RetryPaused, TokenTypeOK
<1>2. ~(cached # None /\ cached.age < MintFloor)
  BY DEF Mints, Serves, MayServe
<1>3. CASE cached # None /\ cached.age <= quiet
  <2>1. cached \in Token
    BY <1>3 DEF TokenTypeOK
  <2> QED BY <1>2, <1>3, <2>1, SpacingFacts DEF TokenTypeOK, Token
<1>4. CASE retry + quiet >= MintCooldown
  BY <1>1, <1>4, SpacingFacts DEF TokenTypeOK
<1>5. CASE cached # None /\ cached.left > 0 /\ retry >= cached.left
  <2>1. cached \in Token
    BY <1>5 DEF TokenTypeOK
  <2> QED BY <1>1, <1>5, <2>1 DEF Token
<1> QED BY <1>3, <1>4, <1>5 DEF Covered

\* A settled mint begins the spacing with something that covers it.
LEMMA SettlingCovers ==
  ASSUME TokenTypeOK,
         (\E life \in Lives : MintSucceeds(life)) \/ (\E limited \in BOOLEAN : MintFails(limited))
  PROVE  TokenTypeOK' /\ Covered'
<1>0. 0 \in 0..Spacing /\ 0 \in Nat
  BY SpacingFacts
<1>1. ASSUME NEW life \in Lives, MintSucceeds(life)
      PROVE  TokenTypeOK' /\ Covered'
  <2>1. /\ cached' = [age |-> 0, left |-> life] /\ retry' = 0 /\ quiet' = 0
        /\ pending' = FALSE /\ excused' = FALSE
    BY <1>1 DEF MintSucceeds, Settled
  <2>2. life \in Nat
    BY TokenAssumption
  <2>3. cached' \in Token /\ cached'.age = 0
    BY <2>1, <2>2, SpacingFacts DEF Token
  <2>4. cached' # None
    BY <2>1, <2>2, HeldToken
  <2>5. TokenTypeOK'
    BY <2>1, <2>3, <1>0 DEF TokenTypeOK
  <2>6. Covered'
    BY <2>1, <2>3, <2>4 DEF Covered
  <2> QED BY <2>5, <2>6
<1>2. ASSUME NEW limited \in BOOLEAN, MintFails(limited)
      PROVE  TokenTypeOK' /\ Covered'
  <2>1. /\ cached' = cached /\ retry' = Pause(limited) /\ quiet' = 0
        /\ pending' = FALSE /\ excused' = FALSE
    BY <1>2 DEF MintFails, Settled
  <2>2. CASE Outlived
    <3>1. Pause(limited) = MintCooldown
      BY <2>2 DEF Pause
    <3>2. retry' = MintCooldown /\ MintCooldown \in Nat
      BY <2>1, <3>1, SpacingFacts
    <3>3. /\ cached' \in Token \cup {None} /\ pending' \in BOOLEAN /\ excused' \in BOOLEAN
          /\ retry' \in Nat /\ quiet' \in 0..Spacing
      BY <2>1, <3>2, <1>0 DEF TokenTypeOK
    <3>4. retry' + quiet' >= MintCooldown
      BY <2>1, <3>2
    <3> QED BY <3>3, <3>4 DEF TokenTypeOK, Covered
  <2>3. CASE ~Outlived
    <3>1. cached # None /\ cached \in Token /\ cached.left \in Nat /\ cached.left > 0
      BY <2>3 DEF Outlived, Expired, TokenTypeOK, Token
    <3>2. Pause(limited) = cached.left \/ Pause(limited) = MintCooldown
      BY <2>3 DEF Pause, Least
    <3>3. retry' \in Nat /\ (retry' >= MintCooldown \/ retry' >= cached.left)
      BY <2>1, <3>1, <3>2, SpacingFacts
    <3>4. /\ cached' \in Token \cup {None} /\ pending' \in BOOLEAN /\ excused' \in BOOLEAN
          /\ retry' \in Nat /\ quiet' \in 0..Spacing
      BY <2>1, <3>3, <1>0 DEF TokenTypeOK
    <3>5. Covered'
      BY <2>1, <3>1, <3>3, SpacingFacts DEF Covered
    <3> QED BY <3>4, <3>5 DEF TokenTypeOK
  <2> QED BY <2>2, <2>3
<1> QED BY <1>1, <1>2

\* Time that passes takes no more from the cover than from the spacing.
LEMMA TickCovers ==
  ASSUME TokenTypeOK, Covered, TokenTick
  PROVE  TokenTypeOK' /\ Covered'
<1>1. /\ cached' = IF cached = None THEN None ELSE Aged(cached)
      /\ retry' = Less(retry) /\ quiet' = Least(quiet + 1, Spacing) /\ pending' = pending
      /\ excused' = (excused \/ (cached # None /\ cached.left = 1))
  BY DEF TokenTick
<1>2. retry \in Nat /\ retry' \in Nat /\ (retry = 0 \/ retry' = retry - 1)
  BY <1>1 DEF TokenTypeOK, Less
<1>3. quiet \in 0..Spacing /\ quiet' \in 0..Spacing /\ (quiet' < Spacing => quiet' = quiet + 1)
  BY <1>1, SpacingFacts DEF TokenTypeOK, Least
<1>4. ASSUME cached # None
      PROVE  /\ cached \in Token /\ cached.age \in 0..MintFloor /\ cached.left \in Nat
             /\ cached' \in Token /\ cached'.age \in Nat /\ cached' # None
             /\ cached'.age <= cached.age + 1
             /\ cached'.left = Less(cached.left)
  <2>1. cached \in Token /\ cached.age \in 0..MintFloor /\ cached.left \in Nat
    BY <1>4 DEF TokenTypeOK, Token
  <2>2. cached' = [age |-> Least(cached.age + 1, MintFloor), left |-> Less(cached.left)]
    BY <1>1, <1>4 DEF Aged
  <2>3. Least(cached.age + 1, MintFloor) \in 0..MintFloor /\ Less(cached.left) \in Nat
    BY <2>1, SpacingFacts DEF Least, Less
  <2>4. Least(cached.age + 1, MintFloor) <= cached.age + 1
    BY <2>1, SpacingFacts DEF Least
  <2>5. cached' # None
    BY <2>2, <2>3, HeldToken, SpacingFacts
  <2> QED BY <2>1, <2>2, <2>3, <2>4, <2>5 DEF Token
<1>5. TokenTypeOK'
  <2>1. cached' \in Token \cup {None}
    BY <1>1, <1>4
  <2> QED BY <1>1, <1>2, <1>3, <2>1 DEF TokenTypeOK
<1>6. Covered'
  <2> SUFFICES ASSUME ~pending', ~excused', quiet' < Spacing
               PROVE  \/ cached' # None /\ cached'.age <= quiet'
                      \/ retry' + quiet' >= MintCooldown
                      \/ cached' # None /\ cached'.left > 0 /\ retry' >= cached'.left
    BY DEF Covered
  <2>1. ~pending /\ ~excused /\ ~(cached # None /\ cached.left = 1)
    BY <1>1
  <2>2. quiet < Spacing /\ quiet' = quiet + 1
    BY <1>3, SpacingFacts
  <2>3. CASE cached # None /\ cached.age <= quiet
    <3>1. cached'.age <= quiet'
      BY <1>3, <1>4, <2>2, <2>3
    <3> QED BY <1>4, <2>3, <3>1
  <2>4. CASE retry + quiet >= MintCooldown
    <3>1. retry' = retry - 1
      BY <1>2, <1>3, <2>2, <2>4, SpacingFacts
    <3>2. retry' + quiet' >= MintCooldown
      BY <1>2, <1>3, <2>2, <2>4, <3>1, SpacingFacts
    <3> QED BY <3>2
  <2>5. CASE cached # None /\ cached.left > 0 /\ retry >= cached.left
    <3>1. cached'.left = cached.left - 1 /\ cached.left > 1
      BY <1>4, <2>1, <2>5 DEF Less
    <3>2. cached # None /\ cached.left \in Nat /\ retry >= cached.left
      BY <1>4, <2>5
    <3>3. retry' >= cached.left - 1
      BY <1>2, <3>1, <3>2
    <3>4. cached' # None /\ cached'.left > 0 /\ retry' >= cached'.left
      BY <1>4, <3>1, <3>2, <3>3
    <3> QED BY <3>4
  <2> QED BY <2>1, <2>2, <2>3, <2>4, <2>5 DEF Covered
<1> QED BY <1>5, <1>6

\* Every step of the token source keeps its invariant, and mints only with spacing.
LEMMA TokenStep ==
  ASSUME TokenTypeOK, Covered, [TokenNext]_tokenVars
  PROVE  /\ TokenTypeOK' /\ Covered'
         /\ ~pending /\ pending' => quiet = Spacing \/ excused
<1>1. CASE Mints /\ StartMint
  <2>1. pending' = TRUE /\ UNCHANGED <<cached, retry, quiet, excused>>
    BY <1>1 DEF StartMint
  <2>2. ~pending => quiet = Spacing \/ excused
    BY <1>1, CoveredIsKept
  <2> QED BY <2>1, <2>2 DEF TokenTypeOK, Covered
<1>2. CASE (\E life \in Lives : MintSucceeds(life))
              \/ (\E limited \in BOOLEAN : MintFails(limited))
  <2>1. pending' = FALSE
    BY <1>2 DEF MintSucceeds, MintFails, Settled
  <2> QED BY <1>2, <2>1, SettlingCovers
<1>3. CASE Invalidate
  BY <1>3 DEF Invalidate, TokenTypeOK, Covered
<1>4. CASE TokenTick
  <2>1. pending' = pending
    BY <1>4 DEF TokenTick
  <2> QED BY <1>4, <2>1, TickCovers
<1>5. CASE UNCHANGED tokenVars
  BY <1>5 DEF tokenVars, TokenTypeOK, Covered
<1> QED BY <1>1, <1>2, <1>3, <1>4, <1>5 DEF TokenNext

-----------------------------------------------------------------------------
(* The calls, apart from the token source and the pacing.                  *)

CallTypeOK ==
  /\ at \in [Caller -> Places] /\ kind \in [Caller -> Asked \cup {None}]
  /\ got \in [Caller -> {"none", "alive", "expired", "failure"}]
  /\ mine \in [Caller -> BOOLEAN] /\ tries \in [Caller -> 0..2]
  /\ timer \in [Caller -> Nat] /\ waited \in [Caller -> 0..MaxWait]
  /\ body \in [Caller -> {"none", "done", "fresh", "stale", "late"}]
  /\ lane \in Seq(Caller)
  /\ cache \in {"none", "fresh", "stale", "late"}
  /\ sends \in [Caller -> Nat]

PacingTypeOK ==
  /\ hold \in Nat /\ gap \in 0..SpacingTicks /\ hour \in 0..HourTicks /\ created \in 0..Hourly
  /\ slot \in [Pool -> Nat \cup {None}] /\ caught \subseteq Caller

CallInv == CallTypeOK /\ Laned /\ Carried /\ Marked

\* The invariant by the parts that different actions disturb.
LEMMA ByParts ==
  IInv <=> TokenTypeOK /\ Covered /\ CallInv /\ PacingTypeOK /\ HeldBack
BY DEF IInv, TypeOK, CallInv, CallTypeOK, PacingTypeOK

\* The kinds of request that matter to the lane and the cache.
LEMMA KindFacts ==
  /\ Asked \subseteq Kinds /\ None \notin Kinds
  /\ ContentCreation \subseteq NonIdempotent /\ NonIdempotent \subseteq Writes
  /\ Writes \subseteq Kinds /\ "get" \notin Writes
BY AskedAssumption DEF Kinds, ContentCreation, NonIdempotent, Writes

\* A call moves on without having been sent: what holds of the calls still does.
LEMMA Moving ==
  ASSUME CallInv, NEW c \in Caller, NEW k \in Asked,
         NEW place \in {"space", "rest", "mint", "token", "sent"},
         at[c] # "sent",
         kind[c] = k \/ (at[c] = "idle" /\ k \notin ContentCreation),
         k \in ContentCreation => c = lane[1],
         \A d \in Caller : at'[d] = IF d = c THEN place ELSE at[d],
         \A d \in Caller : kind'[d] = IF d = c THEN k ELSE kind[d],
         UNCHANGED <<tries, body, lane, cache, sends>>
  PROVE  Laned' /\ Carried' /\ Marked'
<1>0. CallTypeOK /\ Laned /\ Carried /\ Marked
  BY DEF CallInv
<1>1. k # None /\ k \in Kinds
  BY KindFacts
<1>2. CallOK(c)
  BY <1>0 DEF Carried
<1>3. sends[c] \in Nat /\ tries[c] \in 0..2
  BY <1>0 DEF CallTypeOK
<1>4. at[c] = "idle" => sends[c] = 0
  BY <1>2, <1>3 DEF CallOK
<1>5. Creates(c) <=> k \in ContentCreation
  <2>1. CASE kind[c] = k
    BY <2>1 DEF Creates
  <2>2. CASE at[c] = "idle" /\ k \notin ContentCreation
    BY <1>2, <2>2, KindFacts DEF CallOK, Creates
  <2> QED BY <2>1, <2>2
<1>6. Laned'
  <2>1. \A d \in Caller : Creates(d)' <=> Creates(d)
    BY <1>5 DEF Creates
  <2>2. \A d \in Caller : InLane(d)' <=> InLane(d)
    BY DEF InLane
  <2>3. ASSUME NEW d \in Caller, Creates(d)', Out(d)' PROVE d = lane'[1]
    <3>1. CASE d = c
      BY <1>5, <2>1, <2>3, <3>1
    <3>2. CASE d # c
      BY <1>0, <2>1, <2>3, <3>2 DEF Out, Laned
    <3> QED BY <3>1, <3>2
  <2> QED BY <1>0, <2>1, <2>2, <2>3 DEF Laned
<1>7. Carried'
  <2>1. ASSUME NEW d \in Caller, d # c PROVE CallOK(d)'
    <3>1. /\ at'[d] = at[d] /\ kind'[d] = kind[d] /\ tries' = tries /\ sends' = sends
          /\ body' = body
      BY <2>1
    <3>2. CallOK(d)
      BY <1>0 DEF Carried
    <3> QED BY <3>1, <3>2 DEF CallOK
  <2>2. CallOK(c)'
    <3>1. at'[c] = place /\ kind'[c] = k /\ tries' = tries /\ sends' = sends
      OBVIOUS
    <3>2. sends[c] > 0 => tries[c] > 0
      BY <1>2, <1>3 DEF CallOK
    <3>3. k \in NonIdempotent => sends[c] = 0
      BY <1>2, <1>3, <1>4 DEF CallOK
    <3>4. body'[c] = "done" => k \in Writes
      BY <1>2, KindFacts DEF CallOK
    <3> QED BY <1>1, <1>3, <3>1, <3>2, <3>3, <3>4 DEF CallOK
  <2> QED BY <2>1, <2>2 DEF Carried
<1>8. Marked'
  <2>1. ASSUME NEW d \in Caller, kind[d] \in Writes, sends[d] > 0
        PROVE  kind'[d] \in Writes /\ sends'[d] > 0
    BY <1>3, <1>4, <2>1
  <2> QED BY <1>0, <2>1 DEF Marked
<1> QED BY <1>6, <1>7, <1>8

\* The lane without its first call.
LEMMA TailFacts ==
  ASSUME NEW s \in Seq(Caller), s # <<>>
  PROVE  /\ Head(s) = s[1] /\ 1 \in DOMAIN s /\ DOMAIN s = 1..Len(s) /\ Len(s) \in Nat
         /\ Tail(s) \in Seq(Caller) /\ DOMAIN Tail(s) = 1..(Len(s) - 1)
         /\ \A i \in 1..(Len(s) - 1) : Tail(s)[i] = s[i + 1]
OBVIOUS

\* When the first call of the lane leaves it, it is gone and the others keep their places.
LEMMA LeavingLane ==
  ASSUME CallTypeOK, Laned, NEW c \in Caller, Creates(c), c = lane[1]
  PROVE  /\ Tail(lane) \in Seq(Caller)
         /\ \A d \in Caller : (\E i \in DOMAIN Tail(lane) : Tail(lane)[i] = d) <=>
                                d # c /\ InLane(d)
         /\ \A i, j \in DOMAIN Tail(lane) : Tail(lane)[i] = Tail(lane)[j] => i = j
<1>1. lane \in Seq(Caller) /\ lane # <<>>
  BY DEF CallTypeOK, Laned, InLane
<1>2. /\ 1 \in DOMAIN lane /\ DOMAIN lane = 1..Len(lane) /\ Len(lane) \in Nat
      /\ Tail(lane) \in Seq(Caller) /\ DOMAIN Tail(lane) = 1..(Len(lane) - 1)
      /\ \A i \in 1..(Len(lane) - 1) : Tail(lane)[i] = lane[i + 1]
  BY <1>1, TailFacts
<1>3. \A i, j \in DOMAIN lane : lane[i] = lane[j] => i = j
  BY DEF Laned
<1>4. ASSUME NEW i \in DOMAIN Tail(lane)
      PROVE  i + 1 \in DOMAIN lane /\ Tail(lane)[i] = lane[i + 1] /\ i + 1 # 1
  BY <1>2
<1>5. ASSUME NEW d \in Caller, NEW i \in DOMAIN Tail(lane), Tail(lane)[i] = d
      PROVE  d # c /\ InLane(d)
  BY <1>2, <1>3, <1>4, <1>5 DEF InLane
<1>6. ASSUME NEW d \in Caller, d # c, InLane(d)
      PROVE  \E i \in DOMAIN Tail(lane) : Tail(lane)[i] = d
  <2>1. PICK j \in DOMAIN lane : lane[j] = d
    BY <1>6 DEF InLane
  <2>2. j # 1 /\ j - 1 \in DOMAIN Tail(lane)
    BY <1>2, <1>6, <2>1
  <2>3. Tail(lane)[j - 1] = d
    BY <1>2, <2>1, <2>2
  <2> QED BY <2>2, <2>3
<1>7. ASSUME NEW i \in DOMAIN Tail(lane), NEW j \in DOMAIN Tail(lane),
             Tail(lane)[i] = Tail(lane)[j]
      PROVE  i = j
  <2>1. i + 1 = j + 1
    BY <1>3, <1>4, <1>7
  <2> QED BY <1>2, <2>1
<1> QED BY <1>2, <1>5, <1>6, <1>7

\* A call that may have been sent drops what its write staled, whatever it leaves behind.
Validators(c, k) == {cache, "none"} \cup (IF k = "get" THEN {body[c]} ELSE {})

\* A call ends: its lane is the next one's, and its write's validators are gone with it.
LEMMA Ending ==
  ASSUME CallInv, NEW c \in Caller, NEW k \in Asked, NEW notSent \in BOOLEAN,
         NEW validator \in Validators(c, k),
         kind[c] = k \/ (at[c] = "idle" /\ k \notin ContentCreation),
         k \in ContentCreation => c = lane[1],
         Ends(c, k, notSent, validator)
  PROVE  CallInv' /\ at' = [at EXCEPT ![c] = "idle"]
<1>0. CallTypeOK /\ Laned /\ Carried /\ Marked
  BY DEF CallInv
<1> DEFINE drops == Drops(k, notSent)
           leaves == notSent /\ sends[c] > 0
<1>1. /\ at' = [at EXCEPT ![c] = "idle"] /\ timer' = [timer EXCEPT ![c] = 0]
      /\ kind' = [kind EXCEPT ![c] = None] /\ got' = [got EXCEPT ![c] = "none"]
      /\ mine' = [mine EXCEPT ![c] = FALSE] /\ tries' = [tries EXCEPT ![c] = 0]
      /\ waited' = [waited EXCEPT ![c] = 0] /\ sends' = [sends EXCEPT ![c] = 0]
      /\ body' = [x \in Caller |-> IF x = c THEN "none"
                                   ELSE IF drops \/ leaves THEN Late(body[x]) ELSE body[x]]
      /\ cache' = IF drops THEN "none" ELSE IF leaves THEN Late(validator) ELSE validator
      /\ lane' = IF k \in ContentCreation THEN Tail(lane) ELSE lane
  BY DEF Ends, Waits, Goes, LaneAfter
<1>2. CallOK(c) /\ sends[c] \in Nat
  BY <1>0 DEF Carried, CallTypeOK
<1>3. Creates(c) <=> k \in ContentCreation
  BY <1>2, KindFacts DEF CallOK, Creates
<1>4. \A d \in Caller : d # c => /\ at'[d] = at[d] /\ kind'[d] = kind[d] /\ tries'[d] = tries[d]
                                 /\ sends'[d] = sends[d]
                                 /\ body'[d] = IF drops \/ leaves THEN Late(body[d]) ELSE body[d]
  BY <1>0, <1>1 DEF CallTypeOK
<1>5. at'[c] = "idle" /\ kind'[c] = None /\ tries'[c] = 0 /\ sends'[c] = 0 /\ body'[c] = "none"
  BY <1>0, <1>1 DEF CallTypeOK
<1>6. /\ lane' \in Seq(Caller)
      /\ \A d \in Caller : InLane(d)' <=> d # c /\ InLane(d)
      /\ \A i, j \in DOMAIN lane' : lane'[i] = lane'[j] => i = j
  <2>1. CASE k \in ContentCreation
    BY <1>0, <1>1, <1>3, <2>1, LeavingLane DEF InLane
  <2>2. CASE k \notin ContentCreation
    <3>1. ~InLane(c)
      BY <1>0, <1>3, <2>2 DEF Laned
    <3> QED BY <1>0, <1>1, <2>2, <3>1 DEF InLane, Laned, CallTypeOK
  <2> QED BY <2>1, <2>2
<1>7. CallTypeOK'
  <2>1. body' \in [Caller -> {"none", "done", "fresh", "stale", "late"}]
    BY <1>0, <1>1 DEF CallTypeOK, Late
  <2>2. cache' \in {"none", "fresh", "stale", "late"}
    <3>1. body[c] \in {"none", "done", "fresh", "stale", "late"}
      BY <1>0 DEF CallTypeOK
    <3>2. k = "get" => body[c] # "done"
      BY <1>2, KindFacts DEF CallOK
    <3>3. validator \in {"none", "fresh", "stale", "late"}
      BY <1>0, <3>1, <3>2 DEF CallTypeOK, Validators
    <3> QED BY <1>1, <3>3 DEF CallTypeOK, Late
  <2>3. /\ at' \in [Caller -> Places] /\ kind' \in [Caller -> Asked \cup {None}]
        /\ got' \in [Caller -> {"none", "alive", "expired", "failure"}]
        /\ mine' \in [Caller -> BOOLEAN] /\ tries' \in [Caller -> 0..2]
    BY <1>0, <1>1 DEF CallTypeOK, Places
  <2>4. waited' \in [Caller -> 0..MaxWait]
    BY <1>0, <1>1, ClientAssumption DEF CallTypeOK
  <2>5. timer' \in [Caller -> Nat] /\ sends' \in [Caller -> Nat]
    BY <1>0, <1>1 DEF CallTypeOK
  <2> QED BY <1>6, <2>1, <2>2, <2>3, <2>4, <2>5 DEF CallTypeOK
<1>8. Laned'
  <2>1. \A d \in Caller : Creates(d)' <=> d # c /\ Creates(d)
    BY <1>4, <1>5, KindFacts DEF Creates
  <2>2. \A d \in Caller : Creates(d)' <=> InLane(d)'
    BY <1>0, <1>6, <2>1 DEF Laned
  <2>3. ASSUME NEW d \in Caller, Creates(d)', Out(d)' PROVE d = lane'[1]
    <3>1. d # c /\ Creates(d) /\ Out(d)
      BY <1>4, <2>1, <2>3 DEF Out
    <3>2. d = lane[1]
      BY <1>0, <3>1 DEF Laned
    <3>3. lane' = lane
      BY <1>1, <3>1, <3>2
    <3> QED BY <3>2, <3>3
  <2> QED BY <1>6, <2>2, <2>3 DEF Laned
<1>9. Carried'
  <2>1. ASSUME NEW d \in Caller, d # c PROVE CallOK(d)'
    <3>1. CallOK(d)
      BY <1>0 DEF Carried
    <3>2. /\ body[d] # "none" => body'[d] # "none"
          /\ body'[d] = "done" => body[d] = "done"
      BY <1>4, <2>1 DEF Late
    <3> QED BY <1>4, <2>1, <3>1, <3>2 DEF CallOK
  <2>2. CallOK(c)'
    BY <1>5, KindFacts DEF CallOK
  <2> QED BY <2>1, <2>2 DEF Carried
<1>10. Marked'
  <2>1. CASE drops \/ leaves
    BY <1>1, <2>1 DEF Marked, Late
  <2>2. CASE ~(drops \/ leaves)
    <3> SUFFICES ASSUME cache' = "stale" \/ \E d \in Caller : body'[d] = "stale"
                 PROVE  \E d \in Caller : kind'[d] \in Writes /\ sends'[d] > 0
      BY DEF Marked
    <3>1. cache = "stale" \/ \E d \in Caller : body[d] = "stale"
      BY <1>1, <1>4, <1>5, <2>2 DEF Validators
    <3>2. PICK d \in Caller : kind[d] \in Writes /\ sends[d] > 0
      BY <1>0, <3>1 DEF Marked
    <3>3. d # c
      <4>1. k \notin Writes \/ sends[c] = 0
        BY <1>2, <2>2 DEF Drops
      <4>2. at[c] = "idle" => sends[c] = 0
        BY <1>2 DEF CallOK
      <4> QED BY <1>2, <3>2, <4>1, <4>2
    <3> QED BY <1>4, <3>2, <3>3
  <2> QED BY <2>1, <2>2
<1> QED BY <1>1, <1>7, <1>8, <1>9, <1>10 DEF CallInv

\* A call that stops waiting leaves the hold's account as it was.
LEMMA StopsWaiting ==
  ASSUME HeldBack, CallTypeOK, NEW c \in Caller, NEW place \in Places \ {"mint", "token"},
         at' = [at EXCEPT ![c] = place], hold' = hold, caught' = caught \/ caught' = caught \ {c}
  PROVE  HeldBack'
<1> SUFFICES ASSUME hold > 0, NEW d \in Caller, at'[d] \in {"mint", "token"} PROVE d \in caught'
  BY DEF HeldBack
<1>1. d # c
  BY DEF CallTypeOK
<1>2. at'[d] = at[d]
  BY <1>1 DEF CallTypeOK
<1> QED BY <1>1, <1>2 DEF HeldBack

\* The head of the attempt loop keeps what holds of the calls, and reads the hold.
LEMMA Attempting ==
  ASSUME CallInv, PacingTypeOK, HeldBack, NEW c \in Caller, NEW k \in Asked,
         at[c] \in {"idle", "space", "rest"},
         kind[c] = k \/ (at[c] = "idle" /\ k \notin ContentCreation),
         Attempt(c, k), UNCHANGED <<hold, caught>>
  PROVE  CallInv' /\ HeldBack' /\ [TokenNext]_tokenVars
<1>0. CallTypeOK /\ Laned /\ Carried /\ Marked
  BY DEF CallInv
<1>1. k \in ContentCreation => c = lane[1]
  <2> SUFFICES ASSUME k \in ContentCreation PROVE c = lane[1]
    OBVIOUS
  <2>1. kind[c] = k /\ Creates(c)
    BY DEF Creates
  <2>2. at[c] # "idle"
    BY <1>0, <2>1, KindFacts DEF Carried, CallOK
  <2> QED BY <1>0, <2>1, <2>2 DEF Laned, Out
<1>2. CASE Held(c)
  <2>1. Ends(c, k, FALSE, cache) /\ UNCHANGED tokenVars
    BY <1>2 DEF Attempt
  <2>2. CallInv' /\ at' = [at EXCEPT ![c] = "idle"]
    <3>1. cache \in Validators(c, k)
      BY DEF Validators
    <3> QED BY <1>1, <2>1, <3>1, Ending
  <2>3. HeldBack'
    BY <1>0, <2>2, StopsWaiting DEF Places
  <2> QED BY <2>1, <2>2, <2>3
<1>3. CASE ~Held(c)
  <2>1. PICK place \in {"mint", "token"} :
          /\ at' = [at EXCEPT ![c] = place]
          /\ mine' = mine \/ mine' = [mine EXCEPT ![c] = TRUE]
          /\ \/ got' = got
             \/ got' = [got EXCEPT ![c] = "failure"]
             \/ got' = [got EXCEPT ![c] = IF Expired(cached) THEN "expired" ELSE "alive"]
          /\ UNCHANGED tokenVars \/ (Mints /\ StartMint)
    BY <1>3 DEF Attempt, Goes
  <2>2. kind' = [kind EXCEPT ![c] = k] /\ UNCHANGED <<tries, timer, waited, body, lane, cache, sends>>
    BY <1>3 DEF Attempt
  <2>3. /\ \A d \in Caller : at'[d] = IF d = c THEN place ELSE at[d]
        /\ \A d \in Caller : kind'[d] = IF d = c THEN k ELSE kind[d]
    BY <1>0, <2>1, <2>2 DEF CallTypeOK
  <2>4. Laned' /\ Carried' /\ Marked'
    BY <1>1, <2>2, <2>3, Moving
  <2>5. CallTypeOK'
    BY <1>0, <2>1, <2>2 DEF CallTypeOK, Places
  <2>6. HeldBack'
    BY <1>3 DEF HeldBack, Held, PacingTypeOK
  <2> QED BY <2>1, <2>4, <2>5, <2>6 DEF CallInv, TokenNext
<1> QED BY <1>2, <1>3

\* The wait before another try, when there is one, is within the caps.
LEMMA WaitFacts ==
  ASSUME NEW reaction, NEW reset \in Nat \cup {None}, NEW attempt \in Nat, NEW spent \in Nat,
         NextStep(reaction, reset, attempt, spent) # None
  PROVE  /\ NextStep(reaction, reset, attempt, spent) \in Nat
         /\ spent + NextStep(reaction, reset, attempt, spent) <= MaxWait
         /\ attempt + 1 <= 2
<1>1. Advice(reaction, reset) \in Nat
  BY ClientAssumption, TokenAssumption DEF NextStep, Advice
<1>2. AttemptCap(reaction) \in {2, 3}
  BY DEF AttemptCap
<1> QED BY <1>1, <1>2, ClientAssumption DEF NextStep

\* So does delivery: it ends the call, lets it rest for a pool, or attempts it.
LEMMA Delivering ==
  ASSUME CallInv, PacingTypeOK, HeldBack, NEW c \in Caller, NEW k \in Asked,
         at[c] \in {"idle", "space"},
         kind[c] = k \/ (at[c] = "idle" /\ k \notin ContentCreation),
         Deliver(c, k), UNCHANGED <<hold, caught>>
  PROVE  CallInv' /\ HeldBack' /\ [TokenNext]_tokenVars
<1>0. CallTypeOK /\ Laned /\ Carried /\ Marked
  BY DEF CallInv
<1>1. k \in ContentCreation => c = lane[1]
  <2> SUFFICES ASSUME k \in ContentCreation PROVE c = lane[1]
    OBVIOUS
  <2>1. kind[c] = k /\ Creates(c)
    BY DEF Creates
  <2>2. at[c] # "idle"
    BY <1>0, <2>1, KindFacts DEF Carried, CallOK
  <2> QED BY <1>0, <2>1, <2>2 DEF Laned, Out
<1> DEFINE reset == slot[PoolOf(k)]
           wait == NextStep("awaitReset", reset, 0, 0)
<1>2. reset \in Nat \cup {None}
  BY DEF PacingTypeOK, Pool
<1>3. CASE reset = None
  BY <1>3, Attempting DEF Deliver
<1>4. CASE reset # None /\ wait = None
  <2>1. Ends(c, k, FALSE, cache) /\ UNCHANGED tokenVars
    BY <1>4 DEF Deliver
  <2>2. CallInv' /\ at' = [at EXCEPT ![c] = "idle"]
    <3>1. cache \in Validators(c, k)
      BY DEF Validators
    <3> QED BY <1>1, <2>1, <3>1, Ending
  <2>3. HeldBack'
    BY <1>0, <2>2, StopsWaiting DEF Places
  <2> QED BY <2>1, <2>2, <2>3
<1>5. CASE reset # None /\ wait # None
  <2>1. /\ Waits(c, "rest", wait)
        /\ waited' = [waited EXCEPT ![c] = wait]
        /\ kind' = [kind EXCEPT ![c] = k]
        /\ UNCHANGED <<tokenVars, got, mine, tries, body, lane, cache, sends>>
    BY <1>5 DEF Deliver
  <2>2. at' = [at EXCEPT ![c] = "rest"] /\ timer' = [timer EXCEPT ![c] = wait]
    BY <2>1 DEF Waits, Goes
  <2>3. /\ \A d \in Caller : at'[d] = IF d = c THEN "rest" ELSE at[d]
        /\ \A d \in Caller : kind'[d] = IF d = c THEN k ELSE kind[d]
    BY <1>0, <2>1, <2>2 DEF CallTypeOK
  <2>4. Laned' /\ Carried' /\ Marked'
    BY <1>1, <2>1, <2>3, Moving
  <2>5. wait \in Nat /\ wait \in 0..MaxWait
    <3>1. wait \in Nat /\ 0 + wait <= MaxWait
      BY <1>2, <1>5, WaitFacts
    <3> QED BY <3>1, ClientAssumption
  <2> HIDE DEF wait
  <2>6. CallTypeOK'
    BY <1>0, <2>1, <2>2, <2>5 DEF CallTypeOK, Places
  <2>7. HeldBack'
    BY <1>0, <2>2, StopsWaiting DEF Places
  <2> QED BY <2>1, <2>4, <2>6, <2>7 DEF CallInv
<1> QED BY <1>3, <1>4, <1>5

-----------------------------------------------------------------------------
(* The actions, one by one.                                                *)

\* What every action keeps, and what it may do to the token source.
Keeps == CallInv' /\ PacingTypeOK' /\ HeldBack' /\ [TokenNext]_tokenVars

\* What a call that is under way asks for, and where it stands in the lane.
LEMMA UnderWay ==
  ASSUME CallInv, NEW c \in Caller, at[c] # "idle"
  PROVE  /\ kind[c] \in Asked
         /\ Out(c) \/ HasTurn(c) => (kind[c] \in ContentCreation => c = lane[1])
         /\ at[c] = "lane" => sends[c] = 0
         /\ at[c] # "sent" /\ tries[c] = 0 => sends[c] = 0
<1>0. CallTypeOK /\ Laned /\ CallOK(c)
  BY DEF CallInv, Carried
<1>1. kind[c] \in Asked
  BY <1>0 DEF CallTypeOK, CallOK
<1>2. ASSUME HasTurn(c), kind[c] \in ContentCreation PROVE c = lane[1]
  <2>1. lane \in Seq(Caller) /\ lane # <<>>
    BY <1>0, <1>2 DEF CallTypeOK, Laned, InLane, Creates
  <2> QED BY <1>2, <2>1, TailFacts DEF HasTurn
<1>3. ASSUME Out(c), kind[c] \in ContentCreation PROVE c = lane[1]
  BY <1>0, <1>3 DEF Laned, Creates
<1>4. sends[c] \in Nat /\ tries[c] \in 0..2
  BY <1>0 DEF CallTypeOK
<1>5. at[c] # "sent" /\ tries[c] = 0 => sends[c] = 0
  BY <1>0, <1>4 DEF CallOK
<1>6. at[c] = "lane" => sends[c] = 0
  BY <1>0, <1>5 DEF CallOK
<1> QED BY <1>1, <1>2, <1>3, <1>5, <1>6

\* A creation takes the last place in the lane.
LEMMA Queueing ==
  ASSUME CallInv, NEW c \in Caller, NEW k \in Asked \cap ContentCreation, at[c] = "idle",
         at' = [at EXCEPT ![c] = "lane"], kind' = [kind EXCEPT ![c] = k],
         lane' = Append(lane, c),
         UNCHANGED <<got, mine, tries, timer, waited, body, cache, sends>>
  PROVE  CallInv'
<1>0. CallTypeOK /\ Laned /\ Carried /\ Marked
  BY DEF CallInv
<1>1. /\ \A d \in Caller : at'[d] = IF d = c THEN "lane" ELSE at[d]
      /\ \A d \in Caller : kind'[d] = IF d = c THEN k ELSE kind[d]
  BY <1>0 DEF CallTypeOK
<1>2. CallOK(c) /\ sends[c] \in Nat /\ sends[c] = 0 /\ tries[c] = 0 /\ kind[c] = None
  BY <1>0 DEF Carried, CallOK, CallTypeOK
<1>3. CallTypeOK'
  <2>1. lane' \in Seq(Caller)
    BY <1>0 DEF CallTypeOK
  <2> QED BY <1>0, <2>1 DEF CallTypeOK, Places
<1>4. Laned'
  <2>1. ~Creates(c) /\ ~InLane(c)
    BY <1>0, <1>2, KindFacts DEF Creates, Laned
  <2>2. /\ lane \in Seq(Caller) /\ Len(lane) \in Nat /\ DOMAIN lane = 1..Len(lane)
        /\ DOMAIN lane' = 1..(Len(lane) + 1) /\ lane'[Len(lane) + 1] = c
        /\ \A i \in 1..Len(lane) : lane'[i] = lane[i]
    BY <1>0 DEF CallTypeOK
  <2>3. ASSUME NEW d \in Caller PROVE InLane(d)' <=> d = c \/ InLane(d)
    <3>1. ASSUME NEW i \in DOMAIN lane', lane'[i] = d PROVE d = c \/ InLane(d)
      BY <2>2, <3>1 DEF InLane
    <3>2. ASSUME NEW i \in DOMAIN lane, lane[i] = d PROVE i \in DOMAIN lane' /\ lane'[i] = d
      BY <2>2, <3>2
    <3>3. Len(lane) + 1 \in DOMAIN lane'
      BY <2>2
    <3> QED BY <2>2, <3>1, <3>2, <3>3 DEF InLane
  <2>4. \A d \in Caller : Creates(d)' <=> d = c \/ Creates(d)
    BY <1>1 DEF Creates
  <2>5. ASSUME NEW i \in DOMAIN lane', NEW j \in DOMAIN lane', lane'[i] = lane'[j] PROVE i = j
    <3>1. ASSUME NEW x \in DOMAIN lane, lane[x] = c PROVE FALSE
      BY <2>1, <3>1 DEF InLane
    <3>2. CASE i \in 1..Len(lane) /\ j \in 1..Len(lane)
      BY <1>0, <2>2, <2>5, <3>2 DEF Laned
    <3>3. CASE i = Len(lane) + 1 \/ j = Len(lane) + 1
      BY <2>2, <2>5, <3>1, <3>3
    <3> QED BY <2>2, <3>2, <3>3
  <2>6. ASSUME NEW d \in Caller, Creates(d)', Out(d)' PROVE d = lane'[1]
    <3>1. d # c /\ Creates(d) /\ Out(d)
      BY <1>1, <2>4, <2>6 DEF Out
    <3>2. d = lane[1] /\ InLane(d)
      BY <1>0, <3>1 DEF Laned
    <3>3. 1 \in 1..Len(lane)
      BY <2>2, <3>2 DEF InLane
    <3> QED BY <2>2, <3>2, <3>3
  <2>7. \A d \in Caller : Creates(d)' <=> InLane(d)'
    BY <1>0, <2>3, <2>4 DEF Laned
  <2> QED BY <2>5, <2>6, <2>7 DEF Laned
<1>5. Carried'
  <2>1. ASSUME NEW d \in Caller, d # c PROVE CallOK(d)'
    <3>1. CallOK(d) /\ at'[d] = at[d] /\ kind'[d] = kind[d]
      BY <1>0, <1>1, <2>1 DEF Carried
    <3> QED BY <3>1 DEF CallOK
  <2>2. CallOK(c)'
    <3>1. k # None /\ k \in Writes
      BY KindFacts
    <3> QED BY <1>1, <1>2, <3>1 DEF CallOK
  <2> QED BY <2>1, <2>2 DEF Carried
<1>6. Marked'
  <2>1. ASSUME NEW d \in Caller, kind[d] \in Writes, sends[d] > 0
        PROVE  kind'[d] \in Writes /\ sends'[d] > 0
    BY <1>1, <1>2, <2>1
  <2> QED BY <1>0, <2>1 DEF Marked
<1> QED BY <1>3, <1>4, <1>5, <1>6 DEF CallInv

\* An admitted call joins the lane, or is delivered at once.
LEMMA RequestKeeps ==
  ASSUME CallInv, PacingTypeOK, HeldBack, NEW c \in Caller, NEW k \in Asked, Request(c, k)
  PROVE  Keeps
<1>1. PacingTypeOK' /\ UNCHANGED <<hold, caught>> /\ at[c] = "idle"
  BY DEF Request, PacingTypeOK
<1>2. CASE k \in ContentCreation
  <2>1. /\ at' = [at EXCEPT ![c] = "lane"] /\ kind' = [kind EXCEPT ![c] = k]
        /\ lane' = Append(lane, c)
        /\ UNCHANGED <<tokenVars, got, mine, tries, timer, waited, body, cache, sends>>
    BY <1>2 DEF Request, Goes
  <2>2. CallInv'
    BY <1>1, <1>2, <2>1, Queueing
  <2>3. HeldBack'
    BY <1>1, <2>1, StopsWaiting DEF Places, CallInv
  <2> QED BY <1>1, <2>1, <2>2, <2>3 DEF Keeps
<1>3. CASE k \notin ContentCreation
  <2>1. Deliver(c, k)
    BY <1>3 DEF Request
  <2> QED BY <1>1, <1>3, <2>1, Delivering DEF Keeps
<1> QED BY <1>2, <1>3

\* The lane's first takes a slot: the hour's count stays within its ceiling.
LEMMA TakesSlotKeeps ==
  ASSUME CallInv, PacingTypeOK, HeldBack, NEW c \in Caller, TakesSlot(c)
  PROVE  Keeps
<1>0. CallTypeOK
  BY DEF CallInv
<1>1. /\ at' = [at EXCEPT ![c] = "space"] /\ timer' = [timer EXCEPT ![c] = gap]
      /\ UNCHANGED <<tokenVars, kind, got, mine, tries, waited, body, lane, gap, hold, slot, cache,
                     sends, caught>>
      /\ hour' = IF HourIsOver THEN HourTicks ELSE hour
      /\ created' = IF HourIsOver THEN 1 ELSE created + 1
      /\ ~HourIsFull /\ HasTurn(c) /\ at[c] = "lane"
  BY DEF TakesSlot, Waits, Goes, HasTurn
<1>2. PacingTypeOK'
  <2>1. hour' \in 0..HourTicks /\ created' \in 0..Hourly
    BY <1>1, ClientAssumption DEF PacingTypeOK, HourIsOver, HourIsFull
  <2> QED BY <1>1, <2>1 DEF PacingTypeOK
<1>3. CallTypeOK'
  BY <1>0, <1>1, ClientAssumption DEF CallTypeOK, Places, PacingTypeOK
<1>4. kind[c] \in Asked /\ (kind[c] \in ContentCreation => c = lane[1])
  BY <1>1, UnderWay
<1>5. /\ \A d \in Caller : at'[d] = IF d = c THEN "space" ELSE at[d]
      /\ \A d \in Caller : kind'[d] = IF d = c THEN kind[c] ELSE kind[d]
  BY <1>0, <1>1 DEF CallTypeOK
<1>6. Laned' /\ Carried' /\ Marked'
  BY <1>1, <1>4, <1>5, Moving
<1>7. HeldBack'
  BY <1>0, <1>1, StopsWaiting DEF Places
<1> QED BY <1>1, <1>2, <1>3, <1>6, <1>7 DEF Keeps, CallInv

\* A creation the hold or the full hour turns away frees the lane and sent nothing.
LEMMA IsStoppedKeeps ==
  ASSUME CallInv, PacingTypeOK, HeldBack, NEW c \in Caller, IsStopped(c)
  PROVE  Keeps
<1>0. CallTypeOK
  BY DEF CallInv
<1> DEFINE notSent == ~Held(c)
<1>1. /\ HasTurn(c) /\ at[c] = "lane" /\ Ends(c, kind[c], notSent, cache)
      /\ UNCHANGED <<tokenVars, gap, hour, created, hold, slot, caught>>
  BY DEF IsStopped, HasTurn
<1>2. /\ kind[c] \in Asked /\ (kind[c] \in ContentCreation => c = lane[1])
      /\ notSent => sends[c] = 0
  BY <1>1, UnderWay
<1>3. cache \in Validators(c, kind[c]) /\ notSent \in BOOLEAN
  BY DEF Validators, Held
<1> HIDE DEF notSent
<1>4. CallInv' /\ at' = [at EXCEPT ![c] = "idle"]
  BY <1>1, <1>2, <1>3, Ending
<1>5. HeldBack'
  BY <1>0, <1>1, <1>4, StopsWaiting DEF Places
<1> QED BY <1>1, <1>4, <1>5 DEF Keeps, PacingTypeOK

\* After its pacing the lane's first is delivered.
LEMMA SpacedKeeps ==
  ASSUME CallInv, PacingTypeOK, HeldBack, NEW c \in Caller, Spaced(c)
  PROVE  Keeps
<1>1. /\ at[c] = "space" /\ gap' = SpacingTicks /\ Deliver(c, kind[c])
      /\ UNCHANGED <<hour, created, hold, slot, caught>>
  BY DEF Spaced
<1>2. kind[c] \in Asked
  BY <1>1, UnderWay
<1>3. PacingTypeOK'
  BY <1>1, ClientAssumption DEF PacingTypeOK
<1> QED BY <1>1, <1>2, <1>3, Delivering DEF Keeps

\* A rest ends in another attempt, which reads the hold again.
LEMMA WakeKeeps ==
  ASSUME CallInv, PacingTypeOK, HeldBack, NEW c \in Caller, Wake(c)
  PROVE  Keeps
<1>1. /\ at[c] = "rest" /\ Attempt(c, kind[c])
      /\ UNCHANGED <<gap, hour, created, hold, slot, caught>>
  BY DEF Wake
<1>2. kind[c] \in Asked
  BY <1>1, UnderWay
<1>3. PacingTypeOK'
  BY <1>1 DEF PacingTypeOK
<1> QED BY <1>1, <1>2, <1>3, Attempting DEF Keeps

\* A call that is not sent ends; only a first attempt leaves its validators.
LEMMA IsRefusedKeeps ==
  ASSUME CallInv, PacingTypeOK, HeldBack, NEW c \in Caller, IsRefused(c)
  PROVE  Keeps
<1>0. CallTypeOK
  BY DEF CallInv
<1>1. PICK notSent \in BOOLEAN : Ends(c, kind[c], notSent /\ tries[c] = 0, cache)
  BY DEF IsRefused
<1>2. /\ at[c] = "token" /\ caught' = caught \ {c}
      /\ UNCHANGED <<tokenVars, gap, hour, created, hold, slot>>
  BY DEF IsRefused
<1>3. /\ kind[c] \in Asked /\ (kind[c] \in ContentCreation => c = lane[1])
      /\ tries[c] = 0 => sends[c] = 0
  BY <1>2, UnderWay DEF Out
<1>4. cache \in Validators(c, kind[c])
  BY DEF Validators
<1>5. CallInv' /\ at' = [at EXCEPT ![c] = "idle"]
  BY <1>1, <1>3, <1>4, Ending
<1>6. HeldBack'
  BY <1>0, <1>2, <1>5, StopsWaiting DEF Places
<1> QED BY <1>2, <1>5, <1>6 DEF Keeps, PacingTypeOK

\* A broken seam ends a call wherever it is under way.
LEMMA BreaksKeeps ==
  ASSUME CallInv, PacingTypeOK, HeldBack, NEW c \in Caller, Breaks(c)
  PROVE  Keeps
<1>0. CallTypeOK
  BY DEF CallInv
<1>1. /\ HasTurn(c) \/ at[c] \in {"rest", "token", "sent"}
      /\ Ends(c, kind[c], TRUE, cache) /\ caught' = caught \ {c}
      /\ UNCHANGED <<tokenVars, gap, hour, created, hold, slot>>
  BY DEF Breaks
<1>2. (HasTurn(c) \/ Out(c)) /\ at[c] # "idle"
  BY <1>1 DEF HasTurn, Out
<1>3. kind[c] \in Asked /\ (kind[c] \in ContentCreation => c = lane[1])
  BY <1>2, UnderWay
<1>4. cache \in Validators(c, kind[c])
  BY DEF Validators
<1>5. CallInv' /\ at' = [at EXCEPT ![c] = "idle"]
  BY <1>1, <1>3, <1>4, Ending
<1>6. HeldBack'
  BY <1>0, <1>1, <1>5, StopsWaiting DEF Places
<1> QED BY <1>1, <1>5, <1>6 DEF Keeps, PacingTypeOK

\* A call leaves with its token, and the hold no longer counts it.
LEMMA SendKeeps ==
  ASSUME CallInv, PacingTypeOK, HeldBack, NEW c \in Caller, Send(c)
  PROVE  Keeps
<1>0. CallTypeOK
  BY DEF CallInv
<1>1. /\ at[c] = "token" /\ at' = [at EXCEPT ![c] = "sent"] /\ caught' = caught \ {c}
      /\ UNCHANGED <<tokenVars, kind, got, mine, tries, timer, waited, body, laneVars, hold, slot,
                     cache, sends>>
  BY DEF Send, Goes
<1>2. kind[c] \in Asked /\ (kind[c] \in ContentCreation => c = lane[1])
  BY <1>1, UnderWay DEF Out
<1>3. /\ \A d \in Caller : at'[d] = IF d = c THEN "sent" ELSE at[d]
      /\ \A d \in Caller : kind'[d] = IF d = c THEN kind[c] ELSE kind[d]
  BY <1>0, <1>1 DEF CallTypeOK
<1>4. Laned' /\ Carried' /\ Marked'
  BY <1>1, <1>2, <1>3, Moving DEF laneVars
<1>5. CallTypeOK'
  BY <1>0, <1>1 DEF CallTypeOK, Places, laneVars
<1>6. HeldBack'
  BY <1>0, <1>1, StopsWaiting DEF Places
<1> QED BY <1>1, <1>4, <1>5, <1>6 DEF Keeps, CallInv, PacingTypeOK, laneVars

\* GitHub performs a call: a creation for the first time, and what a write stales is its own.
LEMMA PerformKeeps ==
  ASSUME CallInv, PacingTypeOK, HeldBack, NEW c \in Caller, Perform(c)
  PROVE  Keeps
<1>0. CallTypeOK /\ Laned /\ Carried /\ Marked
  BY DEF CallInv
<1> DEFINE write == kind[c] \in Writes
           mark == IF write THEN "done" ELSE "fresh"
<1>1. /\ at[c] = "sent" /\ body[c] = "none"
      /\ body' = [x \in Caller |-> IF x = c THEN mark
                                   ELSE IF write THEN Staled(body[x]) ELSE body[x]]
      /\ cache' = IF write THEN Staled(cache) ELSE cache
      /\ sends' = IF write THEN [sends EXCEPT ![c] = @ + 1] ELSE sends
      /\ UNCHANGED <<tokenVars, at, kind, got, mine, tries, timer, waited, laneVars, hold, slot,
                     caught>>
  BY DEF Perform
<1>2. CallTypeOK'
  <2>1. body' \in [Caller -> {"none", "done", "fresh", "stale", "late"}]
    BY <1>0, <1>1 DEF CallTypeOK, Staled
  <2>2. cache' \in {"none", "fresh", "stale", "late"}
    BY <1>0, <1>1 DEF CallTypeOK, Staled
  <2>3. sends' \in [Caller -> Nat]
    BY <1>0, <1>1 DEF CallTypeOK
  <2> QED BY <1>0, <1>1, <2>1, <2>2, <2>3 DEF CallTypeOK, laneVars
<1>3. Laned'
  BY <1>0, <1>1 DEF Laned, Creates, InLane, Out, laneVars
<1>4. Carried'
  <2>1. ASSUME NEW d \in Caller, d # c PROVE CallOK(d)'
    <3>1. CallOK(d)
      BY <1>0 DEF Carried
    <3>2. sends'[d] = sends[d]
      BY <1>0, <1>1, <2>1 DEF CallTypeOK
    <3>3. (body[d] # "none" => body'[d] # "none") /\ (body'[d] = "done" => body[d] = "done")
      BY <1>1, <2>1 DEF Staled
    <3> QED BY <1>1, <3>1, <3>2, <3>3 DEF CallOK
  <2>2. CallOK(c)'
    <3>1. CallOK(c) /\ sends[c] \in Nat
      BY <1>0 DEF Carried, CallTypeOK
    <3>2. kind[c] \in NonIdempotent => sends[c] = 0
      BY <1>1, <3>1 DEF CallOK
    <3>3. sends'[c] = IF write THEN sends[c] + 1 ELSE sends[c]
      BY <1>0, <1>1 DEF CallTypeOK
    <3>4. body'[c] = mark
      BY <1>1
    <3> QED BY <1>1, <3>1, <3>2, <3>3, <3>4 DEF CallOK
  <2> QED BY <2>1, <2>2 DEF Carried
<1>5. Marked'
  <2>1. CASE write
    <3>1. sends'[c] > 0 /\ kind'[c] \in Writes
      BY <1>0, <1>1, <2>1 DEF CallTypeOK
    <3> QED BY <3>1 DEF Marked
  <2>2. CASE ~write
    <3>1. cache' = cache /\ sends' = sends /\ kind' = kind
      BY <1>1, <2>2
    <3>2. \A d \in Caller : body'[d] = "stale" => body[d] = "stale"
      BY <1>1, <2>2
    <3> QED BY <1>0, <3>1, <3>2 DEF Marked
  <2> QED BY <2>1, <2>2
<1>6. HeldBack' /\ PacingTypeOK'
  BY <1>1 DEF HeldBack, PacingTypeOK, laneVars
<1> QED BY <1>1, <1>2, <1>3, <1>4, <1>5, <1>6 DEF Keeps, CallInv

\* A pool's slot keeps its type.
LEMMA Remembering ==
  ASSUME PacingTypeOK, NEW reset \in Resets \cup {None}, Remembers(reset)
  PROVE  slot' \in [Pool -> Nat \cup {None}]
<1>1. reset \in Nat \cup {None}
  BY ClientAssumption
<1>2. PICK p \in Pool : slot' = [slot EXCEPT ![p] = reset]
  BY DEF Remembers
<1> QED BY <1>1, <1>2 DEF PacingTypeOK

\* A call that is out and ends leaves at most the answer it brought home.
LEMMA AnswerEnds ==
  ASSUME CallInv, PacingTypeOK, NEW c \in Caller, at[c] = "sent",
         NEW validator \in Validators(c, kind[c]), Ends(c, kind[c], FALSE, validator)
  PROVE  CallInv' /\ at' = [at EXCEPT ![c] = "idle"]
<1>1. kind[c] \in Asked /\ (kind[c] \in ContentCreation => c = lane[1])
  BY UnderWay DEF Out
<1> QED BY <1>1, Ending

\* An answer ends the call that brought it home.
LEMMA SucceedsKeeps ==
  ASSUME CallInv, PacingTypeOK, HeldBack, NEW c \in Caller, NEW retained \in BOOLEAN,
         NEW reset \in Resets \cup {None}, Succeeds(c, retained, reset)
  PROVE  Keeps
<1>1. /\ at[c] = "sent" /\ Remembers(reset) /\ Ends(c, kind[c], FALSE, Kept(c, retained))
      /\ UNCHANGED <<tokenVars, gap, hour, created, hold, caught>>
  BY DEF Succeeds
<1>2. Kept(c, retained) \in Validators(c, kind[c])
  BY DEF Kept, Validators
<1>3. CallInv' /\ at' = [at EXCEPT ![c] = "idle"]
  BY <1>1, <1>2, AnswerEnds
<1>4. PacingTypeOK'
  BY <1>1, Remembering DEF PacingTypeOK
<1>5. HeldBack'
  BY <1>1, <1>3, StopsWaiting DEF Places, CallInv
<1> QED BY <1>1, <1>3, <1>4, <1>5 DEF Keeps

\* A confirmed validator ends the call that asked.
LEMMA IsUnmodifiedKeeps ==
  ASSUME CallInv, PacingTypeOK, HeldBack, NEW c \in Caller,
         NEW reset \in Resets \cup {None}, IsUnmodified(c, reset)
  PROVE  Keeps
<1>1. /\ at[c] = "sent" /\ Remembers(reset) /\ Ends(c, kind[c], FALSE, cache)
      /\ UNCHANGED <<tokenVars, gap, hour, created, hold, caught>>
  BY DEF IsUnmodified
<1>2. cache \in Validators(c, kind[c])
  BY DEF Validators
<1>3. CallInv' /\ at' = [at EXCEPT ![c] = "idle"]
  BY <1>1, <1>2, AnswerEnds
<1>4. PacingTypeOK'
  BY <1>1, Remembering DEF PacingTypeOK
<1>5. HeldBack'
  BY <1>1, <1>3, StopsWaiting DEF Places, CallInv
<1> QED BY <1>1, <1>3, <1>4, <1>5 DEF Keeps

\* A call rests before another try only if its request may be repeated, within the caps.
LEMMA Resting ==
  ASSUME CallInv, NEW c \in Caller, NEW wait \in Nat, at[c] = "sent",
         kind[c] \notin NonIdempotent, waited[c] + wait <= MaxWait, tries[c] + 1 <= 2,
         Rests(c, wait)
  PROVE  CallInv' /\ at' = [at EXCEPT ![c] = "rest"]
<1>0. CallTypeOK /\ Laned /\ Carried /\ Marked
  BY DEF CallInv
<1>1. /\ at' = [at EXCEPT ![c] = "rest"] /\ timer' = [timer EXCEPT ![c] = wait]
      /\ tries' = [tries EXCEPT ![c] = @ + 1]
      /\ waited' = [waited EXCEPT ![c] = @ + wait]
      /\ got' = [got EXCEPT ![c] = "none"]
      /\ mine' = [mine EXCEPT ![c] = FALSE]
      /\ body' = [body EXCEPT ![c] = "none"]
      /\ UNCHANGED <<kind, lane, cache, sends>>
  BY DEF Rests, Waits, Goes
<1>2. CallTypeOK'
  <2>1. tries[c] + 1 \in 0..2 /\ waited[c] + wait \in 0..MaxWait
    <3>1. tries[c] \in 0..2 /\ waited[c] \in 0..MaxWait
      BY <1>0 DEF CallTypeOK
    <3>2. MaxWait \in Nat
      BY ClientAssumption
    <3> QED BY <3>1, <3>2
  <2> QED BY <1>0, <1>1, <2>1 DEF CallTypeOK, Places
<1>3. Laned'
  <2>1. \A d \in Caller : Out(d)' => Out(d)
    BY <1>0, <1>1 DEF Out, CallTypeOK
  <2> QED BY <1>0, <1>1, <2>1 DEF Laned, Creates, InLane
<1>4. Carried'
  <2>1. ASSUME NEW d \in Caller, d # c PROVE CallOK(d)'
    <3>1. CallOK(d)
      BY <1>0 DEF Carried
    <3>2. /\ at'[d] = at[d] /\ tries'[d] = tries[d] /\ body'[d] = body[d]
          /\ kind' = kind /\ sends' = sends
      BY <1>0, <1>1, <2>1 DEF CallTypeOK
    <3> QED BY <3>1, <3>2 DEF CallOK
  <2>2. CallOK(c)'
    <3>1. CallOK(c) /\ tries[c] \in 0..2
      BY <1>0 DEF Carried, CallTypeOK
    <3>2. at'[c] = "rest" /\ tries'[c] = tries[c] + 1 /\ body'[c] = "none" /\ kind' = kind
      BY <1>0, <1>1 DEF CallTypeOK
    <3> QED BY <3>1, <3>2 DEF CallOK
  <2> QED BY <2>1, <2>2 DEF Carried
<1>5. Marked'
  <2>1. \A d \in Caller : body'[d] = "stale" => body[d] = "stale"
    BY <1>0, <1>1 DEF CallTypeOK
  <2> QED BY <1>0, <1>1, <2>1 DEF Marked
<1> QED BY <1>1, <1>2, <1>3, <1>4, <1>5 DEF CallInv

\* A failure ends the call or lets it rest, and may begin or lengthen a hold.
LEMMA FailsKeeps ==
  ASSUME CallInv, PacingTypeOK, HeldBack, NEW c \in Caller, NEW reaction,
         NEW reset \in Resets \cup {None}, Fails(c, reaction, reset)
  PROVE  Keeps
<1>0. CallTypeOK
  BY DEF CallInv
<1> DEFINE wait == IF MayRetryInClient(kind[c])
                   THEN NextStep(reaction, reset, tries[c], waited[c]) ELSE None
<1>1. /\ at[c] = "sent"
      /\ Remembers(reset) \/ UNCHANGED slot
      /\ (\E ticks \in {HoldTicks, LongHold} : HoldFor(ticks)) \/ UNCHANGED <<hold, caught>>
      /\ TokenAfter(c, reaction)
      /\ IF wait = None THEN Ends(c, kind[c], FALSE, cache) ELSE Rests(c, wait)
      /\ UNCHANGED <<gap, hour, created>>
  BY DEF Fails
<1>2. \E place \in {"idle", "rest"} : CallInv' /\ at' = [at EXCEPT ![c] = place]
  <2>1. CASE wait = None
    <3>1. cache \in Validators(c, kind[c])
      BY DEF Validators
    <3> QED BY <1>1, <2>1, <3>1, AnswerEnds
  <2>2. CASE wait # None
    <3>1. kind[c] \notin NonIdempotent /\ NextStep(reaction, reset, tries[c], waited[c]) # None
          /\ wait = NextStep(reaction, reset, tries[c], waited[c])
      BY <2>2 DEF MayRetryInClient
    <3>2. reset \in Nat \cup {None} /\ tries[c] \in Nat /\ waited[c] \in Nat
      <4>1. tries[c] \in 0..2 /\ waited[c] \in 0..MaxWait
        BY <1>0 DEF CallTypeOK
      <4>2. MaxWait \in Nat /\ Resets \subseteq Nat
        BY ClientAssumption
      <4>3. reset \in Nat \cup {None}
        BY <4>2
      <4> QED BY <4>1, <4>3
    <3>3. wait \in Nat /\ waited[c] + wait <= MaxWait /\ tries[c] + 1 <= 2
      BY <3>1, <3>2, WaitFacts
    <3>4. Rests(c, wait)
      BY <1>1, <2>2
    <3> HIDE DEF wait
    <3> QED BY <1>1, <3>1, <3>3, <3>4, Resting
  <2> QED BY <2>1, <2>2
<1>3. PICK place \in {"idle", "rest"} : CallInv' /\ at' = [at EXCEPT ![c] = place]
  BY <1>2
<1>4. hold' \in Nat /\ caught' \subseteq Caller
  <2>1. HoldTicks \in Nat /\ LongHold \in Nat
    BY ClientAssumption
  <2> QED BY <1>1, <2>1 DEF PacingTypeOK, HoldFor, Largest
<1>5. PacingTypeOK'
  <2>1. slot' \in [Pool -> Nat \cup {None}]
    BY <1>1, Remembering DEF PacingTypeOK
  <2> QED BY <1>1, <1>4, <2>1 DEF PacingTypeOK
<1>6. HeldBack'
  <2>1. CASE UNCHANGED <<hold, caught>>
    BY <1>0, <1>3, <2>1, StopsWaiting DEF Places
  <2>2. CASE \E ticks \in {HoldTicks, LongHold} : HoldFor(ticks)
    <3>1. \A d \in Caller : at'[d] \in {"mint", "token"} => at[d] \in {"mint", "token"}
      BY <1>0, <1>3 DEF CallTypeOK
    <3>2. CASE hold = 0
      BY <2>2, <3>1, <3>2 DEF HeldBack, HoldFor
    <3>3. CASE hold > 0
      BY <2>2, <3>1, <3>3 DEF HeldBack, HoldFor
    <3> QED BY <3>2, <3>3 DEF PacingTypeOK
  <2> QED BY <1>1, <2>1, <2>2
<1>7. [TokenNext]_tokenVars
  BY <1>1 DEF TokenAfter, TokenNext
<1> QED BY <1>3, <1>5, <1>6, <1>7 DEF Keeps

\* The pending mint settles for all who wait: they only move on to their answer.
LEMMA SettlingKeeps ==
  ASSUME CallInv, PacingTypeOK, HeldBack, NEW answer \in {"alive", "expired", "failure"},
         MintSettles(answer), mine' \in [Caller -> BOOLEAN]
  PROVE  CallInv' /\ PacingTypeOK' /\ HeldBack'
<1>0. CallTypeOK /\ Laned /\ Carried /\ Marked
  BY DEF CallInv
<1>1. /\ at' = [c \in Caller |-> IF c \in Waiting THEN "token" ELSE at[c]]
      /\ got' = [c \in Caller |-> IF c \in Waiting THEN answer ELSE got[c]]
      /\ UNCHANGED <<kind, tries, timer, waited, body, laneVars, hold, slot, cache, sends, caught>>
  BY DEF MintSettles
<1>2. \A c \in Caller : at'[c] = IF at[c] = "mint" THEN "token" ELSE at[c]
  BY <1>1 DEF Waiting
<1>3. CallTypeOK'
  <2>1. at' \in [Caller -> Places]
    BY <1>0, <1>1 DEF CallTypeOK, Places
  <2>2. got' \in [Caller -> {"none", "alive", "expired", "failure"}]
    BY <1>0, <1>1 DEF CallTypeOK
  <2> QED BY <1>0, <1>1, <2>1, <2>2 DEF CallTypeOK, laneVars
<1>4. Laned'
  <2>1. \A c \in Caller : Out(c)' => Out(c)
    BY <1>2 DEF Out
  <2> QED BY <1>0, <1>1, <2>1 DEF Laned, Creates, InLane, laneVars
<1>5. Carried'
  <2>1. ASSUME NEW c \in Caller PROVE CallOK(c)'
    <3>1. CallOK(c)
      BY <1>0 DEF Carried
    <3> QED BY <1>1, <1>2, <3>1 DEF CallOK
  <2> QED BY <2>1 DEF Carried
<1>6. Marked' /\ PacingTypeOK'
  BY <1>0, <1>1 DEF Marked, PacingTypeOK, laneVars
<1>7. HeldBack'
  BY <1>1, <1>2 DEF HeldBack
<1> QED BY <1>3, <1>4, <1>5, <1>6, <1>7 DEF CallInv

\* A minted token answers all who wait.
LEMMA MintArrivesKeeps ==
  ASSUME CallInv, PacingTypeOK, HeldBack, NEW life \in Lives, MintArrives(life)
  PROVE  Keeps
<1>1. MintSucceeds(life) /\ mine' \in [Caller -> BOOLEAN]
  BY DEF MintArrives
<1>2. PICK answer \in {"alive", "expired", "failure"} : MintSettles(answer)
  BY DEF MintArrives
<1> QED BY <1>1, <1>2, SettlingKeeps DEF Keeps, TokenNext

\* A failed mint answers them with the failure, or with the token still alive.
LEMMA MintIsLostKeeps ==
  ASSUME CallInv, PacingTypeOK, HeldBack, NEW limited \in BOOLEAN, MintIsLost(limited)
  PROVE  Keeps
<1>1. MintFails(limited)
  BY DEF MintIsLost
<1>2. mine' \in [Caller -> BOOLEAN]
  <2>1. \A c \in Caller : mine[c] \in BOOLEAN
    BY DEF CallInv, CallTypeOK
  <2>2. mine' = [c \in Caller |-> mine[c] \/ (c \in Waiting /\ ~Outlived)]
    BY DEF MintIsLost
  <2> QED BY <2>1, <2>2
<1>3. PICK answer \in {"alive", "expired", "failure"} : MintSettles(answer)
  BY DEF MintIsLost
<1> QED BY <1>1, <1>2, <1>3, SettlingKeeps DEF Keeps, TokenNext

\* The cache drops the resource: nothing the calls carry changes.
LEMMA EvictKeeps ==
  ASSUME CallInv, PacingTypeOK, HeldBack, Evict
  PROVE  Keeps
<1>0. CallTypeOK /\ Laned /\ Carried /\ Marked
  BY DEF CallInv
<1>1. cache' = "none" /\ UNCHANGED <<tokenVars, callVars, laneVars, hold, slot, sends, caught>>
  BY DEF Evict
<1>2. CallTypeOK'
  BY <1>0, <1>1 DEF CallTypeOK, callVars, laneVars
<1>3. Laned'
  BY <1>0, <1>1 DEF Laned, Creates, InLane, Out, callVars, laneVars
<1>4. Carried' /\ Marked'
  BY <1>0, <1>1 DEF Carried, CallOK, Marked, callVars
<1>5. HeldBack' /\ PacingTypeOK'
  BY <1>1 DEF HeldBack, PacingTypeOK, callVars, laneVars
<1> QED BY <1>1, <1>2, <1>3, <1>4, <1>5 DEF Keeps, CallInv

\* Time passes for the timers, the hold and the slots.
LEMMA TickKeeps ==
  ASSUME CallInv, PacingTypeOK, HeldBack, Tick
  PROVE  Keeps
<1>0. CallTypeOK /\ Laned /\ Carried /\ Marked
  BY DEF CallInv
<1>1. /\ TokenTick
      /\ timer' = [c \in Caller |-> Less(timer[c])]
      /\ hold' = Less(hold) /\ gap' = Less(gap) /\ hour' = Less(hour)
      /\ slot' = [p \in Pool |-> IF slot[p] = None THEN None ELSE Less(slot[p])]
      /\ caught' = IF hold <= 1 THEN {} ELSE caught
      /\ UNCHANGED <<at, kind, got, mine, tries, waited, body, lane, created, cache, sends>>
  BY DEF Tick
<1>2. \A n \in Nat : Less(n) \in Nat /\ Less(n) <= n
  BY DEF Less
<1>3. CallTypeOK'
  <2>1. timer' \in [Caller -> Nat]
    BY <1>0, <1>1, <1>2 DEF CallTypeOK
  <2> QED BY <1>0, <1>1, <2>1 DEF CallTypeOK
<1>4. Laned'
  BY <1>0, <1>1 DEF Laned, Creates, InLane, Out
<1>5. Carried' /\ Marked'
  BY <1>0, <1>1 DEF Carried, CallOK, Marked
<1>6. PacingTypeOK'
  <2>1. hold' \in Nat
    BY <1>1, <1>2 DEF PacingTypeOK
  <2>2. gap' \in 0..SpacingTicks /\ hour' \in 0..HourTicks
    BY <1>1, ClientAssumption DEF PacingTypeOK, Less
  <2>3. slot' \in [Pool -> Nat \cup {None}]
    <3>1. \A p \in Pool : slot[p] \in Nat \cup {None}
      BY DEF PacingTypeOK
    <3>2. \A p \in Pool : (IF slot[p] = None THEN None ELSE Less(slot[p])) \in Nat \cup {None}
      BY <1>2, <3>1
    <3> QED BY <1>1, <3>2
  <2>4. caught' \subseteq Caller
    BY <1>1 DEF PacingTypeOK
  <2> QED BY <1>1, <2>1, <2>2, <2>3, <2>4 DEF PacingTypeOK
<1>7. HeldBack'
  <2> SUFFICES ASSUME hold' > 0 PROVE {c \in Caller : at'[c] \in {"mint", "token"}} \subseteq caught'
    BY DEF HeldBack
  <2>1. hold > 0 /\ caught' = caught
    BY <1>1 DEF PacingTypeOK, Less
  <2> QED BY <1>1, <2>1 DEF HeldBack
<1> QED BY <1>1, <1>3, <1>4, <1>5, <1>6, <1>7 DEF Keeps, CallInv, TokenNext

-----------------------------------------------------------------------------
(* The theorems.                                                           *)

\* Every step keeps what holds of the calls, and is a step of the token source or none.
LEMMA NextKeeps ==
  ASSUME CallInv, PacingTypeOK, HeldBack, [Next]_vars
  PROVE  Keeps
<1>1. ASSUME NEW c \in Caller, NEW k \in Asked, Request(c, k) PROVE Keeps
  BY <1>1, RequestKeeps
<1>2. ASSUME NEW c \in Caller, Advances(c) PROVE Keeps
  BY <1>2, TakesSlotKeeps, IsStoppedKeeps, SpacedKeeps, WakeKeeps, IsRefusedKeeps, SendKeeps
     DEF Advances
<1>3. ASSUME NEW c \in Caller, Perform(c) PROVE Keeps
  BY <1>3, PerformKeeps
<1>4. ASSUME NEW c \in Caller, Answers(c) PROVE Keeps
  <2>1. PICK reset \in Resets \cup {None} :
          \/ \E retained \in BOOLEAN : Succeeds(c, retained, reset)
          \/ IsUnmodified(c, reset)
          \/ \E reaction \in FreshReactions \cup PastReactions : Fails(c, reaction, reset)
    BY <1>4 DEF Answers
  <2> QED BY <2>1, SucceedsKeeps, IsUnmodifiedKeeps, FailsKeeps
<1>5. CASE MintSettling
  BY <1>5, MintArrivesKeeps, MintIsLostKeeps DEF MintSettling
<1>6. CASE Evict
  BY <1>6, EvictKeeps
<1>7. CASE Tick
  BY <1>7, TickKeeps
<1>8. ASSUME NEW c \in Caller, Breaks(c) PROVE Keeps
  BY <1>8, BreaksKeeps
<1>9. CASE UNCHANGED vars
  <2>1. /\ UNCHANGED tokenVars
        /\ UNCHANGED <<at, kind, got, mine, tries, timer, waited, body, lane, cache, sends>>
        /\ UNCHANGED <<gap, hour, created, hold, slot, caught>>
    BY <1>9 DEF vars, callVars, laneVars
  <2>2. CallInv'
    BY <2>1 DEF CallInv, CallTypeOK, Laned, Creates, InLane, Out, Carried, CallOK, Marked
  <2>3. PacingTypeOK' /\ HeldBack'
    BY <2>1 DEF PacingTypeOK, HeldBack
  <2> QED BY <2>1, <2>2, <2>3 DEF Keeps
<1> QED BY <1>1, <1>2, <1>3, <1>4, <1>5, <1>6, <1>7, <1>8, <1>9 DEF Next

\* The client starts with nothing under way.
LEMMA InitHolds == Init => IInv
<1> SUFFICES ASSUME Init PROVE IInv
  OBVIOUS
<1>1. TokenTypeOK /\ Covered
  <2>1. Spacing \in 0..Spacing /\ ~(Spacing < Spacing) /\ 0 \in Nat
    BY SpacingFacts
  <2>2. /\ cached = None /\ pending = FALSE /\ retry = 0 /\ quiet = Spacing
        /\ excused = FALSE
    BY DEF Init, TokenInit
  <2> QED BY <2>1, <2>2 DEF TokenTypeOK, Covered
<1>2. CallTypeOK
  <2>1. lane \in Seq(Caller)
    BY DEF Init
  <2>2. waited \in [Caller -> 0..MaxWait]
    BY ClientAssumption DEF Init
  <2> QED BY <2>1, <2>2 DEF Init, CallTypeOK, Places
<1>3. PacingTypeOK /\ HeldBack
  BY ClientAssumption DEF Init, PacingTypeOK, HeldBack
<1>4. Laned
  <2>1. DOMAIN lane = {}
    BY DEF Init
  <2> QED BY <2>1, KindFacts DEF Init, Laned, Creates, InLane
<1>5. Carried /\ Marked
  BY KindFacts DEF Init, Carried, CallOK, Marked
<1> QED BY <1>1, <1>2, <1>3, <1>4, <1>5, ByParts DEF CallInv

\* Every step keeps the invariant.
LEMMA NextHolds == IInv /\ [Next]_vars => IInv'
<1> SUFFICES ASSUME IInv, [Next]_vars PROVE IInv'
  OBVIOUS
<1>1. TokenTypeOK /\ Covered /\ CallInv /\ PacingTypeOK /\ HeldBack
  BY ByParts
<1>2. Keeps
  BY <1>1, NextKeeps
<1>3. TokenTypeOK' /\ Covered'
  BY <1>1, <1>2, TokenStep DEF Keeps
<1> QED BY <1>2, <1>3
   DEF Keeps, IInv, TypeOK, CallInv, CallTypeOK, PacingTypeOK

\* What holds of the client in every reachable state: its types, the cover of the mint
\* spacing, the account of the hold, the lane, and what each call carries.
THEOREM Invariance == Spec => []IInv
BY InitHolds, NextHolds, PTL DEF Spec, SafeSpec

\* The client's state keeps its type: no count passes its cap, no wait the ceiling.
THEOREM TypeCorrect == Spec => []TypeOK
<1>1. IInv => TypeOK
  BY DEF IInv
<1> QED BY <1>1, Invariance, PTL

\* A creation is sent at most once, and two comment creations are never out together,
\* however their calls, their pacing and their failures fall.
THEOREM OneCreationAtATime == Spec => []CreationsAreSingle
<1>1. IInv => CreationsAreSingle
  <2> SUFFICES ASSUME IInv PROVE CreationsAreSingle
    OBVIOUS
  <2>1. \A c \in Caller : kind[c] \in NonIdempotent => sends[c] <= 1
    BY DEF IInv, Carried, CallOK
  <2>2. \A c, d \in Caller :
          kind[c] \in ContentCreation /\ kind[d] \in ContentCreation /\ Out(c) /\ Out(d) => c = d
    BY DEF IInv, Laned, Creates
  <2> QED BY <2>1, <2>2 DEF CreationsAreSingle
<1> QED BY <1>1, Invariance, PTL

\* A kept validator that a performed write has staled does not outlive that write's call.
THEOREM StaleValidatorsGo == Spec => []ValidatorsAreDropped
<1>1. IInv => ValidatorsAreDropped
  <2> SUFFICES ASSUME IInv, cache = "stale"
               PROVE  \E c \in Caller : at[c] # "idle" /\ kind[c] \in Writes /\ sends[c] > 0
    BY DEF ValidatorsAreDropped
  <2>1. PICK c \in Caller : kind[c] \in Writes /\ sends[c] > 0
    BY DEF IInv, Marked
  <2>2. at[c] # "idle"
    BY <2>1, KindFacts DEF IInv, Carried, CallOK
  <2> QED BY <2>1, <2>2
<1> QED BY <1>1, Invariance, PTL

\* While a secondary limit holds, nothing leaves but what waited for a token when it began.
THEOREM TheHoldIsHeeded == Spec => HoldIsHeeded
<1>1. IInv => [\A c \in Caller : at[c] = "token" /\ at'[c] = "sent" /\ hold > 0 => c \in caught]_vars
  BY DEF IInv, HeldBack
<1> QED BY <1>1, Invariance, PTL DEF HoldIsHeeded

\* Mint requests keep the floor's or the cooldown's distance, whatever GitHub's clock and
\* ours say, unless the held token was rejected or ran out in between.
THEOREM MintsKeepTheirDistance == Spec => MintsAreSpaced
<1>1. IInv /\ [Next]_vars => [~pending /\ pending' => quiet = Spacing \/ excused]_tokenVars
  <2> SUFFICES ASSUME IInv, [Next]_vars, ~pending, pending'
               PROVE  quiet = Spacing \/ excused
    OBVIOUS
  <2>1. TokenTypeOK /\ Covered /\ CallInv /\ PacingTypeOK /\ HeldBack
    BY ByParts
  <2>2. [TokenNext]_tokenVars
    BY <2>1, NextKeeps DEF Keeps
  <2> QED BY <2>1, <2>2, TokenStep
<1> QED BY <1>1, Invariance, PTL DEF MintsAreSpaced, Spec, SafeSpec
=============================================================================
