----------------------------- MODULE GraceProofs -----------------------------
(***************************************************************************)
(* Theorems of Grace, for any assignees, graces, clock and bounds.         *)
(***************************************************************************)
EXTENDS Grace, WellFoundedInduction, TLAPS

(* The safety ladder: what a write that every rule let through was let through on. *)

\* A set of naturals that is not empty has a least element.
LEMMA LeastExists ==
  ASSUME NEW T, T \subseteq Nat, T # {}
  PROVE  \E x \in T : \A y \in T : x <= y
<1>1. PICK x \in T : \A y \in T : ~(<<y, x>> \in OpToRel(<, Nat))
  <2>1. IsWellFoundedOn(OpToRel(<, Nat), Nat)
    BY NatLessThanWellFounded
  <2> HIDE DEF OpToRel
  <2>2. QED BY <2>1, WFMin
<1>2. \A y \in T : x <= y
  <2> TAKE y \in T
  <2>1. ~(y < x)
    <3>1. ~(<<y, x>> \in {ss \in Nat \X Nat : ss[1] < ss[2]})
      BY <1>1 DEF OpToRel
    <3>2. <<y, x>> \in Nat \X Nat /\ <<y, x>>[1] = y /\ <<y, x>>[2] = x
      OBVIOUS
    <3>3. QED BY <3>1, <3>2
  <2>2. QED BY <2>1
<1>3. QED BY <1>2

\* The ladder applies only where no rule of its order objects.
LEMMA FirstApplies ==
  ASSUME NEW order, Len(order) \in Nat, NEW objects, FirstOf(order, objects) = "apply",
         \A i \in 1..Len(order) : order[i] # "apply"
  PROVE  \A i \in 1..Len(order) : order[i] \in DOMAIN objects => ~objects[order[i]]
<1> DEFINE objecting == {i \in 1..Len(order) : order[i] \in DOMAIN objects /\ objects[order[i]]}
           first == CHOOSE i \in objecting : \A j \in objecting : i <= j
<1>1. CASE objecting = {}
  BY <1>1
<1>2. CASE objecting # {}
  <2>1. \E i \in objecting : \A j \in objecting : i <= j
    <3>1. objecting \subseteq Nat
      OBVIOUS
    <3> HIDE DEF objecting
    <3>2. QED BY <1>2, <3>1, LeastExists
  <2>2. first \in objecting
    BY <2>1
  <2>3. FirstOf(order, objects) = order[first]
    BY <1>2 DEF FirstOf
  <2>4. QED BY <2>2, <2>3
<1>3. QED BY <1>1, <1>2

\* What the standing rules let through: an enabled capability that holds its grants and
\* is active.
Standing(w) ==
  /\ w.class # "observation"
  /\ w.capability \in w.config.enabled
  /\ w.missing = {}
  /\ EffectiveMode(w.config, w.capability) \notin {"disabled", "observe", "dry-run"}

\* What the item's rules let through: an open item nobody paused, whose newest change by a
\* person is known and came before the write was decided.
Undisturbed(w) ==
  /\ w.world.closure = Open
  /\ "blocked" \notin w.world.meanings
  /\ w.human # Unknown /\ w.human # Invalid /\ w.since # Invalid
  /\ ~NewerHumanChange(w.human, w.since)

\* The ladder has ten rules, none of them named for letting a write through.
LEMMA OrderFacts ==
  /\ Len(Order) = 10
  /\ \A i \in 1..Len(Order) : Order[i] # "apply"
  /\ \A code \in {"observation", "capabilityDisabled", "permissionMissing", "itemClosed",
                  "itemBlocked", "humanOrderingUnknown", "invalidTimestamp",
                  "newerHumanChange", "modeDisabled", "modeRecordsOnly"} :
       \E i \in 1..Len(Order) : Order[i] = code
<1>1. Len(Order) = 10
  BY DEF Order
<1>2. /\ Order[1] = "observation" /\ Order[2] = "capabilityDisabled"
      /\ Order[3] = "permissionMissing" /\ Order[4] = "itemClosed" /\ Order[5] = "itemBlocked"
      /\ Order[6] = "humanOrderingUnknown" /\ Order[7] = "invalidTimestamp"
      /\ Order[8] = "newerHumanChange" /\ Order[9] = "modeDisabled"
      /\ Order[10] = "modeRecordsOnly"
  BY DEF Order
<1>3. 1..Len(Order) = 1..10 /\ 1..10 = {1, 2, 3, 4, 5, 6, 7, 8, 9, 10}
  BY <1>1
<1>4. QED BY <1>1, <1>2, <1>3

\* The general ladder applies a write only on both.
LEMMA GeneralApplies ==
  ASSUME NEW w, GeneralVerdict(w) = "apply"
  PROVE  Standing(w) /\ Undisturbed(w)
<1> DEFINE standing == StandingRules(w)
           rules == ItemRules(w)
           objects == [code \in DOMAIN standing \cup DOMAIN rules |->
                         IF code \in DOMAIN standing THEN standing[code] ELSE rules[code]]
<1>1. FirstOf(Order, objects) = "apply"
  BY DEF GeneralVerdict
<1>2. /\ DOMAIN standing = {"observation", "capabilityDisabled", "permissionMissing",
                            "modeDisabled", "modeRecordsOnly"}
      /\ standing.observation = (w.class = "observation")
      /\ standing.capabilityDisabled = (w.capability \notin w.config.enabled)
      /\ standing.permissionMissing = (w.missing # {})
      /\ standing.modeDisabled = (EffectiveMode(w.config, w.capability) = "disabled")
      /\ standing.modeRecordsOnly = (EffectiveMode(w.config, w.capability) \in {"observe", "dry-run"})
  BY DEF StandingRules
<1>3. /\ DOMAIN rules = {"itemClosed", "itemBlocked", "humanOrderingUnknown",
                         "invalidTimestamp", "newerHumanChange"}
      /\ rules.itemClosed = (w.world.closure # Open)
      /\ rules.itemBlocked = ("blocked" \in w.world.meanings)
      /\ rules.humanOrderingUnknown = (w.human = Unknown)
      /\ rules.invalidTimestamp = (w.since = Invalid \/ w.human = Invalid)
      /\ rules.newerHumanChange = (w.since # Invalid /\ NewerHumanChange(w.human, w.since))
  BY DEF ItemRules
<1> HIDE DEF standing, rules
<1>0. \A i \in 1..Len(Order) : Order[i] \in DOMAIN objects => ~objects[Order[i]]
  <2> HIDE DEF objects
  <2>1. Len(Order) \in Nat /\ \A i \in 1..Len(Order) : Order[i] # "apply"
    BY OrderFacts
  <2>2. QED BY <1>1, <2>1, FirstApplies
<1>4. \A code \in DOMAIN standing : ~standing[code]
  <2> SUFFICES ASSUME NEW code \in DOMAIN standing PROVE ~standing[code]
    OBVIOUS
  <2>1. code \in DOMAIN objects /\ objects[code] = standing[code]
    OBVIOUS
  <2>2. PICK i \in 1..Len(Order) : Order[i] = code
    BY <1>2, OrderFacts
  <2> HIDE DEF objects
  <2>3. QED BY <1>0, <2>1, <2>2
<1>5. \A code \in DOMAIN rules : ~rules[code]
  <2> SUFFICES ASSUME NEW code \in DOMAIN rules PROVE ~rules[code]
    OBVIOUS
  <2>1. code \in DOMAIN objects /\ objects[code] = rules[code]
    BY <1>2, <1>3
  <2>2. PICK i \in 1..Len(Order) : Order[i] = code
    BY <1>3, OrderFacts
  <2> HIDE DEF objects
  <2>3. QED BY <1>0, <2>1, <2>2
<1>6. Standing(w)
  BY <1>2, <1>4 DEF Standing
<1>7. Undisturbed(w)
  BY <1>3, <1>5 DEF Undisturbed
<1>8. QED BY <1>6, <1>7

GateOrder == <<"wrongActionClass", "noWarning", "warningRequestMismatch", "graceBelowFloor",
               "invalidDestructivePlan", "graceRunning", "activityCancelled">>

\* A destructive act goes through only with a recorded warning for that very act, after
\* the whole of a lawful grace, with no activity since the warning.
THEOREM DestructiveApplies ==
  ASSUME NEW w, NEW act, NEW warning, NEW activity, NEW instant,
         DestructiveVerdict(w, act, warning, activity, instant) = "apply"
  PROVE  /\ ~w.kill /\ w.world.holds /\ w.class = "clockTriggeredDestructive"
         /\ warning # None /\ WarningMatches(warning, act)
         /\ ~PlanIsInvalid(warning) /\ ~(warning.hours < MinGrace) /\ ~(instant < warning.earliest)
         /\ ~ActivitySinceWarning(activity, warning)
         /\ Standing(w) /\ Undisturbed(w)
<1> DEFINE objects ==
        [wrongActionClass |-> w.class # "clockTriggeredDestructive",
         noWarning |-> warning = None,
         warningRequestMismatch |-> warning # None /\ ~WarningMatches(warning, act),
         invalidDestructivePlan |-> warning # None /\ PlanIsInvalid(warning),
         graceBelowFloor |-> warning # None /\ warning.hours < MinGrace,
         graceRunning |-> warning # None /\ instant < warning.earliest,
         activityCancelled |-> warning # None /\ ActivitySinceWarning(activity, warning)]
<1>1. /\ Preflight(w) = "apply" /\ FirstOf(GateOrder, objects) = "apply"
      /\ GeneralVerdict(w) = "apply"
  BY DEF DestructiveVerdict, GateOrder
<1>2. ~w.kill /\ w.world.holds
  BY <1>1 DEF Preflight
<1>3. /\ Len(GateOrder) = 7
      /\ GateOrder[1] = "wrongActionClass" /\ GateOrder[2] = "noWarning"
      /\ GateOrder[3] = "warningRequestMismatch" /\ GateOrder[4] = "graceBelowFloor"
      /\ GateOrder[5] = "invalidDestructivePlan" /\ GateOrder[6] = "graceRunning"
      /\ GateOrder[7] = "activityCancelled"
  BY DEF GateOrder
<1>4. \A i \in 1..Len(GateOrder) : GateOrder[i] # "apply"
  BY <1>3
<1>5. /\ DOMAIN objects = {"wrongActionClass", "noWarning", "warningRequestMismatch",
                           "invalidDestructivePlan", "graceBelowFloor", "graceRunning",
                           "activityCancelled"}
      /\ objects.wrongActionClass = (w.class # "clockTriggeredDestructive")
      /\ objects.noWarning = (warning = None)
      /\ objects.warningRequestMismatch = (warning # None /\ ~WarningMatches(warning, act))
      /\ objects.invalidDestructivePlan = (warning # None /\ PlanIsInvalid(warning))
      /\ objects.graceBelowFloor = (warning # None /\ warning.hours < MinGrace)
      /\ objects.graceRunning = (warning # None /\ instant < warning.earliest)
      /\ objects.activityCancelled = (warning # None /\ ActivitySinceWarning(activity, warning))
  OBVIOUS
<1> HIDE DEF objects
<1>6. \A i \in 1..7 : ~objects[GateOrder[i]]
  <2>1. \A i \in 1..7 : GateOrder[i] \in DOMAIN objects => ~objects[GateOrder[i]]
    BY <1>1, <1>3, <1>4, FirstApplies
  <2>2. \A i \in 1..7 : GateOrder[i] \in DOMAIN objects
    BY <1>3, <1>5
  <2>3. QED BY <2>1, <2>2
<1>7. /\ ~objects.wrongActionClass /\ ~objects.noWarning /\ ~objects.warningRequestMismatch
      /\ ~objects.invalidDestructivePlan /\ ~objects.graceBelowFloor /\ ~objects.graceRunning
      /\ ~objects.activityCancelled
  BY <1>3, <1>6
<1>8. QED BY <1>1, <1>2, <1>5, <1>7, GeneralApplies

\* Dates to the second keep the order of the instants they stand for.
LEMMA SecondsKeepOrder ==
  ASSUME NEW a \in Int, NEW b \in Int, SecondOf(a) < SecondOf(b)
  PROVE  a < b
<1> USE SafetyAssumption
<1> DEFINE x == a \div PerSecond
           y == b \div PerSecond
<1>1. /\ x \in Int /\ y \in Int
      /\ PerSecond * x <= a /\ a < PerSecond * (x + 1)
      /\ PerSecond * y <= b /\ b < PerSecond * (y + 1)
  OBVIOUS
<1>2. x < y
  BY DEF SecondOf
<1> HIDE DEF x, y
<1>3. PerSecond * (x + 1) <= PerSecond * y
  BY <1>1, <1>2
<1>4. PerSecond * (x + 1) \in Int /\ PerSecond * y \in Int
  BY <1>1
<1>5. QED BY <1>1, <1>3, <1>4

----------------------------------------------------------------------------
\* The record the pass stands on.
FactsOf == IF pass.at = "read" THEN pass ELSE pass.facts

\* Nothing is dated ahead of the clock.
PastFacts(f) ==
  \A p \in Person : /\ f.assigned[p] # None => f.assigned[p] <= now
                    /\ f.working[p] # None => f.working[p] <= now
Past ==
  /\ \A p \in Person : /\ assigned[p] # None => assigned[p] <= now
                       /\ working[p] # None => working[p] <= now
  /\ \A t \in Topics : comments[t] # None =>
       comments[t].at <= now /\ (kind = "issue" => comments[t].act.observed <= now)
  /\ pass.at # "idle" => PastFacts(FactsOf)

\* An assignee's clock never goes back: neither behind the one a pass has read, nor
\* behind the one the standing comment names.
Ordered(f) ==
  \A p \in Person : f.assigned[p] # None =>
    /\ assigned[p] # None => assigneeClock(f, p) <= Max2(assigned[p], working[p])
    /\ comments[p] # None => comments[p].act.observed <= assigneeClock(f, p)
OnClock ==
  kind = "issue" =>
    /\ \A p \in Person : comments[p] # None /\ assigned[p] # None =>
         comments[p].act.observed <= Max2(assigned[p], working[p])
    /\ pass.at # "idle" => Ordered(FactsOf)

\* A comment is about the subject its topic names.
Formed ==
  \A t \in Topics : comments[t] # None =>
    t \in Subjects /\ comments[t].act = Act(t, comments[t].act.observed)

\* A record is backed by a comment: an issue's by the one that stands, or by a later one
\* that stands in its place; a pull request's by one that stands or stood.
Backs(c, w) == c.act = w.act /\ c.at + c.hours <= w.earliest
Backed(w) ==
  IF kind = "issue"
  THEN LET c == comments[w.act.change]
       IN c # None /\ (Backs(c, w) \/ c.act.observed > w.act.observed)
  ELSE \E c \in rewritten \cup ({comments["close"]} \ {None}) : Backs(c, w)
Promised ==
  \A id \in EffectIds : warned[id] # None =>
    /\ EffectId(warned[id].act) = id
    /\ warned[id].act.change \in Subjects
    /\ warned[id].act = Act(warned[id].act.change, warned[id].act.observed)
    /\ Backed(warned[id])

\* A pass asks for what its record shows, once of each subject, and warns of nothing that
\* is recorded.
EffectOK(e, f) ==
  /\ e.act.change \in Subjects
  /\ e.act = Act(e.act.change, IdleSince(f, e.act.change))
  /\ kind = "issue" => f.assigned[e.act.change] # None
  /\ e.does = "warn" => warned[EffectId(e.act)] = None \/ warned[EffectId(e.act)].act # e.act
EffectsOK(S, f) ==
  /\ \A e \in S : EffectOK(e, f)
  /\ \A e1, e2 \in S : e1.act.change = e2.act.change => e1 = e2
Asks ==
  pass.at \notin {"idle", "read"} =>
    pass.effect \notin pass.left /\ EffectsOK(pass.left \cup {pass.effect}, pass.facts)

\* What the places of a pass stand for.
Placed ==
  /\ pass.at \in {"warn", "posted", "landed"} => pass.effect.does = "warn"
  /\ pass.at \in {"posted", "landed"} =>
       LET c == comments[pass.effect.act.change]
       IN c # None /\ c.act = pass.effect.act /\ c.hours = pass.effect.hours
  /\ pass.at = "act" =>
       LET w == warned[EffectId(pass.effect.act)]
       IN /\ w # None /\ w.act = pass.effect.act /\ now >= w.earliest
          /\ pass.live # None => pass.live < w.warned

IInv == TypeOK /\ Past /\ OnClock /\ Formed /\ Promised /\ Asks /\ Placed

----------------------------------------------------------------------------
(* Instants, acts and turns.                                               *)

\* A set of instants that is not empty has a greatest one.
LEMMA GreatestExists ==
  ASSUME NEW T, T \subseteq 0..MaxNow, T # {}
  PROVE  \E t \in T : \A u \in T : u <= t
<1> USE GraceAssumption
<1> DEFINE M == {MaxNow - t : t \in T}
<1>1. M \subseteq Nat /\ M # {}
  <2>1. PICK t0 \in T : TRUE
    OBVIOUS
  <2>2. MaxNow - t0 \in M
    OBVIOUS
  <2>3. \A t \in T : MaxNow - t \in Nat
    OBVIOUS
  <2>4. QED BY <2>2, <2>3
<1> HIDE DEF M
<1>2. PICK m \in M : \A n \in M : m <= n
  BY <1>1, LeastExists
<1>3. PICK t \in T : m = MaxNow - t
  BY DEF M
<1>4. \A u \in T : u <= t
  <2> TAKE u \in T
  <2>1. MaxNow - u \in M
    BY DEF M
  <2>2. m <= MaxNow - u
    BY <1>2, <2>1
  <2>3. QED BY <1>3, <2>2
<1>5. QED BY <1>4

\* The newest of some instants is one of them, or none.
LEMMA NewestType ==
  ASSUME NEW S, S \subseteq Instants
  PROVE  NewestOf(S) \in Instants
<1> DEFINE dated == S \ {None}
<1>1. CASE dated = {}
  BY <1>1 DEF NewestOf, Instants
<1>2. CASE dated # {}
  <2>1. dated \subseteq 0..MaxNow
    BY DEF Instants
  <2>2. \E t \in dated : \A u \in dated : u <= t
    BY <1>2, <2>1, GreatestExists
  <2>3. NewestOf(S) \in dated
    BY <1>2, <2>2 DEF NewestOf
  <2>4. QED BY <2>1, <2>3 DEF Instants
<1>3. QED BY <1>1, <1>2

\* The later of two instants, of which the first is one.
LEMMA Max2Facts ==
  ASSUME NEW a \in Nat, NEW b \in Nat \cup {None}
  PROVE  /\ Max2(a, b) \in Nat /\ a <= Max2(a, b) /\ (b # None => b <= Max2(a, b))
         /\ Max2(a, b) = a \/ (b # None /\ Max2(a, b) = b)
BY NoneAssumption DEF Max2

\* The later of an instant and none, or another one.
LEMMA Max2Type ==
  ASSUME NEW a \in Instants, NEW b \in Instants
  PROVE  /\ Max2(a, b) \in Instants
         /\ (b # None => Max2(a, b) \in Nat /\ b <= Max2(a, b))
         /\ (a # None => Max2(a, b) \in Nat /\ a <= Max2(a, b))
BY NoneAssumption, GraceAssumption DEF Max2, Instants

\* A subject's clock is an instant.
LEMMA IdleType ==
  ASSUME NEW f \in Facts, NEW s \in Subjects, kind = "issue" => f.assigned[s] # None,
         kind \in {"issue", "pullRequest"}
  PROVE  IdleSince(f, s) \in 0..MaxNow
<1> USE GraceAssumption, NoneAssumption
<1>0. f.assigned \in [Person -> Instants] /\ f.working \in [Person -> Instants] /\ f.kind = kind
  BY DEF Facts
<1>1. CASE kind = "issue"
  <2>1. s \in Person
    BY <1>1 DEF Subjects
  <2>2. f.assigned[s] \in Instants /\ f.working[s] \in Instants
    BY <1>0, <2>1
  <2>3. Max2(f.assigned[s], f.working[s]) \in Instants \cap Nat
    BY <1>1, <2>2, Max2Type
  <2>4. IdleSince(f, s) = Max2(f.assigned[s], f.working[s])
    BY <1>0, <1>1 DEF IdleSince, assigneeClock
  <2>5. QED BY <2>3, <2>4 DEF Instants
<1>2. CASE kind = "pullRequest"
  <2>1. AssigneesActivity(f) \in Instants
    BY <1>0, NewestType DEF AssigneesActivity
  <2>2. 0 \in Instants /\ 0 # None
    BY DEF Instants
  <2>3. Max2(0, AssigneesActivity(f)) \in 0..MaxNow
    BY <2>1, <2>2, Max2Type DEF Instants
  <2>4. QED BY <1>0, <1>2, <2>3 DEF IdleSince, pullRequestClock
<1>3. QED BY <1>1, <1>2

\* The activity the facts carry is an instant, or none.
LEMMA ActivityType ==
  ASSUME NEW f \in Facts, NEW s \in Subjects, kind \in {"issue", "pullRequest"}
  PROVE  ActivityAt(f, s) \in Instants
<1>0. f.working \in [Person -> Instants] /\ f.kind = kind
  BY DEF Facts
<1>1. AssigneesActivity(f) \in Instants
  BY <1>0, NewestType DEF AssigneesActivity
<1>2. kind = "issue" => s \in Person
  BY DEF Subjects
<1>3. QED BY <1>0, <1>1, <1>2 DEF ActivityAt

\* An act names its subject and its instant.
LEMMA ActFacts ==
  ASSUME NEW s \in Subjects, NEW t, kind \in {"issue", "pullRequest"}
  PROVE  /\ Act(s, t).change = s /\ Act(s, t).observed = t
         /\ (t \in 0..MaxNow => Act(s, t) \in Named)
         /\ s \in Topics /\ EffectId(Act(s, t)) = <<t, "act">>
BY DEF Act, release, close, Subjects, Named, Topics, EffectId

\* The ids of an act and of its warning are ids.
LEMMA IdTypes ==
  ASSUME NEW act \in Named
  PROVE  EffectId(act) \in EffectIds /\ WarningId(act) \in WarningIds
BY DEF EffectId, WarningId, EffectIds, WarningIds, Named

\* What the next turn of a pass is.
LEMMA TurnsFacts ==
  ASSUME NEW left \in SUBSET Effects, NEW f \in Facts, NEW evaluated \in 0..MaxNow,
         NEW next \in Turns(left, f, evaluated)
  PROVE  /\ next \in Passes
         /\ next.at \in {"idle", "next"}
         /\ next.at = "next" => /\ next.facts = f /\ next.evaluated = evaluated
                                /\ next.effect \notin next.left
                                /\ next.left \cup {next.effect} = left
<1>1. CASE left = {}
  BY <1>1 DEF Turns, Idle, Passes
<1>2. CASE left # {}
  <2>1. PICK e \in left :
          next = [at |-> "next", effect |-> e, left |-> left \ {e}, facts |-> f,
                  evaluated |-> evaluated]
    BY <1>2 DEF Turns
  <2>2. e \in Effects /\ left \ {e} \in SUBSET Effects
    OBVIOUS
  <2>3. next \in Passes
    BY <2>1, <2>2 DEF Passes
  <2>4. QED BY <2>1, <2>3
<1>3. QED BY <1>1, <1>2
----------------------------------------------------------------------------
(* The steps, one lemma each.                                              *)

\* What a pass carries, by its place.
LEMMA PassTypes ==
  ASSUME TypeOK
  PROVE  /\ pass.at \in {"idle", "read", "next", "gate", "warn", "posted", "landed", "act"}
         /\ pass.at = "idle" => pass = Idle
         /\ pass.at = "read" => pass \in Facts
         /\ pass.at \notin {"idle", "read"} =>
              /\ pass.effect \in Effects /\ pass.left \in SUBSET Effects
              /\ pass.facts \in Facts /\ pass.evaluated \in 0..MaxNow
         /\ pass.at \notin {"idle", "read", "next"} =>
              /\ pass.seen \in Items /\ pass.live \in Instants
              /\ pass \in [at : {"gate", "warn", "posted", "landed", "act"}, effect : Effects,
                           left : SUBSET Effects, facts : Facts, evaluated : 0..MaxNow,
                           seen : Items, live : Instants]
         /\ pass.at # "idle" => FactsOf \in Facts
<1> DEFINE G == [at : {"gate", "warn", "posted", "landed", "act"}, effect : Effects,
                 left : SUBSET Effects, facts : Facts, evaluated : 0..MaxNow,
                 seen : Items, live : Instants]
           N == [at : {"next"}, effect : Effects, left : SUBSET Effects, facts : Facts,
                 evaluated : 0..MaxNow]
<1>0. pass \in [at : {"idle"}] \cup Facts \cup N \cup G
  BY DEF TypeOK, Passes
<1>1. CASE pass \in [at : {"idle"}]
  <2>1. pass = [at |-> "idle"]
    BY <1>1
  <2>2. QED BY <2>1 DEF Idle
<1>2. CASE pass \in Facts
  <2>1. pass.at = "read"
    BY <1>2 DEF Facts
  <2>2. QED BY <1>2, <2>1 DEF FactsOf
<1>3. CASE pass \in N
  BY <1>3 DEF FactsOf
<1>4. CASE pass \in G
  BY <1>4 DEF FactsOf
<1>5. QED BY <1>0, <1>1, <1>2, <1>3, <1>4

\* A step that moves only the pass, over the facts it read, leaves the rest of the
\* invariant.
LEMMA CoreStays ==
  ASSUME IInv, UNCHANGED <<kind, assigned, working, comments, rewritten, now>>,
         pass'.at # "idle" => pass.at # "idle" /\ FactsOf' = FactsOf
  PROVE  /\ Past' /\ OnClock' /\ Formed'
         /\ UNCHANGED warned => Promised'
<1> USE DEF IInv
<1>1. Past'
  BY DEF Past, PastFacts
<1>2. OnClock'
  BY DEF OnClock, Ordered, assigneeClock
<1>3. Formed'
  BY DEF Formed, Subjects, Act, release, close
<1>4. ASSUME UNCHANGED warned PROVE Promised'
  BY <1>4 DEF Promised, Backed, Subjects, Act, release, close, Backs
<1>5. QED BY <1>1, <1>2, <1>3, <1>4

\* What a subset asks for is asked once too.
LEMMA EffectsFewer ==
  ASSUME NEW S, NEW T, T \subseteq S, NEW f, EffectsOK(S, f)
  PROVE  EffectsOK(T, f)
BY DEF EffectsOK

\* What is asked for depends on the kind and the records alone.
LEMMA AsksStay ==
  ASSUME UNCHANGED <<kind, warned>>,
         pass'.at \notin {"idle", "read"} =>
           /\ pass'.effect \notin pass'.left
           /\ EffectsOK(pass'.left \cup {pass'.effect}, pass'.facts)
  PROVE  Asks'
BY DEF Asks, EffectsOK, EffectOK, Subjects, Act, release, close, IdleSince, assigneeClock,
       pullRequestClock, AssigneesActivity, EffectId

\* Going on to the next effect.
LEMMA GoingOn ==
  ASSUME IInv, pass.at \notin {"idle", "read"}, GoesOn, UNCHANGED kind
  PROVE  /\ pass' \in Passes' /\ pass'.at \in {"idle", "next"}
         /\ pass'.at # "idle" => FactsOf' = FactsOf
         /\ Placed' /\ (UNCHANGED warned => Asks')
<1> USE DEF IInv
<1>0. pass.left \in SUBSET Effects /\ pass.facts \in Facts /\ pass.evaluated \in 0..MaxNow
  BY PassTypes
<1>1. /\ pass' \in Passes /\ pass'.at \in {"idle", "next"}
      /\ pass'.at = "next" => /\ pass'.facts = pass.facts /\ pass'.effect \notin pass'.left
                              /\ pass'.left \cup {pass'.effect} = pass.left
  BY <1>0, TurnsFacts DEF GoesOn
<1>2. pass' \in Passes'
  BY <1>1 DEF Passes, Facts
<1>3. pass'.at # "idle" => FactsOf' = FactsOf
  BY <1>1 DEF FactsOf
<1>4. ASSUME UNCHANGED warned PROVE Asks'
  <2>1. EffectsOK(pass.left, pass.facts)
    BY EffectsFewer DEF Asks
  <2>2. pass'.at = "next" => EffectsOK(pass'.left \cup {pass'.effect}, pass'.facts)
    BY <1>1, <2>1
  <2>3. QED BY <1>1, <1>4, <2>2, AsksStay
<1>5. Placed'
  BY <1>1 DEF Placed
<1>6. QED BY <1>1, <1>2, <1>3, <1>4, <1>5
\* The invariant holds at the start.
LEMMA InitHolds == Init => IInv
<1> SUFFICES ASSUME Init PROVE IInv
  OBVIOUS
<1> USE GraceAssumption, NoneAssumption DEF Init
<1>1. pass.at = "idle" /\ pass \in Passes
  BY DEF Idle, Passes
<1>2. TypeOK
  <2>1. item \in Items
    BY DEF Items
  <2>2. warned \in [EffectIds -> Warning \cup {None}]
    OBVIOUS
  <2>3. assigned \in [Person -> Instants] /\ working \in [Person -> Instants] /\ humanAt \in Instants
    BY DEF Instants
  <2>4. config \in Configs
    BY DEF Configs
  <2>5. now \in 1..MaxNow /\ humans \in 0..MaxHuman /\ faults \in 0..MaxFaults
    OBVIOUS
  <2>6. QED BY <1>1, <2>1, <2>2, <2>3, <2>4, <2>5 DEF TypeOK
<1>3. Past
  BY <1>1 DEF Past
<1>4. OnClock /\ Formed
  BY <1>1 DEF OnClock, Formed, Topics
<1>5. Promised /\ Asks /\ Placed
  BY <1>1 DEF Promised, Asks, Placed
<1>6. QED BY <1>2, <1>3, <1>4, <1>5 DEF IInv

\* A record read back from the comments is backed by the one it was read from.
LEMMA HydratedFacts ==
  ASSUME IInv, NEW id \in EffectIds, Hydrated[id] # None
  PROVE  \E t \in Topics : LET c == comments[t]
           IN /\ c # None /\ EffectId(c.act) = id
              /\ Hydrated[id] = [act |-> c.act, warned |-> c.at, hours |-> c.hours,
                                 earliest |-> c.at + c.hours]
<1> DEFINE standing == {t \in Topics : comments[t] # None /\ EffectId(comments[t].act) = id}
           t == CHOOSE u \in standing : TRUE
<1>1. Hydrated[id] =
        IF standing = {} THEN None
        ELSE [act |-> comments[t].act, warned |-> comments[t].at, hours |-> comments[t].hours,
              earliest |-> comments[t].at + comments[t].hours]
  BY DEF Hydrated
<1>2. standing # {} /\ t \in standing
  BY <1>1
<1>3. QED BY <1>1, <1>2

\* The records read back are well typed and backed.
LEMMA HydratedHolds ==
  ASSUME IInv, warned' = Hydrated, UNCHANGED <<kind, comments, rewritten>>
  PROVE  warned' \in [EffectIds -> Warning \cup {None}] /\ Promised'
<1> USE DEF IInv
<1>0. DOMAIN Hydrated = EffectIds /\ Hydrated = [id \in EffectIds |-> Hydrated[id]]
  BY DEF Hydrated
<1>1. ASSUME NEW id \in EffectIds, NEW w, w = Hydrated[id], w # None
      PROVE  /\ w \in Warning /\ EffectId(w.act) = id
             /\ w.act.change \in Subjects
             /\ w.act = Act(w.act.change, w.act.observed)
             /\ Backed(w)
  <2>1. PICK t \in Topics :
          /\ comments[t] # None /\ EffectId(comments[t].act) = id
          /\ Hydrated[id] = [act |-> comments[t].act, warned |-> comments[t].at,
                             hours |-> comments[t].hours,
                             earliest |-> comments[t].at + comments[t].hours]
    BY <1>1, HydratedFacts
  <2>2. PICK c \in Comment : c = comments[t]
    BY <2>1 DEF TypeOK
  <2>3. c.act \in Named /\ c.hours \in Hours /\ c.at \in 0..MaxNow
    BY <2>2 DEF Comment
  <2>4. w = [act |-> c.act, warned |-> c.at, hours |-> c.hours, earliest |-> c.at + c.hours]
    BY <1>1, <2>1, <2>2
  <2>5. c.hours \in Nat /\ c.at \in Nat /\ c.at + c.hours \in Nat
    <3>1. c.hours \in Nat
      BY <2>3, GraceAssumption
    <3>2. c.at \in Nat
      BY <2>3
    <3>3. QED BY <3>1, <3>2
  <2>6. w \in Warning
    BY <2>3, <2>4, <2>5 DEF Warning
  <2>7. w.act = c.act /\ w.earliest = c.at + c.hours
    BY <2>4
  <2>8. t \in Subjects /\ c.act = Act(t, c.act.observed)
    BY <2>1, <2>2 DEF Formed
  <2>9. c.act.change = t
    BY <2>8, ActFacts DEF TypeOK
  <2>10. Backs(c, w)
    BY <2>5, <2>7 DEF Backs
  <2>11. kind # "issue" => t = "close"
    BY <2>8 DEF Subjects
  <2>12. Backed(w)
    BY <2>1, <2>2, <2>7, <2>9, <2>10, <2>11 DEF Backed
  <2>13. QED BY <2>1, <2>2, <2>6, <2>7, <2>8, <2>9, <2>12
<1>2. warned' \in [EffectIds -> Warning \cup {None}]
  BY <1>0, <1>1
<1>3. Promised'
  <2>1. \A id \in EffectIds : warned'[id] # None =>
          /\ EffectId(warned'[id].act) = id /\ warned'[id].act.change \in Subjects
          /\ warned'[id].act = Act(warned'[id].act.change, warned'[id].act.observed)
          /\ Backed(warned'[id])
    BY <1>1
  <2>2. QED
    BY <2>1 DEF Promised, Backed, Backs, EffectId, Subjects, Act, release, close
<1>4. QED BY <1>2, <1>3

\* What a read takes is on the clock, and records read back are backed.
LEMMA SweepReadsHolds == IInv /\ SweepReads => IInv'
<1> SUFFICES ASSUME IInv, SweepReads PROVE IInv'
  OBVIOUS
<1> USE GraceAssumption, NoneAssumption DEF IInv
<1>0. UNCHANGED <<kind, stored, assigned, working, item, humanAt, config, comments, rewritten, now,
                  humans, faults>>
  BY DEF SweepReads, world, posts
<1>1. /\ pass' \in Facts' /\ pass' \in Passes' /\ pass'.at = "read" /\ FactsOf' = pass'
      /\ pass'.assigned = assigned /\ pass'.working = working
  <2>1. /\ now \in 0..MaxNow /\ item.meanings \in SUBSET {"blocked"}
        /\ item.closedBy \in {Open, "closedByApp"} /\ item.linked \in BOOLEAN
        /\ config \in Configs
    BY DEF TypeOK, Items
  <2>2. pass' = [at |-> "read", kind |-> kind, observed |-> now, assigned |-> assigned,
                 working |-> working, meanings |-> item.meanings, closedBy |-> item.closedBy,
                 linked |-> item.linked, config |-> config]
    BY DEF SweepReads
  <2>3. pass' \in Facts'
    BY <1>0, <2>1, <2>2 DEF Facts, TypeOK
  <2>4. QED BY <2>2, <2>3 DEF Passes, FactsOf
<1>2. Promised' /\ warned' \in [EffectIds -> Warning \cup {None}]
      /\ settled' \subseteq EffectIds \cup WarningIds /\ open' \subseteq WarningIds
  <2>1. CASE stored
    BY <1>0, <2>1 DEF SweepReads, ledger, TypeOK, Promised, Backed, Backs, Subjects, Act, release,
                      close
  <2>2. CASE ~stored
    BY <1>0, <2>2, HydratedHolds DEF SweepReads
  <2>3. QED BY <2>1, <2>2
<1>3. TypeOK'
  BY <1>0, <1>1, <1>2 DEF TypeOK
<1>4. Past'
  BY <1>0, <1>1 DEF Past, PastFacts
<1>5. OnClock'
  <2> SUFFICES ASSUME kind = "issue" PROVE OnClock'
    BY <1>0 DEF OnClock
  <2>1. \A p \in Person : assigned[p] # None =>
          Max2(assigned[p], working[p]) \in Nat
            /\ (comments[p] # None => comments[p].act.observed <= Max2(assigned[p], working[p]))
    BY Max2Type DEF OnClock, TypeOK
  <2>2. Ordered(pass)'
    BY <1>0, <1>1, <2>1 DEF Ordered, assigneeClock
  <2>3. QED BY <1>0, <1>1, <2>1, <2>2 DEF OnClock
<1>6. Formed'
  BY <1>0 DEF Formed, Subjects, Act, release, close
<1>7. Asks' /\ Placed'
  BY <1>1 DEF Asks, Placed
<1>8. QED BY <1>2, <1>3, <1>4, <1>5, <1>6, <1>7

\* What is approved is asked for by the record, once of each subject.
LEMMA ApprovedFacts ==
  ASSUME IInv, pass.at = "read"
  PROVE  Approved(pass) \in SUBSET Effects /\ EffectsOK(Approved(pass), pass)
<1> USE GraceAssumption, NoneAssumption DEF IInv
<1>0. pass.at = "read" /\ pass \in Facts /\ pass.kind = kind /\ kind \in {"issue", "pullRequest"}
  BY PassTypes DEF Facts, TypeOK
<1>1. ASSUME NEW s \in StaleSubjects(pass)
      PROVE  /\ s \in Subjects
             /\ kind = "issue" => pass.assigned[s] # None
             /\ Asked(pass, s) \in Effects
             /\ Asked(pass, s).act = Act(s, IdleSince(pass, s))
             /\ Asked(pass, s).act.change = s
             /\ EffectOK(Asked(pass, s), pass)
  <2>1. s \in Subjects /\ (kind = "issue" => pass.assigned[s] # None)
    BY <1>0, <1>1 DEF StaleSubjects, onIssue, onPullRequest, Subjects
  <2>2. IdleSince(pass, s) \in 0..MaxNow
    BY <1>0, <2>1, IdleType
  <2>3. ActivityAt(pass, s) \in Instants
    BY <1>0, <2>1, ActivityType
  <2> DEFINE since == IdleSince(pass, s)
             e == Asked(pass, s)
  <2>4. Act(s, since) \in Named /\ Act(s, since).change = s
    BY <1>0, <2>1, <2>2, ActFacts
  <2>5. /\ e.act = Act(s, since) /\ e.hours = pass.config.hours /\ e.activity = ActivityAt(pass, s)
        /\ e.does = IF warned[EffectId(Act(s, since))] = None THEN "warn" ELSE "act"
        /\ e = [act |-> e.act, hours |-> e.hours, activity |-> e.activity, does |-> e.does]
    BY DEF Asked
  <2>6. pass.config.hours \in Hours
    BY <1>0 DEF Facts, Configs
  <2> HIDE DEF e, since
  <2>7. e \in Effects
    BY <2>3, <2>4, <2>5, <2>6 DEF Effects
  <2>8. EffectOK(e, pass)
    BY <2>1, <2>4, <2>5 DEF EffectOK, since
  <2>9. QED BY <2>1, <2>4, <2>5, <2>7, <2>8 DEF e, since
<1>2. Approved(pass) \in SUBSET Effects /\ EffectsOK(Approved(pass), pass)
  <2>1. \A e \in Approved(pass) : \E s \in StaleSubjects(pass) : e = Asked(pass, s)
    BY DEF Approved
  <2>2. QED BY <1>1, <2>1 DEF EffectsOK
<1>3. QED BY <1>2

\* What is decided is asked for by the record, once of each subject.
LEMMA DecideHolds == IInv /\ Decide => IInv'
<1> SUFFICES ASSUME IInv, Decide PROVE IInv'
  OBVIOUS
<1> USE GraceAssumption, NoneAssumption DEF IInv
<1>0. /\ UNCHANGED <<kind, stored, assigned, working, item, humanAt, config, comments, rewritten,
                     warned, settled, open, now, humans, faults>>
      /\ pass.at = "read" /\ pass \in Facts /\ pass.kind = kind
      /\ kind \in {"issue", "pullRequest"}
  BY PassTypes DEF Decide, world, posts, ledger, Facts, TypeOK
<1>2. Approved(pass) \in SUBSET Effects /\ EffectsOK(Approved(pass), pass)
  BY <1>0, ApprovedFacts
<1>3. /\ pass' \in Passes /\ pass'.at \in {"idle", "next"}
      /\ pass'.at = "next" => /\ pass'.facts = pass /\ pass'.effect \notin pass'.left
                              /\ pass'.left \cup {pass'.effect} = Approved(pass)
  <2>1. now \in 0..MaxNow
    BY DEF TypeOK
  <2>2. pass' \in Turns(Approved(pass), pass, now)
    BY DEF Decide
  <2>3. QED BY <1>0, <1>2, <2>1, <2>2, TurnsFacts
<1>4. TypeOK'
  BY <1>0, <1>3 DEF TypeOK, Passes, Facts
<1>5. pass'.at # "idle" => FactsOf' = FactsOf
  BY <1>0, <1>3 DEF FactsOf
<1>6. Past' /\ OnClock' /\ Formed' /\ Promised'
  BY <1>0, <1>5, CoreStays
<1>7. Asks'
  <2> SUFFICES ASSUME pass'.at = "next" PROVE Asks'
    BY <1>3 DEF Asks
  <2>1. EffectsOK(pass'.left \cup {pass'.effect}, pass'.facts)
    BY <1>2, <1>3
  <2>2. QED BY <1>0, <1>3, <2>1, AsksStay
<1>8. Placed'
  BY <1>3 DEF Placed
<1>9. QED BY <1>4, <1>6, <1>7, <1>8

\* Skipping an effect that is done changes only the pass.
LEMMA SkipsHolds == IInv /\ Skips => IInv'
<1> SUFFICES ASSUME IInv, Skips PROVE IInv'
  OBVIOUS
<1>0. /\ UNCHANGED <<kind, stored, assigned, working, item, humanAt, config, comments, rewritten,
                     warned, settled, open, now, humans, faults>>
      /\ pass.at = "next" /\ GoesOn
  BY DEF Skips, world, posts, ledger
<1>1. pass' \in Passes' /\ pass'.at \in {"idle", "next"} /\ Asks' /\ Placed'
      /\ (pass'.at # "idle" => FactsOf' = FactsOf)
  BY <1>0, GoingOn
<1>2. TypeOK'
  BY <1>0, <1>1 DEF TypeOK, IInv
<1>3. Past' /\ OnClock' /\ Formed' /\ Promised'
  BY <1>0, <1>1, CoreStays
<1>4. QED BY <1>1, <1>2, <1>3 DEF IInv

\* Everybody's activity is an instant, or none.
LEMMA LiveType ==
  ASSUME TypeOK
  PROVE  LiveActivity \in Instants
<1>1. {working[p] : p \in Person} \subseteq Instants
  BY DEF TypeOK
<1>2. QED BY <1>1, NewestType DEF LiveActivity

\* The gate's read changes only the pass.
LEMMA GateReadsHolds == IInv /\ GateReads => IInv'
<1> SUFFICES ASSUME IInv, GateReads PROVE IInv'
  OBVIOUS
<1>0. /\ UNCHANGED <<kind, stored, assigned, working, item, humanAt, config, comments, rewritten,
                     warned, settled, open, now, humans, faults>>
      /\ pass.at = "next"
  BY DEF GateReads, world, posts, ledger
<1>1. /\ pass.effect \in Effects /\ pass.left \in SUBSET Effects
      /\ pass.facts \in Facts /\ pass.evaluated \in 0..MaxNow /\ item \in Items
  BY <1>0, PassTypes DEF IInv, TypeOK
<1> DEFINE live == IF kind = "pullRequest" THEN LiveActivity ELSE None
<1>2. live \in Instants
  BY LiveType DEF IInv, Instants
<1>3. pass' = [at |-> "gate", effect |-> pass.effect, left |-> pass.left, facts |-> pass.facts,
               evaluated |-> pass.evaluated, seen |-> item, live |-> live]
  BY DEF GateReads
<1> HIDE DEF live
<1>4. pass' \in Passes
  BY <1>1, <1>2, <1>3 DEF Passes
<1>5. /\ pass'.at = "gate" /\ pass'.effect = pass.effect /\ pass'.left = pass.left
      /\ pass'.facts = pass.facts
  BY <1>3
<1>6. TypeOK'
  BY <1>0, <1>4 DEF TypeOK, IInv, Passes, Facts
<1>7. FactsOf' = FactsOf
  BY <1>0, <1>5 DEF FactsOf
<1>8. Past' /\ OnClock' /\ Formed' /\ Promised'
  BY <1>0, <1>5, <1>7, CoreStays
<1>9. Asks'
  <2>1. pass.effect \notin pass.left /\ EffectsOK(pass.left \cup {pass.effect}, pass.facts)
    BY <1>0 DEF IInv, Asks
  <2>2. pass'.effect \notin pass'.left /\ EffectsOK(pass'.left \cup {pass'.effect}, pass'.facts)
    BY <1>5, <2>1
  <2>3. QED BY <1>0, <2>2, AsksStay
<1>10. Placed'
  BY <1>5 DEF Placed
<1>11. QED BY <1>6, <1>8, <1>9, <1>10 DEF IInv

\* What the gate lets act: a record of this very act whose grace is over, and nothing
\* anybody did since it was recorded.
LEMMA GateActs ==
  ASSUME IInv, pass.at = "gate", pass.effect.does = "act", GateVerdict = "apply"
  PROVE  LET w == warned[EffectId(pass.effect.act)]
         IN /\ w # None /\ w.act = pass.effect.act /\ now >= w.earliest
            /\ pass.live # None => pass.live < w.warned
<1> USE DEF IInv
<1> DEFINE w == warned[EffectId(pass.effect.act)]
           m == NewestActivity(pass.effect, pass.live)
           write == Write(pass.facts, "clockTriggeredDestructive", ActClaims(pass.facts),
                          pass.seen, pass.evaluated)
<1>1. pass.effect \in Effects /\ pass.live \in Instants
  BY PassTypes
<1>2. pass.effect.act \in Named /\ pass.effect.activity \in Instants
  BY <1>1 DEF Effects
<1>3. w \in Warning \cup {None}
  BY <1>2, IdTypes DEF TypeOK
<1>4. DestructiveVerdict(write, pass.effect.act, w, m, now) = "apply"
  BY DEF GateVerdict, ActVerdict, EvaluatedAt
<1> HIDE DEF w, write, m
<1>5. /\ w # None /\ WarningMatches(w, pass.effect.act) /\ ~(now < w.earliest)
      /\ ~ActivitySinceWarning(m, w)
  BY <1>4, DestructiveApplies
<1>6. w.act = pass.effect.act
  BY <1>5 DEF WarningMatches
<1>7. w.earliest \in Nat /\ w.warned \in 0..MaxNow
  BY <1>3, <1>5 DEF Warning
<1>8. now >= w.earliest
  BY <1>5, <1>7 DEF TypeOK
<1>9. ASSUME pass.live # None PROVE pass.live < w.warned
  <2>1. m \in Nat /\ pass.live <= m /\ pass.live \in Nat
    <3>1. m = Max2(pass.effect.activity, pass.live)
      BY DEF m, NewestActivity
    <3>2. pass.live \in Nat
      BY <1>1, <1>9, GraceAssumption DEF Instants
    <3>3. QED BY <1>1, <1>2, <1>9, <3>1, <3>2, Max2Type
  <2>2. m # None
    BY <2>1, NoneAssumption
  <2>3. ~(SecondOf(m) >= SecondOf(w.warned))
    BY <1>5, <2>2 DEF ActivitySinceWarning
  <2>4. m \in Int /\ w.warned \in Int
    BY <1>7, <2>1
  <2>5. SecondOf(m) \in Int /\ SecondOf(w.warned) \in Int
    BY <2>4, SafetyAssumption DEF SecondOf
  <2>6. SecondOf(m) < SecondOf(w.warned)
    BY <2>3, <2>5
  <2>7. m < w.warned
    BY <2>4, <2>6, SecondsKeepOrder
  <2>8. QED BY <2>1, <2>4, <2>7
<1>10. QED BY <1>5, <1>6, <1>8, <1>9 DEF w

\* A pass that moves on with its effect, its facts and what the gate read.
LEMMA EffectGoesOn ==
  ASSUME IInv, NEW at \in {"warn", "posted", "landed", "act"},
         pass.at \in {"gate", "warn", "posted", "landed", "act"},
         pass' = [pass EXCEPT !.at = at], UNCHANGED kind
  PROVE  /\ pass' \in Passes' /\ pass'.at = at /\ pass'.effect = pass.effect
         /\ pass'.live = pass.live /\ FactsOf' = FactsOf
         /\ UNCHANGED warned => Asks'
<1> USE DEF IInv
<1> DEFINE G == [at : {"gate", "warn", "posted", "landed", "act"}, effect : Effects,
                 left : SUBSET Effects, facts : Facts, evaluated : 0..MaxNow,
                 seen : Items, live : Instants]
<1>1. pass \in G
  BY PassTypes
<1>2. /\ pass' \in G /\ pass'.at = at /\ pass'.effect = pass.effect /\ pass'.left = pass.left
      /\ pass'.facts = pass.facts /\ pass'.live = pass.live
  BY <1>1
<1> HIDE DEF G
<1>3. pass' \in Passes
  BY <1>2 DEF Passes, G
<1>4. pass' \in Passes'
  BY <1>3 DEF Passes, Facts
<1>5. FactsOf' = FactsOf
  BY <1>2 DEF FactsOf
<1>6. ASSUME UNCHANGED warned PROVE Asks'
  <2>1. pass.effect \notin pass.left /\ EffectsOK(pass.left \cup {pass.effect}, pass.facts)
    BY DEF Asks
  <2>2. pass'.effect \notin pass'.left /\ EffectsOK(pass'.left \cup {pass'.effect}, pass'.facts)
    BY <1>2, <2>1
  <2>3. QED BY <1>6, <2>2, AsksStay
<1>7. QED BY <1>2, <1>4, <1>5, <1>6

\* The gate lets an effect on, or the pass goes on to the next.
LEMMA GateJudgesHolds == IInv /\ GateJudges => IInv'
<1> SUFFICES ASSUME IInv, GateJudges PROVE IInv'
  OBVIOUS
<1>0. /\ UNCHANGED <<kind, stored, assigned, working, item, humanAt, config, comments, rewritten,
                     warned, settled, open, now, humans, faults>>
      /\ pass.at = "gate"
  BY DEF GateJudges, world, posts, ledger
<1>1. CASE GateVerdict = "apply"
  <2>1. pass.effect.does \in {"warn", "act"}
    BY <1>0, PassTypes DEF IInv, Effects
  <2>2. pass' = [pass EXCEPT !.at = pass.effect.does]
    BY <1>1 DEF GateJudges
  <2>3. /\ pass' \in Passes' /\ pass'.at = pass.effect.does /\ pass'.effect = pass.effect
        /\ pass'.live = pass.live /\ FactsOf' = FactsOf /\ Asks'
    BY <1>0, <2>1, <2>2, EffectGoesOn
  <2>4. TypeOK'
    BY <1>0, <2>3 DEF TypeOK, IInv
  <2>5. Past' /\ OnClock' /\ Formed' /\ Promised'
    BY <1>0, <2>3, CoreStays
  <2>6. Placed'
    <3>1. CASE pass.effect.does = "warn"
      BY <2>3, <3>1 DEF Placed
    <3>2. CASE pass.effect.does = "act"
      BY <1>0, <1>1, <2>3, <3>2, GateActs DEF Placed, EffectId
    <3>3. QED BY <2>1, <3>1, <3>2
  <2>7. QED BY <2>3, <2>4, <2>5, <2>6 DEF IInv
<1>2. CASE GateVerdict # "apply"
  <2>1. GoesOn
    BY <1>2 DEF GateJudges
  <2>2. pass' \in Passes' /\ pass'.at \in {"idle", "next"} /\ Asks' /\ Placed'
        /\ (pass'.at # "idle" => FactsOf' = FactsOf)
    BY <1>0, <2>1, GoingOn
  <2>3. TypeOK'
    BY <1>0, <2>2 DEF TypeOK, IInv
  <2>4. Past' /\ OnClock' /\ Formed' /\ Promised'
    BY <1>0, <2>2, CoreStays
  <2>5. QED BY <2>2, <2>3, <2>4 DEF IInv
<1>3. QED BY <1>1, <1>2

\* What the effect in hand asks for.
LEMMA EffectFacts ==
  ASSUME IInv, pass.at \notin {"idle", "read"}
  PROVE  LET e == pass.effect
             t == e.act.change
         IN /\ e \in Effects /\ e.act \in Named /\ e.hours \in Hours
            /\ t \in Subjects /\ t \in Topics
            /\ IdleSince(pass.facts, t) \in 0..MaxNow
            /\ e.act = Act(t, IdleSince(pass.facts, t))
            /\ e.act.observed = IdleSince(pass.facts, t)
            /\ kind = "issue" => /\ t \in Person /\ pass.facts.assigned[t] # None
                                 /\ IdleSince(pass.facts, t) = assigneeClock(pass.facts, t)
            /\ kind # "issue" => t = "close"
            /\ e.does = "warn" => warned[EffectId(e.act)] = None \/ warned[EffectId(e.act)].act # e.act
<1> DEFINE e == pass.effect
           t == e.act.change
<1>1. e \in Effects /\ pass.facts \in Facts /\ kind \in {"issue", "pullRequest"}
  BY PassTypes DEF IInv, TypeOK
<1>2. EffectOK(e, pass.facts)
  BY DEF IInv, Asks, EffectsOK
<1>3. /\ t \in Subjects /\ e.act = Act(t, IdleSince(pass.facts, t))
      /\ kind = "issue" => pass.facts.assigned[t] # None
      /\ e.does = "warn" => warned[EffectId(e.act)] = None \/ warned[EffectId(e.act)].act # e.act
  BY <1>2 DEF EffectOK
<1>4. IdleSince(pass.facts, t) \in 0..MaxNow
  BY <1>1, <1>3, IdleType
<1>5. t \in Topics /\ e.act.observed = IdleSince(pass.facts, t)
  BY <1>1, <1>3, ActFacts
<1>6. e.act \in Named /\ e.hours \in Hours
  BY <1>1 DEF Effects
<1>7. pass.facts.kind = kind
  BY <1>1 DEF Facts
<1>8. kind = "issue" => t \in Person /\ IdleSince(pass.facts, t) = assigneeClock(pass.facts, t)
  BY <1>3, <1>7 DEF Subjects, IdleSince
<1>9. kind # "issue" => t = "close"
  BY <1>3 DEF Subjects
<1>10. QED BY <1>1, <1>3, <1>4, <1>5, <1>6, <1>8, <1>9

\* A comment that is posted is about a later instant of its subject than the one it rewrites.
LEMMA WarningPostsHolds == IInv /\ WarningPosts => IInv'
<1> SUFFICES ASSUME IInv, WarningPosts PROVE IInv'
  OBVIOUS
<1> USE GraceAssumption, NoneAssumption
<1> DEFINE e == pass.effect
           t == e.act.change
           f == pass.facts
           c == Posted(e)
<1>0. /\ UNCHANGED <<kind, stored, assigned, working, item, humanAt, config, warned, settled, now,
                     humans, faults>>
      /\ pass.at = "warn" /\ e.does = "warn"
      /\ pass' = [pass EXCEPT !.at = "posted"] /\ open' = open \cup {Id(e)}
  BY DEF WarningPosts, IInv, Placed
<1>1. /\ e.act \in Named /\ e.hours \in Hours /\ t \in Subjects /\ t \in Topics
      /\ IdleSince(f, t) \in 0..MaxNow /\ e.act = Act(t, IdleSince(f, t))
      /\ e.act.observed = IdleSince(f, t)
      /\ kind = "issue" => t \in Person /\ f.assigned[t] # None /\ IdleSince(f, t) = assigneeClock(f, t)
      /\ kind # "issue" => t = "close"
      /\ warned[EffectId(e.act)] = None \/ warned[EffectId(e.act)].act # e.act
  BY <1>0, EffectFacts
<1>2. /\ pass' \in Passes' /\ pass'.at = "posted" /\ pass'.effect = e /\ FactsOf' = FactsOf /\ Asks'
      /\ FactsOf = f /\ pass'.at # "idle"
  BY <1>0, EffectGoesOn DEF FactsOf
<1>3. c.act = e.act /\ c.hours = e.hours /\ c.at = now /\ c \in Comment /\ c # None
  <2>1. now \in 0..MaxNow
    BY DEF IInv, TypeOK
  <2>2. c = [act |-> e.act, hours |-> e.hours, at |-> now]
    BY DEF Posted
  <2>3. c \in Comment
    BY <1>1, <2>1, <2>2 DEF Comment
  <2>4. QED BY <2>2, <2>3
<1>4. CASE comments[t] # None /\ comments[t].act = e.act /\ comments[t].hours = e.hours
  <2>1. UNCHANGED <<comments, rewritten>>
    BY <1>4 DEF WarningPosts, posts, TopicOf
  <2>2. open' \subseteq WarningIds
    BY <1>0, <1>1, IdTypes DEF IInv, TypeOK, Id
  <2>3. TypeOK'
    BY <1>0, <1>2, <2>1, <2>2 DEF IInv, TypeOK
  <2>4. Past' /\ OnClock' /\ Formed' /\ Promised'
    BY <1>0, <1>2, <2>1, CoreStays
  <2>5. Placed'
    BY <1>0, <1>2, <1>4, <2>1 DEF Placed
  <2>6. QED BY <1>2, <2>3, <2>4, <2>5 DEF IInv
<1>5. CASE ~(comments[t] # None /\ comments[t].act = e.act /\ comments[t].hours = e.hours)
  <2>1. /\ comments' = [comments EXCEPT ![t] = c]
        /\ rewritten' = rewritten \cup ({comments[t]} \ {None})
    BY <1>5 DEF WarningPosts, posts, TopicOf
  <2>2. /\ comments \in [Topics -> Comment \cup {None}] /\ rewritten \subseteq Comment
        /\ comments'[t] = c /\ \A u \in Topics : u # t => comments'[u] = comments[u]
    BY <1>1, <2>1 DEF IInv, TypeOK
  <2> HIDE DEF c
  <2>3. comments' \in [Topics -> Comment \cup {None}] /\ rewritten' \subseteq Comment
    BY <1>1, <1>3, <2>1, <2>2
  <2>4. open' \subseteq WarningIds
    BY <1>0, <1>1, IdTypes DEF IInv, TypeOK, Id
  <2>5. TypeOK'
    BY <1>0, <1>2, <2>3, <2>4 DEF IInv, TypeOK
  <2>6. kind = "issue" =>
          /\ e.act.observed = assigneeClock(f, t) /\ assigneeClock(f, t) \in Nat
          /\ assigneeClock(f, t) <= now
          /\ assigned[t] # None => assigneeClock(f, t) <= Max2(assigned[t], working[t])
          /\ comments[t] # None => comments[t].act.observed <= assigneeClock(f, t)
    <3> SUFFICES ASSUME kind = "issue"
                 PROVE /\ e.act.observed = assigneeClock(f, t) /\ assigneeClock(f, t) \in Nat
                       /\ assigneeClock(f, t) <= now
                       /\ assigned[t] # None => assigneeClock(f, t) <= Max2(assigned[t], working[t])
                       /\ comments[t] # None => comments[t].act.observed <= assigneeClock(f, t)
      OBVIOUS
    <3>1. Ordered(f)
      BY <1>0, <1>2 DEF IInv, OnClock
    <3>2. PastFacts(f)
      BY <1>0, <1>2 DEF IInv, Past
    <3>3. t \in Person /\ f.assigned[t] # None /\ e.act.observed = assigneeClock(f, t)
          /\ assigneeClock(f, t) \in Nat
      BY <1>1
    <3>4. assigneeClock(f, t) <= now
      BY <3>2, <3>3 DEF PastFacts, assigneeClock, Max2
    <3>5. QED BY <3>1, <3>3, <3>4 DEF Ordered
  <2>7. Past'
    <3>1. \A u \in Topics : comments'[u] # None =>
            comments'[u].at <= now /\ (kind = "issue" => comments'[u].act.observed <= now)
      BY <1>3, <2>2, <2>6 DEF IInv, Past, TypeOK
    <3>2. QED BY <1>0, <1>2, <3>1 DEF IInv, Past, PastFacts
  <2>8. OnClock'
    <3> SUFFICES ASSUME kind = "issue" PROVE OnClock'
      BY <1>0 DEF OnClock
    <3>1. \A p \in Person : p \in Topics
      BY DEF Topics
    <3>2. \A p \in Person : comments'[p] # None /\ assigned[p] # None =>
            comments'[p].act.observed <= Max2(assigned[p], working[p])
      BY <1>3, <2>2, <2>6, <3>1 DEF IInv, OnClock
    <3>3. Ordered(f)
      BY <1>0, <1>2 DEF IInv, OnClock
    <3>4. \A p \in Person : f.assigned[p] # None =>
            /\ assigned[p] # None => assigneeClock(f, p) <= Max2(assigned[p], working[p])
            /\ comments'[p] # None => comments'[p].act.observed <= assigneeClock(f, p)
      BY <1>3, <2>2, <2>6, <3>1, <3>3 DEF Ordered
    <3>5. QED BY <1>0, <1>2, <3>2, <3>4 DEF OnClock, Ordered, assigneeClock
  <2>9. Formed'
    <3>1. \A u \in Topics : comments'[u] # None =>
            u \in Subjects /\ comments'[u].act = Act(u, comments'[u].act.observed)
      BY <1>1, <1>3, <2>2 DEF IInv, Formed
    <3>2. QED BY <1>0, <3>1 DEF Formed, Subjects, Act, release, close
  <2>10. Promised'
    <3>1. ASSUME NEW id \in EffectIds, NEW w, w = warned[id], w # None
          PROVE  /\ EffectId(w.act) = id /\ w.act.change \in Subjects
                 /\ w.act = Act(w.act.change, w.act.observed)
                 /\ Backed(w) /\ w.act \in Named
      BY <3>1 DEF IInv, Promised, TypeOK, Warning
    <3>2. ASSUME NEW id \in EffectIds, NEW w, w = warned[id], w # None, kind = "issue"
          PROVE  LET d == comments'[w.act.change]
                 IN d # None /\ (Backs(d, w) \/ d.act.observed > w.act.observed)
      <4>1. w.act.change \in Topics /\ w.act.observed \in Nat
        BY <3>1, <3>2 DEF Named
      <4>2. CASE w.act.change # t
        BY <2>2, <3>1, <3>2, <4>1, <4>2 DEF Backed
      <4>3. CASE w.act.change = t
        <5>1. comments[t] # None /\ (Backs(comments[t], w) \/ comments[t].act.observed > w.act.observed)
          BY <3>1, <3>2, <4>3 DEF Backed
        <5>2. comments[t].act.observed \in Nat
          BY <1>1, <2>2, <5>1 DEF Comment, Named
        <5>3. w.act.observed <= e.act.observed
          BY <2>6, <3>2, <4>1, <5>1, <5>2 DEF Backs
        <5>4. w.act.observed # e.act.observed
          <6> SUFFICES ASSUME w.act.observed = e.act.observed PROVE FALSE
            OBVIOUS
          <6>1. ~(comments[t].act.observed > w.act.observed)
            BY <2>6, <3>2, <4>1, <5>1, <5>2
          <6>2. w.act = e.act
            BY <1>1, <3>1, <3>2, <4>3
          <6>3. warned[EffectId(e.act)] = w
            BY <3>1, <3>2, <6>2
          <6>4. QED BY <1>1, <3>2, <6>2, <6>3
        <5>5. e.act.observed > w.act.observed
          BY <1>1, <4>1, <5>3, <5>4
        <5>6. QED BY <1>3, <2>2, <4>3, <5>5
      <4>4. QED BY <4>2, <4>3
    <3>3. ASSUME NEW id \in EffectIds, NEW w, w = warned[id], w # None, kind # "issue"
          PROVE  \E d \in rewritten' \cup ({comments'["close"]} \ {None}) : Backs(d, w)
      <4>1. t = "close"
        BY <1>1, <3>3
      <4>2. PICK d \in rewritten \cup ({comments["close"]} \ {None}) : Backs(d, w)
        BY <3>1, <3>3 DEF Backed
      <4>3. d \in rewritten'
        BY <2>1, <4>1, <4>2
      <4>4. QED BY <4>2, <4>3
    <3>4. QED
      BY <1>0, <3>1, <3>2, <3>3 DEF Promised, Backed, Backs, Subjects, Act, release, close, EffectId
  <2>11. Placed'
    BY <1>0, <1>2, <1>3, <2>2 DEF Placed
  <2>12. QED BY <1>2, <2>5, <2>7, <2>8, <2>9, <2>10, <2>11 DEF IInv
<1>6. QED BY <1>4, <1>5

\* A posted warning that lands settles its id.
LEMMA WarningLandsHolds == IInv /\ WarningLands => IInv'
<1> SUFFICES ASSUME IInv, WarningLands PROVE IInv'
  OBVIOUS
<1>0. /\ UNCHANGED <<kind, stored, assigned, working, item, humanAt, config, comments, rewritten,
                     warned, now, humans, faults>>
      /\ pass.at = "posted" /\ pass' = [pass EXCEPT !.at = "landed"]
      /\ settled' = settled \cup {Id(pass.effect)} /\ open' = open \ {Id(pass.effect)}
  BY DEF WarningLands, world, posts
<1>1. pass.effect.does = "warn" /\ pass.effect.act \in Named
  BY <1>0, EffectFacts DEF IInv, Placed
<1>2. /\ pass' \in Passes' /\ pass'.at = "landed" /\ pass'.effect = pass.effect
      /\ FactsOf' = FactsOf /\ Asks'
  BY <1>0, EffectGoesOn
<1>3. Id(pass.effect) \in WarningIds
  BY <1>1, IdTypes DEF Id
<1>4. TypeOK'
  BY <1>0, <1>2, <1>3 DEF TypeOK, IInv
<1>5. Past' /\ OnClock' /\ Formed' /\ Promised'
  BY <1>0, <1>2, CoreStays
<1>6. Placed'
  BY <1>0, <1>2 DEF IInv, Placed
<1>7. QED BY <1>2, <1>4, <1>5, <1>6 DEF IInv

\* A record is backed by the comment its pass posted.
LEMMA WarningRecordedHolds == IInv /\ WarningRecorded => IInv'
<1> SUFFICES ASSUME IInv, WarningRecorded PROVE IInv'
  OBVIOUS
<1> DEFINE e == pass.effect
           t == e.act.change
           f == pass.facts
           w == Recorded(e)
<1>0. /\ UNCHANGED <<kind, stored, assigned, working, item, humanAt, config, comments, rewritten,
                     settled, open, now, humans, faults>>
      /\ pass.at = "landed" /\ e.does = "warn" /\ GoesOn
      /\ warned' = IF warned[EffectId(e.act)] # None THEN warned
                   ELSE [warned EXCEPT ![EffectId(e.act)] = w]
  BY DEF WarningRecorded, IInv, Placed, world, posts
<1>1. /\ e.act \in Named /\ e.hours \in Hours /\ t \in Subjects
      /\ IdleSince(f, t) \in 0..MaxNow /\ e.act = Act(t, IdleSince(f, t))
      /\ e.act.observed = IdleSince(f, t)
      /\ kind # "issue" => t = "close"
  BY <1>0, EffectFacts
<1>2. /\ pass' \in Passes' /\ pass'.at \in {"idle", "next"} /\ Placed'
      /\ (pass'.at # "idle" => FactsOf' = FactsOf) /\ (UNCHANGED warned => Asks')
  <2>1. pass.at \notin {"idle", "read"} /\ GoesOn /\ UNCHANGED kind
    BY <1>0
  <2>2. QED BY <2>1, GoingOn
<1>3. CASE warned[EffectId(e.act)] # None
  <2>1. UNCHANGED warned
    BY <1>0, <1>3
  <2>2. TypeOK'
    BY <1>0, <1>2, <2>1 DEF TypeOK, IInv
  <2>3. Past' /\ OnClock' /\ Formed' /\ Promised'
    BY <1>0, <1>2, <2>1, CoreStays
  <2>4. QED BY <1>2, <2>1, <2>2, <2>3 DEF IInv
<1>4. CASE warned[EffectId(e.act)] = None
  <2> DEFINE id0 == EffectId(e.act)
  <2>1. id0 \in EffectIds /\ warned \in [EffectIds -> Warning \cup {None}]
    BY <1>1, IdTypes DEF IInv, TypeOK
  <2>2. warned'[id0] = w /\ \A id \in EffectIds : id # id0 => warned'[id] = warned[id]
    BY <1>0, <1>4, <2>1
  <2>3. w.act = e.act /\ w.hours = e.hours /\ w.warned = now /\ w.earliest = now + e.hours
        /\ w \in Warning
    <3>1. now \in 0..MaxNow /\ e.hours \in Nat
      BY <1>1, GraceAssumption DEF IInv, TypeOK
    <3>2. now + e.hours \in Nat
      BY <3>1
    <3>3. w = [act |-> e.act, warned |-> now, hours |-> e.hours, earliest |-> now + e.hours]
      BY DEF Recorded
    <3>4. QED BY <1>1, <3>1, <3>2, <3>3 DEF Warning
  <2> HIDE DEF w
  <2>4. warned' \in [EffectIds -> Warning \cup {None}]
    BY <1>0, <1>4, <2>1, <2>3
  <2>5. TypeOK'
    BY <1>0, <1>2, <2>4 DEF TypeOK, IInv
  <2>6. Past' /\ OnClock' /\ Formed'
    BY <1>0, <1>2, CoreStays
  <2>7. Backed(w)
    <3> DEFINE c == comments[t]
    <3>1. c # None /\ c.act = e.act /\ c.hours = e.hours
      BY <1>0 DEF IInv, Placed
    <3>2. t \in Topics /\ c \in Comment
      BY <1>0, <3>1, EffectFacts DEF IInv, TypeOK
    <3>3. c.at <= now /\ c.at \in Nat /\ now \in Nat /\ e.hours \in Nat
      <4>1. c.at <= now
        BY <3>1, <3>2 DEF IInv, Past
      <4>2. c.at \in Nat
        BY <3>2 DEF Comment
      <4>3. e.hours \in Nat
        BY <1>1, GraceAssumption
      <4>4. QED BY <4>1, <4>2, <4>3 DEF IInv, TypeOK
    <3>4. Backs(c, w)
      BY <2>3, <3>1, <3>3 DEF Backs
    <3>5. QED BY <1>1, <2>3, <3>1, <3>4 DEF Backed
  <2>8. Promised'
    <3>1. \A id \in EffectIds : warned'[id] # None =>
            /\ EffectId(warned'[id].act) = id /\ warned'[id].act.change \in Subjects
            /\ warned'[id].act = Act(warned'[id].act.change, warned'[id].act.observed)
            /\ Backed(warned'[id])
      BY <1>1, <2>2, <2>3, <2>7 DEF IInv, Promised
    <3>2. QED
      BY <1>0, <3>1 DEF Promised, Backed, Backs, EffectId, Subjects, Act, release, close
  <2>9. Asks'
    <3>1. pass.left \in SUBSET Effects /\ pass.facts \in Facts /\ pass.evaluated \in 0..MaxNow
      BY <1>0, PassTypes DEF IInv
    <3>2. pass'.at = "next" => /\ pass'.facts = f /\ pass'.effect \notin pass'.left
                               /\ pass'.left \cup {pass'.effect} = pass.left
      BY <1>0, <3>1, TurnsFacts DEF GoesOn
    <3>3. ASSUME NEW d \in pass.left
          PROVE  /\ d.act.change \in Subjects
                 /\ d.act = Act(d.act.change, IdleSince(f, d.act.change))
                 /\ kind = "issue" => f.assigned[d.act.change] # None
                 /\ d.does = "warn" => warned'[EffectId(d.act)] = None
                                        \/ warned'[EffectId(d.act)].act # d.act
      <4>1. e \notin pass.left /\ EffectsOK(pass.left \cup {e}, f)
        BY <1>0 DEF IInv, Asks
      <4>2. EffectOK(d, f) /\ d.act # e.act
        BY <4>1 DEF EffectsOK
      <4>3. d.act \in Named
        BY <3>1 DEF Effects
      <4>4. EffectId(d.act) \in EffectIds
        BY <4>3, IdTypes
      <4>5. QED BY <2>2, <2>3, <4>2, <4>4 DEF EffectOK
    <3>4. \A e1, e2 \in pass.left : e1.act.change = e2.act.change => e1 = e2
      BY <1>0 DEF IInv, Asks, EffectsOK
    <3>5. CASE pass'.at = "next"
      <4>1. \A d \in pass'.left \cup {pass'.effect} :
              /\ d.act.change \in Subjects
              /\ d.act = Act(d.act.change, IdleSince(pass'.facts, d.act.change))
              /\ kind = "issue" => pass'.facts.assigned[d.act.change] # None
              /\ d.does = "warn" => warned'[EffectId(d.act)] = None
                                     \/ warned'[EffectId(d.act)].act # d.act
        BY <3>2, <3>3, <3>5
      <4>2. \A e1, e2 \in pass'.left \cup {pass'.effect} : e1.act.change = e2.act.change => e1 = e2
        BY <3>2, <3>4, <3>5
      <4>3. kind' = kind
        BY <1>0
      <4>4. QED
        BY <3>2, <3>5, <4>1, <4>2, <4>3
        DEF Asks, EffectsOK, EffectOK, Subjects, Act, release, close, IdleSince, assigneeClock,
            pullRequestClock, AssigneesActivity, EffectId
    <3>6. QED BY <1>2, <3>5 DEF Asks
  <2>10. QED BY <1>2, <2>5, <2>6, <2>8, <2>9 DEF IInv
<1>5. QED BY <1>3, <1>4

\* An act takes an assignee away or closes the pull request.
LEMMA ActLandsHolds == IInv /\ ActLands => IInv'
<1> SUFFICES ASSUME IInv, ActLands PROVE IInv'
  OBVIOUS
<1> USE GraceAssumption, NoneAssumption
<1>0. /\ UNCHANGED <<kind, stored, working, humanAt, config, comments, rewritten, warned, open, now,
                     humans, faults>>
      /\ pass.at = "act" /\ GoesOn /\ settled' = settled \cup {Id(pass.effect)}
      /\ IF kind = "issue"
         THEN assigned' = [assigned EXCEPT ![pass.effect.act.change] = None] /\ UNCHANGED item
         ELSE item' = [item EXCEPT !.closedBy = "closedByApp"] /\ UNCHANGED assigned
  BY DEF ActLands, posts
<1>1. /\ pass' \in Passes' /\ pass'.at \in {"idle", "next"} /\ Asks' /\ Placed'
      /\ (pass'.at # "idle" => FactsOf' = FactsOf)
  BY <1>0, GoingOn
<1>2. Id(pass.effect) \in EffectIds \cup WarningIds
  BY <1>0, EffectFacts, IdTypes DEF Id
<1>3. assigned' \in [Person -> Instants] /\ (\A p \in Person : assigned'[p] \in {assigned[p], None})
  BY <1>0 DEF IInv, TypeOK, Instants
<1>4. item' \in Items
  BY <1>0 DEF IInv, TypeOK, Items
<1>5. TypeOK'
  BY <1>0, <1>1, <1>2, <1>3, <1>4 DEF IInv, TypeOK
<1>6. Past'
  BY <1>0, <1>1, <1>3 DEF IInv, Past, PastFacts
<1>7. OnClock'
  <2>1. \A p \in Person : assigned'[p] # None => assigned'[p] = assigned[p]
    BY <1>3
  <2>2. QED BY <1>0, <1>1, <2>1 DEF IInv, OnClock, Ordered, assigneeClock
<1>8. Formed'
  BY <1>0 DEF IInv, Formed, Subjects, Act, release, close
<1>9. Promised'
  BY <1>0 DEF IInv, Promised, Backed, Subjects, Act, release, close, Backs
<1>10. QED BY <1>1, <1>5, <1>6, <1>7, <1>8, <1>9 DEF IInv

\* A pass that dies leaves everything else.
LEMMA CrashHolds == IInv /\ Crash => IInv'
<1> SUFFICES ASSUME IInv, Crash PROVE IInv'
  OBVIOUS
<1>0. /\ UNCHANGED <<kind, stored, assigned, working, item, humanAt, config, comments, rewritten,
                     warned, settled, open, now, humans>>
      /\ pass' = Idle /\ faults < MaxFaults /\ faults' = faults + 1
  BY DEF Crash, world, posts, ledger
<1>1. pass'.at = "idle" /\ pass' \in Passes'
  BY <1>0 DEF Idle, Passes
<1>2. TypeOK'
  BY <1>0, <1>1, GraceAssumption DEF IInv, TypeOK
<1>3. Past' /\ OnClock' /\ Formed' /\ Promised'
  BY <1>0, <1>1, CoreStays
<1>4. Asks' /\ Placed'
  BY <1>1 DEF Asks, Placed
<1>5. QED BY <1>2, <1>3, <1>4 DEF IInv

\* A recovery settles ids and carries no records.
LEMMA RecoversHolds == IInv /\ Recovers => IInv'
<1> SUFFICES ASSUME IInv, Recovers PROVE IInv'
  OBVIOUS
<1>0. /\ UNCHANGED <<kind, stored, assigned, working, item, humanAt, config, comments, rewritten,
                     warned, pass, now, humans, faults>>
      /\ pass.at = "idle"
  BY DEF Recovers, world, posts, Idle
<1>1. open' \subseteq WarningIds /\ settled' \subseteq EffectIds \cup WarningIds
  BY DEF Recovers, IInv, TypeOK
<1>2. TypeOK'
  BY <1>0, <1>1 DEF IInv, TypeOK, Passes, Facts
<1>3. Past' /\ OnClock' /\ Formed' /\ Promised'
  BY <1>0, CoreStays
<1>4. Asks' /\ Placed'
  BY <1>0 DEF Asks, Placed
<1>5. QED BY <1>2, <1>3, <1>4 DEF IInv

\* What people and the clock do leaves comments, records and passes alone.
LEMMA PeopleLeave ==
  ASSUME IInv, UNCHANGED <<kind, comments, rewritten, warned, pass>>,
         now' \in 1..MaxNow, now' >= now
  PROVE  /\ pass' \in Passes' /\ FactsOf' = FactsOf
         /\ Formed' /\ Promised' /\ Asks' /\ Placed'
<1> USE DEF IInv
<1>1. pass' \in Passes'
  BY DEF TypeOK, Passes, Facts
<1>2. FactsOf' = FactsOf
  BY DEF FactsOf
<1>3. Formed'
  BY DEF Formed, Subjects, Act, release, close
<1>4. Promised'
  BY DEF Promised, Backed, Subjects, Act, release, close, Backs
<1>5. Asks'
  BY AsksStay DEF Asks
<1>6. Placed'
  <2>1. ASSUME pass.at = "act" PROVE now' >= warned[EffectId(pass.effect.act)].earliest
    <3> DEFINE w == warned[EffectId(pass.effect.act)]
    <3>1. EffectId(pass.effect.act) \in EffectIds
      BY <2>1, EffectFacts, IdTypes
    <3>2. w # None /\ now >= w.earliest
      BY <2>1 DEF Placed
    <3>3. w.earliest \in Nat /\ now \in Nat /\ now' \in Nat
      BY <3>1, <3>2 DEF TypeOK, Warning
    <3>4. QED BY <3>2, <3>3
  <2>2. QED BY <2>1 DEF Placed, EffectId
<1>7. QED BY <1>1, <1>2, <1>3, <1>4, <1>5, <1>6

\* People's changes to assignments and activity never take a clock back: what was dated is
\* past, and what changes is dated now.
LEMMA ClocksAdvance ==
  ASSUME IInv, UNCHANGED <<kind, comments, pass, now>>, FactsOf' = FactsOf,
         assigned' \in [Person -> Instants], working' \in [Person -> Instants],
         \A p \in Person : assigned'[p] \in {assigned[p], now, None},
         \A p \in Person : working'[p] \in {working[p], now}
  PROVE  Past' /\ OnClock'
<1> USE DEF IInv
<1>0. now \in Nat
  BY DEF TypeOK
<1>1. Past'
  BY <1>0, NoneAssumption DEF Past, PastFacts
<1>2. ASSUME NEW p \in Person, NEW n \in Nat, n <= now, assigned'[p] # None,
             assigned[p] # None => n <= Max2(assigned[p], working[p])
      PROVE  n <= Max2(assigned'[p], working'[p])
  <2>1. /\ assigned[p] \in Instants /\ working[p] \in Instants
        /\ assigned'[p] \in Instants /\ working'[p] \in Instants
        /\ assigned'[p] \in {assigned[p], now, None} /\ working'[p] \in {working[p], now}
        /\ assigned[p] # None => assigned[p] <= now
        /\ working[p] # None => working[p] <= now
    BY DEF TypeOK, Past
  <2>2. CASE assigned'[p] = now
    <3>1. assigned'[p] <= Max2(assigned'[p], working'[p]) /\ Max2(assigned'[p], working'[p]) \in Nat
      BY <1>2, <2>1, Max2Type
    <3>2. QED BY <1>0, <1>2, <2>2, <3>1
  <2>3. CASE assigned'[p] = assigned[p] /\ working'[p] = now
    <3>1. now # None
      BY <1>0, NoneAssumption
    <3>2. working'[p] <= Max2(assigned'[p], working'[p]) /\ Max2(assigned'[p], working'[p]) \in Nat
      BY <2>1, <2>3, <3>1, Max2Type
    <3>3. QED BY <1>0, <1>2, <2>3, <3>2
  <2>4. CASE assigned'[p] = assigned[p] /\ working'[p] = working[p]
    BY <1>2, <2>4
  <2>5. QED BY <1>2, <2>1, <2>2, <2>3, <2>4
<1>3. ASSUME kind = "issue" PROVE OnClock'
  <2>1. \A p \in Person : comments[p] # None => comments[p].act.observed \in Nat
                                               /\ comments[p].act.observed <= now
    <3>1. \A p \in Person : p \in Topics
      BY DEF Topics
    <3>2. QED BY <1>3, <3>1 DEF Past, TypeOK, Comment, Named
  <2>2. \A p \in Person : comments[p] # None /\ assigned'[p] # None =>
          comments[p].act.observed <= Max2(assigned'[p], working'[p])
    BY <1>2, <1>3, <2>1 DEF OnClock
  <2>3. ASSUME pass.at # "idle", NEW p \in Person, FactsOf.assigned[p] # None
        PROVE  assigneeClock(FactsOf, p) \in Nat /\ assigneeClock(FactsOf, p) <= now
    <3>1. FactsOf \in Facts
      BY <2>3, PassTypes
    <3>2. FactsOf.assigned[p] \in Instants /\ FactsOf.working[p] \in Instants
      BY <3>1 DEF Facts
    <3>3. assigneeClock(FactsOf, p) \in Nat
      BY <2>3, <3>2, Max2Type DEF assigneeClock
    <3>4. PastFacts(FactsOf)
      BY <2>3 DEF Past
    <3>5. assigneeClock(FactsOf, p) <= now
      BY <2>3, <3>4 DEF PastFacts, assigneeClock, Max2
    <3>6. QED BY <3>3, <3>5
  <2>4. pass.at # "idle" =>
          \A p \in Person : FactsOf.assigned[p] # None =>
            /\ assigned'[p] # None => assigneeClock(FactsOf, p) <= Max2(assigned'[p], working'[p])
            /\ comments[p] # None => comments[p].act.observed <= assigneeClock(FactsOf, p)
    BY <1>2, <1>3, <2>3 DEF OnClock, Ordered
  <2>5. QED BY <1>3, <2>2, <2>4 DEF OnClock, Ordered, assigneeClock
<1>4. QED BY <1>1, <1>3 DEF OnClock

\* Whatever anybody does, and whenever the clock ticks.
LEMMA PeopleHold ==
  IInv /\ ((\E p \in Person : Works(p) \/ Reassigns(p)) \/ Pauses \/ Links \/ Configures \/ Tick)
    => IInv'
<1> USE GraceAssumption, NoneAssumption
<1>1. ASSUME IInv, NEW p \in Person, Works(p) PROVE IInv'
  <2>0. /\ UNCHANGED <<kind, stored, assigned, item, config, comments, rewritten, warned,
                       settled, open, pass, now, faults>>
        /\ humanAt' = now /\ working' = [working EXCEPT ![p] = now] /\ humans' = humans + 1 /\ humans < MaxHuman
    BY <1>1 DEF Works, MayChange, posts, ledger
  <2>1. now \in 1..MaxNow /\ now \in Instants /\ working \in [Person -> Instants]
        /\ assigned \in [Person -> Instants]
    BY <1>1 DEF IInv, TypeOK, Instants
  <2>2. now' \in 1..MaxNow /\ now' >= now
    BY <2>0, <2>1
  <2>3. pass' \in Passes' /\ FactsOf' = FactsOf /\ Formed' /\ Promised' /\ Asks' /\ Placed'
    BY <1>1, <2>0, <2>2, PeopleLeave
  <2>4. working' \in [Person -> Instants]
        /\ \A q \in Person : working'[q] \in {working[q], now}
    BY <2>0, <2>1
  <2>5. Past' /\ OnClock'
    BY <1>1, <2>0, <2>1, <2>3, <2>4, ClocksAdvance
  <2>6. humanAt' \in Instants /\ humans' \in 0..MaxHuman
    BY <1>1, <2>0, <2>1 DEF IInv, TypeOK
  <2>7. TypeOK'
    BY <1>1, <2>0, <2>3, <2>4, <2>6 DEF IInv, TypeOK
  <2>8. QED BY <2>3, <2>5, <2>7 DEF IInv
<1>2. ASSUME IInv, NEW p \in Person, Reassigns(p) PROVE IInv'
  <2>0. /\ UNCHANGED <<kind, stored, working, item, config, comments, rewritten, warned,
                       settled, open, pass, now, faults>>
        /\ humanAt' = now /\ assigned' = [assigned EXCEPT ![p] = IF @ = None THEN now ELSE None]
        /\ humans' = humans + 1 /\ humans < MaxHuman
    BY <1>2 DEF Reassigns, MayChange, posts, ledger
  <2>1. now \in 1..MaxNow /\ now \in Instants /\ None \in Instants
        /\ working \in [Person -> Instants] /\ assigned \in [Person -> Instants]
    BY <1>2 DEF IInv, TypeOK, Instants
  <2>2. now' \in 1..MaxNow /\ now' >= now
    BY <2>0, <2>1
  <2>3. pass' \in Passes' /\ FactsOf' = FactsOf /\ Formed' /\ Promised' /\ Asks' /\ Placed'
    BY <1>2, <2>0, <2>2, PeopleLeave
  <2>4. assigned' \in [Person -> Instants]
        /\ \A q \in Person : assigned'[q] \in {assigned[q], now, None}
    BY <2>0, <2>1
  <2>5. Past' /\ OnClock'
    BY <1>2, <2>0, <2>1, <2>3, <2>4, ClocksAdvance
  <2>6. humanAt' \in Instants /\ humans' \in 0..MaxHuman
    BY <1>2, <2>0, <2>1 DEF IInv, TypeOK
  <2>7. TypeOK'
    BY <1>2, <2>0, <2>3, <2>4, <2>6 DEF IInv, TypeOK
  <2>8. QED BY <2>3, <2>5, <2>7 DEF IInv
<1>3. ASSUME IInv, Pauses \/ Links \/ Configures PROVE IInv'
  <2>0. /\ UNCHANGED <<kind, stored, assigned, working, comments, rewritten, warned, settled, open,
                       pass, now, faults>>
        /\ humans' = humans + 1 /\ humans < MaxHuman
    BY <1>3 DEF Pauses, Links, Configures, MayChange, posts, ledger
  <2>1. now \in 1..MaxNow /\ now \in Instants /\ working \in [Person -> Instants]
        /\ assigned \in [Person -> Instants]
    BY <1>3 DEF IInv, TypeOK, Instants
  <2>2. now' \in 1..MaxNow /\ now' >= now
    BY <2>0, <2>1
  <2>3. pass' \in Passes' /\ FactsOf' = FactsOf /\ Formed' /\ Promised' /\ Asks' /\ Placed'
    BY <1>3, <2>0, <2>2, PeopleLeave
  <2>4. item' \in Items /\ humanAt' \in Instants /\ config' \in Configs
    <3>1. item \in Items /\ humanAt \in Instants /\ config \in Configs
      BY <1>3 DEF IInv, TypeOK
    <3>2. CASE Pauses
      <4>1. humanAt' = now /\ config' = config /\ item' = [item EXCEPT !.meanings = {"blocked"} \ @]
        BY <3>2 DEF Pauses
      <4>2. item' \in Items
        BY <3>1, <4>1 DEF Items
      <4>3. QED BY <2>1, <3>1, <4>1, <4>2
    <3>3. CASE Links
      <4>1. humanAt' = humanAt /\ config' = config /\ item' = [item EXCEPT !.linked = ~@]
        BY <3>3 DEF Links
      <4>2. item' \in Items
        BY <3>1, <4>1 DEF Items
      <4>3. QED BY <3>1, <4>1, <4>2
    <3>4. CASE Configures
      BY <3>1, <3>4 DEF Configures
    <3>5. QED BY <1>3, <3>2, <3>3, <3>4
  <2>5. Past' /\ OnClock'
    BY <1>3, <2>0, <2>1, <2>3, ClocksAdvance
  <2>6. TypeOK'
    BY <1>3, <2>0, <2>3, <2>4 DEF IInv, TypeOK
  <2>7. QED BY <2>3, <2>5, <2>6 DEF IInv
<1>4. ASSUME IInv, Tick PROVE IInv'
  <2>0. /\ UNCHANGED <<kind, stored, assigned, working, item, humanAt, config, comments, rewritten,
                       warned, settled, open, pass, humans, faults>>
        /\ now' = now + 1 /\ now < MaxNow
    BY <1>4 DEF Tick, world, posts, ledger
  <2>1. now \in 1..MaxNow /\ now' \in 1..MaxNow /\ now' >= now
    BY <1>4, <2>0 DEF IInv, TypeOK
  <2>2. pass' \in Passes' /\ FactsOf' = FactsOf /\ Formed' /\ Promised' /\ Asks' /\ Placed'
    BY <1>4, <2>0, <2>1, PeopleLeave
  <2>3. TypeOK'
    BY <1>4, <2>0, <2>1, <2>2 DEF IInv, TypeOK
  <2>4. Past'
    <3>1. \A p \in Person : /\ assigned[p] # None => assigned[p] <= now /\ assigned[p] \in Nat
                            /\ working[p] # None => working[p] <= now /\ working[p] \in Nat
      BY <1>4 DEF IInv, Past, TypeOK, Instants
    <3>2. \A t \in Topics : comments[t] # None =>
            /\ comments[t].at <= now /\ comments[t].at \in Nat
            /\ comments[t].act.observed \in Nat
            /\ kind = "issue" => comments[t].act.observed <= now
      BY <1>4 DEF IInv, Past, TypeOK, Comment, Named
    <3>3. pass.at # "idle" =>
            \A p \in Person :
              /\ FactsOf.assigned[p] # None => FactsOf.assigned[p] <= now /\ FactsOf.assigned[p] \in Nat
              /\ FactsOf.working[p] # None => FactsOf.working[p] <= now /\ FactsOf.working[p] \in Nat
      <4>1. pass.at # "idle" => FactsOf.assigned \in [Person -> Instants]
                                /\ FactsOf.working \in [Person -> Instants]
        BY <1>4, PassTypes DEF IInv, Facts
      <4>2. QED BY <1>4, <4>1 DEF IInv, Past, PastFacts, Instants
    <3>4. QED BY <2>0, <2>1, <2>2, <3>1, <3>2, <3>3 DEF Past, PastFacts
  <2>5. OnClock'
    BY <1>4, <2>0, <2>2 DEF IInv, OnClock, Ordered, assigneeClock
  <2>6. QED BY <2>2, <2>3, <2>4, <2>5 DEF IInv
<1>5. QED BY <1>1, <1>2, <1>3, <1>4

\* Nothing happens.
LEMMA StutterHolds == IInv /\ UNCHANGED vars => IInv'
<1> SUFFICES ASSUME IInv, UNCHANGED vars PROVE IInv'
  OBVIOUS
<1>0. /\ UNCHANGED <<kind, stored, assigned, working, item, humanAt, config, comments, rewritten,
                     warned, settled, open, pass, now, humans, faults>>
  BY DEF vars, world, posts, ledger
<1>1. now' \in 1..MaxNow /\ now' >= now
  BY <1>0 DEF IInv, TypeOK
<1>2. pass' \in Passes' /\ FactsOf' = FactsOf /\ Formed' /\ Promised' /\ Asks' /\ Placed'
  BY <1>0, <1>1, PeopleLeave
<1>3. TypeOK'
  BY <1>0, <1>2 DEF IInv, TypeOK
<1>4. Past' /\ OnClock'
  BY <1>0, <1>2 DEF IInv, Past, PastFacts, OnClock, Ordered, assigneeClock
<1>5. QED BY <1>2, <1>3, <1>4 DEF IInv

\* Every step keeps the invariant.
LEMMA NextHolds == IInv /\ [Next]_vars => IInv'
<1> SUFFICES ASSUME IInv, [Next]_vars PROVE IInv'
  OBVIOUS
<1>1. CASE PassSteps
  BY <1>1, SweepReadsHolds, DecideHolds, SkipsHolds, GateReadsHolds, GateJudgesHolds,
     WarningPostsHolds, WarningLandsHolds, WarningRecordedHolds, ActLandsHolds DEF PassSteps
<1>2. CASE Crash
  BY <1>2, CrashHolds
<1>3. CASE Recovers
  BY <1>3, RecoversHolds
<1>4. CASE (\E p \in Person : Works(p) \/ Reassigns(p)) \/ Pauses \/ Links \/ Configures \/ Tick
  BY <1>4, PeopleHold
<1>5. CASE UNCHANGED vars
  BY <1>5, StutterHolds
<1>6. QED BY <1>1, <1>2, <1>3, <1>4, <1>5 DEF Next

----------------------------------------------------------------------------
(* The theorems.                                                           *)

\* The inductive invariant: clocks that never go back, comments that name their subject,
\* records that a comment backs, and passes that ask for what they read.
THEOREM Invariance == Spec => []IInv
<1>1. Init => IInv
  BY InitHolds
<1>2. IInv /\ [Next]_vars => IInv'
  BY NextHolds
<1>3. QED BY <1>1, <1>2, PTL DEF Spec

\* Every reachable state is well typed.
THEOREM TypeCorrect == Spec => []TypeOK
<1>1. IInv => TypeOK
  BY DEF IInv
<1>2. QED BY <1>1, Invariance, PTL

\* Only the step that lands an act closes a pull request.
LEMMA OnlyActsClose ==
  ASSUME IInv, [Next]_vars, item.closedBy = Open, item'.closedBy = "closedByApp"
  PROVE  pass.at = "act"
<1>1. item' # item
  BY DEF Open
<1>2. Pauses \/ Links => item'.closedBy = item.closedBy
  BY DEF Pauses, Links, IInv, TypeOK, Items
<1>3. ~Pauses /\ ~Links
  BY <1>2 DEF Open
<1>4. ActLands
  BY <1>1, <1>3
  DEF Next, PassSteps, SweepReads, Decide, Skips, GateReads, GateJudges, WarningPosts,
      WarningLands, WarningRecorded, Crash, Recovers, Works, Reassigns, Configures, Tick,
      world, vars
<1>5. QED BY <1>4 DEF ActLands

\* A subject is acted on from the act's place only, by the effect that names it.
LEMMA ActsFromPlace ==
  ASSUME IInv, [Next]_vars, NEW subject \in Subjects, Acts(subject)
  PROVE  pass.at = "act" /\ pass.effect.act.change = subject
<1>1. CASE pass.at = "act" /\ kind = "issue" /\ pass.effect.act.change = subject
  BY <1>1
<1>2. CASE kind = "pullRequest" /\ subject = "close" /\ item.closedBy = Open
            /\ item'.closedBy = "closedByApp"
  <2>1. pass.at = "act"
    BY <1>2, OnlyActsClose
  <2>2. pass.effect.act.change = "close"
    BY <1>2, <2>1, EffectFacts
  <2>3. QED BY <1>2, <2>1, <2>2
<1>3. QED BY <1>1, <1>2 DEF Acts

\* The announced grace of a standing or rewritten comment is over when its act lands.
LEMMA ActsAreAnnounced ==
  ASSUME IInv, pass.at = "act", NEW subject, pass.effect.act.change = subject
  PROVE  LET standing == {comments[TopicOf(subject)]} \ {None}
         IN \E c \in (IF kind = "issue" THEN standing ELSE standing \cup rewritten) : Announced(c)
<1> DEFINE e == pass.effect
           w == warned[EffectId(e.act)]
<1>1. /\ e.act \in Named /\ subject \in Topics
      /\ kind = "issue" => /\ subject \in Person /\ pass.facts.assigned[subject] # None
                           /\ e.act.observed = assigneeClock(pass.facts, subject)
      /\ kind # "issue" => subject = "close"
  BY EffectFacts
<1>2. EffectId(e.act) \in EffectIds
  BY <1>1, IdTypes
<1>3. w # None /\ w.act = e.act /\ now >= w.earliest
  BY DEF IInv, Placed
<1>4. w \in Warning /\ Backed(w)
  BY <1>2, <1>3 DEF IInv, TypeOK, Promised
<1> HIDE DEF w
<1>5. now \in Nat /\ w.earliest \in Nat
  BY <1>4 DEF IInv, TypeOK, Warning
<1>6. ASSUME NEW c \in Comment, Backs(c, w) PROVE Announced(c)
  <2>1. c.at \in Nat /\ c.hours \in Nat
    <3>1. c.at \in 0..MaxNow /\ c.hours \in Hours
      BY DEF Comment
    <3>2. c.hours \in Nat
      BY <3>1, GraceAssumption
    <3>3. c.at \in Nat
      BY <3>1
    <3>4. QED BY <3>2, <3>3
  <2>2. QED BY <1>3, <1>5, <1>6, <2>1 DEF Backs, Announced
<1>7. CASE kind = "issue"
  <2> DEFINE c == comments[subject]
  <2>1. c # None /\ (Backs(c, w) \/ c.act.observed > w.act.observed)
    BY <1>3, <1>4, <1>7 DEF Backed
  <2>2. c \in Comment
    BY <1>1, <2>1 DEF IInv, TypeOK
  <2>3. c.act.observed <= w.act.observed
    <3>1. FactsOf = pass.facts
      BY DEF FactsOf
    <3>2. Ordered(pass.facts)
      BY <1>7, <3>1 DEF IInv, OnClock
    <3>3. QED BY <1>1, <1>3, <1>7, <2>1, <3>2 DEF Ordered
  <2>4. c.act.observed \in Nat /\ w.act.observed \in Nat
    BY <1>1, <1>3, <2>2 DEF Comment, Named
  <2>5. Backs(c, w)
    BY <2>1, <2>3, <2>4
  <2>6. QED BY <1>6, <1>7, <2>1, <2>2, <2>5 DEF TopicOf
<1>8. CASE kind # "issue"
  <2>1. PICK c \in rewritten \cup ({comments["close"]} \ {None}) : Backs(c, w)
    BY <1>4, <1>8 DEF Backed
  <2>2. c \in Comment
    BY <2>1 DEF IInv, TypeOK, Topics
  <2>3. QED BY <1>1, <1>6, <1>8, <2>1, <2>2 DEF TopicOf
<1>9. QED BY <1>7, <1>8

\* Whoever is acted on was told first, by a comment that names this very act, and has had
\* the whole grace that comment announced.
THEOREM ToldFirst == Spec => NobodyIsActedOnUntold
<1>1. IInv /\ [Next]_vars =>
        [\A subject \in Subjects : Acts(subject) =>
           LET standing == {comments[TopicOf(subject)]} \ {None}
           IN \E c \in (IF kind = "issue" THEN standing ELSE standing \cup rewritten) : Announced(c)]_vars
  BY ActsFromPlace, ActsAreAnnounced
<1>2. QED BY <1>1, Invariance, PTL DEF Spec, NobodyIsActedOnUntold

----------------------------------------------------------------------------
(* What a person does while a pass works is seen by its gate.              *)

\* The record a pass stands on and what it reads still hold of the subjects it has in hand,
\* or a person has touched the item since the instant the gate compares with.
Changes == {e.act.change : e \in pass.left \cup {pass.effect}}
StillHolds(f, subjects) ==
  /\ working = f.working
  /\ kind = "pullRequest" => assigned = f.assigned
  /\ kind = "issue" => \A s \in subjects : assigned[s] = f.assigned[s]
Heeded ==
  /\ pass.at = "read" =>
       /\ pass.observed <= now
       /\ NewerHumanChange(humanAt, pass.observed) \/ StillHolds(pass, Subjects)
  /\ pass.at \notin {"idle", "read"} =>
       /\ pass.evaluated <= now
       /\ \/ NewerHumanChange(humanAt, pass.evaluated)
          \/ /\ StillHolds(pass.facts, Changes)
             /\ pass.at = "gate" /\ kind = "pullRequest" => pass.live = LiveActivity

\* A change dated now is no older, by the second, than anything dated before.
LEMMA NowIsNewer ==
  ASSUME NEW t \in Nat, now \in Nat, t <= now
  PROVE  NewerHumanChange(now, t)
<1>1. SecondOf(now) \in Int /\ SecondOf(t) \in Int
  BY SafetyAssumption DEF SecondOf
<1>2. ~(SecondOf(now) < SecondOf(t))
  <2>1. now \in Int /\ t \in Int
    OBVIOUS
  <2>2. ~(now < t)
    OBVIOUS
  <2>3. QED BY <2>1, <2>2, SecondsKeepOrder
<1>3. now \in Int
  OBVIOUS
<1>4. QED BY <1>1, <1>2, <1>3 DEF NewerHumanChange

\* What the standing gate of a write lets through, whichever its class.
LEMMA WriteApplies ==
  ASSUME NEW w, WriteVerdict(w) = "apply"
  PROVE  Undisturbed(w)
<1>1. GeneralVerdict(w) = "apply"
  BY DEF WriteVerdict
<1>2. QED BY <1>1, GeneralApplies

\* Nobody touched the item since the instant its write names, where the write is let through.
LEMMA VerdictsUndisturbed ==
  ASSUME NEW f, NEW seen, NEW since
  PROVE  /\ WarningVerdict(f, seen, since) = "apply" => ~NewerHumanChange(humanAt, since)
         /\ \A act, activity, instant : ActVerdict(f, seen, since, act, activity, instant) = "apply"
              => ~NewerHumanChange(humanAt, since)
<1>1. \A class, claims : LET w == Write(f, class, claims, seen, since)
                         IN w.human = humanAt /\ w.since = since
  BY DEF Write
<1>2. ASSUME WarningVerdict(f, seen, since) = "apply" PROVE ~NewerHumanChange(humanAt, since)
  <2> DEFINE w == Write(f, "humanFacingOutput", WarningClaims, seen, since)
  <2>1. WriteVerdict(w) = "apply" /\ w.human = humanAt /\ w.since = since
    BY <1>1, <1>2 DEF WarningVerdict
  <2> HIDE DEF w
  <2>2. Undisturbed(w)
    BY <2>1, WriteApplies
  <2>3. QED BY <2>1, <2>2 DEF Undisturbed
<1>3. ASSUME NEW act, NEW activity, NEW instant,
             ActVerdict(f, seen, since, act, activity, instant) = "apply"
      PROVE  ~NewerHumanChange(humanAt, since)
  <2> DEFINE w == Write(f, "clockTriggeredDestructive", ActClaims(f), seen, since)
             warning == warned[EffectId(act)]
  <2>1. /\ DestructiveVerdict(w, act, warning, activity, instant) = "apply"
        /\ w.human = humanAt /\ w.since = since
    BY <1>1, <1>3 DEF ActVerdict
  <2> HIDE DEF w, warning
  <2>2. Undisturbed(w)
    BY <2>1, DestructiveApplies
  <2>3. QED BY <2>1, <2>2 DEF Undisturbed
<1>4. QED BY <1>2, <1>3

\* A pass that goes on over the same record, with the effects it had or fewer.
LEMMA HeedsOn ==
  ASSUME Heeded, UNCHANGED <<kind, assigned, working, humanAt, now>>,
         pass.at \notin {"idle", "read"}, pass'.at \in {"idle", "next", "warn", "posted", "landed", "act"},
         pass'.at # "idle" =>
           /\ pass'.facts = pass.facts /\ pass'.evaluated = pass.evaluated
           /\ pass'.left \cup {pass'.effect} \subseteq pass.left \cup {pass.effect}
  PROVE  Heeded'
<1>1. CASE pass'.at = "idle"
  BY <1>1 DEF Heeded
<1>2. CASE pass'.at # "idle"
  <2>1. Changes' \subseteq Changes
    BY <1>2 DEF Changes
  <2>2. pass.evaluated <= now /\ (NewerHumanChange(humanAt, pass.evaluated) \/ StillHolds(pass.facts, Changes))
    BY DEF Heeded
  <2>3. StillHolds(pass.facts, Changes) => StillHolds(pass.facts, Changes)'
    BY <1>2, <2>1 DEF StillHolds
  <2>4. QED BY <1>2, <2>2, <2>3 DEF Heeded, NewerHumanChange
<1>3. QED BY <1>1, <1>2

\* Going on to the next effect is one such step.
LEMMA HeedsGoingOn ==
  ASSUME IInv, pass.at \notin {"idle", "read"}, GoesOn
  PROVE  /\ pass'.at \in {"idle", "next"}
         /\ pass'.at # "idle" =>
              /\ pass'.facts = pass.facts /\ pass'.evaluated = pass.evaluated
              /\ pass'.left \cup {pass'.effect} = pass.left
<1>1. pass.left \in SUBSET Effects /\ pass.facts \in Facts /\ pass.evaluated \in 0..MaxNow
  BY PassTypes DEF IInv
<1>2. QED BY <1>1, TurnsFacts DEF GoesOn

\* What a decision approves rests on a record that still holds.
LEMMA DecideHeeds == IInv /\ Heeded /\ Decide => Heeded'
<1> SUFFICES ASSUME IInv, Heeded, Decide PROVE Heeded'
  OBVIOUS
<1>0. /\ UNCHANGED <<kind, assigned, working, humanAt, now>>
      /\ pass.at = "read" /\ pass \in Facts /\ now \in 0..MaxNow
      /\ pass' \in Turns(Approved(pass), pass, now)
  BY PassTypes DEF Decide, world, IInv, TypeOK
<1>1. Approved(pass) \in SUBSET Effects /\ EffectsOK(Approved(pass), pass)
  BY <1>0, ApprovedFacts
<1>2. /\ pass'.at \in {"idle", "next"}
      /\ pass'.at = "next" => /\ pass'.facts = pass /\ pass'.evaluated = now
                              /\ pass'.left \cup {pass'.effect} = Approved(pass)
  BY <1>0, <1>1, TurnsFacts
<1>3. CASE pass'.at = "idle"
  BY <1>3 DEF Heeded
<1>4. CASE pass'.at = "next"
  <2>1. Approves(pass, pass'.effect)
    BY <1>2, <1>4 DEF Approved
  <2>2. ~NewerHumanChange(humanAt, pass.observed)
    BY <2>1, VerdictsUndisturbed DEF Approves
  <2>3. StillHolds(pass, Subjects)
    BY <1>0, <2>2 DEF Heeded
  <2>4. Changes' \subseteq Subjects
    BY <1>1, <1>2, <1>4 DEF Changes, EffectsOK, EffectOK
  <2>5. StillHolds(pass.facts, Changes)'
    BY <1>0, <1>2, <1>4, <2>3, <2>4 DEF StillHolds
  <2>6. now <= now
    BY <1>0
  <2>7. QED BY <1>0, <1>2, <1>4, <2>5, <2>6 DEF Heeded
<1>5. QED BY <1>2, <1>3, <1>4

\* An act moves the assignment of its own subject, which no later effect is about.
LEMMA ActLandsHeeds == IInv /\ Heeded /\ ActLands => Heeded'
<1> SUFFICES ASSUME IInv, Heeded, ActLands PROVE Heeded'
  OBVIOUS
<1>0. /\ UNCHANGED <<kind, working, humanAt, now>> /\ pass.at = "act" /\ GoesOn
      /\ kind = "issue" => assigned' = [assigned EXCEPT ![pass.effect.act.change] = None]
      /\ kind # "issue" => assigned' = assigned
  BY DEF ActLands
<1>1. /\ pass'.at \in {"idle", "next"}
      /\ pass'.at # "idle" => /\ pass'.facts = pass.facts /\ pass'.evaluated = pass.evaluated
                              /\ pass'.left \cup {pass'.effect} = pass.left
  BY <1>0, HeedsGoingOn
<1>2. CASE pass'.at = "idle"
  BY <1>2 DEF Heeded
<1>3. CASE pass'.at = "next"
  <2>1. /\ pass.effect \notin pass.left /\ EffectsOK(pass.left \cup {pass.effect}, pass.facts)
    BY <1>0 DEF IInv, Asks
  <2>2. Changes' \subseteq Changes /\ pass.effect.act.change \notin Changes'
    BY <1>1, <1>3, <2>1 DEF Changes, EffectsOK
  <2>3. pass.evaluated <= now /\ (NewerHumanChange(humanAt, pass.evaluated) \/ StillHolds(pass.facts, Changes))
    BY <1>0 DEF Heeded
  <2>4. kind = "issue" => Changes' \subseteq Person
    BY <1>1, <1>3, <2>1 DEF Changes, EffectsOK, EffectOK, Subjects
  <2>5. ASSUME StillHolds(pass.facts, Changes) PROVE StillHolds(pass.facts, Changes)'
    <3>1. working' = pass'.facts.working /\ (kind' = "pullRequest" => assigned' = pass'.facts.assigned)
      BY <1>0, <1>1, <1>3, <2>5 DEF StillHolds
    <3>2. ASSUME kind = "issue", NEW s \in Changes' PROVE assigned'[s] = pass'.facts.assigned[s]
      <4>1. s \in Person /\ s \in Changes /\ s # pass.effect.act.change
        BY <2>2, <2>4, <3>2
      <4>2. assigned'[s] = assigned[s]
        BY <1>0, <3>2, <4>1 DEF IInv, TypeOK
      <4>3. QED BY <1>1, <1>3, <2>5, <3>2, <4>1, <4>2 DEF StillHolds
    <3>3. QED BY <1>0, <3>1, <3>2 DEF StillHolds
  <2>6. QED BY <1>0, <1>1, <1>3, <2>3, <2>5 DEF Heeded, NewerHumanChange
<1>4. QED BY <1>1, <1>2, <1>3

\* A pass's own steps: what it reads, it reads as it stands.
LEMMA PassHeeds == IInv /\ Heeded /\ PassSteps => Heeded'
<1>1. ASSUME IInv, Heeded, SweepReads PROVE Heeded'
  <2>1. /\ pass' = [at |-> "read", kind |-> kind, observed |-> now, assigned |-> assigned,
                    working |-> working, meanings |-> item.meanings, closedBy |-> item.closedBy,
                    linked |-> item.linked, config |-> config]
        /\ UNCHANGED <<kind, assigned, working, humanAt, now>>
    BY <1>1 DEF SweepReads, world
  <2>2. now <= now
    BY <1>1 DEF IInv, TypeOK
  <2>3. /\ pass'.at = "read" /\ pass'.observed = now /\ pass'.assigned = assigned
        /\ pass'.working = working
    BY <2>1
  <2>4. StillHolds(pass, Subjects)'
    BY <2>1, <2>3 DEF StillHolds
  <2>5. QED BY <2>1, <2>2, <2>3, <2>4 DEF Heeded
<1>2. ASSUME IInv, Heeded, Decide PROVE Heeded'
  BY <1>2, DecideHeeds
<1>3. ASSUME IInv, Heeded, Skips \/ WarningRecorded PROVE Heeded'
  <2>1. /\ UNCHANGED <<kind, assigned, working, humanAt, now>>
        /\ pass.at \in {"next", "landed"} /\ GoesOn
    BY <1>3 DEF Skips, WarningRecorded, world
  <2>2. QED BY <1>3, <2>1, HeedsGoingOn, HeedsOn
<1>4. ASSUME IInv, Heeded, GateReads PROVE Heeded'
  <2>1. /\ pass' = [at |-> "gate", effect |-> pass.effect, left |-> pass.left, facts |-> pass.facts,
                    evaluated |-> pass.evaluated, seen |-> item,
                    live |-> IF kind = "pullRequest" THEN LiveActivity ELSE None]
        /\ UNCHANGED <<kind, assigned, working, humanAt, now>> /\ pass.at = "next"
    BY <1>4 DEF GateReads, world
  <2>2. /\ pass'.at = "gate" /\ pass'.facts = pass.facts /\ pass'.evaluated = pass.evaluated
        /\ Changes' = Changes /\ (kind = "pullRequest" => pass'.live = LiveActivity)
    BY <2>1 DEF Changes
  <2>3. pass.evaluated <= now /\ (NewerHumanChange(humanAt, pass.evaluated) \/ StillHolds(pass.facts, Changes))
    BY <1>4, <2>1 DEF Heeded
  <2>4. StillHolds(pass.facts, Changes) => StillHolds(pass.facts, Changes)'
    BY <2>1, <2>2 DEF StillHolds
  <2>5. LiveActivity' = LiveActivity
    BY <2>1 DEF LiveActivity
  <2>6. QED BY <2>1, <2>2, <2>3, <2>4, <2>5 DEF Heeded, NewerHumanChange
<1>5. ASSUME IInv, Heeded, GateJudges PROVE Heeded'
  <2>1. UNCHANGED <<kind, assigned, working, humanAt, now>> /\ pass.at = "gate"
    BY <1>5 DEF GateJudges, world
  <2>2. CASE GateVerdict = "apply"
    <3>1. pass.effect.does \in {"warn", "act"}
      BY <1>5, <2>1, PassTypes DEF IInv, Effects
    <3>2. pass' = [pass EXCEPT !.at = pass.effect.does]
      BY <1>5, <2>2 DEF GateJudges
    <3>3. /\ pass'.at = pass.effect.does /\ pass'.facts = pass.facts
          /\ pass'.evaluated = pass.evaluated /\ pass'.left = pass.left /\ pass'.effect = pass.effect
      BY <1>5, <2>1, <3>2, PassTypes DEF IInv
    <3>4. QED BY <1>5, <2>1, <3>1, <3>3, HeedsOn
  <2>3. CASE GateVerdict # "apply"
    <3>1. GoesOn
      BY <1>5, <2>3 DEF GateJudges
    <3>2. QED BY <1>5, <2>1, <3>1, HeedsGoingOn, HeedsOn
  <2>4. QED BY <2>2, <2>3
<1>6. ASSUME IInv, Heeded, WarningPosts \/ WarningLands PROVE Heeded'
  <2>1. /\ UNCHANGED <<kind, assigned, working, humanAt, now>> /\ pass.at \in {"warn", "posted"}
        /\ pass' = [pass EXCEPT !.at = "posted"] \/ pass' = [pass EXCEPT !.at = "landed"]
    BY <1>6 DEF WarningPosts, WarningLands, world
  <2>2. /\ pass'.at \in {"posted", "landed"} /\ pass'.facts = pass.facts
        /\ pass'.evaluated = pass.evaluated /\ pass'.left = pass.left /\ pass'.effect = pass.effect
    BY <1>6, <2>1, PassTypes DEF IInv
  <2>3. QED BY <1>6, <2>1, <2>2, HeedsOn
<1>7. ASSUME IInv, Heeded, ActLands PROVE Heeded'
  BY <1>7, ActLandsHeeds
<1>8. QED BY <1>1, <1>2, <1>3, <1>4, <1>5, <1>6, <1>7 DEF PassSteps

\* What changes the item's people is dated now, and what does not leaves the record's.
LEMMA OthersHeed ==
  ASSUME IInv, Heeded, UNCHANGED <<kind, pass>>, now' \in Nat, now' >= now,
         \/ UNCHANGED <<assigned, working, humanAt>>
         \/ humanAt' = now
  PROVE  Heeded'
<1>1. now \in Nat
  BY DEF IInv, TypeOK
<1>2. /\ pass.at = "read" => pass.observed \in Nat
      /\ pass.at \notin {"idle", "read"} => pass.evaluated \in Nat
  BY PassTypes DEF IInv, Facts
<1>3. CASE UNCHANGED <<assigned, working, humanAt>>
  <2>1. Changes' = Changes /\ LiveActivity' = LiveActivity /\ Subjects' = Subjects
    BY <1>3 DEF Changes, LiveActivity, Subjects
  <2>2. /\ StillHolds(pass, Subjects) => StillHolds(pass, Subjects)'
        /\ StillHolds(pass.facts, Changes) => StillHolds(pass.facts, Changes)'
    BY <1>3, <2>1 DEF StillHolds
  <2>3. /\ pass.at = "read" /\ pass.observed <= now => pass.observed <= now'
        /\ pass.at \notin {"idle", "read"} /\ pass.evaluated <= now => pass.evaluated <= now'
    BY <1>1, <1>2
  <2>4. QED BY <1>3, <2>1, <2>2, <2>3 DEF Heeded, NewerHumanChange
<1>4. CASE humanAt' = now
  <2>1. /\ pass.at = "read" => /\ pass.observed <= now' /\ NewerHumanChange(now, pass.observed)
        /\ pass.at \notin {"idle", "read"} =>
             pass.evaluated <= now' /\ NewerHumanChange(now, pass.evaluated)
    BY <1>1, <1>2, NowIsNewer DEF Heeded
  <2>2. QED BY <1>4, <2>1 DEF Heeded, NewerHumanChange
<1>5. QED BY <1>3, <1>4

\* Every step keeps it.
LEMMA HeededNext == IInv /\ Heeded /\ [Next]_vars => Heeded'
<1> SUFFICES ASSUME IInv, Heeded, [Next]_vars PROVE Heeded'
  OBVIOUS
<1>1. CASE PassSteps
  BY <1>1, PassHeeds
<1>2. CASE Crash
  BY <1>2 DEF Crash, Idle, Heeded
<1>3. CASE Recovers \/ Links \/ Configures \/ UNCHANGED vars
  <2>1. UNCHANGED <<kind, assigned, working, humanAt, pass, now>>
    BY <1>3 DEF Recovers, Links, Configures, vars, world
  <2>2. now \in Nat /\ now' \in Nat /\ now' >= now
    BY <2>1 DEF IInv, TypeOK
  <2>3. QED BY <2>1, <2>2, OthersHeed
<1>4. CASE (\E p \in Person : Works(p) \/ Reassigns(p)) \/ Pauses
  <2>1. UNCHANGED <<kind, pass, now>> /\ humanAt' = now
    BY <1>4 DEF Works, Reassigns, Pauses
  <2>2. now \in Nat /\ now' \in Nat /\ now' >= now
    BY <2>1 DEF IInv, TypeOK
  <2>3. QED BY <2>1, <2>2, OthersHeed
<1>5. CASE Tick
  <2>1. UNCHANGED <<kind, assigned, working, humanAt, pass>> /\ now' = now + 1
    BY <1>5 DEF Tick, world
  <2>2. now' \in Nat /\ now' >= now
    BY <2>1 DEF IInv, TypeOK
  <2>3. QED BY <2>1, <2>2, OthersHeed
<1>6. QED BY <1>1, <1>2, <1>3, <1>4, <1>5 DEF Next

\* Where the gate lets an act go, the record still holds of its subject.
LEMMA GateHeeds ==
  ASSUME IInv, Heeded, [Next]_vars, pass.at = "gate", pass'.at = "act"
  PROVE  LET act == pass.effect.act
         IN /\ OwnSince(act.change) = act.observed
            /\ kind = "issue" => assigned[act.change] # None
            /\ kind = "pullRequest" =>
                 LiveActivity = None \/ LiveActivity < warned[EffectId(act)].warned
<1> DEFINE e == pass.effect
           s == e.act.change
           f == pass.facts
<1>1. GateJudges
  <2>1. pass' # pass
    OBVIOUS
  <2>2. QED BY <2>1 DEF Next, PassSteps, SweepReads, Decide, Skips, GateReads, WarningPosts,
                        WarningLands, WarningRecorded, ActLands, Crash, Recovers, Works, Reassigns,
                        Pauses, Links, Configures, Tick, Idle, vars
<1>2. GateVerdict = "apply" /\ e.does = "act"
  <2>1. GateVerdict = "apply"
    <3> SUFFICES ASSUME GateVerdict # "apply" PROVE FALSE
      OBVIOUS
    <3>1. GoesOn
      BY <1>1 DEF GateJudges
    <3>2. QED BY <3>1, HeedsGoingOn
  <2>2. pass' = [pass EXCEPT !.at = e.does]
    BY <1>1, <2>1 DEF GateJudges
  <2>3. pass'.at = e.does
    BY <2>2, PassTypes DEF IInv
  <2>4. QED BY <2>1, <2>3
<1>3. ~NewerHumanChange(humanAt, pass.evaluated)
  BY <1>2, VerdictsUndisturbed DEF GateVerdict, EvaluatedAt
<1>4. StillHolds(f, Changes) /\ (kind = "pullRequest" => pass.live = LiveActivity) /\ s \in Changes
  BY <1>3 DEF Heeded, Changes
<1>5. pass.live # None => pass.live < warned[EffectId(e.act)].warned
  BY <1>2, GateActs
<1>6. /\ kind \in {"issue", "pullRequest"} /\ f \in Facts /\ f.kind = kind
      /\ e.act.observed = IdleSince(f, s)
      /\ kind = "issue" => s \in Person /\ f.assigned[s] # None
  BY EffectFacts, PassTypes DEF IInv, TypeOK, Facts
<1> DEFINE g == [kind |-> kind, assigned |-> assigned, working |-> working]
<1>7. g.kind = kind /\ g.assigned = assigned /\ g.working = working
  OBVIOUS
<1>8. OwnSince(s) = IdleSince(g, s)
  BY DEF OwnSince
<1> HIDE DEF g
<1>9. CASE kind = "issue"
  <2>1. assigned[s] = f.assigned[s] /\ working[s] = f.working[s]
    BY <1>4, <1>9 DEF StillHolds
  <2>2. IdleSince(g, s) = IdleSince(f, s)
    BY <1>6, <1>7, <1>9, <2>1 DEF IdleSince, assigneeClock
  <2>3. QED BY <1>6, <1>8, <1>9, <2>1, <2>2
<1>10. CASE kind = "pullRequest"
  <2>1. assigned = f.assigned /\ working = f.working
    BY <1>4, <1>10 DEF StillHolds
  <2>2. IdleSince(g, s) = IdleSince(f, s)
    BY <1>6, <1>7, <1>10, <2>1 DEF IdleSince, pullRequestClock, AssigneesActivity
  <2>3. QED BY <1>4, <1>5, <1>6, <1>8, <1>10, <2>2
<1>11. QED BY <1>6, <1>9, <1>10

\* Whoever the gate lets an act go to still idles since the instant the act names, as things
\* stand when the gate speaks.
THEOREM ActivityStops == Spec => ActivityIsHeeded
<1>1. Init => Heeded
  BY DEF Init, Idle, Heeded
<1>2. IInv /\ Heeded /\ [Next]_vars =>
        [pass.at = "gate" /\ pass'.at = "act" =>
           LET act == pass.effect.act
           IN /\ OwnSince(act.change) = act.observed
              /\ kind = "issue" => assigned[act.change] # None
              /\ kind = "pullRequest" =>
                   LiveActivity = None \/ LiveActivity < warned[EffectId(act)].warned]_vars
  BY GateHeeds
<1>3. QED BY <1>1, <1>2, HeededNext, Invariance, PTL DEF Spec, ActivityIsHeeded
=============================================================================
