--------------------------- MODULE HandlersProofs ---------------------------
(***************************************************************************)
(* Theorems of Handlers: about its claim commands (Claims), for any lanes, *)
(* issues, people, cap, deny and ignored labels, and about its triage      *)
(* queue (Triage), for any clock, number of changes and of failures.       *)
(* The claims come first, then the queue, then what holds of Handlers.     *)
(***************************************************************************)
EXTENDS Handlers, SequenceTheorems, FiniteSetTheorems, WellFoundedInduction, TLAPS

(* The safety ladder: what a write that every rule let through was let through on. *)

\* A set of naturals that is not empty has a least element.
LEMMA LeastExists ==
  ASSUME NEW S, S \subseteq Nat, S # {}
  PROVE  \E x \in S : \A y \in S : x <= y
<1>1. PICK x \in S : \A y \in S : ~(<<y, x>> \in OpToRel(<, Nat))
  <2>1. IsWellFoundedOn(OpToRel(<, Nat), Nat)
    BY NatLessThanWellFounded
  <2> HIDE DEF OpToRel
  <2>2. QED BY <2>1, WFMin
<1>2. \A y \in S : x <= y
  <2> TAKE y \in S
  <2>1. ~(y < x)
    <3>1. ~(<<y, x>> \in {ss \in Nat \X Nat : ss[1] < ss[2]})
      BY <1>1 DEF OpToRel
    <3>2. <<y, x>> \in Nat \X Nat /\ <<y, x>>[1] = y /\ <<y, x>>[2] = x
      OBVIOUS
    <3>3. QED BY <3>1, <3>2
  <2>2. QED BY <2>1
<1>3. QED BY <1>2

\* The ladder applies only where no rule of its order objects.
LEMMA FirstApplies ==
  ASSUME NEW order, Len(order) \in Nat, NEW objects, FirstOf(order, objects) = "apply",
         \A i \in 1..Len(order) : order[i] # "apply"
  PROVE  \A i \in 1..Len(order) : order[i] \in DOMAIN objects => ~objects[order[i]]
<1> DEFINE objecting == {i \in 1..Len(order) : order[i] \in DOMAIN objects /\ objects[order[i]]}
           first == CHOOSE i \in objecting : \A j \in objecting : i <= j
<1>1. CASE objecting = {}
  BY <1>1
<1>2. CASE objecting # {}
  <2>1. \E i \in objecting : \A j \in objecting : i <= j
    <3>1. objecting \subseteq Nat
      OBVIOUS
    <3> HIDE DEF objecting
    <3>2. QED BY <1>2, <3>1, LeastExists
  <2>2. first \in objecting
    BY <2>1
  <2>3. FirstOf(order, objects) = order[first]
    BY <1>2 DEF FirstOf
  <2>4. QED BY <2>2, <2>3
<1>3. QED BY <1>1, <1>2

\* What the standing rules let through: an enabled capability that holds its grants and
\* is active.
Standing(w) ==
  /\ w.class # "observation"
  /\ w.capability \in w.config.enabled
  /\ w.missing = {}
  /\ EffectiveMode(w.config, w.capability) \notin {"disabled", "observe", "dry-run"}

\* What the item's rules let through: an open item nobody paused, whose newest change by a
\* person is known and came before the write was decided.
Undisturbed(w) ==
  /\ w.world.closure = Open
  /\ "blocked" \notin w.world.meanings
  /\ w.human # Unknown /\ w.human # Invalid /\ w.since # Invalid
  /\ ~NewerHumanChange(w.human, w.since)

\* The ladder has ten rules, none of them named for letting a write through.
LEMMA OrderFacts ==
  /\ Len(Order) = 10
  /\ \A i \in 1..Len(Order) : Order[i] # "apply"
  /\ \A code \in {"observation", "capabilityDisabled", "permissionMissing", "itemClosed",
                  "itemBlocked", "humanOrderingUnknown", "invalidTimestamp",
                  "newerHumanChange", "modeDisabled", "modeRecordsOnly"} :
       \E i \in 1..Len(Order) : Order[i] = code
<1>1. Len(Order) = 10
  BY DEF Order
<1>2. /\ Order[1] = "observation" /\ Order[2] = "capabilityDisabled"
      /\ Order[3] = "permissionMissing" /\ Order[4] = "itemClosed" /\ Order[5] = "itemBlocked"
      /\ Order[6] = "humanOrderingUnknown" /\ Order[7] = "invalidTimestamp"
      /\ Order[8] = "newerHumanChange" /\ Order[9] = "modeDisabled"
      /\ Order[10] = "modeRecordsOnly"
  BY DEF Order
<1>3. 1..Len(Order) = 1..10 /\ 1..10 = {1, 2, 3, 4, 5, 6, 7, 8, 9, 10}
  BY <1>1
<1>4. QED BY <1>1, <1>2, <1>3

\* The general ladder applies a write only on both.
LEMMA GeneralApplies ==
  ASSUME NEW w, GeneralVerdict(w) = "apply"
  PROVE  Standing(w) /\ Undisturbed(w)
<1> DEFINE standing == StandingRules(w)
           rules == ItemRules(w)
           objects == [code \in DOMAIN standing \cup DOMAIN rules |->
                         IF code \in DOMAIN standing THEN standing[code] ELSE rules[code]]
<1>1. FirstOf(Order, objects) = "apply"
  BY DEF GeneralVerdict
<1>2. /\ DOMAIN standing = {"observation", "capabilityDisabled", "permissionMissing",
                            "modeDisabled", "modeRecordsOnly"}
      /\ standing.observation = (w.class = "observation")
      /\ standing.capabilityDisabled = (w.capability \notin w.config.enabled)
      /\ standing.permissionMissing = (w.missing # {})
      /\ standing.modeDisabled = (EffectiveMode(w.config, w.capability) = "disabled")
      /\ standing.modeRecordsOnly = (EffectiveMode(w.config, w.capability) \in {"observe", "dry-run"})
  BY DEF StandingRules
<1>3. /\ DOMAIN rules = {"itemClosed", "itemBlocked", "humanOrderingUnknown",
                         "invalidTimestamp", "newerHumanChange"}
      /\ rules.itemClosed = (w.world.closure # Open)
      /\ rules.itemBlocked = ("blocked" \in w.world.meanings)
      /\ rules.humanOrderingUnknown = (w.human = Unknown)
      /\ rules.invalidTimestamp = (w.since = Invalid \/ w.human = Invalid)
      /\ rules.newerHumanChange = (w.since # Invalid /\ NewerHumanChange(w.human, w.since))
  BY DEF ItemRules
<1> HIDE DEF standing, rules
<1>0. \A i \in 1..Len(Order) : Order[i] \in DOMAIN objects => ~objects[Order[i]]
  <2> HIDE DEF objects
  <2>1. Len(Order) \in Nat /\ \A i \in 1..Len(Order) : Order[i] # "apply"
    BY OrderFacts
  <2>2. QED BY <1>1, <2>1, FirstApplies
<1>4. \A code \in DOMAIN standing : ~standing[code]
  <2> SUFFICES ASSUME NEW code \in DOMAIN standing PROVE ~standing[code]
    OBVIOUS
  <2>1. code \in DOMAIN objects /\ objects[code] = standing[code]
    OBVIOUS
  <2>2. PICK i \in 1..Len(Order) : Order[i] = code
    BY <1>2, OrderFacts
  <2> HIDE DEF objects
  <2>3. QED BY <1>0, <2>1, <2>2
<1>5. \A code \in DOMAIN rules : ~rules[code]
  <2> SUFFICES ASSUME NEW code \in DOMAIN rules PROVE ~rules[code]
    OBVIOUS
  <2>1. code \in DOMAIN objects /\ objects[code] = rules[code]
    BY <1>2, <1>3
  <2>2. PICK i \in 1..Len(Order) : Order[i] = code
    BY <1>3, OrderFacts
  <2> HIDE DEF objects
  <2>3. QED BY <1>0, <2>1, <2>2
<1>6. Standing(w)
  BY <1>2, <1>4 DEF Standing
<1>7. Undisturbed(w)
  BY <1>3, <1>5 DEF Undisturbed
<1>8. QED BY <1>6, <1>7

\* Only an ordinary write goes through evaluateWrite, and only while its preconditions hold.
THEOREM WriteApplies ==
  ASSUME NEW w, WriteVerdict(w) = "apply"
  PROVE  /\ ~w.kill /\ w.world.holds
         /\ w.class \notin {"clockTriggeredDestructive", "immediatePreventive"}
         /\ Standing(w) /\ Undisturbed(w)
<1>1. Preflight(w) = "apply"
  BY DEF WriteVerdict
<1>2. ~w.kill /\ w.world.holds
  BY <1>1 DEF Preflight
<1>3. w.class \notin {"clockTriggeredDestructive", "immediatePreventive"}
  BY <1>1 DEF WriteVerdict
<1>4. GeneralVerdict(w) = "apply"
  BY <1>1, <1>3 DEF WriteVerdict
<1>5. QED BY <1>2, <1>3, <1>4, GeneralApplies

\* And it goes through whenever both hold.
LEMMA WriteGoes ==
  ASSUME NEW w, ~w.kill, w.world.holds,
         w.class \notin {"clockTriggeredDestructive", "immediatePreventive"},
         Standing(w), Undisturbed(w)
  PROVE  WriteVerdict(w) = "apply"
<1> DEFINE standing == StandingRules(w)
           rules == ItemRules(w)
           objects == [code \in DOMAIN standing \cup DOMAIN rules |->
                         IF code \in DOMAIN standing THEN standing[code] ELSE rules[code]]
<1>7. /\ DOMAIN standing = {"observation", "capabilityDisabled", "permissionMissing",
                            "modeDisabled", "modeRecordsOnly"}
      /\ standing.observation = (w.class = "observation")
      /\ standing.capabilityDisabled = (w.capability \notin w.config.enabled)
      /\ standing.permissionMissing = (w.missing # {})
      /\ standing.modeDisabled = (EffectiveMode(w.config, w.capability) = "disabled")
      /\ standing.modeRecordsOnly = (EffectiveMode(w.config, w.capability) \in {"observe", "dry-run"})
  BY DEF StandingRules
<1>8. /\ DOMAIN rules = {"itemClosed", "itemBlocked", "humanOrderingUnknown",
                         "invalidTimestamp", "newerHumanChange"}
      /\ rules.itemClosed = (w.world.closure # Open)
      /\ rules.itemBlocked = ("blocked" \in w.world.meanings)
      /\ rules.humanOrderingUnknown = (w.human = Unknown)
      /\ rules.invalidTimestamp = (w.since = Invalid \/ w.human = Invalid)
      /\ rules.newerHumanChange = (w.since # Invalid /\ NewerHumanChange(w.human, w.since))
  BY DEF ItemRules
<1> HIDE DEF standing, rules
<1>1. \A code \in DOMAIN standing : ~standing[code]
  <2>1. /\ ~standing.observation /\ ~standing.capabilityDisabled /\ ~standing.permissionMissing
        /\ ~standing.modeDisabled /\ ~standing.modeRecordsOnly
    BY <1>7 DEF Standing
  <2> QED BY <1>7, <2>1
<1>2. \A code \in DOMAIN rules : ~rules[code]
  <2>1. /\ ~rules.itemClosed /\ ~rules.itemBlocked /\ ~rules.humanOrderingUnknown
        /\ ~rules.invalidTimestamp /\ ~rules.newerHumanChange
    BY <1>8 DEF Undisturbed
  <2> QED BY <1>8, <2>1
<1>3. \A code \in DOMAIN objects : ~objects[code]
  BY <1>1, <1>2
<1> HIDE DEF objects
<1>4. FirstOf(Order, objects) = "apply"
  BY <1>3 DEF FirstOf
<1>5. GeneralVerdict(w) = "apply"
  BY <1>4 DEF GeneralVerdict, objects, standing, rules
<1>6. Preflight(w) = "apply"
  BY DEF Preflight
<1> QED BY <1>5, <1>6 DEF WriteVerdict

\* Dates to the second keep the order of the instants they stand for.
LEMMA SecondsKeepOrder ==
  ASSUME NEW a \in Int, NEW b \in Int, SecondOf(a) < SecondOf(b)
  PROVE  a < b
<1> USE SafetyAssumption
<1> DEFINE x == a \div PerSecond
           y == b \div PerSecond
<1>1. /\ x \in Int /\ y \in Int
      /\ PerSecond * x <= a /\ a < PerSecond * (x + 1)
      /\ PerSecond * y <= b /\ b < PerSecond * (y + 1)
  OBVIOUS
<1>2. x < y
  BY DEF SecondOf
<1> HIDE DEF x, y
<1>3. PerSecond * (x + 1) <= PerSecond * y
  BY <1>1, <1>2
<1>4. PerSecond * (x + 1) \in Int /\ PerSecond * y \in Int
  BY <1>1
<1>5. QED BY <1>1, <1>3, <1>4

\* No newer change by a person: the newest one is older than the instant asked about.
LEMMA OlderThanSince ==
  ASSUME NEW human \in Int, NEW since \in Int, ~NewerHumanChange(human, since)
  PROVE  human < since
<1>1. SecondOf(human) \in Int /\ SecondOf(since) \in Int
  BY SafetyAssumption DEF SecondOf
<1>2. SecondOf(human) < SecondOf(since)
  BY <1>1 DEF NewerHumanChange
<1>3. QED BY <1>2, SecondsKeepOrder

----------------------------------------------------------------------------
Delivered == [issue : Issue, by : Login, command : {"assign", "unassign"},
              labels : SUBSET Meaning, at : Nat, id : Nat]
Walks == [at : Places, delivery : Delivered, evaluated : Nat, seen : SUBSET Meaning]
Entry == [kind : {"commented", "assigned", "unassigned", "labeled"},
          by : Login \cup {"maintainer"}, at : Nat, what : {None, "assign", "unassign"}]

Typed ==
  /\ assignees \in [Issue -> SUBSET Login] /\ labels \in [Issue -> SUBSET Meaning]
  /\ now \in Nat /\ failures \in Nat /\ made \in Nat /\ timeline \in [Issue -> Seq(Entry)]
  /\ inbox \subseteq Delivered /\ disturbed \subseteq Issue
  /\ pass \in [Lane -> Walks \cup {Idle}]
  /\ stale \in [Lane -> SUBSET {"holders", "count", "gate"}]

\* A delivery is of a comment that stands in its issue's timeline, and nothing is dated
\* ahead of the clock.
Logged(d) ==
  /\ d.at <= now
  /\ \E m \in 1..Len(timeline[d.issue]) :
       /\ timeline[d.issue][m].kind = "commented" /\ timeline[d.issue][m].by = d.by
       /\ timeline[d.issue][m].at = d.at /\ timeline[d.issue][m].what = d.command
Dated ==
  /\ \A i \in Issue : \A m \in 1..Len(timeline[i]) : timeline[i][m].at <= now
  /\ \A d \in inbox : Logged(d)
  /\ \A k \in Lane : pass[k] # Idle =>
       /\ Logged(pass[k].delivery)
       /\ pass[k].delivery.at <= pass[k].evaluated /\ pass[k].evaluated <= now

\* A person changed the pass's own issue since it was evaluated: a gate still to judge will
\* refuse it.
Refusable(p) ==
  \E n \in 1..Len(timeline[p.delivery.issue]) :
    /\ timeline[p.delivery.issue][n].kind # "commented"
    /\ SecondOf(p.evaluated) <= SecondOf(timeline[p.delivery.issue][n].at)
GivesWay(k) == pass[k].at # "send" /\ Refusable(pass[k])

\* What a lane on a claim has asked still holds, unless its history says otherwise or its
\* gate will stop it.
Claiming(k) == pass[k] # Idle /\ pass[k].delivery.command = "assign"
NobodyHolds(k) ==
  Claiming(k) /\ pass[k].at # "holders" =>
    assignees[pass[k].delivery.issue] = {} \/ "holders" \in stale[k] \/ GivesWay(k)
CountsLess(k) ==
  Claiming(k) /\ pass[k].at \in {"judging", "gate", "seen", "send"} /\ MaxOpen > 0 =>
    Cardinality(Held(pass[k].delivery.by)) < MaxOpen \/ "count" \in stale[k] \/ GivesWay(k)
NothingDenies(k) ==
  pass[k] # Idle /\ "gate" \notin stale[k] =>
    /\ pass[k].at = "seen" => pass[k].seen = labels[pass[k].delivery.issue] \/ GivesWay(k)
    /\ pass[k].at = "send" /\ Claiming(k) => labels[pass[k].delivery.issue] \cap Denies = {}
Asking == \A k \in Lane : NobodyHolds(k) /\ CountsLess(k) /\ NothingDenies(k)

\* While a person's release is the newest change of an issue, it is still to be decided, is
\* being decided or is done, and no earlier claim of theirs is past its gate or can pass it.
Newest(i) == timeline[i][Len(timeline[i])]
IsRelease(d, i) ==
  /\ d.issue = i /\ d.by = Newest(i).by /\ d.command = "unassign"
  /\ d.at = Newest(i).at /\ d.labels = labels[i]
Carries(p, i) ==
  /\ p # Idle /\ IsRelease(p.delivery, i)
  /\ p.at # "counting" /\ (p.at = "seen" => p.seen = labels[i])
Pending(i) ==
  \/ Newest(i).by \notin assignees[i]
  \/ \E d \in inbox : IsRelease(d, i)
  \/ \E k \in Lane : Carries(pass[k], i)
IsEarlier(p, i) ==
  p # Idle /\ p.delivery.command = "assign" /\ p.delivery.issue = i /\ p.delivery.by = Newest(i).by
Overtaken(p, i) ==
  IsEarlier(p, i) =>
    p.at # "send" /\ (p.at \in {"gate", "seen"} => p.evaluated <= Newest(i).at)
Stands(i) == i \notin disturbed /\ ReleaseIsNewest(i) /\ Clear(labels[i])
Released ==
  failures = 0 =>
    \A i \in Issue : Stands(i) => Pending(i) /\ \A k \in Lane : Overtaken(pass[k], i)

ClaimsInv == Typed /\ Dated /\ Asking /\ Released

-----------------------------------------------------------------------------
(* The ladder, for a command.                                              *)

\* What an issue shows is observed whole.
LEMMA ObservedIsShown ==
  ASSUME NEW shown \in SUBSET Meaning
  PROVE  ObservedMeanings(Project("issue", shown, Open)) = shown
BY DEF ObservedMeanings, Project, PositionsOf, Meaning

WriteOf(d, shown, since) ==
  [capability |-> "assignment", class |-> "reversibleStateChange",
   config |-> ActiveConfig, missing |-> {}, kill |-> FALSE,
   world |-> DeriveWorld(Project("issue", shown, Open), ClaimsOf(d), {}),
   human |-> HumanAt(d), since |-> since]

\* A command is applied only after every change a person dated, and a claim only where
\* nothing shown denies it.
LEMMA LadderApplies ==
  ASSUME NEW d \in Delivered, NEW shown \in SUBSET Meaning, NEW since \in Nat,
         Ladder(d, shown, since) = "apply"
  PROVE  /\ ~NewerHumanChange(HumanAt(d), since)
         /\ d.command = "assign" => shown \cap Denies = {}
<1> DEFINE w == WriteOf(d, shown, since)
           projection == Project("issue", shown, Open)
<1>1. WriteVerdict(w) = "apply"
  BY DEF Ladder, WriteOf
<1>2. /\ w.human = HumanAt(d) /\ w.since = since
      /\ w.world = DeriveWorld(projection, ClaimsOf(d), {})
  BY DEF WriteOf
<1>3. ObservedMeanings(projection) = shown
  BY ObservedIsShown
<1> HIDE DEF w, projection
<1>4. Undisturbed(w) /\ w.world.holds
  BY <1>1, WriteApplies
<1>5. ~NewerHumanChange(HumanAt(d), since)
  BY <1>2, <1>4 DEF Undisturbed
<1>6. ExpectedHolds(ClaimsOf(d), projection, {})
  <2>1. w.world.holds = (~IsConflict(projection) /\ ExpectedHolds(ClaimsOf(d), projection, {}))
    BY <1>2 DEF DeriveWorld
  <2> QED BY <1>4, <2>1
<1>7. ClaimsOf(d).absent \cap shown = {}
  BY <1>3, <1>6 DEF ExpectedHolds
<1>8. d.command = "assign" => ClaimsOf(d).absent = Denies
  BY DEF ClaimsOf
<1> QED BY <1>5, <1>7, <1>8

\* A release is applied on the labels its comment showed, unless the issue is paused or in
\* conflict, or somebody came after it.
LEMMA ReleaseApplies ==
  ASSUME NEW d \in Delivered, d.command = "unassign", NEW since \in Nat,
         Clear(d.labels),
         HumanAt(d) \in Nat \cup {None}, ~NewerHumanChange(HumanAt(d), since)
  PROVE  Ladder(d, d.labels, since) = "apply"
<1> DEFINE w == WriteOf(d, d.labels, since)
           projection == Project("issue", d.labels, Open)
<1>0. d.labels \in SUBSET Meaning
  BY DEF Delivered
<1>1. /\ w.capability = "assignment" /\ w.class = "reversibleStateChange"
      /\ w.config = ActiveConfig /\ w.missing = {} /\ w.kill = FALSE
      /\ w.human = HumanAt(d) /\ w.since = since
      /\ w.world = DeriveWorld(projection, ClaimsOf(d), {})
  BY DEF WriteOf
<1>2. projection.closedBy = Open /\ ObservedMeanings(projection) = d.labels
      /\ (projection.blocked = ("blocked" \in d.labels))
  BY <1>0, ObservedIsShown DEF Project
<1>3. ExpectedHolds(ClaimsOf(d), projection, {})
  <2>1. /\ ClaimsOf(d).present = d.labels /\ ClaimsOf(d).absent = {}
        /\ ClaimsOf(d).closed = Open /\ ClaimsOf(d).mode = "noClaim"
    BY DEF ClaimsOf
  <2> HIDE DEF projection
  <2> QED BY <1>2, <2>1 DEF ExpectedHolds
<1>4. ~IsConflict(projection) /\ "blocked" \notin d.labels
  BY <1>2 DEF Clear
<1> HIDE DEF projection
<1>5. w.world.closure = Open /\ w.world.meanings = d.labels /\ w.world.holds
  <2>1. /\ w.world.closure = projection.closedBy
        /\ w.world.meanings = ObservedMeanings(projection)
        /\ w.world.holds = (~IsConflict(projection) /\ ExpectedHolds(ClaimsOf(d), projection, {}))
    BY <1>1 DEF DeriveWorld
  <2> QED BY <1>2, <1>3, <1>4, <2>1
<1> HIDE DEF w
<1>6. EffectiveMode(w.config, w.capability) = "active" /\ w.capability \in w.config.enabled
  BY <1>1 DEF EffectiveMode, ActiveConfig
<1>7. Standing(w)
  BY <1>1, <1>6 DEF Standing
<1>8. Undisturbed(w)
  BY <1>1, <1>4, <1>5, AnswersAssumption DEF Undisturbed
<1> QED BY <1>1, <1>5, <1>7, <1>8, WriteGoes DEF Ladder, WriteOf, w

-----------------------------------------------------------------------------
(* The newest thing a person did, but for the command itself.              *)

\* A bounded set of naturals that is not empty has a greatest element.
LEMMA GreatestExists ==
  ASSUME NEW Some, Some \subseteq Nat, Some # {}, NEW bound \in Nat, \A x \in Some : x <= bound
  PROVE  \E x \in Some : \A y \in Some : y <= x
<1> DEFINE room == {bound - x : x \in Some}
<1>1. room \subseteq Nat /\ room # {}
  <2>1. \A x \in Some : bound - x \in Nat
    <3>1. TAKE x \in Some
    <3>2. x \in Nat /\ x <= bound
      OBVIOUS
    <3> QED BY <3>2
  <2> QED BY <2>1
<1>2. PICK least \in room : \A other \in room : least <= other
  <2> HIDE DEF room
  <2> QED BY <1>1, LeastExists
<1>3. PICK x \in Some : least = bound - x
  BY <1>2
<1>4. \A y \in Some : y <= x
  <2>1. TAKE y \in Some
  <2>2. bound - x <= bound - y
    BY <1>2, <1>3
  <2>3. x \in Nat /\ y \in Nat
    OBVIOUS
  <2> QED BY <2>2, <2>3
<1> QED BY <1>4

\* A later instant is of no earlier second.
LEMMA SecondsFollow ==
  ASSUME NEW a \in Nat, NEW b \in Nat, a <= b
  PROVE  SecondOf(a) \in Nat /\ SecondOf(b) \in Nat /\ SecondOf(a) <= SecondOf(b)
<1>1. SecondOf(a) \in Nat /\ SecondOf(b) \in Nat
  BY SafetyAssumption DEF SecondOf
<1>2. ~(SecondOf(b) < SecondOf(a))
  BY SecondsKeepOrder
<1> QED BY <1>1, <1>2

Matches(d, entry) ==
  entry.kind = "commented" /\ entry.by = d.by /\ SecondOf(entry.at) = SecondOf(d.at)
Used(d) ==
  {n \in 1..Len(timeline[d.issue]) :
     /\ Matches(d, timeline[d.issue][n])
     /\ \A m \in 1..Len(timeline[d.issue]) : Matches(d, timeline[d.issue][m]) => n <= m}
Dates(d) == {timeline[d.issue][n].at : n \in (1..Len(timeline[d.issue])) \ Used(d)}

\* HumanAt is the latest date of what the command did not use up.
LEMMA HumanIsLatest ==
  ASSUME NEW d \in Delivered, Typed, Dated
  PROVE  /\ Dates(d) \subseteq Nat
         /\ Dates(d) = {} => HumanAt(d) = None
         /\ Dates(d) # {} => HumanAt(d) \in Dates(d) /\ \A at \in Dates(d) : at <= HumanAt(d)
<1> DEFINE line == timeline[d.issue]
           matches == {n \in 1..Len(line) : Matches(d, line[n])}
           first == {n \in matches : \A m \in matches : n <= m}
           ats == {line[n].at : n \in (1..Len(line)) \ first}
<1>1. d.issue \in Issue /\ line \in Seq(Entry)
  BY DEF Typed, Delivered
<1>2. first = Used(d)
  BY DEF Used
<1>3. ats = Dates(d)
  BY <1>2 DEF Dates
<1>4. HumanAt(d) = IF ats = {} THEN None ELSE CHOOSE at \in ats : \A other \in ats : other <= at
  BY DEF HumanAt, Matches
<1>5. Dates(d) \subseteq Nat /\ \A at \in Dates(d) : at <= now
  <2>1. \A n \in 1..Len(line) : line[n] \in Entry /\ line[n].at <= now
    BY <1>1 DEF Dated
  <2>2. \A n \in 1..Len(line) : line[n].at \in Nat
    BY <2>1 DEF Entry
  <2> QED BY <2>1, <2>2 DEF Dates
<1> HIDE DEF ats
<1>6. CASE Dates(d) # {}
  <2>1. \E x \in Dates(d) : \A y \in Dates(d) : y <= x
    BY <1>5, <1>6, GreatestExists DEF Typed
  <2> QED BY <1>3, <1>4, <1>5, <1>6, <2>1
<1>7. CASE Dates(d) = {}
  BY <1>3, <1>4, <1>5, <1>7
<1> QED BY <1>6, <1>7

\* Whatever a person did in another second than the command's is seen.
LEMMA HumanSees ==
  ASSUME NEW d \in Delivered, Typed, Dated, NEW n \in 1..Len(timeline[d.issue]),
         SecondOf(timeline[d.issue][n].at) # SecondOf(d.at)
  PROVE  HumanAt(d) \in Nat /\ timeline[d.issue][n].at <= HumanAt(d)
<1>1. n \notin Used(d)
  BY DEF Used, Matches
<1>2. timeline[d.issue][n].at \in Dates(d)
  BY <1>1 DEF Dates
<1> QED BY <1>2, HumanIsLatest

\* What a person did that is no comment was in an earlier second than an act its ladder
\* lets go on.
LEMMA NobodyRefuses ==
  ASSUME NEW d \in Delivered, Typed, Dated, NEW since \in Nat,
         ~NewerHumanChange(HumanAt(d), since),
         NEW n \in 1..Len(timeline[d.issue]), timeline[d.issue][n].kind # "commented"
  PROVE  ~(SecondOf(since) <= SecondOf(timeline[d.issue][n].at))
<1> DEFINE at == timeline[d.issue][n].at
<1>1. n \notin Used(d)
  BY DEF Used, Matches
<1>2. at \in Dates(d)
  BY <1>1 DEF Dates
<1>3. at \in Nat /\ HumanAt(d) \in Nat /\ at <= HumanAt(d)
  BY <1>2, HumanIsLatest
<1> HIDE DEF at
<1>4. /\ SecondOf(at) \in Nat /\ SecondOf(HumanAt(d)) \in Nat
      /\ SecondOf(at) <= SecondOf(HumanAt(d))
  BY <1>3, SecondsFollow
<1>5. SecondOf(since) \in Nat
  BY SecondsFollow
<1>6. SecondOf(HumanAt(d)) < SecondOf(since)
  BY <1>3, <1>4, <1>5 DEF NewerHumanChange
<1> QED BY <1>4, <1>5, <1>6 DEF at

\* Where the command is alone in its second and everything else was earlier, no person
\* came after it.
LEMMA NobodySince ==
  ASSUME NEW d \in Delivered, Typed, Dated, NEW own \in 1..Len(timeline[d.issue]),
         Matches(d, timeline[d.issue][own]),
         \A m \in 1..Len(timeline[d.issue]) :
           m # own => SecondOf(timeline[d.issue][m].at) < SecondOf(d.at),
         NEW since \in Nat, d.at <= since
  PROVE  HumanAt(d) \in Nat \cup {None} /\ ~NewerHumanChange(HumanAt(d), since)
<1>0. d.at \in Nat
  BY DEF Delivered
<1>1. SecondOf(d.at) \in Nat /\ SecondOf(since) \in Nat /\ SecondOf(d.at) <= SecondOf(since)
  BY <1>0, SecondsFollow
<1>2. \A m \in 1..Len(timeline[d.issue]) : m # own => ~Matches(d, timeline[d.issue][m])
  BY <1>1 DEF Matches
<1>3. Used(d) = {own}
  <2>1. own \in Used(d)
    BY <1>2 DEF Used
  <2>2. \A m \in Used(d) : m = own
    BY <1>2 DEF Used
  <2> QED BY <2>1, <2>2
<1>4. \A at \in Dates(d) : SecondOf(at) < SecondOf(d.at)
  BY <1>3 DEF Dates
<1>5. CASE Dates(d) = {}
  BY <1>5, HumanIsLatest, AnswersAssumption DEF NewerHumanChange
<1>6. CASE Dates(d) # {}
  <2>1. HumanAt(d) \in Dates(d) /\ HumanAt(d) \in Nat
    BY <1>6, HumanIsLatest
  <2>2. SecondOf(HumanAt(d)) < SecondOf(d.at) /\ SecondOf(HumanAt(d)) \in Nat
    BY <1>4, <2>1, SecondsFollow
  <2> QED BY <1>1, <2>1, <2>2 DEF NewerHumanChange
<1> QED BY <1>5, <1>6

-----------------------------------------------------------------------------
(* What a release leaves of the commands around it.                        *)

\* The last entry of an issue's timeline, where a release is the newest change.
LEMMA NewestEntry ==
  ASSUME NEW i \in Issue, Typed, Dated, ReleaseIsNewest(i)
  PROVE  /\ Len(timeline[i]) \in 1..Len(timeline[i])
         /\ Newest(i) = timeline[i][Len(timeline[i])]
         /\ Newest(i).what = "unassign" /\ Newest(i).at \in Nat /\ Newest(i).at <= now
         /\ \A m \in 1..Len(timeline[i]) :
              m # Len(timeline[i]) => SecondOf(timeline[i][m].at) < SecondOf(Newest(i).at)
<1>1. timeline[i] \in Seq(Entry) /\ timeline[i] # <<>>
  BY DEF Typed, ReleaseIsNewest
<1>2. Len(timeline[i]) \in Nat /\ Len(timeline[i]) >= 1
  BY <1>1
<1>3. timeline[i][Len(timeline[i])] \in Entry /\ timeline[i][Len(timeline[i])].at <= now
  BY <1>1, <1>2 DEF Dated
<1>4. \A m \in 1..Len(timeline[i]) : m # Len(timeline[i]) => m \in 1..(Len(timeline[i]) - 1)
  BY <1>2
<1> QED BY <1>2, <1>3, <1>4 DEF ReleaseIsNewest, Newest, Entry

\* The release itself passes the ladder, at its judgement and again at its gate.
LEMMA ReleaseGoes ==
  ASSUME NEW i \in Issue, NEW d \in Delivered, Typed, Dated, Logged(d),
         IsRelease(d, i), ReleaseIsNewest(i), Clear(labels[i]),
         NEW since \in Nat, d.at <= since
  PROVE  Ladder(d, labels[i], since) = "apply"
<1> DEFINE line == timeline[i]
<1>1. /\ d.issue = i /\ d.command = "unassign" /\ d.at = Newest(i).at /\ d.labels = labels[i]
  BY DEF IsRelease
<1>2. PICK m \in 1..Len(line) :
        line[m].kind = "commented" /\ line[m].by = d.by /\ line[m].at = d.at
  BY <1>1 DEF Logged
<1>3. /\ Len(line) \in 1..Len(line) /\ Newest(i).at \in Nat
      /\ \A n \in 1..Len(line) : n # Len(line) => SecondOf(line[n].at) < SecondOf(d.at)
  BY <1>1, NewestEntry
<1>4. SecondOf(d.at) \in Nat
  BY <1>1, <1>3, SecondsFollow
<1>5. m = Len(line)
  BY <1>2, <1>3, <1>4
<1>6. Matches(d, line[m])
  BY <1>2 DEF Matches
<1>7. HumanAt(d) \in Nat \cup {None} /\ ~NewerHumanChange(HumanAt(d), since)
  BY <1>1, <1>3, <1>5, <1>6, NobodySince
<1> QED BY <1>1, <1>7, ReleaseApplies

\* An earlier claim passes it only on an evaluation begun after the release.
LEMMA ClaimIsEarlier ==
  ASSUME NEW i \in Issue, NEW d \in Delivered, Typed, Dated, Logged(d),
         d.issue = i, d.command = "assign", ReleaseIsNewest(i),
         NEW shown \in SUBSET Meaning, NEW since \in Nat, Ladder(d, shown, since) = "apply"
  PROVE  d.at < Newest(i).at /\ Newest(i).at < since
<1> DEFINE line == timeline[i]
<1>1. PICK m \in 1..Len(line) : line[m].at = d.at /\ line[m].what = "assign"
  BY DEF Logged
<1>2. /\ Len(line) \in 1..Len(line) /\ Newest(i).at \in Nat /\ Newest(i).what = "unassign"
      /\ Newest(i) = line[Len(line)]
      /\ \A n \in 1..Len(line) : n # Len(line) => SecondOf(line[n].at) < SecondOf(Newest(i).at)
  BY NewestEntry
<1>3. m # Len(line)
  BY <1>1, <1>2
<1>4. SecondOf(d.at) < SecondOf(Newest(i).at)
  BY <1>1, <1>2, <1>3
<1>5. d.at \in Nat
  BY DEF Delivered
<1>6. d.at < Newest(i).at
  BY <1>2, <1>4, <1>5, SecondsKeepOrder
<1>7. SecondOf(d.at) \in Nat /\ SecondOf(Newest(i).at) \in Nat
  <2>1. d.at \in Nat /\ Newest(i).at \in Nat /\ d.at <= Newest(i).at
    BY <1>2, <1>5, <1>6
  <2> HIDE DEF line
  <2> QED BY <2>1, SecondsFollow
<1>8. HumanAt(d) \in Nat /\ Newest(i).at <= HumanAt(d)
  BY <1>2, <1>4, <1>7, HumanSees
<1>9. ~NewerHumanChange(HumanAt(d), since)
  BY LadderApplies
<1>10. HumanAt(d) < since
  BY <1>8, <1>9, OlderThanSince
<1> QED BY <1>2, <1>6, <1>8, <1>10

-----------------------------------------------------------------------------
(* Steps of one lane: only its own pass moves.                             *)

OnlyMoves(k, then) ==
  /\ pass' \in [Lane -> Walks \cup {Idle}]
  /\ pass'[k] = then
  /\ \A j \in Lane : j # k => pass'[j] = pass[j]
OnlyForgets(k) == \A j \in Lane : j # k => stale'[j] = stale[j]

\* A pass at a place of its walk is not idle.
LEMMA WalkFacts ==
  ASSUME NEW k \in Lane, Typed
  PROVE  /\ pass[k] # Idle => pass[k] \in Walks /\ pass[k].delivery \in Delivered
                              /\ pass[k].at \in Places /\ pass[k].evaluated \in Nat
         /\ pass[k] = Idle <=> pass[k].at = "idle"
         /\ pass[k].at \in Places => pass[k] # Idle
<1>1. pass[k] \in Walks \cup {Idle}
  BY DEF Typed
<1>2. Idle.at = "idle" /\ "idle" \notin Places
  BY DEF Idle, Places
<1>3. \A p \in Walks : /\ p.at \in Places /\ p.delivery \in Delivered /\ p.evaluated \in Nat
  BY DEF Walks
<1> QED BY <1>1, <1>2, <1>3

\* Going on: the pass is at the new place, with what it had.
LEMMA GoesOn ==
  ASSUME NEW k \in Lane, Typed, pass[k] # Idle, NEW place \in Places, Goes(k, place)
  PROVE  OnlyMoves(k, [pass[k] EXCEPT !.at = place]) /\ pass'[k] \in Walks
         /\ pass'[k].at = place /\ pass'[k].delivery = pass[k].delivery
         /\ pass'[k].evaluated = pass[k].evaluated /\ pass'[k].seen = pass[k].seen
<1>1. pass \in [Lane -> Walks \cup {Idle}] /\ pass[k] \in Walks
  BY WalkFacts DEF Typed
<1>2. pass' = [pass EXCEPT ![k] = [pass[k] EXCEPT !.at = place]]
  BY <1>1 DEF Goes
<1>3. [pass[k] EXCEPT !.at = place] \in Walks
  BY <1>1 DEF Walks
<1>4. /\ pass'[k] = [pass[k] EXCEPT !.at = place]
      /\ pass' \in [Lane -> Walks \cup {Idle}]
      /\ \A j \in Lane : j # k => pass'[j] = pass[j]
  BY <1>1, <1>2, <1>3
<1>5. /\ pass'[k].at = place /\ pass'[k].delivery = pass[k].delivery
      /\ pass'[k].evaluated = pass[k].evaluated /\ pass'[k].seen = pass[k].seen
  BY <1>1, <1>4 DEF Walks
<1> QED BY <1>3, <1>4, <1>5 DEF OnlyMoves

\* Stopping: the lane is idle.
LEMMA StopsHere ==
  ASSUME NEW k \in Lane, Typed, Stops(k)
  PROVE  OnlyMoves(k, Idle)
BY DEF Typed, Stops, OnlyMoves

\* One lane goes on or stops and GitHub stays: every date stays in order.
LEMMA LaneKeepsDates ==
  ASSUME NEW k \in Lane, NEW then, Typed, Dated, World, OnlyMoves(k, then),
         then # Idle => /\ pass[k] # Idle /\ then.delivery = pass[k].delivery
                        /\ then.evaluated = pass[k].evaluated
  PROVE  Dated'
<1>1. timeline' = timeline /\ now' = now /\ inbox' = inbox
  BY DEF World, github
<1>2. \A d : Logged(d)' <=> Logged(d)
  BY <1>1 DEF Logged
<1>3. (\A i \in Issue : \A m \in 1..Len(timeline[i]) : timeline[i][m].at <= now)'
  BY <1>1 DEF Dated
<1>4. (\A d \in inbox : Logged(d))'
  BY <1>1, <1>2 DEF Dated
<1>5. \A j \in Lane : pass'[j] # Idle =>
        /\ pass[j] # Idle /\ pass'[j].delivery = pass[j].delivery
        /\ pass'[j].evaluated = pass[j].evaluated
  BY DEF OnlyMoves
<1>6. ASSUME NEW j \in Lane, pass'[j] # Idle
      PROVE  /\ Logged(pass[j].delivery)'
             /\ pass'[j].delivery.at <= pass'[j].evaluated /\ pass'[j].evaluated <= now'
  <2>1. /\ Logged(pass[j].delivery)
        /\ pass[j].delivery.at <= pass[j].evaluated /\ pass[j].evaluated <= now
    BY <1>5, <1>6 DEF Dated
  <2> QED BY <1>1, <1>5, <1>6, <2>1 DEF Logged
<1>7. (\A j \in Lane : pass[j] # Idle =>
         /\ Logged(pass[j].delivery)
         /\ pass[j].delivery.at <= pass[j].evaluated /\ pass[j].evaluated <= now)'
  BY <1>6 DEF Idle
<1> QED BY <1>3, <1>4, <1>7 DEF Dated

\* A pass that a gate will stop stays so while it walks on towards it.
LEMMA WayStays ==
  ASSUME NEW k \in Lane, World, GivesWay(k), pass'[k].delivery = pass[k].delivery,
         pass'[k].evaluated = pass[k].evaluated, pass'[k].at # "send"
  PROVE  GivesWay(k)'
BY DEF World, github, GivesWay, Refusable

\* What another lane has asked holds as it did.
LEMMA LaneKeepsAnswers ==
  ASSUME NEW k \in Lane, NEW then, Asking, World, OnlyMoves(k, then), OnlyForgets(k),
         NobodyHolds(k)', CountsLess(k)', NothingDenies(k)'
  PROVE  Asking'
<1>1. assignees' = assignees /\ labels' = labels /\ timeline' = timeline
  BY DEF World, github
<1>2. ASSUME NEW j \in Lane, j # k
      PROVE  NobodyHolds(j)' /\ CountsLess(j)' /\ NothingDenies(j)'
  <2>1. pass'[j] = pass[j] /\ stale'[j] = stale[j]
    BY <1>2 DEF OnlyMoves, OnlyForgets
  <2>2. NobodyHolds(j) /\ CountsLess(j) /\ NothingDenies(j)
    BY DEF Asking
  <2> GivesWay(j) => GivesWay(j)'
    BY <1>1, <2>1 DEF GivesWay, Refusable
  <2>3. NobodyHolds(j)'
    BY <1>1, <2>1, <2>2 DEF NobodyHolds, Claiming, Idle
  <2>4. CountsLess(j)'
    BY <1>1, <2>1, <2>2 DEF CountsLess, Claiming, Idle, Held
  <2>5. NothingDenies(j)'
    BY <1>1, <2>1, <2>2 DEF NothingDenies, Claiming, Idle
  <2> QED BY <2>3, <2>4, <2>5
<1> QED BY <1>2 DEF Asking

\* An idle lane has asked nothing.
LEMMA IdleAsksNothing ==
  ASSUME NEW k \in Lane, pass'[k] = Idle
  PROVE  NobodyHolds(k)' /\ CountsLess(k)' /\ NothingDenies(k)'
BY DEF NobodyHolds, CountsLess, NothingDenies, Claiming, Idle

\* A release is as pending as before where its own pass goes on with it or has done it,
\* and no claim before it gets past.
LEMMA LaneKeepsReleases ==
  ASSUME NEW k \in Lane, NEW then, Released, World, OnlyMoves(k, then),
         failures' = 0 => failures = 0,
         \A i \in Issue : Stands(i) /\ Carries(pass[k], i) /\ failures' = 0 =>
           Newest(i).by \notin assignees[i] \/ Carries(then, i),
         \A i \in Issue : Stands(i) /\ Overtaken(pass[k], i) => Overtaken(then, i)
  PROVE  Released'
<1>1. /\ timeline' = timeline /\ labels' = labels /\ assignees' = assignees
      /\ inbox' = inbox /\ disturbed' = disturbed
  BY DEF World, github
<1>2. ASSUME failures' = 0, NEW i \in Issue, Stands(i)'
      PROVE  Pending(i)' /\ \A j \in Lane : Overtaken(pass[j], i)'
  <2>1. Stands(i)
    BY <1>1, <1>2 DEF Stands, ReleaseIsNewest
  <2>2. Pending(i) /\ \A j \in Lane : Overtaken(pass[j], i)
    BY <1>2, <2>1 DEF Released
  <2>3. Newest(i)' = Newest(i)
    BY <1>1 DEF Newest
  <2>4. \A d : IsRelease(d, i)' <=> IsRelease(d, i)
    BY <1>1, <2>3 DEF IsRelease
  <2>5. \A p : Carries(p, i)' <=> Carries(p, i)
    BY <1>1, <2>4 DEF Carries, Idle
  <2>6. \A p : Overtaken(p, i)' <=> Overtaken(p, i)
    BY <2>3 DEF Overtaken, IsEarlier, Idle
  <2>7. Newest(i).by \notin assignees[i] \/ (\E d \in inbox : IsRelease(d, i))
        \/ \E j \in Lane : Carries(pass'[j], i)
    BY <1>2, <2>1, <2>2 DEF Pending, OnlyMoves
  <2>8. Pending(i)'
    <3>1. (Newest(i).by)' = Newest(i).by
      BY <2>3
    <3> QED BY <1>1, <2>3, <2>4, <2>5, <2>7 DEF Pending
  <2>9. \A j \in Lane : Overtaken(pass'[j], i)
    BY <2>1, <2>2 DEF OnlyMoves
  <2>10. \A j \in Lane : Overtaken(pass[j], i)'
    BY <1>1, <2>3, <2>9 DEF Overtaken, IsEarlier, Idle
  <2> QED BY <2>8, <2>10
<1> QED BY <1>2 DEF Released

\* The types of a lane's step.
LEMMA LaneKeepsTypes ==
  ASSUME NEW k \in Lane, NEW then, Typed, World, OnlyMoves(k, then), failures' \in Nat,
         stale' = stale \/ \E s \in SUBSET {"holders", "count", "gate"} :
                             stale' = [stale EXCEPT ![k] = @ \ s]
  PROVE  Typed' /\ OnlyForgets(k) /\ stale'[k] \subseteq stale[k]
<1>1. stale \in [Lane -> SUBSET {"holders", "count", "gate"}]
  BY DEF Typed
<1>2. /\ stale' \in [Lane -> SUBSET {"holders", "count", "gate"}]
      /\ OnlyForgets(k) /\ stale'[k] \subseteq stale[k]
  BY <1>1 DEF OnlyForgets
<1> QED BY <1>2 DEF Typed, World, github, OnlyMoves

\* A question or a gate that fails ends the pass.
LEMMA FailsStep ==
  ASSUME NEW k \in Lane, ClaimsInv, Fails(k)
  PROVE  ClaimsInv'
<1>1. World /\ Stops(k) /\ failures' = failures + 1 /\ stale' = stale /\ failures \in Nat
  BY DEF Fails, ClaimsInv, Typed
<1>2. OnlyMoves(k, Idle)
  BY <1>1, StopsHere DEF ClaimsInv
<1>3. Typed' /\ OnlyForgets(k)
  BY <1>1, <1>2, LaneKeepsTypes DEF ClaimsInv
<1>4. Dated'
  BY <1>1, <1>2, LaneKeepsDates DEF ClaimsInv
<1>5. Asking'
  BY <1>1, <1>2, <1>3, IdleAsksNothing, LaneKeepsAnswers DEF ClaimsInv, OnlyMoves
<1>6. Released'
  BY <1>1 DEF Released
<1> QED BY <1>3, <1>4, <1>5, <1>6 DEF ClaimsInv

\* A pass that stops without a failure: what it leaves, where it carried no release that
\* is still to be done.
LEMMA StopStep ==
  ASSUME NEW k \in Lane, ClaimsInv, World, Stops(k), failures' = failures,
         stale' = stale \/ \E s \in SUBSET {"holders", "count", "gate"} :
                             stale' = [stale EXCEPT ![k] = @ \ s],
         \A i \in Issue : Stands(i) /\ Carries(pass[k], i) => Newest(i).by \notin assignees[i]
  PROVE  ClaimsInv'
<1>1. OnlyMoves(k, Idle)
  BY StopsHere DEF ClaimsInv
<1>2. Typed' /\ OnlyForgets(k)
  BY <1>1, LaneKeepsTypes DEF ClaimsInv, Typed
<1>3. Dated'
  BY <1>1, LaneKeepsDates DEF ClaimsInv
<1>4. Asking'
  BY <1>1, <1>2, IdleAsksNothing, LaneKeepsAnswers DEF ClaimsInv, OnlyMoves
<1>5. \A i \in Issue : Overtaken(Idle, i)
  BY DEF Overtaken, IsEarlier
<1>6. Released'
  BY <1>1, <1>5, LaneKeepsReleases DEF ClaimsInv
<1> QED BY <1>2, <1>3, <1>4, <1>6 DEF ClaimsInv

\* A pass that goes on without a failure.
LEMMA GoStep ==
  ASSUME NEW k \in Lane, ClaimsInv, World, pass[k] # Idle, NEW then \in Walks,
         OnlyMoves(k, then), failures' = failures,
         then.delivery = pass[k].delivery, then.evaluated = pass[k].evaluated,
         stale' = stale \/ \E s \in SUBSET {"holders", "count", "gate"} :
                             stale' = [stale EXCEPT ![k] = @ \ s],
         NobodyHolds(k)', CountsLess(k)', NothingDenies(k)',
         \A i \in Issue : Stands(i) /\ Carries(pass[k], i) =>
           Newest(i).by \notin assignees[i] \/ Carries(then, i),
         \A i \in Issue : Stands(i) /\ Overtaken(pass[k], i) => Overtaken(then, i)
  PROVE  ClaimsInv'
<1>1. Typed' /\ OnlyForgets(k)
  BY LaneKeepsTypes DEF ClaimsInv, Typed
<1>2. Dated'
  BY LaneKeepsDates DEF ClaimsInv
<1>3. Asking'
  BY <1>1, LaneKeepsAnswers DEF ClaimsInv
<1>4. Released'
  BY LaneKeepsReleases DEF ClaimsInv
<1> QED BY <1>1, <1>2, <1>3, <1>4 DEF ClaimsInv

\* A pass goes on to another place with what it has seen before.
LEMMA PlaceStep ==
  ASSUME NEW k \in Lane, ClaimsInv, World, pass[k] # Idle, NEW place \in Places,
         Goes(k, place), failures' = failures,
         stale' = stale \/ \E s \in SUBSET {"holders", "count", "gate"} :
                             stale' = [stale EXCEPT ![k] = @ \ s],
         NobodyHolds(k)', CountsLess(k)', NothingDenies(k)',
         place \notin {"counting", "seen"} \/ pass[k].delivery.command = "assign",
         place \in {"gate", "send"} => \A i \in Issue :
           Stands(i) /\ IsEarlier(pass[k], i) /\ Overtaken(pass[k], i) =>
             place = "gate" /\ pass[k].evaluated <= Newest(i).at,
         place # "seen"
  PROVE  ClaimsInv'
<1> DEFINE then == [pass[k] EXCEPT !.at = place]
<1>1. /\ OnlyMoves(k, then) /\ pass'[k] = then /\ then \in Walks
      /\ then.at = place /\ then.delivery = pass[k].delivery
      /\ then.evaluated = pass[k].evaluated /\ then.seen = pass[k].seen
  BY GoesOn DEF ClaimsInv, OnlyMoves
<1>2. then # Idle
  BY <1>1 DEF Idle, Places
<1> HIDE DEF then
<1>3. \A i \in Issue : Carries(pass[k], i) => Carries(then, i)
  BY <1>1, <1>2 DEF Carries, IsRelease
<1>4. \A i \in Issue : Stands(i) /\ Overtaken(pass[k], i) => Overtaken(then, i)
  <2>1. SUFFICES ASSUME NEW i \in Issue, Stands(i), Overtaken(pass[k], i), IsEarlier(then, i)
                 PROVE  /\ then.at # "send"
                        /\ then.at \in {"gate", "seen"} => then.evaluated <= Newest(i).at
    BY DEF Overtaken
  <2>2. IsEarlier(pass[k], i)
    BY <1>1, <2>1 DEF IsEarlier
  <2> QED BY <1>1, <2>1, <2>2
<1> QED BY <1>1, <1>3, <1>4, GoStep

-----------------------------------------------------------------------------
(* The walk of a pass, place by place.                                     *)

\* What a pass is about.
LEMMA PassFacts ==
  ASSUME NEW k \in Lane, ClaimsInv, pass[k] # Idle
  PROVE  /\ pass[k] \in Walks /\ pass[k].delivery \in Delivered /\ pass[k].evaluated \in Nat
         /\ pass[k].delivery.issue \in Issue /\ pass[k].delivery.by \in Login
         /\ pass[k].delivery.command \in {"assign", "unassign"}
         /\ pass[k].delivery.labels \subseteq Meaning /\ pass[k].delivery.at \in Nat
         /\ Logged(pass[k].delivery) /\ pass[k].delivery.at <= pass[k].evaluated
<1>1. pass[k] \in Walks /\ pass[k].delivery \in Delivered /\ pass[k].evaluated \in Nat
  BY WalkFacts DEF ClaimsInv
<1>2. Logged(pass[k].delivery) /\ pass[k].delivery.at <= pass[k].evaluated
  BY DEF ClaimsInv, Dated
<1> QED BY <1>1, <1>2 DEF Delivered

\* Who holds the issue is asked: a claim goes on where nobody does, a release where its author
\* does.
LEMMA AsksHoldersStep ==
  ASSUME NEW k \in Lane, ClaimsInv, AsksHolders(k)
  PROVE  ClaimsInv'
<1> DEFINE d == pass[k].delivery
           goes == IF d.command = "assign" THEN AssignGoes(d) ELSE UnassignGoes(d)
<1>1. /\ pass[k].at = "holders" /\ World /\ failures' = failures
      /\ stale' = [stale EXCEPT ![k] = @ \ {"holders"}]
      /\ IF goes = "idle" THEN Stops(k) ELSE Goes(k, goes)
  BY DEF AsksHolders, Is
<1>2. pass[k] # Idle
  BY <1>1 DEF Idle
<1>3. d.command \in {"assign", "unassign"}
  BY <1>2, PassFacts
<1>4. CASE goes = "idle"
  <2>1. ASSUME NEW i \in Issue, Carries(pass[k], i)
        PROVE  Newest(i).by \notin assignees[i]
    <3>1. d.command = "unassign" /\ d.issue = i /\ d.by = Newest(i).by
      BY <2>1 DEF Carries, IsRelease
    <3>2. UnassignGoes(d) = "idle"
      BY <1>4, <3>1
    <3> QED BY <3>1, <3>2 DEF UnassignGoes, Holders
  <2> HIDE DEF goes, d
  <2> QED BY <1>1, <1>4, <2>1, StopStep
<1>5. CASE goes # "idle"
  <2>1. goes \in {"counting", "judging"} /\ goes \in Places
        /\ (goes = "counting" => d.command = "assign")
    BY <1>3, <1>5 DEF AssignGoes, UnassignGoes, Places
  <2>2. d.command = "assign" =>
          assignees[d.issue] = {} /\ (goes = "judging" => ~(MaxOpen > 0))
    BY <1>5 DEF AssignGoes, Holders
  <2> HIDE DEF goes
  <2>3. pass'[k].at = goes /\ pass'[k].delivery = d
    BY <1>1, <1>2, <1>5, <2>1, GoesOn DEF ClaimsInv
  <2>4. assignees' = assignees
    BY <1>1 DEF World, github
  <2>5. NobodyHolds(k)'
    BY <2>2, <2>3, <2>4 DEF NobodyHolds, Claiming
  <2>6. CountsLess(k)'
    BY <2>1, <2>2, <2>3 DEF CountsLess, Claiming
  <2>7. NothingDenies(k)'
    BY <2>1, <2>3 DEF NothingDenies
  <2> HIDE DEF d
  <2>8. goes \notin {"gate", "send", "seen"}
    BY <2>1
  <2> QED BY <1>1, <1>2, <1>5, <2>1, <2>5, <2>6, <2>7, <2>8, PlaceStep DEF d
<1> QED BY <1>4, <1>5

\* The author's open work is counted: the claim goes on below the cap.
LEMMA AsksOpenStep ==
  ASSUME NEW k \in Lane, ClaimsInv, AsksOpen(k)
  PROVE  ClaimsInv'
<1> DEFINE d == pass[k].delivery
<1>1. /\ pass[k].at = "counting" /\ World /\ failures' = failures
      /\ stale' = [stale EXCEPT ![k] = @ \ {"count"}]
      /\ IF UnderCap(d.by) THEN Goes(k, "judging") ELSE Stops(k)
  BY DEF AsksOpen, Is
<1>2. pass[k] # Idle
  BY <1>1 DEF Idle
<1>3. CASE ~UnderCap(d.by)
  <2>1. \A i \in Issue : ~Carries(pass[k], i)
    BY <1>1 DEF Carries
  <2> QED BY <1>1, <1>3, <2>1, StopStep
<1>4. CASE UnderCap(d.by)
  <2>1. /\ pass'[k].at = "judging" /\ pass'[k].delivery = d
        /\ pass'[k].evaluated = pass[k].evaluated
    BY <1>1, <1>2, <1>4, GoesOn DEF ClaimsInv, Places
  <2> GivesWay(k) => GivesWay(k)'
    BY <1>1, <2>1, WayStays
  <2>2. assignees' = assignees /\ labels' = labels
    BY <1>1 DEF World, github
  <2>3. stale \in [Lane -> SUBSET {"holders", "count", "gate"}]
    BY DEF ClaimsInv, Typed
  <2>4. NobodyHolds(k)'
    <3>1. NobodyHolds(k)
      BY DEF ClaimsInv, Asking
    <3>2. "holders" \in stale[k] => "holders" \in stale'[k]
      BY <1>1, <2>3
    <3> QED BY <1>1, <1>2, <2>1, <2>2, <3>1, <3>2 DEF NobodyHolds, Claiming
  <2>5. CountsLess(k)'
    BY <1>4, <2>1, <2>2 DEF CountsLess, UnderCap, Held
  <2>6. NothingDenies(k)'
    BY <2>1 DEF NothingDenies
  <2> QED BY <1>1, <1>2, <1>4, <2>4, <2>5, <2>6, PlaceStep DEF Places
<1> QED BY <1>3, <1>4

\* The evaluation: an older claim stops here, the newest release goes on.
LEMMA JudgesStep ==
  ASSUME NEW k \in Lane, ClaimsInv, Judges(k)
  PROVE  ClaimsInv'
<1> DEFINE d == pass[k].delivery
<1>1. /\ pass[k].at = "judging" /\ World /\ failures' = failures /\ stale' = stale
      /\ IF Ladder(d, d.labels, d.at) = "apply" THEN Goes(k, "gate") ELSE Stops(k)
  BY DEF Judges, Is
<1>2. pass[k] # Idle
  BY <1>1 DEF Idle
<1>3. /\ d \in Delivered /\ d.labels \in SUBSET Meaning /\ d.at \in Nat /\ Logged(d)
      /\ Typed /\ Dated
  BY <1>2, PassFacts DEF ClaimsInv
<1>4. CASE Ladder(d, d.labels, d.at) # "apply"
  <2>1. ASSUME NEW i \in Issue, Stands(i), Carries(pass[k], i)
        PROVE  FALSE
    <3>1. IsRelease(d, i) /\ d.labels = labels[i] /\ ReleaseIsNewest(i) /\ Clear(labels[i])
      BY <2>1 DEF Stands, Carries, IsRelease
    <3> HIDE DEF d
    <3>2. Ladder(d, labels[i], d.at) = "apply"
      BY <1>3, <3>1, ReleaseGoes
    <3> QED BY <1>4, <3>1, <3>2
  <2> QED BY <1>1, <1>4, <2>1, StopStep
<1>5. CASE Ladder(d, d.labels, d.at) = "apply"
  <2>1. /\ pass'[k].at = "gate" /\ pass'[k].delivery = d
        /\ pass'[k].evaluated = pass[k].evaluated
    BY <1>1, <1>2, <1>5, GoesOn DEF ClaimsInv, Places
  <2> GivesWay(k) => GivesWay(k)'
    BY <1>1, <2>1, WayStays
  <2>2. assignees' = assignees /\ labels' = labels
    BY <1>1 DEF World, github
  <2>3. NobodyHolds(k) /\ CountsLess(k)
    BY DEF ClaimsInv, Asking
  <2>4. NobodyHolds(k)'
    BY <1>1, <1>2, <2>1, <2>2, <2>3 DEF NobodyHolds, Claiming
  <2>5. CountsLess(k)'
    BY <1>1, <1>2, <2>1, <2>2, <2>3 DEF CountsLess, Claiming, Held
  <2>6. NothingDenies(k)'
    BY <2>1 DEF NothingDenies
  <2>7. ASSUME NEW i \in Issue, Stands(i), IsEarlier(pass[k], i)
        PROVE  FALSE
    <3>1. d.issue = i /\ d.command = "assign" /\ ReleaseIsNewest(i)
      BY <2>7 DEF Stands, IsEarlier
    <3> HIDE DEF d
    <3>2. d.at < Newest(i).at /\ Newest(i).at < d.at
      BY <1>3, <1>5, <3>1, ClaimIsEarlier
    <3>3. Newest(i).at \in Nat
      BY <1>3, <3>1, NewestEntry
    <3> QED BY <1>3, <3>2, <3>3
  <2> QED BY <1>1, <1>2, <1>5, <2>4, <2>5, <2>6, <2>7, PlaceStep DEF Places
<1> QED BY <1>4, <1>5

\* The gate reads what the issue shows by now.
LEMMA GateReadsStep ==
  ASSUME NEW k \in Lane, ClaimsInv, GateReads(k)
  PROVE  ClaimsInv'
<1> DEFINE d == pass[k].delivery
           then == [pass[k] EXCEPT !.at = "seen", !.seen = labels[d.issue]]
<1>1. /\ pass[k].at = "gate" /\ World /\ failures' = failures
      /\ stale' = [stale EXCEPT ![k] = @ \ {"gate"}]
      /\ pass' = [pass EXCEPT ![k].at = "seen", ![k].seen = labels[d.issue]]
  BY DEF GateReads, Is
<1>2. pass[k] # Idle
  BY <1>1 DEF Idle
<1>3. pass[k] \in Walks /\ d.issue \in Issue
  BY <1>2, PassFacts
<1>4. /\ pass \in [Lane -> Walks \cup {Idle}] /\ labels[d.issue] \subseteq Meaning
      /\ stale \in [Lane -> SUBSET {"holders", "count", "gate"}]
  BY <1>3 DEF ClaimsInv, Typed
<1>5. then \in Walks
  BY <1>3, <1>4 DEF Walks, Places
<1>6. /\ then.at = "seen" /\ then.seen = labels[d.issue]
      /\ then.delivery = d /\ then.evaluated = pass[k].evaluated
  BY <1>3 DEF Walks
<1>7. pass' = [pass EXCEPT ![k] = then]
  BY <1>1, <1>4
<1> HIDE DEF then
<1>8. OnlyMoves(k, then) /\ pass'[k] = then
  BY <1>4, <1>5, <1>7 DEF OnlyMoves
<1>9. assignees' = assignees /\ labels' = labels
  BY <1>1 DEF World, github
<1>10. /\ "holders" \in stale[k] => "holders" \in stale'[k]
       /\ "count" \in stale[k] => "count" \in stale'[k]
  BY <1>1, <1>4
<1>11. NobodyHolds(k) /\ CountsLess(k)
  BY DEF ClaimsInv, Asking
<1> GivesWay(k) => GivesWay(k)'
  BY <1>1, <1>6, <1>8, WayStays
<1>12. NobodyHolds(k)'
  BY <1>1, <1>2, <1>6, <1>8, <1>9, <1>10, <1>11 DEF NobodyHolds, Claiming
<1>13. CountsLess(k)'
  BY <1>1, <1>2, <1>6, <1>8, <1>9, <1>10, <1>11 DEF CountsLess, Claiming, Held
<1>14. NothingDenies(k)'
  BY <1>6, <1>8, <1>9 DEF NothingDenies
<1>15. then # Idle
  BY <1>6 DEF Idle
<1>16. \A i \in Issue : Carries(pass[k], i) => Carries(then, i)
  BY <1>6, <1>15 DEF Carries, IsRelease
<1>17. \A i \in Issue : Overtaken(pass[k], i) => Overtaken(then, i)
  BY <1>1, <1>2, <1>6 DEF Overtaken, IsEarlier
<1> HIDE DEF d
<1> QED BY <1>1, <1>2, <1>5, <1>6, <1>8, <1>12, <1>13, <1>14, <1>16, <1>17, GoStep DEF d

\* The gate: no claim evaluated before a release gets past it, the release itself does.
LEMMA GateJudgesStep ==
  ASSUME NEW k \in Lane, ClaimsInv, GateJudges(k)
  PROVE  ClaimsInv'
<1> DEFINE d == pass[k].delivery
           since == pass[k].evaluated
           shown == pass[k].seen
<1>1. /\ pass[k].at = "seen" /\ World /\ failures' = failures /\ stale' = stale
      /\ IF Ladder(d, shown, since) = "apply" THEN Goes(k, "send") ELSE Stops(k)
  BY DEF GateJudges, Is, Since
<1>2. pass[k] # Idle
  BY <1>1 DEF Idle
<1>3. /\ d \in Delivered /\ since \in Nat /\ Logged(d) /\ Typed /\ Dated /\ d.at <= since
  BY <1>2, PassFacts DEF ClaimsInv
<1>4. shown \in SUBSET Meaning
  BY <1>2, PassFacts DEF Walks
<1>5. CASE Ladder(d, shown, since) # "apply"
  <2>1. ASSUME NEW i \in Issue, Stands(i), Carries(pass[k], i)
        PROVE  FALSE
    <3>1. IsRelease(d, i) /\ shown = labels[i] /\ ReleaseIsNewest(i) /\ Clear(labels[i])
      BY <1>1, <2>1 DEF Stands, Carries, IsRelease
    <3> HIDE DEF d, since, shown
    <3>2. Ladder(d, labels[i], since) = "apply"
      BY <1>3, <3>1, ReleaseGoes
    <3> QED BY <1>5, <3>1, <3>2
  <2> QED BY <1>1, <1>5, <2>1, StopStep
<1>6. CASE Ladder(d, shown, since) = "apply"
  <2>1. pass'[k].at = "send" /\ pass'[k].delivery = d
    BY <1>1, <1>2, <1>6, GoesOn DEF ClaimsInv, Places
  <2>2. assignees' = assignees /\ labels' = labels
    BY <1>1 DEF World, github
  <2>3. NobodyHolds(k) /\ CountsLess(k) /\ NothingDenies(k)
    BY DEF ClaimsInv, Asking
  <2> ~GivesWay(k)
    <3> HIDE DEF d, since, shown
    <3>1. ~NewerHumanChange(HumanAt(d), since)
      BY <1>3, <1>4, <1>6, LadderApplies
    <3>2. \A n \in 1..Len(timeline[d.issue]) : timeline[d.issue][n].kind # "commented" =>
            ~(SecondOf(since) <= SecondOf(timeline[d.issue][n].at))
      BY <1>3, <3>1, NobodyRefuses
    <3> QED BY <3>2 DEF GivesWay, Refusable, d, since
  <2>4. NobodyHolds(k)'
    BY <1>1, <1>2, <2>1, <2>2, <2>3 DEF NobodyHolds, Claiming
  <2>5. CountsLess(k)'
    BY <1>1, <1>2, <2>1, <2>2, <2>3 DEF CountsLess, Claiming, Held
  <2>6. NothingDenies(k)'
    <3>1. d.command = "assign" => shown \cap Denies = {}
      <4> HIDE DEF d, since, shown
      <4> QED BY <1>3, <1>4, <1>6, LadderApplies
    <3>2. "gate" \notin stale[k] => shown = labels[d.issue]
      BY <1>1, <1>2, <2>3 DEF NothingDenies
    <3> QED BY <1>1, <2>1, <2>2, <3>1, <3>2 DEF NothingDenies, Claiming
  <2>7. ASSUME NEW i \in Issue, Stands(i), IsEarlier(pass[k], i), Overtaken(pass[k], i)
        PROVE  FALSE
    <3>1. d.issue = i /\ d.command = "assign" /\ ReleaseIsNewest(i) /\ since <= Newest(i).at
      BY <1>1, <2>7 DEF Stands, IsEarlier, Overtaken
    <3> HIDE DEF d, since, shown
    <3>2. Newest(i).at < since
      BY <1>3, <1>4, <1>6, <3>1, ClaimIsEarlier
    <3>3. Newest(i).at \in Nat
      BY <1>3, <3>1, NewestEntry
    <3> QED BY <1>3, <3>1, <3>2, <3>3
  <2> QED BY <1>1, <1>2, <1>6, <2>4, <2>5, <2>6, <2>7, PlaceStep DEF Places
<1> QED BY <1>5, <1>6

-----------------------------------------------------------------------------
(* Steps that change more than a pass.                                     *)

\* An issue nothing was done to, its labels as they were: the same release is its newest
\* change, carried and overtaken by the same passes.
LEMMA SameIssue ==
  ASSUME NEW i \in Issue, timeline'[i] = timeline[i], labels'[i] = labels[i],
         disturbed \subseteq disturbed'
  PROVE  /\ Stands(i)' => Stands(i)
         /\ Newest(i)' = Newest(i)
         /\ \A d : IsRelease(d, i)' <=> IsRelease(d, i)
         /\ \A p : Carries(p, i)' <=> Carries(p, i)
         /\ \A p : Overtaken(p, i)' <=> Overtaken(p, i)
<1>1. Stands(i)' => Stands(i)
  BY DEF Stands, ReleaseIsNewest
<1>2. Newest(i)' = Newest(i)
  BY DEF Newest
<1>3. \A d : IsRelease(d, i)' <=> IsRelease(d, i)
  BY <1>2 DEF IsRelease
<1>4. \A p : Carries(p, i)' <=> Carries(p, i)
  BY <1>3 DEF Carries, Idle
<1>5. \A p : Overtaken(p, i)' <=> Overtaken(p, i)
  BY <1>2 DEF Overtaken, IsEarlier, Idle
<1> QED BY <1>1, <1>2, <1>3, <1>4, <1>5

\* What was pending of such an issue still is, where the passes stay and who was taken off
\* is not put back.
LEMMA IssueStays ==
  ASSUME NEW i \in Issue, timeline'[i] = timeline[i], labels'[i] = labels[i],
         disturbed \subseteq disturbed', inbox \subseteq inbox', pass' = pass,
         Released, failures = 0, assignees'[i] = assignees[i], Stands(i)'
  PROVE  Pending(i)' /\ \A k \in Lane : Overtaken(pass[k], i)'
<1>1. /\ Stands(i) /\ Newest(i)' = Newest(i)
      /\ \A d : IsRelease(d, i)' <=> IsRelease(d, i)
      /\ \A p : Carries(p, i)' <=> Carries(p, i)
      /\ \A p : Overtaken(p, i)' <=> Overtaken(p, i)
  BY SameIssue
<1>2. Pending(i) /\ \A k \in Lane : Overtaken(pass[k], i)
  BY <1>1 DEF Released
<1>3. (Newest(i).by)' = Newest(i).by
  BY <1>1
<1>4. Pending(i)'
  BY <1>1, <1>2, <1>3 DEF Pending
<1>5. \A k \in Lane : Overtaken(pass[k], i)'
  BY <1>1, <1>2 DEF Overtaken, IsEarlier, Idle
<1> QED BY <1>4, <1>5

\* A lane takes a command, whichever: it carries the release on, or a claim from its start.
LEMMA TakesStep ==
  ASSUME NEW k \in Lane, NEW d \in inbox, ClaimsInv, Takes(k, d)
  PROVE  ClaimsInv'
<1> DEFINE then == [at |-> "holders", delivery |-> d, evaluated |-> now, seen |-> {}]
<1>1. /\ pass[k].at = "idle" /\ inbox' = inbox \ {d} /\ pass' = [pass EXCEPT ![k] = then]
      /\ stale' = [stale EXCEPT ![k] = {}]
      /\ assignees' = assignees /\ labels' = labels /\ timeline' = timeline /\ made' = made
      /\ now' = now /\ failures' = failures /\ disturbed' = disturbed
  BY DEF Takes, Is, github
<1>2. d \in Delivered /\ now \in Nat /\ Logged(d)
  BY DEF ClaimsInv, Typed, Dated
<1>3. then \in Walks
  BY <1>2 DEF Walks, Places
<1>4. /\ then.at = "holders" /\ then.delivery = d /\ then.evaluated = now
  OBVIOUS
<1> HIDE DEF then
<1>5. /\ pass' \in [Lane -> Walks \cup {Idle}] /\ pass'[k] = then
      /\ \A j \in Lane : j # k => pass'[j] = pass[j]
      /\ stale' \in [Lane -> SUBSET {"holders", "count", "gate"}]
      /\ \A j \in Lane : j # k => stale'[j] = stale[j]
  BY <1>1, <1>3 DEF ClaimsInv, Typed
<1>6. Typed'
  BY <1>1, <1>5 DEF ClaimsInv, Typed
<1>7. Dated'
  <2>1. \A m : Logged(m)' <=> Logged(m)
    BY <1>1 DEF Logged
  <2>2. (\A i \in Issue : \A m \in 1..Len(timeline[i]) : timeline[i][m].at <= now)'
    BY <1>1 DEF ClaimsInv, Dated
  <2>3. (\A m \in inbox : Logged(m))'
    BY <1>1, <2>1 DEF ClaimsInv, Dated
  <2>4. ASSUME NEW j \in Lane, pass'[j] # Idle
        PROVE  /\ Logged(pass[j].delivery)'
               /\ pass'[j].delivery.at <= pass'[j].evaluated /\ pass'[j].evaluated <= now'
    <3>1. CASE j = k
      <4>1. d.at <= now /\ Logged(d)'
        BY <1>2, <2>1 DEF Logged
      <4> QED BY <1>1, <1>2, <1>4, <1>5, <3>1, <4>1 DEF Logged
    <3>2. CASE j # k
      <4>1. pass'[j] = pass[j] /\ Logged(pass[j].delivery)
            /\ pass[j].delivery.at <= pass[j].evaluated /\ pass[j].evaluated <= now
        BY <1>5, <2>4, <3>2 DEF ClaimsInv, Dated
      <4> QED BY <1>1, <4>1 DEF Logged
    <3> QED BY <3>1, <3>2
  <2>5. (\A j \in Lane : pass[j] # Idle =>
           /\ Logged(pass[j].delivery)
           /\ pass[j].delivery.at <= pass[j].evaluated /\ pass[j].evaluated <= now)'
    BY <2>4 DEF Idle
  <2> QED BY <2>2, <2>3, <2>5 DEF Dated
<1>8. Asking'
  <2>1. ASSUME NEW j \in Lane
        PROVE  NobodyHolds(j)' /\ CountsLess(j)' /\ NothingDenies(j)'
    <3>1. CASE j = k
      BY <1>4, <1>5, <3>1 DEF NobodyHolds, CountsLess, NothingDenies, Claiming
    <3>2. CASE j # k
      <4>1. pass'[j] = pass[j] /\ stale'[j] = stale[j]
            /\ NobodyHolds(j) /\ CountsLess(j) /\ NothingDenies(j)
        BY <1>5, <3>2 DEF ClaimsInv, Asking
      <4>2. GivesWay(j) => GivesWay(j)'
        BY <1>1, <4>1 DEF GivesWay, Refusable
      <4> QED BY <1>1, <4>1, <4>2 DEF NobodyHolds, CountsLess, NothingDenies, Claiming, Held, Idle
    <3> QED BY <3>1, <3>2
  <2> QED BY <2>1 DEF Asking
<1>9. Released'
  <2>1. ASSUME failures' = 0, NEW i \in Issue, Stands(i)'
        PROVE  Pending(i)' /\ \A j \in Lane : Overtaken(pass[j], i)'
    <3>1. /\ Stands(i) /\ Newest(i)' = Newest(i)
          /\ \A m : IsRelease(m, i)' <=> IsRelease(m, i)
          /\ \A p : Carries(p, i)' <=> Carries(p, i)
          /\ \A p : Overtaken(p, i)' <=> Overtaken(p, i)
      BY <1>1, <2>1, SameIssue
    <3>2. Pending(i) /\ \A j \in Lane : Overtaken(pass[j], i)
      BY <1>1, <2>1, <3>1 DEF ClaimsInv, Released
    <3>3. (Newest(i).by)' = Newest(i).by
      BY <3>1
    <3>4. ASSUME Newest(i).by \notin assignees[i]
          PROVE  Pending(i)'
      BY <1>1, <3>3, <3>4 DEF Pending
    <3>5. ASSUME NEW m \in inbox, IsRelease(m, i)
          PROVE  Pending(i)'
      <4>1. CASE m = d
        <5>1. then # Idle
          BY <1>4 DEF Idle
        <5>2. Carries(then, i)
          BY <1>4, <3>5, <4>1, <5>1 DEF Carries
        <5> QED BY <1>5, <3>1, <5>2 DEF Pending
      <4>2. CASE m # d
        BY <1>1, <3>1, <3>5, <4>2 DEF Pending
      <4> QED BY <4>1, <4>2
    <3>6. ASSUME NEW j \in Lane, Carries(pass[j], i)
          PROVE  Pending(i)'
      <4>1. pass[j] # Idle
        BY <3>6 DEF Carries
      <4>2. pass[k] = Idle
        BY <1>1, WalkFacts DEF ClaimsInv
      <4>3. pass'[j] = pass[j]
        BY <1>5, <4>1, <4>2
      <4>4. Carries(pass'[j], i)
        BY <3>6, <4>3
      <4> QED BY <3>1, <4>4 DEF Pending
    <3>7. Pending(i)'
      BY <3>2, <3>4, <3>5, <3>6 DEF Pending
    <3>8. \A j \in Lane : Overtaken(pass'[j], i)
      BY <1>4, <1>5, <3>2 DEF Overtaken
    <3>9. \A j \in Lane : Overtaken(pass[j], i)'
      BY <3>1, <3>8 DEF Overtaken, IsEarlier, Idle
    <3> QED BY <3>7, <3>9
  <2> QED BY <2>1 DEF Released
<1> QED BY <1>6, <1>7, <1>8, <1>9 DEF ClaimsInv

\* What stays in the timelines while they grow.
Grows ==
  \A i \in Issue : \A m \in 1..Len(timeline[i]) :
    m \in 1..Len(timeline'[i]) /\ timeline'[i][m] = timeline[i][m]

\* A change a person makes is the newest entry of its issue, dated now.
LEMMA DoesFacts ==
  ASSUME NEW i \in Issue, NEW kind, NEW by, NEW what, Typed, Does(i, kind, by, what),
         [kind |-> kind, by |-> by, at |-> now, what |-> what] \in Entry
  PROVE  /\ timeline' \in [Issue -> Seq(Entry)] /\ made' \in Nat /\ Grows
         /\ \A j \in Issue : j # i => timeline'[j] = timeline[j]
         /\ Len(timeline'[i]) = Len(timeline[i]) + 1 /\ Len(timeline[i]) \in Nat
         /\ timeline'[i][Len(timeline'[i])] = [kind |-> kind, by |-> by, at |-> now, what |-> what]
<1> DEFINE entry == [kind |-> kind, by |-> by, at |-> now, what |-> what]
<1>1. timeline' = [timeline EXCEPT ![i] = Append(@, entry)] /\ made' = made + 1
  BY DEF Does
<1>2. timeline \in [Issue -> Seq(Entry)] /\ made \in Nat /\ timeline[i] \in Seq(Entry)
  BY DEF Typed
<1>3. entry \in Entry
  OBVIOUS
<1> HIDE DEF entry
<1>4. /\ timeline'[i] = Append(timeline[i], entry)
      /\ \A j \in Issue : j # i => timeline'[j] = timeline[j]
  BY <1>1, <1>2
<1>5. /\ Append(timeline[i], entry) \in Seq(Entry)
      /\ Len(Append(timeline[i], entry)) = Len(timeline[i]) + 1
      /\ Append(timeline[i], entry)[Len(timeline[i]) + 1] = entry
      /\ \A m \in 1..Len(timeline[i]) : Append(timeline[i], entry)[m] = timeline[i][m]
  BY <1>2, <1>3
<1>6. timeline' \in [Issue -> Seq(Entry)]
  BY <1>1, <1>2, <1>5
<1>7. Len(timeline[i]) \in Nat
  BY <1>2
<1>8. Grows
  <2>1. SUFFICES ASSUME NEW j \in Issue, NEW m \in 1..Len(timeline[j])
                 PROVE  m \in 1..Len(timeline'[j]) /\ timeline'[j][m] = timeline[j][m]
    BY DEF Grows
  <2>2. CASE j = i
    BY <1>4, <1>5, <1>7, <2>1, <2>2
  <2>3. CASE j # i
    BY <1>4, <2>1, <2>3
  <2> QED BY <2>2, <2>3
<1>9. made' \in Nat
  BY <1>1, <1>2
<1> QED BY <1>4, <1>5, <1>6, <1>7, <1>8, <1>9 DEF entry

\* The dates stay in order while the timelines grow and the clock goes on.
LEMMA GrowthKeepsDates ==
  ASSUME Typed, Dated, Grows, now' \in Nat, now <= now', pass' = pass,
         (\A i \in Issue : \A m \in 1..Len(timeline[i]) : timeline[i][m].at <= now)',
         \A d \in inbox' : d \in inbox \/ Logged(d)'
  PROVE  Dated'
<1>1. now \in Nat
  BY DEF Typed
<1>2. ASSUME NEW d \in Delivered, Logged(d)
      PROVE  Logged(d)'
  <2>1. d.at \in Nat /\ d.issue \in Issue
    BY DEF Delivered
  <2>2. d.at <= now'
    BY <1>1, <1>2, <2>1 DEF Logged
  <2>3. PICK m \in 1..Len(timeline[d.issue]) :
         /\ timeline[d.issue][m].kind = "commented" /\ timeline[d.issue][m].by = d.by
         /\ timeline[d.issue][m].at = d.at /\ timeline[d.issue][m].what = d.command
    BY <1>2 DEF Logged
  <2>4. m \in 1..Len(timeline'[d.issue]) /\ timeline'[d.issue][m] = timeline[d.issue][m]
    BY <2>1 DEF Grows
  <2> QED BY <2>2, <2>3, <2>4 DEF Logged
<1>3. (\A d \in inbox : Logged(d))'
  <2>1. \A d \in inbox : d \in Delivered /\ Logged(d)
    BY DEF Typed, Dated
  <2>2. \A d \in inbox' : Logged(d)'
    BY <1>2, <2>1
  <2> QED BY <2>2
<1>4. ASSUME NEW k \in Lane, pass[k] # Idle
      PROVE  /\ Logged(pass[k].delivery)'
             /\ pass[k].delivery.at <= pass[k].evaluated /\ pass[k].evaluated <= now'
  <2>1. /\ pass[k].delivery \in Delivered /\ pass[k].evaluated \in Nat
        /\ Logged(pass[k].delivery) /\ pass[k].delivery.at <= pass[k].evaluated
        /\ pass[k].evaluated <= now
    BY <1>4, WalkFacts DEF Dated
  <2>2. \A d \in Delivered : Logged(d) => Logged(d)'
    BY <1>2
  <2>3. Logged(pass[k].delivery)'
    BY <2>1, <2>2 DEF Logged
  <2> QED BY <1>1, <2>1, <2>3
<1>5. (\A k \in Lane : pass[k] # Idle =>
         /\ Logged(pass[k].delivery)
         /\ pass[k].delivery.at <= pass[k].evaluated /\ pass[k].evaluated <= now)'
  BY <1>4 DEF Idle
<1> QED BY <1>3, <1>5 DEF Dated

\* What a gate will refuse a pass for stays in the timeline.
LEMMA GrowthKeepsWay ==
  ASSUME NEW k \in Lane, Typed, Grows, GivesWay(k), pass[k] # Idle, pass'[k] = pass[k]
  PROVE  GivesWay(k)'
<1> DEFINE i == pass[k].delivery.issue
<1>1. i \in Issue
  BY WalkFacts DEF Delivered
<1>2. PICK n \in 1..Len(timeline[i]) :
        /\ timeline[i][n].kind # "commented"
        /\ SecondOf(pass[k].evaluated) <= SecondOf(timeline[i][n].at)
  BY DEF GivesWay, Refusable
<1>3. n \in 1..Len(timeline'[i]) /\ timeline'[i][n] = timeline[i][n]
  BY <1>1 DEF Grows
<1> QED BY <1>2, <1>3 DEF GivesWay, Refusable

\* What the lanes have asked stays true, is marked as outdated, or is the gate's to see.
LEMMA ChangesAreMarked ==
  ASSUME Typed, Asking, Grows,
         \A k \in Lane : pass'[k] = pass[k] \/ pass'[k] = Idle,
         \A k \in Lane : stale[k] \subseteq stale'[k],
         \A k \in Lane : pass'[k] # Idle =>
           /\ assignees'[pass[k].delivery.issue] = assignees[pass[k].delivery.issue]
                \/ "holders" \in stale'[k] \/ GivesWay(k)'
           /\ labels'[pass[k].delivery.issue] = labels[pass[k].delivery.issue]
                \/ "gate" \in stale'[k] \/ GivesWay(k)'
           /\ (\A login \in Login : login = pass[k].delivery.by => Held(login)' = Held(login))
                \/ "count" \in stale'[k] \/ GivesWay(k)'
  PROVE  Asking'
<1>1. ASSUME NEW k \in Lane, pass'[k] # Idle
      PROVE  NobodyHolds(k)' /\ CountsLess(k)' /\ NothingDenies(k)'
  <2>1. pass'[k] = pass[k] /\ pass[k] # Idle /\ stale[k] \subseteq stale'[k]
    BY <1>1
  <2>2. NobodyHolds(k) /\ CountsLess(k) /\ NothingDenies(k)
    BY DEF Asking
  <2> GivesWay(k) => GivesWay(k)'
    BY <2>1, GrowthKeepsWay
  <2>3. NobodyHolds(k)'
    BY <1>1, <2>1, <2>2 DEF NobodyHolds, Claiming
  <2>4. CountsLess(k)'
    <3>1. pass[k].delivery.by \in Login
      BY <2>1, WalkFacts DEF Delivered
    <3>2. \A login \in Login : login = pass[k].delivery.by /\ "count" \notin stale'[k]
                                    /\ ~GivesWay(k)' =>
            Cardinality(Held(login)') = Cardinality(Held(login))
      BY <1>1
    <3>3. SUFFICES ASSUME Claiming(k)', pass'[k].at \in {"judging", "gate", "seen", "send"},
                          MaxOpen > 0, "count" \notin stale'[k], ~GivesWay(k)'
                   PROVE  (Cardinality(Held(pass[k].delivery.by)) < MaxOpen)'
      BY DEF CountsLess
    <3>4. Cardinality(Held(pass[k].delivery.by)) < MaxOpen
      BY <2>1, <2>2, <3>3 DEF CountsLess, Claiming
    <3> QED BY <2>1, <3>1, <3>2, <3>3, <3>4 DEF Held
  <2>5. NothingDenies(k)'
    <3>1. GivesWay(k)' => pass'[k].at # "send"
      BY DEF GivesWay
    <3> QED BY <1>1, <2>1, <2>2, <3>1 DEF NothingDenies, Claiming
  <2> QED BY <2>3, <2>4, <2>5
<1> QED BY <1>1, IdleAsksNothing DEF Asking

\* What a change outdates.
LEMMA OutdatesFacts ==
  ASSUME NEW i \in Issue, NEW what \in SUBSET {"holders", "count", "gate"}, NEW logins,
         NEW places, Typed, Outdates(i, what, logins, places)
  PROVE  /\ stale' \in [Lane -> SUBSET {"holders", "count", "gate"}]
         /\ \A k \in Lane : stale[k] \subseteq stale'[k]
         /\ \A k \in Lane : pass[k] # Idle =>
              /\ pass[k].delivery.issue = i /\ pass[k].at \in places => what \subseteq stale'[k]
              /\ pass[k].delivery.by \in logins
                   /\ (pass[k].delivery.issue # i \/ pass[k].at \in places) => "count" \in stale'[k]
BY DEF Typed, Outdates

\* A command is written: it is the newest change of its issue and waits to be decided.
LEMMA CommandsStep ==
  ASSUME NEW by \in Login, NEW i \in Issue, NEW command \in {"assign", "unassign"},
         ClaimsInv, Commands(by, i, command)
  PROVE  ClaimsInv'
<1> DEFINE entry == [kind |-> "commented", by |-> by, at |-> now, what |-> command]
           written == [issue |-> i, by |-> by, command |-> command, labels |-> labels[i],
                       at |-> now, id |-> made]
<1>1. /\ Does(i, "commented", by, command) /\ inbox' = inbox \cup {written}
      /\ disturbed' = IF \E k \in Lane : pass[k].at = "send" /\ pass[k].delivery.issue = i
                      THEN disturbed \cup {i} ELSE disturbed
      /\ assignees' = assignees /\ labels' = labels /\ now' = now /\ pass' = pass
      /\ failures' = failures /\ stale' = stale
  BY DEF Commands
<1>2. Typed /\ now \in Nat /\ made \in Nat /\ labels[i] \subseteq Meaning /\ timeline[i] \in Seq(Entry)
  BY DEF ClaimsInv, Typed
<1>3. entry \in Entry /\ written \in Delivered
  BY <1>2 DEF Entry, Delivered
<1> PICK d \in Delivered : d = written
  BY <1>3
<1>4. /\ entry.kind = "commented" /\ entry.by = by /\ entry.at = now /\ entry.what = command
      /\ d.issue = i /\ d.by = by /\ d.command = command /\ d.labels = labels[i] /\ d.at = now
      /\ inbox' = inbox \cup {d}
  BY <1>1
<1>5. /\ timeline' \in [Issue -> Seq(Entry)] /\ made' \in Nat /\ Grows
      /\ \A j \in Issue : j # i => timeline'[j] = timeline[j]
      /\ Len(timeline'[i]) = Len(timeline[i]) + 1 /\ Len(timeline[i]) \in Nat
      /\ timeline'[i][Len(timeline'[i])] = entry
  BY <1>1, <1>2, <1>3, DoesFacts
<1> HIDE DEF entry, written
<1>6. Typed'
  BY <1>1, <1>3, <1>5, <1>4 DEF ClaimsInv, Typed
<1>7. Dated'
  <2>1. (\A j \in Issue : \A m \in 1..Len(timeline[j]) : timeline[j][m].at <= now)'
    <3>1. SUFFICES ASSUME NEW j \in Issue, NEW m \in 1..Len(timeline'[j])
                   PROVE  timeline'[j][m].at <= now
      BY <1>1
    <3>2. CASE j = i /\ m = Len(timeline'[i])
      BY <1>2, <1>4, <1>5, <3>2
    <3>3. CASE ~(j = i /\ m = Len(timeline'[i]))
      <4>1. m \in 1..Len(timeline[j])
        BY <1>5, <3>1, <3>3
      <4>2. timeline'[j][m] = timeline[j][m]
        BY <1>5, <4>1 DEF Grows
      <4> QED BY <4>1, <4>2 DEF ClaimsInv, Dated
    <3> QED BY <3>2, <3>3
  <2>2. Logged(d)'
    BY <1>1, <1>2, <1>4, <1>5 DEF Logged
  <2>3. \A other \in inbox' : other \in inbox \/ Logged(other)'
    BY <1>4, <2>2
  <2> QED BY <1>1, <1>2, <1>5, <2>1, <2>3, GrowthKeepsDates DEF ClaimsInv
<1>8. Asking'
  BY <1>1, <1>5, ChangesAreMarked DEF ClaimsInv, Held
<1>9. Released'
  <2>1. ASSUME failures' = 0, NEW j \in Issue, Stands(j)', j # i
        PROVE  Pending(j)' /\ \A k \in Lane : Overtaken(pass[k], j)'
    BY <1>1, <1>5, <2>1, IssueStays DEF ClaimsInv
  <2>2. ASSUME Stands(i)'
        PROVE  Pending(i)' /\ \A k \in Lane : Overtaken(pass[k], i)'
    <3>1. Newest(i)' = entry
      BY <1>5 DEF Newest
    <3>2. command = "unassign"
      BY <1>4, <1>5, <2>2 DEF Stands, ReleaseIsNewest
    <3>3. IsRelease(d, i)'
      BY <1>1, <1>4, <3>1, <3>2 DEF IsRelease
    <3>4. Pending(i)'
      BY <1>4, <3>3 DEF Pending
    <3>5. ASSUME NEW k \in Lane, IsEarlier(pass[k], i)'
          PROVE  /\ pass[k].at # "send"
                 /\ pass[k].at \in {"gate", "seen"} => pass[k].evaluated <= now
      <4>1. pass[k] # Idle /\ pass[k].delivery.issue = i
        BY <1>1, <3>5 DEF IsEarlier, Idle
      <4>2. pass[k].evaluated <= now
        BY <4>1 DEF ClaimsInv, Dated
      <4>3. i \notin disturbed'
        BY <2>2 DEF Stands
      <4> QED BY <1>1, <4>1, <4>2, <4>3
    <3>6. \A k \in Lane : Overtaken(pass[k], i)'
      BY <1>1, <1>4, <3>1, <3>5 DEF Overtaken
    <3> QED BY <3>4, <3>6
  <2> QED BY <2>1, <2>2 DEF Released
<1> QED BY <1>6, <1>7, <1>8, <1>9 DEF ClaimsInv

\* What a change that is no command leaves of the dates and the releases.
LEMMA PlainChange ==
  ASSUME NEW i \in Issue, NEW kind \in {"assigned", "unassigned", "labeled"}, ClaimsInv,
         Does(i, kind, "maintainer", None), now' = now, inbox' = inbox, pass' = pass,
         failures' = failures, disturbed \subseteq disturbed',
         \A j \in Issue : j # i => labels'[j] = labels[j] /\ assignees'[j] = assignees[j]
  PROVE  /\ timeline' \in [Issue -> Seq(Entry)] /\ made' \in Nat /\ Grows /\ Dated' /\ Released'
         /\ \A k \in Lane : pass[k] # Idle /\ pass[k].delivery.issue = i /\ pass[k].at # "send" =>
              GivesWay(k)'
<1> DEFINE entry == [kind |-> kind, by |-> "maintainer", at |-> now, what |-> None]
<1>1. Typed /\ now \in Nat /\ timeline[i] \in Seq(Entry)
  BY DEF ClaimsInv, Typed
<1>2. entry \in Entry
  BY <1>1 DEF Entry
<1>3. entry.at = now /\ entry.what = None /\ entry.kind # "commented"
  OBVIOUS
<1>4. /\ timeline' \in [Issue -> Seq(Entry)] /\ made' \in Nat /\ Grows
      /\ \A j \in Issue : j # i => timeline'[j] = timeline[j]
      /\ Len(timeline'[i]) = Len(timeline[i]) + 1 /\ Len(timeline[i]) \in Nat
      /\ timeline'[i][Len(timeline'[i])] = entry
  BY <1>1, <1>2, DoesFacts
<1> HIDE DEF entry
<1>5. (\A j \in Issue : \A m \in 1..Len(timeline[j]) : timeline[j][m].at <= now)'
  <2>1. SUFFICES ASSUME NEW j \in Issue, NEW m \in 1..Len(timeline'[j])
                 PROVE  timeline'[j][m].at <= now
    OBVIOUS
  <2>2. CASE j = i /\ m = Len(timeline'[i])
    BY <1>1, <1>3, <1>4, <2>2
  <2>3. CASE ~(j = i /\ m = Len(timeline'[i]))
    <3>1. m \in 1..Len(timeline[j])
      BY <1>4, <2>1, <2>3
    <3>2. timeline'[j][m] = timeline[j][m]
      BY <1>4, <3>1 DEF Grows
    <3> QED BY <3>1, <3>2 DEF ClaimsInv, Dated
  <2> QED BY <2>2, <2>3
<1>6. Dated'
  BY <1>1, <1>4, <1>5, GrowthKeepsDates DEF ClaimsInv
<1>7. ~Stands(i)'
  BY <1>3, <1>4, AnswersAssumption DEF Stands, ReleaseIsNewest
<1>8. ASSUME failures' = 0, NEW j \in Issue, Stands(j)'
      PROVE  Pending(j)' /\ \A k \in Lane : Overtaken(pass[k], j)'
  <2>1. j # i
    BY <1>7, <1>8
  <2> QED BY <1>4, <1>8, <2>1, IssueStays DEF ClaimsInv
<1>9. ASSUME NEW k \in Lane, pass[k] # Idle, pass[k].delivery.issue = i, pass[k].at # "send"
      PROVE  GivesWay(k)'
  <2>1. pass[k].evaluated \in Nat /\ pass[k].evaluated <= now
    BY <1>1, <1>9, WalkFacts DEF ClaimsInv, Dated
  <2>2. SecondOf(pass[k].evaluated) <= SecondOf(now)
    BY <1>1, <2>1, SecondsFollow
  <2>3. Len(timeline'[i]) \in 1..Len(timeline'[i])
    BY <1>4
  <2> QED BY <1>3, <1>4, <1>9, <2>2, <2>3 DEF GivesWay, Refusable
<1> QED BY <1>4, <1>6, <1>8, <1>9 DEF Released

\* A person assigns or unassigns by hand.
LEMMA NativelyStep ==
  ASSUME NEW i \in Issue, NEW login \in Login, ClaimsInv, Natively(i, login)
  PROVE  ClaimsInv'
<1>1. /\ assignees' = [assignees EXCEPT ![i] = IF login \in @ THEN @ \ {login} ELSE @ \cup {login}]
      /\ Outdates(i, {"holders"}, {login}, PastGate)
      /\ labels' = labels /\ now' = now /\ inbox' = inbox /\ pass' = pass
      /\ failures' = failures /\ disturbed' = disturbed
  BY DEF Natively
<1>2. PICK kind \in {"assigned", "unassigned", "labeled"} : Does(i, kind, "maintainer", None)
  BY DEF Natively
<1>3. assignees \in [Issue -> SUBSET Login]
  BY DEF ClaimsInv, Typed
<1>4. /\ assignees' \in [Issue -> SUBSET Login]
      /\ \A j \in Issue : j # i => assignees'[j] = assignees[j]
      /\ \A l \in Login, j \in Issue : l # login => (l \in assignees'[j] <=> l \in assignees[j])
  BY <1>1, <1>3
<1>5. /\ timeline' \in [Issue -> Seq(Entry)] /\ made' \in Nat /\ Grows /\ Dated' /\ Released'
      /\ \A k \in Lane : pass[k] # Idle /\ pass[k].delivery.issue = i /\ pass[k].at # "send" =>
           GivesWay(k)'
  BY <1>1, <1>2, <1>4, PlainChange
<1>6. /\ stale' \in [Lane -> SUBSET {"holders", "count", "gate"}]
      /\ \A k \in Lane : stale[k] \subseteq stale'[k]
      /\ \A k \in Lane : pass[k] # Idle =>
           /\ pass[k].delivery.issue = i /\ pass[k].at = "send" => "holders" \in stale'[k]
           /\ pass[k].delivery.by = login /\ (pass[k].delivery.issue # i \/ pass[k].at = "send") =>
                "count" \in stale'[k]
  <2>1. /\ stale' \in [Lane -> SUBSET {"holders", "count", "gate"}]
        /\ \A k \in Lane : stale[k] \subseteq stale'[k]
        /\ \A k \in Lane : pass[k] # Idle =>
             /\ pass[k].delivery.issue = i /\ pass[k].at \in PastGate => {"holders"} \subseteq stale'[k]
             /\ pass[k].delivery.by \in {login}
                  /\ (pass[k].delivery.issue # i \/ pass[k].at \in PastGate) => "count" \in stale'[k]
    <3>1. {"holders"} \in SUBSET {"holders", "count", "gate"}
      OBVIOUS
    <3> QED BY <1>1, <3>1, OutdatesFacts DEF ClaimsInv
  <2> QED BY <2>1 DEF PastGate
<1>7. Typed'
  BY <1>1, <1>4, <1>5, <1>6 DEF ClaimsInv, Typed
<1>8. \A l \in Login : l # login => Held(l)' = Held(l)
  BY <1>1, <1>4 DEF Held
<1>9. \A k \in Lane : pass[k] # Idle =>
        pass[k].delivery.issue \in Issue /\ pass[k].delivery.by \in Login
  BY PassFacts
<1>10. Asking'
  BY <1>1, <1>4, <1>5, <1>6, <1>8, <1>9, ChangesAreMarked DEF ClaimsInv
<1> QED BY <1>5, <1>7, <1>10 DEF ClaimsInv

\* A label is put on or taken off, by a person or by a machine.
LEMMA LabelsStep ==
  ASSUME NEW i \in Issue, ClaimsInv, Labels(i)
  PROVE  ClaimsInv'
<1>1. /\ assignees' = assignees /\ now' = now /\ inbox' = inbox /\ pass' = pass
      /\ failures' = failures
  BY DEF Labels
<1>2. PICK meaning \in Denies : Toggled(i, meaning)
  BY DEF Labels
<1>3. labels \in [Issue -> SUBSET Meaning] /\ assignees \in [Issue -> SUBSET Login]
  BY DEF ClaimsInv, Typed
<1>4. /\ labels' \in [Issue -> SUBSET Meaning]
      /\ \A j \in Issue : j # i => labels'[j] = labels[j]
  BY <1>2, <1>3, ClaimsAssumption DEF Toggled
<1>5. /\ timeline' \in [Issue -> Seq(Entry)] /\ made' \in Nat /\ Dated' /\ Released' /\ Grows
      /\ disturbed' \subseteq Issue
      /\ stale' \in [Lane -> SUBSET {"holders", "count", "gate"}]
      /\ \A k \in Lane : stale[k] \subseteq stale'[k]
      /\ \A k \in Lane : pass[k] # Idle =>
           /\ pass[k].delivery.issue = i => "gate" \in stale'[k] \/ GivesWay(k)'
           /\ pass[k].delivery.by \in assignees[i] => "count" \in stale'[k] \/ GivesWay(k)'
  <2>1. CASE /\ Does(i, "labeled", "maintainer", None) /\ UNCHANGED disturbed
             /\ Outdates(i, {"gate"}, assignees[i], PastGate)
    <3>1. /\ timeline' \in [Issue -> Seq(Entry)] /\ made' \in Nat /\ Dated' /\ Released' /\ Grows
          /\ disturbed' \subseteq Issue
          /\ \A k \in Lane : pass[k] # Idle /\ pass[k].delivery.issue = i /\ pass[k].at # "send" =>
               GivesWay(k)'
      BY <1>1, <1>4, <2>1, PlainChange DEF ClaimsInv, Typed
    <3>2. /\ stale' \in [Lane -> SUBSET {"holders", "count", "gate"}]
          /\ \A k \in Lane : stale[k] \subseteq stale'[k]
          /\ \A k \in Lane : pass[k] # Idle =>
               /\ pass[k].delivery.issue = i /\ pass[k].at = "send" => "gate" \in stale'[k]
               /\ pass[k].delivery.by \in assignees[i]
                    /\ (pass[k].delivery.issue # i \/ pass[k].at = "send") => "count" \in stale'[k]
      <4>1. /\ stale' \in [Lane -> SUBSET {"holders", "count", "gate"}]
            /\ \A k \in Lane : stale[k] \subseteq stale'[k]
            /\ \A k \in Lane : pass[k] # Idle =>
                 /\ pass[k].delivery.issue = i /\ pass[k].at \in PastGate => {"gate"} \subseteq stale'[k]
                 /\ pass[k].delivery.by \in assignees[i]
                      /\ (pass[k].delivery.issue # i \/ pass[k].at \in PastGate) =>
                           "count" \in stale'[k]
        <5>1. {"gate"} \in SUBSET {"holders", "count", "gate"}
          OBVIOUS
        <5> QED BY <2>1, <5>1, OutdatesFacts DEF ClaimsInv
      <4> QED BY <4>1 DEF PastGate
    <3> QED BY <3>1, <3>2
  <2>2. CASE /\ made' = made + 1 /\ UNCHANGED timeline /\ disturbed' = disturbed \cup {i}
             /\ Outdates(i, {"gate"}, assignees[i], Places)
    <3>1. timeline' \in [Issue -> Seq(Entry)] /\ made' \in Nat /\ disturbed' \subseteq Issue
      BY <2>2 DEF ClaimsInv, Typed
    <3>2. Grows
      BY <2>2 DEF Grows
    <3>3. now \in Nat /\ (\A j \in Issue : \A m \in 1..Len(timeline[j]) : timeline[j][m].at <= now)'
      BY <1>1, <2>2 DEF ClaimsInv, Dated, Typed
    <3>4. Dated'
      BY <1>1, <3>2, <3>3, GrowthKeepsDates DEF ClaimsInv
    <3>5. ASSUME failures' = 0, NEW j \in Issue, Stands(j)'
          PROVE  Pending(j)' /\ \A k \in Lane : Overtaken(pass[k], j)'
      <4>1. j # i /\ disturbed \subseteq disturbed'
        BY <2>2, <3>5 DEF Stands
      <4> QED BY <1>1, <1>4, <2>2, <3>5, <4>1, IssueStays DEF ClaimsInv
    <3>6. Released'
      BY <3>5 DEF Released
    <3>7. \A k \in Lane : pass[k] # Idle => pass[k].at \in Places
      BY WalkFacts DEF ClaimsInv
    <3>8. /\ stale' \in [Lane -> SUBSET {"holders", "count", "gate"}]
          /\ \A k \in Lane : stale[k] \subseteq stale'[k]
          /\ \A k \in Lane : pass[k] # Idle =>
               /\ pass[k].delivery.issue = i => "gate" \in stale'[k]
               /\ pass[k].delivery.by \in assignees[i] => "count" \in stale'[k]
      BY <2>2, <3>7, OutdatesFacts DEF ClaimsInv
    <3> QED BY <3>1, <3>2, <3>4, <3>6, <3>8
  <2> QED BY <2>1, <2>2 DEF Labels
<1>7. Typed'
  BY <1>1, <1>4, <1>5 DEF ClaimsInv, Typed
<1>8. \A l \in Login : l \notin assignees[i] => Held(l)' = Held(l)
  BY <1>1, <1>4 DEF Held
<1>9. \A k \in Lane : pass[k] # Idle =>
        pass[k].delivery.issue \in Issue /\ pass[k].delivery.by \in Login
  BY PassFacts
<1>10. Asking'
  BY <1>1, <1>4, <1>5, <1>8, <1>9, ChangesAreMarked DEF ClaimsInv
<1> QED BY <1>5, <1>7, <1>10 DEF ClaimsInv

\* The clock goes on.
LEMMA TickStep ==
  ASSUME ClaimsInv, Tick
  PROVE  ClaimsInv'
<1>1. /\ now' = now + 1 /\ assignees' = assignees /\ labels' = labels /\ timeline' = timeline
      /\ made' = made /\ inbox' = inbox /\ pass' = pass /\ failures' = failures
      /\ stale' = stale /\ disturbed' = disturbed
  BY DEF Tick, github
<1>2. now \in Nat /\ timeline \in [Issue -> Seq(Entry)]
  BY DEF ClaimsInv, Typed
<1>3. Typed'
  BY <1>1, <1>2 DEF ClaimsInv, Typed
<1>4. Dated'
  <2>1. Grows
    BY <1>1 DEF Grows
  <2>2. ASSUME NEW i \in Issue, NEW m \in 1..Len(timeline[i])
        PROVE  timeline[i][m].at <= now + 1
    <3>1. timeline[i] \in Seq(Entry)
      BY <1>2
    <3>2. timeline[i][m] \in Entry
      BY <3>1
    <3>3. timeline[i][m].at \in Nat
      BY <3>2 DEF Entry
    <3> QED BY <1>2, <3>3 DEF ClaimsInv, Dated
  <2>3. (\A i \in Issue : \A m \in 1..Len(timeline[i]) : timeline[i][m].at <= now)'
    BY <1>1, <2>2
  <2> QED BY <1>1, <1>2, <2>1, <2>3, GrowthKeepsDates DEF ClaimsInv
<1>5. Asking'
  <2>1. Grows
    BY <1>1 DEF Grows
  <2> QED BY <1>1, <2>1, ChangesAreMarked DEF ClaimsInv, Held
<1>6. Released'
  BY <1>1, IssueStays DEF ClaimsInv, Released
<1> QED BY <1>3, <1>4, <1>5, <1>6 DEF ClaimsInv

\* The call lands, or is declined.
LEMMA LandsStep ==
  ASSUME NEW k \in Lane, ClaimsInv, Lands(k)
  PROVE  ClaimsInv'
<1> DEFINE d == pass[k].delivery
           then == IF d.command = "assign" THEN assignees[d.issue] \cup {d.by}
                   ELSE assignees[d.issue] \ {d.by}
<1>1. /\ pass[k].at = "send" /\ Stops(k)
      /\ \/ assignees' = [assignees EXCEPT ![d.issue] = then] /\ failures' = failures
         \/ failures' = failures + 1 /\ assignees' = assignees
      /\ labels' = labels /\ timeline' = timeline /\ made' = made /\ now' = now
      /\ inbox' = inbox /\ disturbed' = disturbed
  BY DEF Lands, Is
<1>2. stale' = [j \in Lane |->
        IF j = k \/ pass[j] = Idle THEN stale[j]
        ELSE stale[j] \cup (IF pass[j].delivery.issue = d.issue THEN {"holders"} ELSE {})
                      \cup (IF pass[j].delivery.by = d.by THEN {"count"} ELSE {})]
  BY DEF Lands
<1>3. pass[k] # Idle
  BY <1>1 DEF Idle
<1>4. d.issue \in Issue /\ d.by \in Login /\ d.command \in {"assign", "unassign"}
  BY <1>3, PassFacts
<1>5. /\ assignees \in [Issue -> SUBSET Login] /\ failures \in Nat /\ timeline \in [Issue -> Seq(Entry)]
      /\ stale \in [Lane -> SUBSET {"holders", "count", "gate"}]
  BY DEF ClaimsInv, Typed
<1>6. OnlyMoves(k, Idle)
  BY <1>1, StopsHere DEF ClaimsInv
<1> HIDE DEF d
<1>7. /\ assignees' \in [Issue -> SUBSET Login]
      /\ \A j \in Issue : j # d.issue => assignees'[j] = assignees[j]
      /\ \A l \in Login, j \in Issue : l # d.by => (l \in assignees'[j] <=> l \in assignees[j])
  <2>1. then \subseteq Login /\ \A l : l # d.by => (l \in then <=> l \in assignees[d.issue])
    BY <1>4, <1>5
  <2> HIDE DEF then
  <2>2. CASE assignees' = [assignees EXCEPT ![d.issue] = then]
    BY <1>4, <1>5, <2>1, <2>2
  <2>3. CASE assignees' = assignees
    BY <1>5, <2>3
  <2> QED BY <1>1, <2>2, <2>3
<1>8. /\ stale' \in [Lane -> SUBSET {"holders", "count", "gate"}]
      /\ \A j \in Lane : stale[j] \subseteq stale'[j]
      /\ \A j \in Lane : j # k /\ pass[j] # Idle =>
           /\ pass[j].delivery.issue = d.issue => "holders" \in stale'[j]
           /\ pass[j].delivery.by = d.by => "count" \in stale'[j]
  BY <1>2, <1>5
<1>9. Typed'
  <2>1. failures' \in Nat /\ pass' \in [Lane -> Walks \cup {Idle}]
    BY <1>1, <1>5, <1>6 DEF OnlyMoves
  <2> QED BY <1>1, <1>7, <1>8, <2>1 DEF ClaimsInv, Typed
<1>10. Dated'
  <2>1. \A m : Logged(m)' <=> Logged(m)
    BY <1>1 DEF Logged
  <2>2. (\A i \in Issue : \A m \in 1..Len(timeline[i]) : timeline[i][m].at <= now)'
    BY <1>1 DEF ClaimsInv, Dated
  <2>3. (\A m \in inbox : Logged(m))'
    BY <1>1, <2>1 DEF ClaimsInv, Dated
  <2>4. ASSUME NEW j \in Lane, pass'[j] # Idle
        PROVE  /\ Logged(pass[j].delivery)'
               /\ pass'[j].delivery.at <= pass'[j].evaluated /\ pass'[j].evaluated <= now'
    <3>1. /\ pass'[j] = pass[j] /\ Logged(pass[j].delivery)
          /\ pass[j].delivery.at <= pass[j].evaluated /\ pass[j].evaluated <= now
      BY <1>6, <2>4 DEF ClaimsInv, Dated, OnlyMoves
    <3> QED BY <1>1, <3>1 DEF Logged
  <2>5. (\A j \in Lane : pass[j] # Idle =>
           /\ Logged(pass[j].delivery)
           /\ pass[j].delivery.at <= pass[j].evaluated /\ pass[j].evaluated <= now)'
    BY <2>4 DEF Idle
  <2> QED BY <2>2, <2>3, <2>5 DEF Dated
<1>11. Asking'
  <2>1. \A l \in Login : l # d.by => Held(l)' = Held(l)
    BY <1>1, <1>7 DEF Held
  <2>2. \A j \in Lane : pass[j] # Idle =>
          pass[j].delivery.issue \in Issue /\ pass[j].delivery.by \in Login
    BY PassFacts
  <2>3. /\ \A j \in Lane : pass'[j] = pass[j] \/ pass'[j] = Idle
        /\ \A j \in Lane : pass'[j] # Idle => j # k /\ pass[j] # Idle
    BY <1>6 DEF OnlyMoves
  <2>4. Grows
    BY <1>1 DEF Grows
  <2> QED BY <1>1, <1>7, <1>8, <2>1, <2>2, <2>3, <2>4, ChangesAreMarked DEF ClaimsInv
<1>12. Released'
  <2>1. ASSUME failures' = 0, NEW i \in Issue, Stands(i)'
        PROVE  Pending(i)' /\ \A j \in Lane : Overtaken(pass[j], i)'
    <3>1. /\ Stands(i) /\ Newest(i)' = Newest(i)
          /\ \A m : IsRelease(m, i)' <=> IsRelease(m, i)
          /\ \A p : Carries(p, i)' <=> Carries(p, i)
          /\ \A p : Overtaken(p, i)' <=> Overtaken(p, i)
      BY <1>1, <2>1, SameIssue
    <3>2. failures = 0 /\ assignees' = [assignees EXCEPT ![d.issue] = then]
      BY <1>1, <1>5, <2>1
    <3>3. Pending(i) /\ \A j \in Lane : Overtaken(pass[j], i)
      BY <3>1, <3>2 DEF ClaimsInv, Released
    <3>4. (Newest(i).by)' = Newest(i).by
      BY <3>1
    <3>5. ASSUME Newest(i).by \notin assignees[i]
          PROVE  Pending(i)'
      <4>1. ~IsEarlier(pass[k], i)
        BY <1>1, <3>3 DEF Overtaken
      <4>2. ~(d.command = "assign" /\ d.issue = i /\ d.by = Newest(i).by)
        BY <1>3, <4>1 DEF IsEarlier, d
      <4>3. Newest(i).by \notin assignees'[i]
        BY <1>4, <1>5, <3>2, <3>5, <4>2
      <4> QED BY <3>4, <4>3 DEF Pending
    <3>6. ASSUME NEW m \in inbox, IsRelease(m, i)
          PROVE  Pending(i)'
      BY <1>1, <3>1, <3>6 DEF Pending
    <3>7. ASSUME NEW j \in Lane, Carries(pass[j], i)
          PROVE  Pending(i)'
      <4>1. CASE j = k
        <5>1. d.issue = i /\ d.by = Newest(i).by /\ d.command = "unassign"
          BY <3>7, <4>1 DEF Carries, IsRelease, d
        <5>2. Newest(i).by \notin assignees'[i]
          BY <1>5, <3>2, <5>1
        <5> QED BY <3>4, <5>2 DEF Pending
      <4>2. CASE j # k
        <5>1. Carries(pass'[j], i)
          BY <1>6, <3>7, <4>2 DEF OnlyMoves
        <5> QED BY <3>1, <5>1 DEF Pending
      <4> QED BY <4>1, <4>2
    <3>8. Pending(i)'
      BY <3>3, <3>5, <3>6, <3>7 DEF Pending
    <3>9. \A j \in Lane : Overtaken(pass'[j], i)
      <4>1. Overtaken(Idle, i)
        BY DEF Overtaken, IsEarlier
      <4> QED BY <1>6, <3>3, <4>1 DEF OnlyMoves
    <3>10. \A j \in Lane : Overtaken(pass[j], i)'
      BY <3>1, <3>9 DEF Overtaken, IsEarlier, Idle
    <3> QED BY <3>8, <3>10
  <2> QED BY <2>1 DEF Released
<1> QED BY <1>9, <1>10, <1>11, <1>12 DEF ClaimsInv

-----------------------------------------------------------------------------
(* The theorems.                                                           *)

\* Nothing has been asked or done at first.
LEMMA ClaimsBegin == ASSUME ClaimsInit PROVE ClaimsInv
<1>1. /\ assignees = [i \in Issue |-> {}] /\ now = 0 /\ timeline = [i \in Issue |-> <<>>]
      /\ made = 0 /\ inbox = {} /\ pass = [k \in Lane |-> Idle] /\ failures = 0
      /\ stale = [k \in Lane |-> {}] /\ disturbed = {}
  BY DEF ClaimsInit
<1>2. labels \in [Issue -> SUBSET Meaning]
  BY ClaimsAssumption DEF ClaimsInit
<1>3. \A i \in Issue : timeline[i] = <<>> /\ Len(timeline[i]) = 0
  BY <1>1
<1>4. Typed
  BY <1>1, <1>2 DEF Typed
<1>5. Dated
  BY <1>1, <1>3 DEF Dated
<1>6. Asking
  BY <1>1 DEF Asking, NobodyHolds, CountsLess, NothingDenies, Claiming
<1>7. Released
  BY <1>3 DEF Released, Stands, ReleaseIsNewest
<1> QED BY <1>4, <1>5, <1>6, <1>7 DEF ClaimsInv

\* Every step keeps the invariant.
LEMMA ClaimsGoOn == ASSUME ClaimsInv, ClaimsNext PROVE ClaimsInv'
<1>1. ASSUME NEW by \in Login, NEW i \in Issue, NEW command \in {"assign", "unassign"},
             Commands(by, i, command)
      PROVE  ClaimsInv'
  BY <1>1, CommandsStep
<1>2. ASSUME NEW i \in Issue, Labels(i) PROVE ClaimsInv'
  BY <1>2, LabelsStep
<1>3. ASSUME NEW i \in Issue, NEW login \in Login, Natively(i, login) PROVE ClaimsInv'
  BY <1>3, NativelyStep
<1>4. CASE Tick
  BY <1>4, TickStep
<1>5. ASSUME NEW k \in Lane, NEW d \in inbox, Takes(k, d) PROVE ClaimsInv'
  BY <1>5, TakesStep
<1>6. ASSUME NEW k \in Lane, PassSteps(k) PROVE ClaimsInv'
  BY <1>6, AsksHoldersStep, AsksOpenStep, JudgesStep, GateReadsStep, GateJudgesStep, LandsStep
  DEF PassSteps
<1>7. ASSUME NEW k \in Lane, Fails(k) PROVE ClaimsInv'
  BY <1>7, FailsStep
<1> QED BY <1>1, <1>2, <1>3, <1>4, <1>5, <1>6, <1>7 DEF ClaimsNext

\* Where nothing of the claims changes, the invariant stays.
LEMMA ClaimsStutter ==
  ASSUME ClaimsInv, UNCHANGED vars
  PROVE  ClaimsInv'
<1>1. /\ assignees' = assignees /\ labels' = labels /\ timeline' = timeline
      /\ made' = made /\ now' = now /\ inbox' = inbox /\ pass' = pass
      /\ failures' = failures /\ stale' = stale /\ disturbed' = disturbed
  BY DEF vars, onlyClaims
<1>2. Typed' /\ Dated'
  BY <1>1 DEF ClaimsInv, Typed, Dated, Logged
<1>3. Asking'
  <2>1. Grows
    BY <1>1 DEF Grows
  <2> QED BY <1>1, <2>1, ChangesAreMarked DEF ClaimsInv, Held
<1>4. Released'
  BY <1>1, IssueStays DEF ClaimsInv, Released
<1> QED BY <1>2, <1>3, <1>4 DEF ClaimsInv

-----------------------------------------------------------------------------
(* The triage queue: what its lane, its deliveries and its issue are.      *)

Shows == SUBSET (Meaning \cup {"skill"})
Change == [kind : {"labeled", "unlabeled", "commented"},
           about : {"awaitingTriage", "ready", "skill", "blocked", None},
           by : {"author", "maintainer", "machine"}, at : Nat]
Report == [action : {"opened", "labeled", "unlabeled"},
           about : {"awaitingTriage", "ready", "skill", "blocked", None},
           by : {"author", "maintainer", "machine"}, at : Nat, id : Nat,
           labels : Shows, locked : BOOLEAN]
Word == [skills : SUBSET {"skill"}, from : Nat]
Effect == [op : {"applyMappedLabel", "postManagedComment", "lockIssue", "unlockIssue"},
           body : Word \cup {None}]
Round == [at : {"gate", "seen", "send"}, delivery : Report, evaluated : Nat,
          left : Seq(Effect), seen : Shows]

LabelIt == T!Ask("applyMappedLabel", None)
LockIt == T!Ask("lockIssue", None)
UnlockIt == T!Ask("unlockIssue", None)
WordOf(d) == T!Ask("postManagedComment", T!Checklist(d))

\* What a delivery may come to ask for: an opening its word, perhaps with the label before
\* it and the lock after it; a tier its word; a triage the unlocking.
IsListOf(d, list) ==
  \/ /\ d.action = "opened" /\ d.by = "author"
     /\ list \in {<<LabelIt, WordOf(d), LockIt>>, <<LabelIt, WordOf(d)>>,
                  <<WordOf(d), LockIt>>, <<WordOf(d)>>}
  \/ /\ d.action # "opened" /\ d.about = "skill"
     /\ list = <<WordOf(d)>>
  \/ /\ d.action # "opened" /\ d.about \in {"ready", "awaitingTriage"}
     /\ list = <<UnlockIt>>
\* And what may be left of it.
IsRestOf(d, list) ==
  \/ IsListOf(d, list)
  \/ /\ d.action = "opened" /\ d.by = "author"
     /\ list = <<LockIt>>

Busy == pass # T!Idle
TriageTyped ==
  /\ settings \in [lockUntilTriaged : BOOLEAN, welcome : BOOLEAN, skill : BOOLEAN]
  /\ settings.lockUntilTriaged \/ settings.skill
  /\ author \in {"author", "machine"} /\ labels \in Shows
  /\ locked \in BOOLEAN /\ lockedThen \in BOOLEAN /\ silent \in BOOLEAN
  /\ welcome \in Word \cup {None}
  /\ now \in Nat /\ failures \in Nat /\ changes \in Seq(Change) /\ inbox \subseteq Report
  /\ pass \in Round \cup {T!Idle} /\ (Busy => IsRestOf(pass.delivery, pass.left))

\* A delivery is of the opening or of a change of the timeline, whose result it shows.
IsReported(d) ==
  /\ d.at <= now
  /\ d.action = "opened" => d.id = 0 /\ d.at = 0 /\ d.by = author
  /\ d.action # "opened" =>
       /\ d.id \in 1..Len(changes)
       /\ changes[d.id] = [kind |-> d.action, about |-> d.about, by |-> d.by, at |-> d.at]
       /\ (d.about \in d.labels) = (d.action = "labeled")
Waits(d) == d \in inbox \/ (Busy /\ d = pass.delivery)
Recorded ==
  /\ \A m \in 1..Len(changes) :
       /\ changes[m].at <= now
       /\ (changes[m].kind = "commented") = (changes[m].by = "author")
  /\ \A m, n \in 1..Len(changes) : m <= n => changes[m].at <= changes[n].at
  /\ \A d \in Report : Waits(d) => IsReported(d)
  /\ Busy => pass.delivery.at <= pass.evaluated /\ pass.evaluated <= now

\* The word that stands is the opening's or a tier's; one still to be written is no older,
\* unless a machine moved a tier.
TierOf(k) == changes[k].kind # "commented" /\ changes[k].about = "skill"
MovedByMachine ==
  \E k \in 1..Len(changes) : changes[k].by \in T!Machine /\ changes[k].about = "skill"
Writes == Busy /\ pass.left # <<LockIt>> /\ pass.left # <<UnlockIt>>
Worded ==
  welcome # None =>
    /\ welcome.from # 0 => welcome.from \in 1..Len(changes) /\ TierOf(welcome.from)
    /\ Writes => welcome.from <= pass.delivery.id \/ MovedByMachine

\* A lock whose word was refused is refused itself, and the lock stands explained.
MachineActed == \E k \in 1..Len(changes) : changes[k].by \in T!Machine
IsExplained == welcome # None \/ silent \/ MachineActed
Allows(d, shown) ==
  /\ ~IsConflict(Project("issue", shown \ {"skill"}, Open))
  /\ d.labels \ {"skill"} \subseteq shown /\ "blocked" \notin shown
Overruled == NewerHumanChange(T!HumanAt(pass.delivery), pass.evaluated)
Refused ==
  \/ Overruled
  \/ pass.at = "gate" /\ ~Allows(pass.delivery, labels)
  \/ pass.at = "seen" /\ ~Allows(pass.delivery, pass.seen)
Explained ==
  /\ locked => IsExplained
  /\ Busy /\ pass.delivery.action = "opened" /\ ~MachineActed =>
       /\ pass.at = "seen" => pass.seen = labels \/ Overruled
       /\ pass.left = <<LockIt>> => welcome # None \/ silent \/ (pass.at # "send" /\ Refused)

\* The labels show what was last done to each, but for the label the App adds; the newest
\* delivery shows them, and the lock, as they were then.
IsLatest(k) == \A j \in (k + 1)..Len(changes) : changes[j].about # changes[k].about
Mirrored ==
  /\ \A k \in 1..Len(changes) :
       changes[k].kind # "commented" /\ IsLatest(k) =>
         /\ changes[k].kind = "labeled" => changes[k].about \in labels
         /\ changes[k].kind = "unlabeled" =>
              changes[k].about \notin labels \/ changes[k].about = "awaitingTriage"
  /\ \A d \in Report : Waits(d) /\ d.action # "opened" /\ d.id = Len(changes) =>
       d.locked = lockedThen /\ (labels = d.labels \/ labels = d.labels \cup {"awaitingTriage"})

\* While the issue stands triaged, its unlocking is to come, under way or done, and nobody
\* is about to lock it again.
Unlocks(d) == d.action # "opened" /\ d.id = Len(changes)
Relocks == Busy /\ pass.delivery.action = "opened"
           /\ \E n \in DOMAIN pass.left : pass.left[n] = LockIt
Unlocking ==
  failures = 0 /\ settings.lockUntilTriaged /\ T!StandsTriaged =>
    \/ \E d \in inbox : Unlocks(d)
    \/ /\ Busy /\ Unlocks(pass.delivery) /\ pass.left = <<UnlockIt>>
       /\ pass.at = "seen" => pass.seen = labels
    \/ ~locked /\ ~Relocks

TriageInv == TriageTyped /\ Recorded /\ Worded /\ Explained /\ Mirrored /\ Unlocking
-----------------------------------------------------------------------------
(* Short sequences.                                                        *)

LEMMA OneAndOne ==
  ASSUME NEW a, NEW b
  PROVE  <<a>> \o <<b>> = <<a, b>>
<1> DEFINE S == {a, b}
<1>1. <<a>> \in Seq(S) /\ <<b>> \in Seq(S) /\ <<a, b>> \in Seq(S)
  OBVIOUS
<1>2. <<a>> \o <<b>> \in Seq(S) /\ Len(<<a>> \o <<b>>) = 2 /\ Len(<<a, b>>) = 2
  BY <1>1
<1>3. \A i \in 1..2 : (<<a>> \o <<b>>)[i] = <<a, b>>[i]
  BY <1>1
<1> QED BY <1>1, <1>2, <1>3, SeqEqual

LEMMA TwoAndOne ==
  ASSUME NEW a, NEW b, NEW c
  PROVE  <<a, b>> \o <<c>> = <<a, b, c>>
<1> DEFINE S == {a, b, c}
<1>1. <<a, b>> \in Seq(S) /\ <<c>> \in Seq(S) /\ <<a, b, c>> \in Seq(S)
  OBVIOUS
<1>2. <<a, b>> \o <<c>> \in Seq(S) /\ Len(<<a, b>> \o <<c>>) = 3 /\ Len(<<a, b, c>>) = 3
  BY <1>1
<1>3. \A i \in 1..3 : (<<a, b>> \o <<c>>)[i] = <<a, b, c>>[i]
  BY <1>1
<1> QED BY <1>1, <1>2, <1>3, SeqEqual

LEMMA NothingAdded ==
  ASSUME NEW a, NEW b
  PROVE  /\ <<>> \o <<>> = <<>>
         /\ <<>> \o <<a>> = <<a>> /\ <<a>> \o <<>> = <<a>>
         /\ <<a, b>> \o <<>> = <<a, b>>
<1> DEFINE S == {a, b}
<1>1. <<>> \in Seq(S) /\ <<a>> \in Seq(S) /\ <<a, b>> \in Seq(S)
  OBVIOUS
<1> QED BY <1>1, ConcatEmptySeq

\* Three optional effects in a row.
LEMMA ThreeInARow ==
  ASSUME NEW a, NEW b, NEW c, NEW p, NEW q, NEW r
  PROVE  T!When(p, a) \o T!When(q, b) \o T!When(r, c) =
           IF p THEN IF q THEN IF r THEN <<a, b, c>> ELSE <<a, b>>
                     ELSE IF r THEN <<a, c>> ELSE <<a>>
           ELSE IF q THEN IF r THEN <<b, c>> ELSE <<b>>
                ELSE IF r THEN <<c>> ELSE <<>>
<1>1. CASE p /\ q
  <2>1. T!When(p, a) \o T!When(q, b) = <<a, b>>
    BY <1>1, OneAndOne DEF T!When
  <2>2. CASE r
    <3>1. T!When(r, c) = <<c>>
      BY <2>2 DEF T!When
    <3>2. T!When(p, a) \o T!When(q, b) \o T!When(r, c) = <<a, b>> \o <<c>>
      BY <2>1, <3>1
    <3>3. <<a, b>> \o <<c>> = <<a, b, c>>
      BY TwoAndOne
    <3> QED BY <1>1, <2>2, <3>2, <3>3, Zenon
  <2>3. CASE ~r BY <1>1, <2>1, <2>3, NothingAdded DEF T!When
  <2> QED BY <2>2, <2>3
<1>2. CASE p /\ ~q
  <2>1. T!When(p, a) \o T!When(q, b) = <<a>>
    BY <1>2, NothingAdded DEF T!When
  <2>2. CASE r BY <1>2, <2>1, <2>2, OneAndOne DEF T!When
  <2>3. CASE ~r BY <1>2, <2>1, <2>3, NothingAdded DEF T!When
  <2> QED BY <2>2, <2>3
<1>3. CASE ~p /\ q
  <2>1. T!When(p, a) \o T!When(q, b) = <<b>>
    BY <1>3, NothingAdded DEF T!When
  <2>2. CASE r BY <1>3, <2>1, <2>2, OneAndOne DEF T!When
  <2>3. CASE ~r BY <1>3, <2>1, <2>3, NothingAdded DEF T!When
  <2> QED BY <2>2, <2>3
<1>4. CASE ~p /\ ~q
  <2>1. T!When(p, a) \o T!When(q, b) = <<>>
    BY <1>4, NothingAdded DEF T!When
  <2>2. CASE r BY <1>4, <2>1, <2>2, NothingAdded DEF T!When
  <2>3. CASE ~r BY <1>4, <2>1, <2>3, NothingAdded DEF T!When
  <2> QED BY <2>2, <2>3
<1> QED BY <1>1, <1>2, <1>3, <1>4, Zenon

-----------------------------------------------------------------------------
(* The ladder and the workflow of the triage are the ones the claims use.  *)

LEMMA SameProjection ==
  ASSUME NEW flow, NEW meanings, NEW closedBy
  PROVE  T!Project(flow, meanings, closedBy) = Project(flow, meanings, closedBy)
BY DEF T!Project, Project, T!PositionsOf, PositionsOf, T!IssueMeanings, IssueMeanings,
       T!PrMeanings, PrMeanings

LEMMA SameConflict ==
  ASSUME NEW projection
  PROVE  T!IsConflict(projection) = IsConflict(projection)
BY DEF T!IsConflict, IsConflict, T!Cardinality, Cardinality

LEMMA SameWorld ==
  ASSUME NEW claims, NEW modes, NEW projection
  PROVE  T!DeriveWorld(projection, claims, modes) = DeriveWorld(projection, claims, modes)
<1>1. T!ObservedMeanings(projection) = ObservedMeanings(projection)
  BY DEF T!ObservedMeanings, ObservedMeanings
<1>2. T!ExpectedHolds(claims, projection, modes) = ExpectedHolds(claims, projection, modes)
  BY <1>1 DEF T!ExpectedHolds, ExpectedHolds, T!Open, Open
<1> QED BY <1>1, <1>2, SameConflict DEF T!DeriveWorld, DeriveWorld

LEMMA SameVerdict ==
  ASSUME NEW w
  PROVE  T!WriteVerdict(w) = WriteVerdict(w)
BY DEF T!WriteVerdict, WriteVerdict, T!Preflight, Preflight, T!GeneralVerdict, GeneralVerdict,
       T!FirstOf, FirstOf, T!StandingRules, StandingRules, T!ItemRules, ItemRules, T!Order, Order,
       T!EffectiveMode, EffectiveMode, T!IsAbove, IsAbove, T!Rank, Rank, T!Modes, Modes,
       T!NewerHumanChange, NewerHumanChange, T!SecondOf, SecondOf, T!Open, Open

\* What an issue shows beside its tiers is observed whole.
LEMMA ShownIsObserved ==
  ASSUME NEW shown \in Shows
  PROVE  /\ T!Projection(shown) = Project("issue", shown \ {"skill"}, Open)
         /\ ObservedMeanings(T!Projection(shown)) = shown \ {"skill"}
         /\ T!Projection(shown).closedBy = Open
<1>1. T!Projection(shown) = Project("issue", shown \ {"skill"}, Open)
  BY SameProjection DEF T!Projection, T!Meanings, T!Open, Open
<1>2. shown \ {"skill"} \in SUBSET Meaning
  BY DEF Shows
<1>3. ObservedMeanings(Project("issue", shown \ {"skill"}, Open)) = shown \ {"skill"}
  BY <1>2, ObservedIsShown
<1>4. Project("issue", shown \ {"skill"}, Open).closedBy = Open
  BY DEF Project
<1> QED BY <1>1, <1>3, <1>4

TriageWrite(d, ask, shown, human, since) ==
  [capability |-> "triageQueue",
   class |-> IF ask.op = "postManagedComment" THEN "humanFacingOutput" ELSE "reversibleStateChange",
   config |-> T!ActiveConfig, missing |-> {}, kill |-> FALSE,
   world |-> DeriveWorld(T!Projection(shown), T!Claims(d, ask), {}),
   human |-> human, since |-> since]

\* What the ladder asks of an effect's own label: it is not there yet.
Fits(d, ask, shown) ==
  ask.op = "applyMappedLabel" => "awaitingTriage" \in d.labels \/ "awaitingTriage" \notin shown

\* An effect goes through where the issue is open, unpaused and in no conflict, still shows
\* what the payload showed, and no person came since.
LEMMA TriageLadder ==
  ASSUME NEW d \in Report, NEW ask \in Effect, NEW shown \in Shows,
         NEW human \in Nat \cup {None, Unknown}, NEW since \in Nat
  PROVE  (T!Ladder(d, ask, shown, human, since) = "apply")
           = (/\ Allows(d, shown) /\ Fits(d, ask, shown)
              /\ human # Unknown /\ ~NewerHumanChange(human, since))
<1> DEFINE w == TriageWrite(d, ask, shown, human, since)
           projection == T!Projection(shown)
           claims == T!Claims(d, ask)
<1>1. T!Ladder(d, ask, shown, human, since) = WriteVerdict(w)
  BY SameVerdict, SameWorld DEF T!Ladder, TriageWrite
<1>2. /\ w.capability = "triageQueue" /\ w.config = T!ActiveConfig /\ w.missing = {} /\ ~w.kill
      /\ w.class \in {"humanFacingOutput", "reversibleStateChange"}
      /\ w.human = human /\ w.since = since /\ w.world = DeriveWorld(projection, claims, {})
  BY DEF TriageWrite
<1>3. /\ claims.present = d.labels \ {"skill"} /\ claims.closed = Open /\ claims.mode = "noClaim"
      /\ claims.absent = IF ask.op = "applyMappedLabel" THEN {"awaitingTriage"} \ d.labels ELSE {}
  BY DEF T!Claims, T!Meanings, T!Open, Open
<1>4. /\ projection = Project("issue", shown \ {"skill"}, Open)
      /\ ObservedMeanings(projection) = shown \ {"skill"} /\ projection.closedBy = Open
  BY ShownIsObserved
<1> HIDE DEF w, projection, claims
<1>5. ExpectedHolds(claims, projection, {})
        = (d.labels \ {"skill"} \subseteq shown /\ Fits(d, ask, shown))
  <2>1. (claims.absent \cap (shown \ {"skill"}) = {}) = Fits(d, ask, shown)
    BY <1>3 DEF Fits
  <2>2. (claims.present \subseteq shown \ {"skill"}) = (d.labels \ {"skill"} \subseteq shown)
    BY <1>3
  <2> QED BY <1>3, <1>4, <2>1, <2>2 DEF ExpectedHolds
<1>6. /\ w.world.meanings = shown \ {"skill"} /\ w.world.closure = Open
      /\ w.world.holds = (/\ ~IsConflict(projection) /\ d.labels \ {"skill"} \subseteq shown
                          /\ Fits(d, ask, shown))
  <2>1. /\ w.world.meanings = ObservedMeanings(projection) /\ w.world.closure = projection.closedBy
        /\ w.world.holds = (~IsConflict(projection) /\ ExpectedHolds(claims, projection, {}))
    BY <1>2 DEF DeriveWorld
  <2> QED BY <1>4, <1>5, <2>1
<1>7. Standing(w)
  <2>1. EffectiveMode(w.config, w.capability) = "active" /\ w.capability \in w.config.enabled
    BY <1>2 DEF EffectiveMode, T!ActiveConfig
  <2> QED BY <1>2, <2>1 DEF Standing
<1>8. Undisturbed(w) = ("blocked" \notin shown /\ human # Unknown /\ ~NewerHumanChange(human, since))
  <2>1. human # Invalid /\ since # Invalid
    BY AnswersAssumption
  <2> QED BY <1>2, <1>6, <2>1 DEF Undisturbed
<1>9. (WriteVerdict(w) = "apply") = (w.world.holds /\ Undisturbed(w))
  BY <1>2, <1>7, WriteApplies, WriteGoes
<1> QED BY <1>1, <1>4, <1>6, <1>8, <1>9 DEF Allows

\* A word and a lock are gated alike: neither adds a label.
LEMMA EffectFacts ==
  ASSUME NEW d \in Report
  PROVE  /\ LabelIt \in Effect /\ LockIt \in Effect /\ UnlockIt \in Effect /\ WordOf(d) \in Effect
         /\ LabelIt.op = "applyMappedLabel" /\ LockIt.op = "lockIssue"
         /\ UnlockIt.op = "unlockIssue" /\ WordOf(d).op = "postManagedComment"
         /\ WordOf(d).body = T!Checklist(d) /\ T!Checklist(d) \in Word
         /\ T!Checklist(d).from = d.id
<1>1. T!Checklist(d) \in Word /\ T!Checklist(d).from = d.id
  BY DEF T!Checklist, Word, Report
<1> QED BY <1>1 DEF LabelIt, LockIt, UnlockIt, WordOf, T!Ask, Effect
-----------------------------------------------------------------------------
(* What a delivery asks for, and what of it is approved.                   *)

LEMMA AskedFor ==
  ASSUME TriageTyped, NEW d \in Report, IsReported(d)
  PROVE  T!Asked(d) = <<>> \/ IsListOf(d, T!Asked(d))
<1>1. CASE d.action = "opened"
  <2>1. d.by = author /\ author \in {"author", "machine"}
    BY <1>1 DEF IsReported, TriageTyped
  <2>2. CASE author \in T!Machine
    BY <1>1, <2>2 DEF T!Asked, T!IsOpening
  <2>3. CASE author \notin T!Machine
    <3>1. T!Asked(d) = T!OnOpened(d) /\ d.by = "author"
      BY <1>1, <2>1, <2>3 DEF T!Asked, T!IsOpening, T!Machine
    <3> DEFINE p == T!PositionIn(T!Projection(d.labels)) = T!NoPosition
               q == settings.welcome \/ settings.lockUntilTriaged \/ settings.skill
               r == settings.lockUntilTriaged /\ ~d.locked
               row == T!When(p, LabelIt) \o T!When(q, WordOf(d)) \o T!When(r, LockIt)
    <3>2. T!OnOpened(d) = <<>> \/ T!OnOpened(d) = row
      BY DEF T!OnOpened, LabelIt, WordOf, LockIt
    <3>3. p \in BOOLEAN /\ q = TRUE /\ r \in BOOLEAN
      BY DEF TriageTyped, Report
    <3>4. row \in {<<LabelIt, WordOf(d), LockIt>>, <<LabelIt, WordOf(d)>>,
                   <<WordOf(d), LockIt>>, <<WordOf(d)>>}
      <4> HIDE DEF p, q, r
      <4>1. PICK label, word, lock : label = p /\ word = q /\ lock = r
        OBVIOUS
      <4>2. T!When(label, LabelIt) \o T!When(word, WordOf(d)) \o T!When(lock, LockIt) =
              IF label THEN IF word THEN IF lock THEN <<LabelIt, WordOf(d), LockIt>>
                                                 ELSE <<LabelIt, WordOf(d)>>
                            ELSE IF lock THEN <<LabelIt, LockIt>> ELSE <<LabelIt>>
              ELSE IF word THEN IF lock THEN <<WordOf(d), LockIt>> ELSE <<WordOf(d)>>
                   ELSE IF lock THEN <<LockIt>> ELSE <<>>
        BY ThreeInARow
      <4>3. row = T!When(label, LabelIt) \o T!When(word, WordOf(d)) \o T!When(lock, LockIt)
        BY <4>1
      <4> HIDE DEF row
      <4> QED BY <3>3, <4>1, <4>2, <4>3, Zenon
    <3> HIDE DEF row
    <3> QED BY <1>1, <3>1, <3>2, <3>4 DEF IsListOf
  <2> QED BY <2>2, <2>3
<1>2. CASE d.action # "opened" /\ T!CompletesTriage(d)
  <2>1. T!Asked(d) \in {<<>>, T!OnTriaged(d)}
    BY <1>2 DEF T!Asked, T!IsOpening
  <2>2. T!OnTriaged(d) \in {<<>>, <<UnlockIt>>}
    BY DEF T!OnTriaged, T!When, UnlockIt
  <2>3. d.about \in {"ready", "awaitingTriage"}
    BY <1>2 DEF T!CompletesTriage, T!Added, T!Removed
  <2> QED BY <1>2, <2>1, <2>2, <2>3 DEF IsListOf
<1>3. CASE d.action # "opened" /\ ~T!CompletesTriage(d) /\ T!MovedSkill(d)
  <2>1. T!Asked(d) \in {<<>>, T!OnChecklistChanged(d)}
    BY <1>3 DEF T!Asked, T!IsOpening
  <2>2. T!OnChecklistChanged(d) \in {<<>>, <<WordOf(d)>>}
    BY DEF T!OnChecklistChanged, T!When, WordOf
  <2>3. d.about = "skill"
    BY <1>3 DEF T!MovedSkill, T!Added, T!Removed
  <2> QED BY <1>3, <2>1, <2>2, <2>3 DEF IsListOf
<1>4. CASE d.action # "opened" /\ ~T!CompletesTriage(d) /\ ~T!MovedSkill(d)
  BY <1>4 DEF T!Asked, T!IsOpening
<1> QED BY <1>1, <1>2, <1>3, <1>4

\* An effect is judged by its payload alone.
Passes(d, human) ==
  Allows(d, d.labels) /\ human # Unknown /\ ~NewerHumanChange(human, d.at)

LEMMA JudgedOnPayload ==
  ASSUME NEW d \in Report, NEW ask \in Effect, NEW human \in Nat \cup {None, Unknown}
  PROVE  /\ (T!Ladder(d, ask, d.labels, human, d.at) = "apply") = Passes(d, human)
         /\ ask.op # "applyMappedLabel" => T!Screened(d, ask) = TRUE
<1>1. d.labels \in Shows /\ d.at \in Nat
  BY DEF Report
<1>2. Fits(d, ask, d.labels) = TRUE
  BY DEF Fits
<1>3. (T!Ladder(d, ask, d.labels, human, d.at) = "apply")
        = (/\ Allows(d, d.labels) /\ Fits(d, ask, d.labels)
           /\ human # Unknown /\ ~NewerHumanChange(human, d.at))
  BY <1>1, TriageLadder
<1> QED BY <1>2, <1>3 DEF Passes, T!Screened

\* What is approved: nothing, or what was asked for, its label left out where the map does
\* not draw that move.
LEMMA ApprovedIs ==
  ASSUME TriageTyped, NEW d \in Report, IsReported(d), NEW human \in Nat \cup {None, Unknown}
  PROVE  /\ T!Approved(d, human) = <<>> \/ IsListOf(d, T!Approved(d, human))
         /\ ~Passes(d, human) => T!Approved(d, human) = <<>>
         /\ Passes(d, human) /\ T!Asked(d) = <<UnlockIt>> => T!Approved(d, human) = <<UnlockIt>>
<1> DEFINE asks == T!Asked(d)
           goes(n) == /\ n \in DOMAIN asks /\ T!Screened(d, asks[n])
                      /\ T!Ladder(d, asks[n], d.labels, human, d.at) = "apply"
           row == T!When(goes(1), asks[1]) \o T!When(goes(2), asks[2]) \o T!When(goes(3), asks[3])
<1>1. T!Approved(d, human) = row
  BY DEF T!Approved, T!Judged
<1>2. row = IF goes(1) THEN IF goes(2) THEN IF goes(3) THEN <<asks[1], asks[2], asks[3]>>
                                            ELSE <<asks[1], asks[2]>>
                            ELSE IF goes(3) THEN <<asks[1], asks[3]>> ELSE <<asks[1]>>
            ELSE IF goes(2) THEN IF goes(3) THEN <<asks[2], asks[3]>> ELSE <<asks[2]>>
                 ELSE IF goes(3) THEN <<asks[3]>> ELSE <<>>
  <2> HIDE DEF goes, asks
  <2>1. PICK p, q, r, a, b, c : /\ p = goes(1) /\ q = goes(2) /\ r = goes(3)
                                /\ a = asks[1] /\ b = asks[2] /\ c = asks[3]
    OBVIOUS
  <2>2. T!When(p, a) \o T!When(q, b) \o T!When(r, c) =
          IF p THEN IF q THEN IF r THEN <<a, b, c>> ELSE <<a, b>>
                    ELSE IF r THEN <<a, c>> ELSE <<a>>
          ELSE IF q THEN IF r THEN <<b, c>> ELSE <<b>>
               ELSE IF r THEN <<c>> ELSE <<>>
    BY ThreeInARow
  <2> QED BY <2>1, <2>2, Zenon
<1>3. asks = <<>> \/ IsListOf(d, asks)
  BY AskedFor
<1>4. ASSUME NEW ask \in Effect, NEW n, n \in DOMAIN asks, asks[n] = ask
      PROVE  goes(n) = (T!Screened(d, ask) /\ Passes(d, human))
  BY <1>4, JudgedOnPayload
<1>5. ASSUME NEW ask \in Effect, NEW n, n \in DOMAIN asks, asks[n] = ask, ask.op # "applyMappedLabel"
      PROVE  goes(n) = Passes(d, human)
  BY <1>4, <1>5, JudgedOnPayload
<1>6. ASSUME NEW n, n \notin DOMAIN asks PROVE goes(n) = FALSE
  BY <1>6
<1> HIDE DEF asks, goes, row
<1>7. CASE asks = <<>>
  <2>1. 1 \notin DOMAIN asks /\ 2 \notin DOMAIN asks /\ 3 \notin DOMAIN asks
    BY <1>7
  <2>2. row = <<>>
    BY <1>2, <1>6, <2>1
  <2>3. <<>> # <<UnlockIt>>
    OBVIOUS
  <2> QED BY <1>1, <1>7, <2>2, <2>3 DEF asks
<1>8. CASE asks = <<LabelIt, WordOf(d), LockIt>>
  <2>1. /\ 1 \in DOMAIN asks /\ 2 \in DOMAIN asks /\ 3 \in DOMAIN asks
        /\ asks[1] = LabelIt /\ asks[2] = WordOf(d) /\ asks[3] = LockIt
    BY <1>8
  <2>2. /\ goes(1) = (T!Screened(d, LabelIt) /\ Passes(d, human))
        /\ goes(2) = Passes(d, human) /\ goes(3) = Passes(d, human)
    BY <1>4, <1>5, <2>1, EffectFacts
  <2>3. row \in {<<LabelIt, WordOf(d), LockIt>>, <<WordOf(d), LockIt>>, <<>>}
        /\ (~Passes(d, human) => row = <<>>)
    BY <1>2, <2>1, <2>2, Zenon
  <2>4. asks # <<UnlockIt>> /\ d.action = "opened" /\ d.by = "author"
    BY <1>3, <1>8 DEF IsListOf
  <2> QED BY <1>1, <2>3, <2>4 DEF IsListOf, asks
<1>9. CASE asks = <<LabelIt, WordOf(d)>>
  <2>1. /\ 1 \in DOMAIN asks /\ 2 \in DOMAIN asks /\ 3 \notin DOMAIN asks
        /\ asks[1] = LabelIt /\ asks[2] = WordOf(d)
    BY <1>9
  <2>2. /\ goes(1) = (T!Screened(d, LabelIt) /\ Passes(d, human))
        /\ goes(2) = Passes(d, human) /\ goes(3) = FALSE
    BY <1>4, <1>5, <1>6, <2>1, EffectFacts
  <2>3. row \in {<<LabelIt, WordOf(d)>>, <<WordOf(d)>>, <<>>}
        /\ (~Passes(d, human) => row = <<>>)
    BY <1>2, <2>1, <2>2, Zenon
  <2>4. asks # <<UnlockIt>> /\ d.action = "opened" /\ d.by = "author"
    BY <1>3, <1>9 DEF IsListOf
  <2> QED BY <1>1, <2>3, <2>4 DEF IsListOf, asks
<1>10. CASE asks = <<WordOf(d), LockIt>>
  <2>1. /\ 1 \in DOMAIN asks /\ 2 \in DOMAIN asks /\ 3 \notin DOMAIN asks
        /\ asks[1] = WordOf(d) /\ asks[2] = LockIt
    BY <1>10
  <2>2. goes(1) = Passes(d, human) /\ goes(2) = Passes(d, human) /\ goes(3) = FALSE
    BY <1>4, <1>5, <1>6, <2>1, EffectFacts
  <2>3. row \in {<<WordOf(d), LockIt>>, <<>>} /\ (~Passes(d, human) => row = <<>>)
    BY <1>2, <2>1, <2>2, Zenon
  <2>4. asks # <<UnlockIt>> /\ d.action = "opened" /\ d.by = "author"
    BY <1>3, <1>10 DEF IsListOf
  <2> QED BY <1>1, <2>3, <2>4 DEF IsListOf, asks
<1>11. CASE asks = <<WordOf(d)>> \/ asks = <<UnlockIt>>
  <2>1. PICK ask \in {WordOf(d), UnlockIt} : asks = <<ask>>
    BY <1>11
  <2>2. 1 \in DOMAIN asks /\ 2 \notin DOMAIN asks /\ 3 \notin DOMAIN asks /\ asks[1] = ask
    BY <2>1
  <2>3. goes(1) = Passes(d, human) /\ goes(2) = FALSE /\ goes(3) = FALSE
    BY <1>5, <1>6, <2>2, EffectFacts
  <2>4. row = IF Passes(d, human) THEN asks ELSE <<>>
    BY <1>2, <2>1, <2>2, <2>3
  <2> QED BY <1>1, <1>3, <2>4 DEF asks
<1> QED BY <1>3, <1>7, <1>8, <1>9, <1>10, <1>11 DEF IsListOf

-----------------------------------------------------------------------------
(* The newest thing a person did to the issue, but for a delivery's own.   *)

Counts(d, k) == changes[k].by \in T!Person /\ ~T!IsOwn(d, k)

\* A person came since then: some change that counts is of that second or a later one.
IsOvertaken(d, since) ==
  \E k \in 1..Len(changes) : Counts(d, k) /\ SecondOf(changes[k].at) >= SecondOf(since)

HumanIsCounted ==
  \A d \in Report :
    /\ T!HumanAt(d) \in Nat \cup {None}
    /\ \A since \in Nat : NewerHumanChange(T!HumanAt(d), since) <=> IsOvertaken(d, since)

LEMMA NewerIsCounted == TriageTyped /\ Recorded => HumanIsCounted
<1>1. SUFFICES ASSUME TriageTyped, Recorded, NEW d \in Report
               PROVE  /\ T!HumanAt(d) \in Nat \cup {None}
                      /\ \A since \in Nat :
                           NewerHumanChange(T!HumanAt(d), since) <=> IsOvertaken(d, since)
  BY DEF HumanIsCounted
<1> DEFINE counted == {k \in 1..Len(changes) : Counts(d, k)}
           ats == {changes[k].at : k \in counted}
<1>2. T!HumanAt(d) = IF counted = {} THEN None
                     ELSE CHOOSE at \in ats : \A k \in counted : changes[k].at <= at
  BY DEF T!HumanAt, Counts
<1>3. changes \in Seq(Change) /\ now \in Nat
  BY <1>1 DEF TriageTyped
<1>4. \A k \in 1..Len(changes) : changes[k].at \in Nat /\ changes[k].at <= now
  <2>1. TAKE k \in 1..Len(changes)
  <2>2. changes[k] \in Change
    BY <1>3
  <2> QED BY <1>1, <2>2 DEF Change, Recorded
<1>5. ats \subseteq Nat /\ \A at \in ats : at <= now
  BY <1>4
<1>6. CASE counted = {}
  <2>1. T!HumanAt(d) = None
    BY <1>2, <1>6
  <2>2. \A since \in Nat : ~NewerHumanChange(None, since) /\ ~IsOvertaken(d, since)
    BY <1>6, AnswersAssumption DEF NewerHumanChange, IsOvertaken
  <2> QED BY <2>1, <2>2, Zenon
<1>7. CASE counted # {}
  <2>1. ats # {}
    BY <1>7
  <2>2. PICK at \in ats : \A other \in ats : other <= at
    <3> HIDE DEF ats
    <3> QED BY <1>3, <1>5, <2>1, GreatestExists
  <2>3. /\ T!HumanAt(d) \in ats
        /\ \A k \in counted : changes[k].at <= T!HumanAt(d)
    <3>1. \A k \in counted : changes[k].at <= at
      BY <2>2
    <3>2. T!HumanAt(d) = CHOOSE a \in ats : \A k \in counted : changes[k].at <= a
      BY <1>2, <1>7
    <3> HIDE DEF ats, counted
    <3> QED BY <2>2, <3>1, <3>2
  <2>4. T!HumanAt(d) \in Nat
    BY <1>5, <2>3
  <2>5. PICK last \in counted : T!HumanAt(d) = changes[last].at
    BY <2>3
  <2>6. ASSUME NEW since \in Nat
        PROVE  NewerHumanChange(T!HumanAt(d), since) <=> IsOvertaken(d, since)
    <3>1. NewerHumanChange(T!HumanAt(d), since) <=> (SecondOf(T!HumanAt(d)) >= SecondOf(since))
      BY <2>4 DEF NewerHumanChange
    <3>2. ASSUME SecondOf(T!HumanAt(d)) >= SecondOf(since)
          PROVE  IsOvertaken(d, since)
      BY <2>5, <3>2 DEF IsOvertaken
    <3>3. ASSUME IsOvertaken(d, since)
          PROVE  SecondOf(T!HumanAt(d)) >= SecondOf(since)
      <4>1. PICK k \in counted : SecondOf(changes[k].at) >= SecondOf(since)
        BY <3>3 DEF IsOvertaken
      <4>2. changes[k].at \in Nat /\ changes[k].at <= T!HumanAt(d)
        BY <1>4, <2>3, <4>1
      <4>3. /\ SecondOf(changes[k].at) \in Nat /\ SecondOf(T!HumanAt(d)) \in Nat
            /\ SecondOf(changes[k].at) <= SecondOf(T!HumanAt(d))
        BY <2>4, <4>2, SecondsFollow
      <4>4. SecondOf(since) \in Nat
        BY SafetyAssumption DEF SecondOf
      <4> HIDE DEF counted, ats
      <4> QED BY <4>1, <4>3, <4>4
    <3> QED BY <3>1, <3>2, <3>3
  <2> QED BY <2>4, <2>6
<1> QED BY <1>6, <1>7

LEMMA NewerIsCountedNext == TriageTyped' /\ Recorded' => HumanIsCounted'
BY NewerIsCounted, PTL
-----------------------------------------------------------------------------
(* The issue's timeline grows.                                             *)

\* A busy lane is on a delivery, at a place, with some of its effects left.
LEMMA BusyFacts ==
  ASSUME TriageTyped
  PROVE  /\ Busy => /\ pass \in Round /\ pass.delivery \in Report /\ pass.evaluated \in Nat
                    /\ pass.at \in {"gate", "seen", "send"} /\ pass.seen \in Shows
                    /\ pass.left \in Seq(Effect) /\ IsRestOf(pass.delivery, pass.left)
         /\ Busy <=> pass.at \in {"gate", "seen", "send"}
         /\ Busy <=> pass.at # "idle"
<1>1. pass \in Round \cup {T!Idle} /\ (Busy => IsRestOf(pass.delivery, pass.left))
  BY DEF TriageTyped
<1>2. T!Idle.at = "idle"
  BY DEF T!Idle
<1>3. \A p \in Round : /\ p.delivery \in Report /\ p.evaluated \in Nat
                       /\ p.at \in {"gate", "seen", "send"} /\ p.seen \in Shows
                       /\ p.left \in Seq(Effect)
  BY DEF Round
<1> QED BY <1>1, <1>2, <1>3 DEF Busy

\* A change more leaves what the earlier ones count for, and is in order itself.
LEMMA Appended ==
  ASSUME TriageTyped, Recorded, NEW change \in Change, change.at = now,
         (change.kind = "commented") = (change.by = "author"),
         changes' = Append(changes, change), now' = now, author' = author
  PROVE  /\ changes' \in Seq(Change) /\ Len(changes) \in Nat /\ Len(changes') = Len(changes) + 1
         /\ changes'[Len(changes) + 1] = change
         /\ \A k \in 1..Len(changes) : changes'[k] = changes[k]
         /\ \A d \in Report : IsReported(d) => IsReported(d)'
         /\ (\A m \in 1..Len(changes) :
               /\ changes[m].at <= now
               /\ (changes[m].kind = "commented") = (changes[m].by = "author"))'
         /\ (\A m, n \in 1..Len(changes) : m <= n => changes[m].at <= changes[n].at)'
<1>1. changes \in Seq(Change) /\ now \in Nat
  BY DEF TriageTyped
<1>2. /\ changes' \in Seq(Change) /\ Len(changes) \in Nat /\ Len(changes') = Len(changes) + 1
      /\ changes'[Len(changes) + 1] = change
      /\ \A k \in 1..Len(changes) : changes'[k] = changes[k]
  BY <1>1
<1>3. \A k \in 1..Len(changes') : k \in 1..Len(changes) \/ k = Len(changes) + 1
  BY <1>2
<1>4. \A d \in Report : IsReported(d) => IsReported(d)'
  BY <1>2 DEF IsReported
<1>5. \A m \in 1..Len(changes') : changes'[m].at <= now
        /\ (changes'[m].kind = "commented") = (changes'[m].by = "author")
  BY <1>1, <1>2, <1>3 DEF Recorded
<1>6. ASSUME NEW m \in 1..Len(changes'), NEW n \in 1..Len(changes'), m <= n
      PROVE  changes'[m].at <= changes'[n].at
  <2>1. CASE n = Len(changes) + 1
    BY <1>2, <1>5, <2>1
  <2>2. CASE n \in 1..Len(changes)
    <3>1. m \in 1..Len(changes)
      BY <1>2, <1>3, <1>6, <2>2
    <3> QED BY <1>2, <1>6, <2>2, <3>1 DEF Recorded
  <2> QED BY <1>3, <2>1, <2>2
<1> QED BY <1>2, <1>4, <1>5, <1>6

LEMMA StillOvertaken ==
  ASSUME TriageTyped, Recorded, NEW change \in Change, change.at = now,
         (change.kind = "commented") = (change.by = "author"),
         changes' = Append(changes, change), now' = now, author' = author,
         NEW d \in Report, NEW since \in Nat
  PROVE  /\ IsOvertaken(d, since) => IsOvertaken(d, since)'
         /\ change.by \in T!Person /\ change.by # d.by /\ since <= now => IsOvertaken(d, since)'
         /\ (\E k \in 1..Len(changes) : changes[k].by \in T!Machine)
              => (\E k \in 1..Len(changes) : changes[k].by \in T!Machine)'
<1>1. /\ Len(changes) \in Nat /\ Len(changes') = Len(changes) + 1
      /\ changes'[Len(changes) + 1] = change
      /\ \A k \in 1..Len(changes) : changes'[k] = changes[k]
  BY Appended
<1>2. 1..Len(changes) \subseteq 1..Len(changes') /\ Len(changes) + 1 \in 1..Len(changes')
  BY <1>1
<1>3. ASSUME NEW k \in 1..Len(changes)
      PROVE  T!IsOwn(d, k)' <=> T!IsOwn(d, k)
  <2>1. \A j \in 1..(k - 1) : j \in 1..Len(changes)
    BY <1>1
  <2>2. \A j \in 1..(k - 1) : changes'[j] = changes[j]
    BY <1>1, <2>1
  <2>3. changes'[k] = changes[k]
    BY <1>1
  <2> QED BY <2>2, <2>3 DEF T!IsOwn, T!IsShown
<1>4. \A k \in 1..Len(changes) : Counts(d, k)' <=> Counts(d, k)
  BY <1>1, <1>3 DEF Counts
<1>5. IsOvertaken(d, since) => IsOvertaken(d, since)'
  BY <1>1, <1>2, <1>4 DEF IsOvertaken
<1>6. ASSUME change.by \in T!Person, change.by # d.by, since <= now
      PROVE  IsOvertaken(d, since)'
  <2> PICK n : n = Len(changes) + 1
    OBVIOUS
  <2>1. Counts(d, n)'
    BY <1>1, <1>6 DEF Counts, T!IsOwn, T!IsShown
  <2>2. /\ SecondOf(change.at) \in Nat /\ SecondOf(since) \in Nat
        /\ SecondOf(change.at) >= SecondOf(since)
    BY <1>6, SecondsFollow DEF TriageTyped
  <2> QED BY <1>1, <1>2, <2>1, <2>2 DEF IsOvertaken
<1> QED BY <1>1, <1>2, <1>5, <1>6

\* The opening's author is nobody else, and only a person's own change counts for nothing.
LEMMA Reported ==
  ASSUME TriageTyped, Recorded, NEW d \in Report, Waits(d)
  PROVE  /\ IsReported(d) /\ d.at <= now /\ d.id \in Nat /\ d.id <= Len(changes)
         /\ d.action = "opened" => d.by # "maintainer"
<1>1. IsReported(d)
  BY DEF Recorded
<1>2. changes \in Seq(Change) /\ d.id \in Nat /\ author \in {"author", "machine"}
  BY DEF TriageTyped, Report
<1> QED BY <1>1, <1>2 DEF IsReported

\* A label moved by a maintainer or a machine: its delivery shows what it did, and a lane
\* that is waiting to lock or to speak is overruled.
LEMMA QueueRelabels ==
  ASSUME TriageInv, NEW by \in {"maintainer", "machine"},
         NEW about \in {"awaitingTriage", "ready", "skill", "blocked"}, T!Relabels(by, about)
  PROVE  TriageInv'
<1> DEFINE action == IF about \in labels THEN "unlabeled" ELSE "labeled"
           change == [kind |-> action, about |-> about, by |-> by, at |-> now]
<1> PICK report : report = [action |-> action, about |-> about, by |-> by, at |-> now,
                            id |-> Len(changes) + 1, labels |-> labels', locked |-> locked]
  OBVIOUS
<1>0. TriageTyped /\ Recorded /\ Worded /\ Explained /\ Mirrored
  BY DEF TriageInv
<1>1. /\ labels' = IF about \in labels THEN labels \ {about} ELSE labels \cup {about}
      /\ changes' = Append(changes, change) /\ inbox' = inbox \cup {report}
      /\ lockedThen' = locked /\ settings' = settings /\ author' = author /\ locked' = locked
      /\ welcome' = welcome /\ now' = now /\ pass' = pass /\ failures' = failures
      /\ silent' = silent
  BY DEF T!Relabels, T!Did, T!Payload
<1>2. /\ now \in Nat /\ labels \in Shows /\ locked \in BOOLEAN /\ changes \in Seq(Change)
      /\ inbox \subseteq Report
  BY <1>0 DEF TriageTyped
<1>3. labels' \in Shows
  BY <1>1, <1>2 DEF Shows, Meaning, IssueMeanings
<1>4. /\ (about \in labels') = (action = "labeled")
      /\ \A other : other # about => (other \in labels') = (other \in labels)
  BY <1>1
<1>5. change \in Change /\ report \in Report
  BY <1>2, <1>3 DEF Change, Report
<1>6. /\ change.kind = action /\ change.about = about /\ change.by = by /\ change.at = now
      /\ report.action = action /\ report.about = about /\ report.by = by /\ report.at = now
      /\ report.id = Len(changes) + 1 /\ report.labels = labels' /\ report.locked = locked
      /\ action \in {"labeled", "unlabeled"}
  OBVIOUS
<1>7. (change.kind = "commented") = (change.by = "author")
  BY <1>6
<1> HIDE DEF action, change
<1>8. /\ changes' \in Seq(Change) /\ Len(changes) \in Nat /\ Len(changes') = Len(changes) + 1
      /\ changes'[Len(changes) + 1] = change
      /\ \A k \in 1..Len(changes) : changes'[k] = changes[k]
      /\ \A d \in Report : IsReported(d) => IsReported(d)'
      /\ (\A m \in 1..Len(changes) :
            /\ changes[m].at <= now
            /\ (changes[m].kind = "commented") = (changes[m].by = "author"))'
      /\ (\A m, n \in 1..Len(changes) : m <= n => changes[m].at <= changes[n].at)'
  BY <1>0, <1>1, <1>5, <1>6, <1>7, Appended
<1>9. /\ \A k \in 1..Len(changes') : k \in 1..Len(changes) \/ k = Len(changes) + 1
      /\ 1..Len(changes) \subseteq 1..Len(changes') /\ Len(changes) + 1 \in 1..Len(changes')
  BY <1>8
<1>10. \A d \in Report, since \in Nat :
         /\ IsOvertaken(d, since) => IsOvertaken(d, since)'
         /\ by = "maintainer" /\ by # d.by /\ since <= now => IsOvertaken(d, since)'
         /\ MachineActed => MachineActed'
  BY <1>0, <1>1, <1>5, <1>6, <1>7, StillOvertaken DEF MachineActed, T!Person
<1>11. Busy' <=> Busy
  BY <1>1 DEF Busy
<1>12. \A d : Waits(d)' => Waits(d) \/ d = report
  BY <1>1 DEF Waits, Busy
<1>13. TriageTyped'
  BY <1>0, <1>1, <1>3, <1>5, <1>8, <1>11 DEF TriageTyped, IsRestOf, IsListOf
<1>14. Recorded'
  <2>1. IsReported(report)'
    BY <1>1, <1>2, <1>4, <1>6, <1>8, <1>9, <1>5 DEF IsReported, change
  <2>2. \A d \in Report : Waits(d)' => IsReported(d)'
    BY <1>0, <1>8, <1>12, <2>1 DEF Recorded
  <2>3. (Busy => pass.delivery.at <= pass.evaluated /\ pass.evaluated <= now)'
    BY <1>0, <1>1, <1>11 DEF Recorded
  <2> QED BY <1>8, <2>2, <2>3 DEF Recorded
<1>15. Worded'
  <2>1. MovedByMachine => MovedByMachine'
    BY <1>8, <1>9 DEF MovedByMachine
  <2>2. \A k \in 1..Len(changes) : TierOf(k)' <=> TierOf(k)
    BY <1>8 DEF TierOf
  <2> QED BY <1>0, <1>1, <1>9, <1>11, <2>1, <2>2 DEF Worded, Writes
<1>16. Explained'
  <2>1. MachineActed => MachineActed'
    BY <1>2, <1>5, <1>10
  <2>2. locked' => IsExplained'
    BY <1>0, <1>1, <2>1 DEF Explained, IsExplained
  <2>3. ASSUME Busy, pass.delivery.action = "opened", ~MachineActed'
        PROVE  Overruled'
    <3>1. by = "maintainer"
      <4>1. by # "machine"
        BY <1>6, <1>8, <1>9, <2>3 DEF MachineActed, T!Machine
      <4> QED BY <4>1
    <3>2. pass.delivery \in Report /\ pass.evaluated \in Nat /\ pass.evaluated <= now
          /\ Waits(pass.delivery)
      BY <1>0, <2>3, BusyFacts DEF Recorded, Waits
    <3>3. by # pass.delivery.by
      BY <1>0, <2>3, <3>1, <3>2, Reported
    <3>4. \A d \in Report, since \in Nat : d = pass.delivery /\ since = pass.evaluated =>
            IsOvertaken(d, since)'
      BY <1>10, <3>1, <3>2, <3>3
    <3>5. HumanIsCounted'
      BY <1>13, <1>14, NewerIsCountedNext
    <3>6. \A d \in Report, since \in Nat : d = pass.delivery /\ since = pass.evaluated =>
            NewerHumanChange(T!HumanAt(d), since)'
      BY <3>4, <3>5 DEF HumanIsCounted
    <3> QED BY <1>1, <3>2, <3>6 DEF Overruled
  <2>4. (Busy /\ pass.delivery.action = "opened" /\ ~MachineActed =>
           /\ pass.at = "seen" => pass.seen = labels \/ Overruled
           /\ pass.left = <<LockIt>> => welcome # None \/ silent \/ (pass.at # "send" /\ Refused))'
    <3>1. SUFFICES ASSUME Busy, pass.delivery.action = "opened", ~MachineActed'
                   PROVE  /\ Overruled'
                          /\ pass.left = <<LockIt>> =>
                               welcome # None \/ silent \/ (pass.at # "send" /\ Refused')
      BY <1>1, <1>11
    <3>2. Overruled' /\ Refused'
      BY <2>3, <3>1 DEF Refused
    <3>3. pass.left = <<LockIt>> => welcome # None \/ silent \/ pass.at # "send"
      BY <1>0, <2>1, <3>1 DEF Explained
    <3> QED BY <3>2, <3>3
  <2> QED BY <2>2, <2>4 DEF Explained
<1>17. Mirrored'
  <2>1. ASSUME NEW k \in 1..Len(changes'), changes'[k].kind # "commented", IsLatest(k)'
        PROVE  /\ changes'[k].kind = "labeled" => changes'[k].about \in labels'
               /\ changes'[k].kind = "unlabeled" =>
                    changes'[k].about \notin labels' \/ changes'[k].about = "awaitingTriage"
    <3>1. CASE k = Len(changes) + 1
      BY <1>4, <1>6, <1>8, <3>1
    <3>2. CASE k \in 1..Len(changes)
      <4>1. IsLatest(k)
        BY <1>8, <2>1, <3>2 DEF IsLatest
      <4>2. changes'[k] = changes[k] /\ changes[k].about # about
        <5>1. Len(changes) + 1 \in (k + 1)..Len(changes')
          BY <1>8, <3>2
        <5>2. changes'[Len(changes) + 1].about # changes'[k].about
          BY <2>1, <5>1 DEF IsLatest
        <5> QED BY <1>6, <1>8, <3>2, <5>2
      <4> QED BY <1>0, <1>4, <2>1, <3>2, <4>1, <4>2 DEF Mirrored
    <3> QED BY <1>9, <3>1, <3>2
  <2>2. ASSUME NEW d \in Report, Waits(d)', d.id = Len(changes')
        PROVE  d.locked = lockedThen' /\ labels' = d.labels
    <3>1. ~Waits(d)
      <4>1. ASSUME Waits(d) PROVE d.id <= Len(changes)
        BY <1>0, <4>1, Reported
      <4> QED BY <1>8, <2>2, <4>1
    <3> QED BY <1>1, <1>6, <1>12, <2>2, <3>1
  <2> QED BY <2>1, <2>2 DEF Mirrored
<1>18. Unlocking'
  <2>1. report \in inbox' /\ report.action # "opened" /\ report.id = Len(changes')
    BY <1>1, <1>6, <1>8
  <2> QED BY <2>1 DEF Unlocking, Unlocks
<1> QED BY <1>13, <1>14, <1>15, <1>16, <1>17, <1>18 DEF TriageInv

\* A comment of the author's: the issue no longer stands as the maintainer left it.
LEMMA QueueComments ==
  ASSUME TriageInv, T!Comments("author")
  PROVE  TriageInv'
<1> DEFINE change == [kind |-> "commented", about |-> None, by |-> "author", at |-> now]
<1>0. TriageTyped /\ Recorded /\ Worded /\ Explained /\ Mirrored
  BY DEF TriageInv
<1>1. /\ changes' = Append(changes, change) /\ lockedThen' = locked /\ settings' = settings
      /\ author' = author /\ labels' = labels /\ locked' = locked /\ welcome' = welcome
      /\ now' = now /\ inbox' = inbox /\ pass' = pass /\ failures' = failures /\ silent' = silent
  BY DEF T!Comments, T!Did, T!issue
<1>2. change \in Change /\ change.at = now /\ change.kind = "commented" /\ change.by = "author"
  BY <1>0 DEF TriageTyped, Change
<1> HIDE DEF change
<1>3. /\ changes' \in Seq(Change) /\ Len(changes) \in Nat /\ Len(changes') = Len(changes) + 1
      /\ changes'[Len(changes) + 1] = change
      /\ \A k \in 1..Len(changes) : changes'[k] = changes[k]
      /\ \A d \in Report : IsReported(d) => IsReported(d)'
      /\ (\A m \in 1..Len(changes) :
            /\ changes[m].at <= now
            /\ (changes[m].kind = "commented") = (changes[m].by = "author"))'
      /\ (\A m, n \in 1..Len(changes) : m <= n => changes[m].at <= changes[n].at)'
  BY <1>0, <1>1, <1>2, Appended
<1>4. /\ \A k \in 1..Len(changes') : k \in 1..Len(changes) \/ k = Len(changes) + 1
      /\ 1..Len(changes) \subseteq 1..Len(changes') /\ Len(changes) + 1 \in 1..Len(changes')
  BY <1>3
<1>5. \A d \in Report, since \in Nat :
        /\ IsOvertaken(d, since) => IsOvertaken(d, since)'
        /\ MachineActed => MachineActed'
  BY <1>0, <1>1, <1>2, StillOvertaken DEF MachineActed
<1>6. (Busy' <=> Busy) /\ \A d : Waits(d)' <=> Waits(d)
  BY <1>1 DEF Busy, Waits
<1>7. TriageTyped'
  BY <1>0, <1>1, <1>3, <1>6 DEF TriageTyped
<1>8. Recorded'
  <2>1. (\A d \in Report : Waits(d) => IsReported(d))'
    BY <1>0, <1>3, <1>6 DEF Recorded
  <2>2. (Busy => pass.delivery.at <= pass.evaluated /\ pass.evaluated <= now)'
    BY <1>0, <1>1, <1>6 DEF Recorded
  <2> QED BY <1>3, <2>1, <2>2 DEF Recorded
<1>9. Worded'
  <2>1. MovedByMachine => MovedByMachine'
    BY <1>3, <1>4 DEF MovedByMachine
  <2>2. \A k \in 1..Len(changes) : TierOf(k)' <=> TierOf(k)
    BY <1>3 DEF TierOf
  <2> QED BY <1>0, <1>1, <1>4, <1>6, <2>1, <2>2 DEF Worded, Writes
<1>10. Explained'
  <2>1. MachineActed => MachineActed'
    BY <1>3, <1>4 DEF MachineActed
  <2>2. ASSUME Busy, Overruled PROVE Overruled'
    <3>1. pass.delivery \in Report /\ pass.evaluated \in Nat
      BY <1>0, <2>2, BusyFacts
    <3>2. HumanIsCounted /\ HumanIsCounted'
      BY <1>0, <1>7, <1>8, NewerIsCounted, NewerIsCountedNext
    <3>3. \A d \in Report, since \in Nat :
            NewerHumanChange(T!HumanAt(d), since) => NewerHumanChange(T!HumanAt(d), since)'
      BY <1>5, <3>2 DEF HumanIsCounted
    <3>4. \A d \in Report, since \in Nat : d = pass.delivery /\ since = pass.evaluated =>
            NewerHumanChange(T!HumanAt(d), since)'
      BY <2>2, <3>3 DEF Overruled
    <3> QED BY <1>1, <3>1, <3>4 DEF Overruled
  <2>3. Busy /\ Refused => Refused'
    BY <1>1, <2>2 DEF Refused, Allows
  <2> QED BY <1>0, <1>1, <1>6, <2>1, <2>2, <2>3 DEF Explained, IsExplained
<1>11. Mirrored'
  <2>1. ASSUME NEW k \in 1..Len(changes'), changes'[k].kind # "commented", IsLatest(k)'
        PROVE  /\ changes'[k].kind = "labeled" => changes'[k].about \in labels'
               /\ changes'[k].kind = "unlabeled" =>
                    changes'[k].about \notin labels' \/ changes'[k].about = "awaitingTriage"
    <3>1. k \in 1..Len(changes)
      BY <1>2, <1>3, <1>4, <2>1
    <3>2. IsLatest(k)
      BY <1>3, <2>1, <3>1 DEF IsLatest
    <3> QED BY <1>0, <1>1, <1>3, <2>1, <3>1, <3>2 DEF Mirrored
  <2>2. ASSUME NEW d \in Report, Waits(d)' PROVE d.id # Len(changes')
    <3>1. d.id <= Len(changes) /\ d.id \in Nat
      BY <1>0, <1>6, <2>2, Reported
    <3> QED BY <1>3, <3>1
  <2> QED BY <2>1, <2>2 DEF Mirrored
<1>12. Unlocking'
  <2>1. changes'[Len(changes')].by = "author"
    BY <1>2, <1>3
  <2> QED BY <2>1 DEF Unlocking, T!StandsTriaged, T!Last
<1> QED BY <1>7, <1>8, <1>9, <1>10, <1>11, <1>12 DEF TriageInv

\* Where the timeline stands still, what a person did counts as it did.
LEMMA SameHuman ==
  ASSUME changes' = changes
  PROVE  /\ \A d : T!HumanAt(d)' = T!HumanAt(d)
         /\ (MachineActed' <=> MachineActed) /\ (MovedByMachine' <=> MovedByMachine)
         /\ \A k : (TierOf(k)' <=> TierOf(k)) /\ (IsLatest(k)' <=> IsLatest(k))
BY DEF T!HumanAt, T!IsOwn, T!IsShown, MachineActed, MovedByMachine, TierOf, IsLatest

\* The clock alone changes nothing.
LEMMA QueueTicks ==
  ASSUME TriageInv, T!Tick
  PROVE  TriageInv'
<1>0. TriageTyped /\ Recorded /\ Worded /\ Explained /\ Mirrored /\ Unlocking
  BY DEF TriageInv
<1>1. /\ now' = now + 1 /\ changes' = changes /\ lockedThen' = lockedThen /\ settings' = settings
      /\ author' = author /\ labels' = labels /\ locked' = locked /\ welcome' = welcome
      /\ inbox' = inbox /\ pass' = pass /\ failures' = failures /\ silent' = silent
  BY DEF T!Tick, T!issue
<1>2. (Busy' <=> Busy) /\ \A d : Waits(d)' <=> Waits(d)
  BY <1>1 DEF Busy, Waits
<1>3. now \in Nat /\ changes \in Seq(Change)
  BY <1>0 DEF TriageTyped
<1>4. TriageTyped'
  BY <1>0, <1>1, <1>2 DEF TriageTyped
<1>5. Recorded'
  <2>1. \A d \in Report : IsReported(d) => IsReported(d)'
    <3>1. \A d \in Report : d.at \in Nat
      BY DEF Report
    <3> QED BY <1>1, <1>3, <3>1 DEF IsReported
  <2>2. (\A d \in Report : Waits(d) => IsReported(d))'
    BY <1>0, <1>2, <2>1 DEF Recorded
  <2>3. \A m \in 1..Len(changes) : changes[m].at \in Nat
    <3>1. \A m \in 1..Len(changes) : changes[m] \in Change
      BY <1>3
    <3> QED BY <3>1 DEF Change
  <2>4. (\A m \in 1..Len(changes) :
           /\ changes[m].at <= now
           /\ (changes[m].kind = "commented") = (changes[m].by = "author"))'
    BY <1>0, <1>1, <1>3, <2>3 DEF Recorded
  <2>5. (Busy => pass.delivery.at <= pass.evaluated /\ pass.evaluated <= now)'
    BY <1>0, <1>1, <1>2, <1>3, BusyFacts DEF Recorded
  <2>6. (\A m, n \in 1..Len(changes) : m <= n => changes[m].at <= changes[n].at)'
    BY <1>0, <1>1 DEF Recorded
  <2> QED BY <2>2, <2>4, <2>5, <2>6 DEF Recorded
<1>6. Worded'
  BY <1>0, <1>1, <1>2, SameHuman DEF Worded, Writes
<1>7. Explained'
  <2>1. (Overruled' <=> Overruled) /\ (Refused' <=> Refused)
    BY <1>1, SameHuman DEF Overruled, Refused, Allows
  <2> QED BY <1>0, <1>1, <1>2, <2>1, SameHuman DEF Explained, IsExplained
<1>8. Mirrored'
  BY <1>0, <1>1, <1>2, SameHuman DEF Mirrored
<1>9. Unlocking'
  <2>1. T!StandsTriaged' <=> T!StandsTriaged
    BY <1>1 DEF T!StandsTriaged, T!Last
  <2> QED BY <1>0, <1>1, <1>2, <2>1 DEF Unlocking, Unlocks, Relocks
<1> QED BY <1>4, <1>5, <1>6, <1>7, <1>8, <1>9 DEF TriageInv

-----------------------------------------------------------------------------
(* The lane on a delivery.                                                 *)

\* The lists of effects are told apart by what comes first and what is left.
LEMMA ListFacts ==
  ASSUME NEW d \in Report
  PROVE  /\ Head(<<LabelIt, WordOf(d), LockIt>>) = LabelIt
         /\ Tail(<<LabelIt, WordOf(d), LockIt>>) = <<WordOf(d), LockIt>>
         /\ Head(<<LabelIt, WordOf(d)>>) = LabelIt /\ Tail(<<LabelIt, WordOf(d)>>) = <<WordOf(d)>>
         /\ Head(<<WordOf(d), LockIt>>) = WordOf(d) /\ Tail(<<WordOf(d), LockIt>>) = <<LockIt>>
         /\ \A effect : Head(<<effect>>) = effect /\ Tail(<<effect>>) = <<>>
         /\ LabelIt # WordOf(d) /\ LabelIt # LockIt /\ LabelIt # UnlockIt
         /\ WordOf(d) # LockIt /\ WordOf(d) # UnlockIt /\ LockIt # UnlockIt
<1>1. \A a, b, c : /\ Head(<<a, b, c>>) = a /\ Tail(<<a, b, c>>) = <<b, c>>
                   /\ Head(<<a, b>>) = a /\ Tail(<<a, b>>) = <<b>>
                   /\ Head(<<a>>) = a /\ Tail(<<a>>) = <<>>
  OBVIOUS
<1> QED BY <1>1, EffectFacts

\* What is left of a list, when its first effect is done with.
LEMMA RestFacts ==
  ASSUME NEW d \in Report, NEW list, IsRestOf(d, list)
  PROVE  /\ Head(list) \in {LabelIt, WordOf(d), LockIt, UnlockIt}
         /\ Tail(list) # <<>> =>
              /\ IsRestOf(d, Tail(list)) /\ d.action = "opened"
              /\ list # <<UnlockIt>> /\ list # <<LockIt>>
              /\ Tail(list) = <<LockIt>> => Head(list) = WordOf(d)
         /\ list = <<LockIt>> => Head(list) = LockIt /\ Tail(list) = <<>>
         /\ list = <<UnlockIt>> => Head(list) = UnlockIt /\ Tail(list) = <<>>
         /\ Head(list) = WordOf(d) => list # <<LockIt>> /\ list # <<UnlockIt>>
         /\ Head(list) = WordOf(d) => Tail(list) = <<>> \/ Tail(list) = <<LockIt>>
         /\ Head(list) = WordOf(d) /\ d.action # "opened" => d.about = "skill"
         /\ Head(list) = LockIt => list = <<LockIt>> /\ d.action = "opened"
         /\ Head(list) = UnlockIt => list = <<UnlockIt>>
         /\ (\E n \in DOMAIN Tail(list) : Tail(list)[n] = LockIt)
              => \E n \in DOMAIN list : list[n] = LockIt
         /\ list = <<LockIt>> => \E n \in DOMAIN list : list[n] = LockIt
<1>0. list \in {<<LabelIt, WordOf(d), LockIt>>, <<LabelIt, WordOf(d)>>, <<WordOf(d), LockIt>>,
                <<WordOf(d)>>, <<UnlockIt>>, <<LockIt>>}
  BY DEF IsRestOf, IsListOf
<1>1. /\ list = <<LabelIt, WordOf(d), LockIt>> => Head(list) = LabelIt /\ Tail(list) = <<WordOf(d), LockIt>>
      /\ list = <<LabelIt, WordOf(d)>> => Head(list) = LabelIt /\ Tail(list) = <<WordOf(d)>>
      /\ list = <<WordOf(d), LockIt>> => Head(list) = WordOf(d) /\ Tail(list) = <<LockIt>>
      /\ list = <<WordOf(d)>> => Head(list) = WordOf(d) /\ Tail(list) = <<>>
      /\ list = <<UnlockIt>> => Head(list) = UnlockIt /\ Tail(list) = <<>>
      /\ list = <<LockIt>> => Head(list) = LockIt /\ Tail(list) = <<>>
  BY ListFacts
<1>2. /\ LabelIt # WordOf(d) /\ LabelIt # LockIt /\ LabelIt # UnlockIt
      /\ WordOf(d) # LockIt /\ WordOf(d) # UnlockIt /\ LockIt # UnlockIt
  BY ListFacts
<1>3. \A a, b, c : <<a, b, c>> # <<a>> /\ <<a, b>> # <<c>> /\ <<a, b, c>> # <<b>> /\ <<a, b, c>> # <<c>>
                   /\ <<a>> # <<>> /\ (<<a>> = <<b>> => a = b) /\ <<a, b>> # <<>>
  OBVIOUS
<1>4. \A a, b, c : /\ 3 \in DOMAIN <<a, b, c>> /\ <<a, b, c>>[3] = c
                   /\ 2 \in DOMAIN <<a, b>> /\ <<a, b>>[2] = b
                   /\ 1 \in DOMAIN <<a>> /\ <<a>>[1] = a
                   /\ DOMAIN <<a>> = {1} /\ DOMAIN <<>> = {}
                   /\ DOMAIN <<a, b>> = {1, 2} /\ <<a, b>>[1] = a
  OBVIOUS
<1>5. Head(list) \in {LabelIt, WordOf(d), LockIt, UnlockIt}
  BY <1>0, <1>1
<1>6. Tail(list) # <<>> =>
        list \in {<<LabelIt, WordOf(d), LockIt>>, <<LabelIt, WordOf(d)>>, <<WordOf(d), LockIt>>}
  BY <1>0, <1>1
<1>7. Tail(list) # <<>> =>
        /\ IsRestOf(d, Tail(list)) /\ d.action = "opened"
        /\ list # <<UnlockIt>> /\ list # <<LockIt>>
        /\ Tail(list) = <<LockIt>> => Head(list) = WordOf(d)
  <2>1. Tail(list) # <<>> => d.action = "opened" /\ d.by = "author"
    <3>1. /\ <<LabelIt, WordOf(d), LockIt>> # <<WordOf(d)>> /\ <<LabelIt, WordOf(d)>> # <<WordOf(d)>>
          /\ <<WordOf(d), LockIt>> # <<WordOf(d)>>
          /\ <<LabelIt, WordOf(d), LockIt>> # <<UnlockIt>> /\ <<LabelIt, WordOf(d)>> # <<UnlockIt>>
          /\ <<WordOf(d), LockIt>> # <<UnlockIt>>
      OBVIOUS
    <3> QED BY <1>6, <3>1 DEF IsRestOf, IsListOf
  <2>2. Tail(list) # <<>> => list # <<UnlockIt>> /\ list # <<LockIt>>
    BY <1>1
  <2>3. Tail(list) # <<>> => Tail(list) \in {<<WordOf(d), LockIt>>, <<WordOf(d)>>, <<LockIt>>}
    BY <1>1, <1>6
  <2>4. Tail(list) # <<>> => IsRestOf(d, Tail(list))
    BY <2>1, <2>3 DEF IsRestOf, IsListOf
  <2>5. Tail(list) = <<LockIt>> => Head(list) = WordOf(d)
    BY <1>0, <1>1, <1>2, <1>3
  <2> QED BY <2>1, <2>2, <2>4, <2>5
<1>8. /\ Head(list) = LockIt => list = <<LockIt>>
      /\ Head(list) = UnlockIt => list = <<UnlockIt>>
      /\ Head(list) = WordOf(d) => list = <<WordOf(d)>> \/ list = <<WordOf(d), LockIt>>
  BY <1>0, <1>1, <1>2
<1>9. list = <<LockIt>> => d.action = "opened"
  <2>1. /\ <<LockIt>> # <<LabelIt, WordOf(d), LockIt>> /\ <<LockIt>> # <<LabelIt, WordOf(d)>>
        /\ <<LockIt>> # <<WordOf(d), LockIt>>
        /\ <<LockIt>> # <<WordOf(d)>> /\ <<LockIt>> # <<UnlockIt>>
    BY <1>2
  <2> QED BY <2>1 DEF IsRestOf, IsListOf
<1>10. Head(list) = WordOf(d) =>
         /\ list # <<LockIt>> /\ list # <<UnlockIt>>
         /\ Tail(list) = <<>> \/ Tail(list) = <<LockIt>>
  BY <1>1, <1>2, <1>8
<1>11. (\E n \in DOMAIN Tail(list) : Tail(list)[n] = LockIt) => \E n \in DOMAIN list : list[n] = LockIt
  <2>1. CASE list = <<LabelIt, WordOf(d), LockIt>>
    BY <1>4, <2>1
  <2>2. CASE list = <<WordOf(d), LockIt>>
    BY <1>4, <2>2
  <2>3. CASE list = <<LabelIt, WordOf(d)>>
    <3>1. Tail(list) = <<WordOf(d)>>
      BY <1>1, <2>3
    <3>2. \A a : \A n \in DOMAIN <<a>> : <<a>>[n] = a
      OBVIOUS
    <3>3. \A n \in DOMAIN Tail(list) : Tail(list)[n] = WordOf(d)
      BY <3>1, <3>2
    <3> QED BY <1>2, <3>3
  <2>4. CASE Tail(list) = <<>>
    BY <1>4, <2>4
  <2> QED BY <1>6, <2>1, <2>2, <2>3, <2>4
<1>12. list = <<LockIt>> => \E n \in DOMAIN list : list[n] = LockIt
  BY <1>4
<1>13. Head(list) = WordOf(d) /\ d.action # "opened" => d.about = "skill"
  BY <1>10 DEF IsRestOf, IsListOf
<1> QED BY <1>1, <1>5, <1>7, <1>8, <1>9, <1>10, <1>11, <1>12, <1>13

\* The next effect is taken up, or the delivery is done.
LEMMA GoesOnwards ==
  ASSUME TriageTyped, Busy, T!Onward
  PROVE  IF Tail(pass.left) = <<>> THEN pass' = T!Idle
         ELSE /\ pass' \in Round /\ pass' # T!Idle /\ pass'.at = "gate"
              /\ pass'.delivery = pass.delivery /\ pass'.evaluated = pass.evaluated
              /\ pass'.left = Tail(pass.left) /\ IsRestOf(pass.delivery, pass'.left)
<1>1. pass \in Round /\ pass.delivery \in Report /\ IsRestOf(pass.delivery, pass.left)
  BY BusyFacts
<1>2. CASE Tail(pass.left) = <<>>
  BY <1>2 DEF T!Onward, T!WithEffects
<1>3. CASE Tail(pass.left) # <<>>
  <2>1. pass' = [pass EXCEPT !.at = "gate", !.left = Tail(pass.left)]
    BY <1>3 DEF T!Onward, T!WithEffects
  <2>2. IsRestOf(pass.delivery, Tail(pass.left))
    BY <1>1, <1>3, RestFacts
  <2>3. Tail(pass.left) \in Seq(Effect)
    <3>1. pass.left \in Seq(Effect) /\ pass.left # <<>>
      <4>1. pass.left \in Seq(Effect)
        BY BusyFacts
      <4>2. \A a, b, c : <<a>> # <<>> /\ <<a, b>> # <<>> /\ <<a, b, c>> # <<>>
        OBVIOUS
      <4> QED BY <1>1, <4>1, <4>2 DEF IsRestOf, IsListOf
    <3> QED BY <3>1
  <2>4. pass' \in Round /\ pass'.at = "gate"
        /\ pass'.delivery = pass.delivery /\ pass'.evaluated = pass.evaluated
        /\ pass'.left = Tail(pass.left)
    BY <1>1, <2>1, <2>3 DEF Round
  <2>5. pass' # T!Idle
    BY <2>4 DEF T!Idle
  <2> QED BY <1>3, <2>2, <2>4, <2>5
<1> QED BY <1>2, <1>3

Stays == UNCHANGED <<settings, author, now, changes, inbox, lockedThen>>

\* A lane that stays on its delivery, or is done with it, changes nothing that was recorded.
LEMMA LaneKeepsRecord ==
  ASSUME TriageTyped, Recorded, Busy, Stays,
         labels' \in Shows, locked' \in BOOLEAN, silent' \in BOOLEAN,
         welcome' \in Word \cup {None}, failures' \in Nat,
         \/ pass' = T!Idle
         \/ /\ pass' \in Round /\ IsRestOf(pass.delivery, pass'.left)
            /\ pass'.delivery = pass.delivery /\ pass'.evaluated = pass.evaluated
  PROVE  /\ TriageTyped' /\ Recorded'
         /\ \A d : Waits(d)' => Waits(d)
         /\ (Overruled' <=> Overruled) \/ ~Busy'
<1>1. /\ settings' = settings /\ author' = author /\ now' = now /\ changes' = changes
      /\ inbox' = inbox /\ lockedThen' = lockedThen
  BY DEF Stays
<1>2. pass.delivery \in Report /\ IsRestOf(pass.delivery, pass.left)
  BY BusyFacts
<1>3. Busy' => /\ pass' \in Round /\ IsRestOf(pass.delivery, pass'.left)
               /\ pass'.delivery = pass.delivery /\ pass'.evaluated = pass.evaluated
  BY DEF Busy, T!Idle
<1>4. TriageTyped'
  <2>1. pass' \in Round \cup {T!Idle}
    BY DEF T!Idle
  <2>2. (Busy => IsRestOf(pass.delivery, pass.left))'
    BY <1>3 DEF IsRestOf, IsListOf, LabelIt, LockIt, UnlockIt, WordOf, T!Ask, T!Checklist
  <2> QED BY <1>1, <2>1, <2>2 DEF TriageTyped, T!Idle
<1>5. \A d : Waits(d)' => Waits(d)
  BY <1>1, <1>3 DEF Waits
<1>6. \A d : IsReported(d)' <=> IsReported(d)
  BY <1>1 DEF IsReported
<1>7. Recorded'
  <2>1. (\A m \in 1..Len(changes) :
           /\ changes[m].at <= now
           /\ (changes[m].kind = "commented") = (changes[m].by = "author"))'
    BY <1>1 DEF Recorded
  <2>2. (\A m, n \in 1..Len(changes) : m <= n => changes[m].at <= changes[n].at)'
    BY <1>1 DEF Recorded
  <2>3. (\A d \in Report : Waits(d) => IsReported(d))'
    BY <1>5, <1>6 DEF Recorded
  <2>4. (Busy => pass.delivery.at <= pass.evaluated /\ pass.evaluated <= now)'
    BY <1>1, <1>3 DEF Recorded
  <2> QED BY <2>1, <2>2, <2>3, <2>4 DEF Recorded
<1>8. (Overruled' <=> Overruled) \/ ~Busy'
  BY <1>1, <1>3, SameHuman DEF Overruled
<1> QED BY <1>4, <1>5, <1>7, <1>8

\* The gate reads the labels it judges by.
LEMMA QueueReads ==
  ASSUME TriageInv, T!GateReads
  PROVE  TriageInv'
<1>0. TriageTyped /\ Recorded /\ Worded /\ Explained /\ Mirrored /\ Unlocking
  BY DEF TriageInv
<1>1. /\ pass.at = "gate" /\ pass' = [pass EXCEPT !.at = "seen", !.seen = labels]
      /\ Stays /\ changes' = changes /\ labels' = labels /\ locked' = locked
      /\ welcome' = welcome /\ failures' = failures /\ silent' = silent
      /\ settings' = settings /\ inbox' = inbox /\ lockedThen' = lockedThen
  BY DEF T!GateReads, T!issue, Stays
<1>2. Busy /\ pass \in Round /\ IsRestOf(pass.delivery, pass.left)
  BY <1>0, <1>1, BusyFacts
<1>3. /\ pass' \in Round /\ pass'.at = "seen" /\ pass'.seen = labels /\ pass'.left = pass.left
      /\ pass'.delivery = pass.delivery /\ pass'.evaluated = pass.evaluated
  BY <1>0, <1>1, <1>2 DEF Round, TriageTyped
<1>4. Busy'
  BY <1>3 DEF Busy, T!Idle
<1>5. TriageTyped' /\ Recorded' /\ (\A d : Waits(d)' => Waits(d)) /\ (Overruled' <=> Overruled)
  BY <1>0, <1>1, <1>2, <1>3, <1>4, LaneKeepsRecord DEF TriageTyped
<1>6. Worded'
  BY <1>0, <1>1, <1>2, <1>3, SameHuman DEF Worded, Writes
<1>7. Explained'
  <2>1. Refused => Refused'
    BY <1>1, <1>3, <1>5 DEF Refused, Allows
  <2> QED BY <1>0, <1>1, <1>2, <1>3, <2>1, SameHuman DEF Explained, IsExplained
<1>8. Mirrored'
  BY <1>0, <1>1, <1>5, SameHuman DEF Mirrored
<1>9. Unlocking'
  <2>1. T!StandsTriaged' <=> T!StandsTriaged
    BY <1>1 DEF T!StandsTriaged, T!Last
  <2>2. Relocks' => Relocks
    BY <1>2, <1>3 DEF Relocks
  <2> QED BY <1>0, <1>1, <1>3, <1>4, <2>1, <2>2 DEF Unlocking, Unlocks
<1> QED BY <1>5, <1>6, <1>7, <1>8, <1>9 DEF TriageInv

\* Nobody came after a delivery that left the issue triaged: whatever a person did in its
\* second is its own and shows in it.
LEMMA NobodyAfterTriage ==
  ASSUME TriageTyped, Recorded, Mirrored, T!StandsTriaged,
         NEW d \in Report, Waits(d), Unlocks(d), NEW since \in Nat, d.at <= since
  PROVE  /\ ~NewerHumanChange(T!HumanAt(d), since) /\ T!HumanAt(d) \in Nat \cup {None}
         /\ Allows(d, labels) /\ labels = d.labels /\ d.locked
         /\ d.by = "maintainer" /\ d.action = T!Last.kind /\ d.about = T!Last.about
<1>1. /\ IsReported(d) /\ d.action # "opened" /\ d.id = Len(changes) /\ Len(changes) \in Nat
      /\ d.id \in 1..Len(changes) /\ changes \in Seq(Change)
      /\ T!Last = [kind |-> d.action, about |-> d.about, by |-> d.by, at |-> d.at]
      /\ (d.about \in d.labels) = (d.action = "labeled") /\ T!Last = changes[Len(changes)]
  BY Reported DEF Unlocks, IsReported, TriageTyped, T!Last
<1>2. d.by = "maintainer" /\ d.action = T!Last.kind /\ d.about = T!Last.about /\ d.at = T!Last.at
      /\ d.at \in Nat
  BY <1>1 DEF T!StandsTriaged, Report
<1>3. labels \ {"skill"} = {"ready"} /\ labels \in Shows /\ d.labels \in Shows
  BY DEF T!StandsTriaged, T!Meanings, TriageTyped, Report
<1>4. d.locked /\ labels = d.labels
  <2>1. d.locked = lockedThen /\ (labels = d.labels \/ labels = d.labels \cup {"awaitingTriage"})
    BY <1>1 DEF Mirrored
  <2>2. "awaitingTriage" \notin labels
    BY <1>3
  <2> QED BY <2>1, <2>2 DEF T!StandsTriaged
<1>5. Allows(d, labels)
  <2>1. ~IsConflict(Project("issue", {"ready"}, Open))
    <3>1. Project("issue", {"ready"}, Open).positions = {"ready"}
      BY DEF Project, PositionsOf, IssueMeanings
    <3>2. Cardinality({"ready"}) = 1
      BY FS_Singleton
    <3> QED BY <3>1, <3>2 DEF IsConflict
  <2>2. "blocked" \notin labels
    BY <1>3
  <2> QED BY <1>3, <1>4, <2>1, <2>2 DEF Allows
<1>6. ASSUME NEW k \in 1..Len(changes), changes[k].by \in T!Person,
             SecondOf(changes[k].at) >= SecondOf(since)
      PROVE  T!IsOwn(d, k)
  <2>1. changes[k] \in Change /\ changes[k].at \in Nat /\ changes[k].at <= d.at
    <3>1. changes[k] \in Change
      BY <1>1
    <3>2. changes[k].at <= changes[Len(changes)].at
      BY <1>1 DEF Recorded
    <3> QED BY <1>1, <1>2, <3>1, <3>2 DEF Change
  <2>2. SecondOf(changes[k].at) = SecondOf(d.at)
    <3>1. SecondOf(changes[k].at) <= SecondOf(d.at) /\ SecondOf(d.at) <= SecondOf(since)
          /\ SecondOf(changes[k].at) \in Nat /\ SecondOf(d.at) \in Nat /\ SecondOf(since) \in Nat
      BY <1>2, <2>1, SecondsFollow
    <3> QED BY <1>6, <3>1
  <2>3. \A n \in 1..(Len(changes) - 1) :
          changes[n].by \in T!Person /\ SecondOf(changes[n].at) = SecondOf(d.at) =>
            /\ changes[n].by = "maintainer" /\ changes[n].kind # "commented"
            /\ \A j \in (n + 1)..Len(changes) : changes[j].about # changes[n].about
    BY <1>2, Zenon DEF T!StandsTriaged, T!SecondOf, SecondOf
  <2>4. T!IsShown(d, changes[k])
    <3>1. CASE k = Len(changes)
      BY <1>1, <1>2, <2>2, <3>1 DEF T!IsShown, T!SecondOf, SecondOf, Report, T!StandsTriaged
    <3>2. CASE k \in 1..(Len(changes) - 1)
      <4>1. /\ changes[k].by = "maintainer" /\ changes[k].kind # "commented" /\ IsLatest(k)
        BY <1>6, <2>2, <2>3, <3>2 DEF IsLatest
      <4>2. /\ changes[k].kind = "labeled" => changes[k].about \in labels
            /\ changes[k].kind = "unlabeled" =>
                 changes[k].about \notin labels \/ changes[k].about = "awaitingTriage"
        BY <4>1 DEF Mirrored
      <4>3. changes[k].kind \in {"labeled", "unlabeled"} /\ "awaitingTriage" \notin labels
        BY <1>3, <2>1, <4>1 DEF Change
      <4> QED BY <1>2, <1>4, <2>2, <4>1, <4>2, <4>3 DEF T!IsShown, T!SecondOf, SecondOf
    <3> QED BY <1>1, <3>1, <3>2
  <2>5. ASSUME NEW j \in 1..(k - 1), T!IsShown(d, changes[j])
        PROVE  changes[j].about # changes[k].about
    <3>1. j \in 1..(Len(changes) - 1) /\ k \in (j + 1)..Len(changes)
      BY <1>1
    <3>2. changes[j].by \in T!Person /\ SecondOf(changes[j].at) = SecondOf(d.at)
      BY <1>2, <2>5 DEF T!IsShown, T!Person, T!SecondOf, SecondOf
    <3> QED BY <2>3, <3>1, <3>2
  <2> QED BY <2>4, <2>5 DEF T!IsOwn
<1>7. ~IsOvertaken(d, since)
  BY <1>6 DEF IsOvertaken, Counts
<1>8. HumanIsCounted
  BY NewerIsCounted
<1> QED BY <1>2, <1>4, <1>5, <1>7, <1>8 DEF HumanIsCounted

\* The gate refuses a lock after its word, and lets a triage's unlocking through.
LEMMA QueueJudges ==
  ASSUME TriageInv, T!GateJudges
  PROVE  TriageInv'
<1> DEFINE d == pass.delivery
           verdict == T!Ladder(d, T!Doing, pass.seen, T!HumanAt(d), pass.evaluated)
<1>0. TriageTyped /\ Recorded /\ Worded /\ Explained /\ Mirrored /\ Unlocking
  BY DEF TriageInv
<1>1. /\ pass.at = "seen" /\ Stays /\ changes' = changes /\ labels' = labels /\ locked' = locked
      /\ welcome' = welcome /\ failures' = failures /\ silent' = silent
      /\ settings' = settings /\ inbox' = inbox /\ lockedThen' = lockedThen
      /\ IF verdict = "apply" THEN pass' = [pass EXCEPT !.at = "send"] ELSE T!Onward
  BY DEF T!GateJudges, T!issue, Stays
<1>2. /\ Busy /\ pass \in Round /\ IsRestOf(d, pass.left) /\ d \in Report
      /\ pass.evaluated \in Nat /\ pass.seen \in Shows /\ Waits(d)
  BY <1>0, <1>1, BusyFacts DEF Waits
<1>3. /\ labels' \in Shows /\ locked' \in BOOLEAN /\ silent' \in BOOLEAN
      /\ welcome' \in Word \cup {None} /\ failures' \in Nat
  BY <1>0, <1>1 DEF TriageTyped
<1>4. T!HumanAt(d) \in Nat \cup {None}
  BY <1>0, <1>2, NewerIsCounted DEF HumanIsCounted
<1>5. T!Doing \in Effect
  <2>1. T!Doing \in {LabelIt, WordOf(d), LockIt, UnlockIt}
    BY <1>2, RestFacts DEF T!Doing
  <2> QED BY <1>2, <2>1, EffectFacts
<1>6. (verdict = "apply") <=> Allows(d, pass.seen) /\ Fits(d, T!Doing, pass.seen) /\ ~Overruled
  <2>1. T!HumanAt(d) # Unknown
    BY <1>4, AnswersAssumption
  <2>2. \A human \in Nat \cup {None, Unknown} : human = T!HumanAt(d) =>
          (T!Ladder(d, T!Doing, pass.seen, human, pass.evaluated) = "apply")
            = (/\ Allows(d, pass.seen) /\ Fits(d, T!Doing, pass.seen)
               /\ human # Unknown /\ ~NewerHumanChange(human, pass.evaluated))
    BY <1>2, <1>5, TriageLadder
  <2> QED BY <1>4, <2>1, <2>2 DEF Overruled
<1> HIDE DEF verdict
<1>7. T!StandsTriaged' <=> T!StandsTriaged
  BY <1>1 DEF T!StandsTriaged, T!Last
<1>8. CASE verdict = "apply"
  <2>1. /\ pass' \in Round /\ pass'.at = "send" /\ pass'.left = pass.left
        /\ pass'.delivery = d /\ pass'.evaluated = pass.evaluated
    BY <1>1, <1>2, <1>8 DEF Round
  <2>2. Busy'
    BY <2>1 DEF Busy, T!Idle
  <2>3. TriageTyped' /\ Recorded' /\ (\A m : Waits(m)' => Waits(m))
    BY <1>0, <1>1, <1>2, <1>3, <2>1, LaneKeepsRecord
  <2>4. Worded'
    BY <1>0, <1>1, <1>2, <2>1, SameHuman DEF Worded, Writes
  <2>5. Explained'
    <3>1. ~Overruled /\ Allows(d, pass.seen)
      BY <1>6, <1>8
    <3>2. ~Refused
      BY <1>1, <3>1 DEF Refused
    <3> QED BY <1>0, <1>1, <1>2, <2>1, <3>2, SameHuman DEF Explained, IsExplained
  <2>6. Mirrored'
    BY <1>0, <1>1, <2>3, SameHuman DEF Mirrored
  <2>7. Unlocking'
    <3>1. Relocks' => Relocks
      BY <1>2, <2>1 DEF Relocks
    <3> QED BY <1>0, <1>1, <1>7, <2>1, <2>2, <3>1 DEF Unlocking, Unlocks
  <2> QED BY <2>3, <2>4, <2>5, <2>6, <2>7 DEF TriageInv
<1>9. CASE verdict # "apply"
  <2>1. IF Tail(pass.left) = <<>> THEN pass' = T!Idle
        ELSE /\ pass' \in Round /\ pass' # T!Idle /\ pass'.at = "gate"
             /\ pass'.delivery = d /\ pass'.evaluated = pass.evaluated
             /\ pass'.left = Tail(pass.left) /\ IsRestOf(d, pass'.left)
    BY <1>0, <1>1, <1>2, <1>9, GoesOnwards
  <2>2. /\ TriageTyped' /\ Recorded' /\ (\A m : Waits(m)' => Waits(m))
        /\ (Overruled' <=> Overruled) \/ ~Busy'
    BY <1>0, <1>1, <1>2, <1>3, <2>1, LaneKeepsRecord
  <2>3. Busy' => /\ Tail(pass.left) # <<>> /\ pass'.at = "gate" /\ pass'.delivery = d
                 /\ pass'.left = Tail(pass.left) /\ d.action = "opened"
                 /\ pass.left # <<LockIt>> /\ pass.left # <<UnlockIt>>
    BY <1>2, <2>1, RestFacts DEF Busy
  <2>4. Worded'
    BY <1>0, <1>1, <1>2, <2>3, SameHuman DEF Worded, Writes
  <2>5. Explained'
    <3>1. ASSUME Busy', ~MachineActed, pass'.left = <<LockIt>>
          PROVE  Refused'
      <4>1. Head(pass.left) = WordOf(d)
        BY <1>2, <2>3, <3>1, RestFacts
      <4>2. Fits(d, T!Doing, pass.seen)
        BY <1>2, <4>1, EffectFacts DEF Fits, T!Doing
      <4>3. Overruled \/ ~Allows(d, pass.seen)
        BY <1>6, <1>9, <4>2
      <4>4. pass.seen = labels \/ Overruled
        BY <1>0, <1>1, <1>2, <2>3, <3>1 DEF Explained
      <4>5. Overruled \/ ~Allows(d, labels)
        BY <4>3, <4>4
      <4>6. (Overruled' <=> Overruled) /\ (Allows(d, labels) <=> Allows(pass.delivery, labels)')
        BY <1>1, <2>2, <2>3, <3>1 DEF Allows
      <4> QED BY <1>1, <2>3, <3>1, <4>5, <4>6 DEF Refused
    <3> QED BY <1>0, <1>1, <2>3, <3>1, SameHuman DEF Explained, IsExplained
  <2>6. Mirrored'
    BY <1>0, <1>1, <2>2, SameHuman DEF Mirrored
  <2>7. Unlocking'
    <3>1. Relocks' => Relocks
      BY <1>2, <2>3, RestFacts DEF Relocks
    <3>2. ASSUME T!StandsTriaged, Unlocks(d), pass.left = <<UnlockIt>>, pass.seen = labels
          PROVE  FALSE
      <4>1. d.at <= pass.evaluated
        BY <1>0, <1>2 DEF Recorded
      <4>2. ~NewerHumanChange(T!HumanAt(d), pass.evaluated) /\ Allows(d, pass.seen)
        BY <1>0, <1>2, <3>2, <4>1, NobodyAfterTriage
      <4>3. Fits(d, T!Doing, pass.seen)
        BY <1>2, <3>2, RestFacts, EffectFacts DEF Fits, T!Doing
      <4> QED BY <1>6, <1>9, <4>2, <4>3 DEF Overruled
    <3> QED BY <1>0, <1>1, <1>7, <3>1, <3>2 DEF Unlocking, Unlocks
  <2> QED BY <2>2, <2>4, <2>5, <2>6, <2>7 DEF TriageInv
<1> QED BY <1>8, <1>9

\* A call lands: a word before its lock, an unlocking last.
LEMMA QueueLands ==
  ASSUME TriageInv, T!Lands
  PROVE  TriageInv'
<1> DEFINE d == pass.delivery
           effect == Head(pass.left)
<1>0. TriageTyped /\ Recorded /\ Worded /\ Explained /\ Mirrored /\ Unlocking
  BY DEF TriageInv
<1>1. /\ pass.at = "send" /\ Stays /\ T!Onward /\ changes' = changes /\ inbox' = inbox
      /\ failures' = failures /\ silent' = silent /\ settings' = settings
      /\ lockedThen' = lockedThen
      /\ labels' = IF effect.op = "applyMappedLabel" THEN labels \cup {"awaitingTriage"} ELSE labels
      /\ locked' = CASE effect.op = "lockIssue" -> TRUE
                     [] effect.op = "unlockIssue" -> FALSE
                     [] OTHER -> locked
      /\ welcome' = IF effect.op = "postManagedComment" THEN effect.body ELSE welcome
  BY DEF T!Lands, T!Doing, Stays
<1>2. /\ Busy /\ IsRestOf(d, pass.left) /\ d \in Report /\ Waits(d)
  BY <1>0, <1>1, BusyFacts DEF Waits
<1>3. effect \in {LabelIt, WordOf(d), LockIt, UnlockIt}
  BY <1>2, RestFacts
<1>4. /\ effect = LabelIt => labels' = labels \cup {"awaitingTriage"} /\ locked' = locked
                             /\ welcome' = welcome
      /\ effect = WordOf(d) => labels' = labels /\ locked' = locked /\ welcome' = T!Checklist(d)
      /\ effect = LockIt => labels' = labels /\ locked' = TRUE /\ welcome' = welcome
      /\ effect = UnlockIt => labels' = labels /\ locked' = FALSE /\ welcome' = welcome
  BY <1>1, <1>2, EffectFacts
<1>5. T!Checklist(d) \in Word /\ T!Checklist(d).from = d.id /\ T!Checklist(d) # None
  BY <1>2, EffectFacts, WordAssumption DEF Word
<1>6. IF Tail(pass.left) = <<>> THEN pass' = T!Idle
      ELSE /\ pass' \in Round /\ pass' # T!Idle /\ pass'.at = "gate"
           /\ pass'.delivery = d /\ pass'.evaluated = pass.evaluated
           /\ pass'.left = Tail(pass.left) /\ IsRestOf(d, pass'.left)
  BY <1>0, <1>1, <1>2, GoesOnwards
<1>7. /\ labels' \in Shows /\ locked' \in BOOLEAN /\ silent' \in BOOLEAN
      /\ welcome' \in Word \cup {None} /\ failures' \in Nat
  <2>1. labels \in Shows /\ locked \in BOOLEAN /\ silent \in BOOLEAN
        /\ welcome \in Word \cup {None} /\ failures \in Nat
    BY <1>0 DEF TriageTyped
  <2>2. labels \cup {"awaitingTriage"} \in Shows
    BY <2>1 DEF Shows, Meaning, IssueMeanings
  <2> QED BY <1>1, <1>3, <1>4, <1>5, <2>1, <2>2
<1> HIDE DEF effect
<1>8. TriageTyped' /\ Recorded' /\ (\A m : Waits(m)' => Waits(m))
  BY <1>0, <1>1, <1>2, <1>6, <1>7, LaneKeepsRecord
<1>9. Busy' => /\ Tail(pass.left) # <<>> /\ pass'.at = "gate" /\ pass'.delivery = d
               /\ pass'.left = Tail(pass.left) /\ d.action = "opened"
               /\ pass.left # <<LockIt>> /\ pass.left # <<UnlockIt>>
  BY <1>2, <1>6, RestFacts DEF Busy
<1>10. Worded'
  <2>1. CASE effect = WordOf(d)
    <3>1. welcome'.from = d.id
      BY <1>4, <1>5, <2>1
    <3>2. d.id # 0 => d.id \in 1..Len(changes) /\ TierOf(d.id)
      <4>1. ASSUME d.id # 0 PROVE d.action # "opened" /\ IsReported(d) /\ d.about = "skill"
        <5>1. IsReported(d)
          BY <1>0, <1>2, Reported
        <5>2. d.action # "opened"
          BY <4>1, <5>1 DEF IsReported
        <5> QED BY <1>2, <2>1, <5>1, <5>2, RestFacts DEF effect
      <4> QED BY <1>2, <4>1 DEF IsReported, TierOf, Report
    <3>3. ~Writes'
      BY <1>2, <1>9, <2>1, RestFacts DEF Writes, effect
    <3> QED BY <1>1, <3>1, <3>2, <3>3, SameHuman DEF Worded
  <2>2. CASE effect # WordOf(d)
    <3>1. welcome' = welcome
      BY <1>3, <1>4, <2>2
    <3> QED BY <1>0, <1>1, <1>2, <1>9, <3>1, SameHuman DEF Worded, Writes
  <2> QED BY <2>1, <2>2
<1>11. Explained'
  <2>1. locked' => IsExplained'
    <3>1. CASE effect = LockIt
      <4>1. pass.left = <<LockIt>> /\ d.action = "opened"
        BY <1>2, <3>1, RestFacts DEF effect
      <4> QED BY <1>0, <1>1, <1>2, <1>4, <3>1, <4>1, SameHuman DEF Explained, IsExplained
    <3>2. CASE effect = UnlockIt
      BY <1>4, <3>2
    <3>3. CASE effect \in {LabelIt, WordOf(d)}
      BY <1>0, <1>1, <1>4, <1>5, <3>3, SameHuman DEF Explained, IsExplained
    <3> QED BY <1>3, <3>1, <3>2, <3>3
  <2>2. Busy' /\ pass'.left = <<LockIt>> => welcome' # None
    BY <1>2, <1>4, <1>5, <1>9, RestFacts DEF effect
  <2> QED BY <1>9, <2>1, <2>2 DEF Explained
<1>12. labels' = labels \/ labels' = labels \cup {"awaitingTriage"}
  BY <1>3, <1>4
<1>13. Mirrored'
  BY <1>0, <1>1, <1>8, <1>12, SameHuman DEF Mirrored
<1>14. Unlocking'
  <2>1. T!StandsTriaged' => T!StandsTriaged /\ labels' = labels
    <3>1. T!StandsTriaged' => "awaitingTriage" \notin labels'
      BY DEF T!StandsTriaged, T!Meanings
    <3>2. ASSUME labels' = labels PROVE T!StandsTriaged' <=> T!StandsTriaged
      BY <1>1, <3>2 DEF T!StandsTriaged, T!Last
    <3> QED BY <1>12, <3>1, <3>2
  <2>2. Relocks' => Relocks
    BY <1>2, <1>9, RestFacts DEF Relocks
  <2>3. effect = LockIt => Relocks
    BY <1>2, RestFacts DEF Relocks, effect
  <2>4. pass.left = <<UnlockIt>> => effect = UnlockIt /\ ~Busy'
    BY <1>2, <1>9, RestFacts DEF effect
  <2>5. ~Busy' => ~Relocks'
    BY DEF Relocks
  <2>6. ~locked /\ ~Relocks => ~locked' /\ ~Relocks'
    BY <1>3, <1>4, <2>2, <2>3
  <2>7. pass.left = <<UnlockIt>> => ~locked' /\ ~Relocks'
    BY <1>4, <2>4, <2>5
  <2> QED BY <1>0, <1>1, <2>1, <2>6, <2>7 DEF Unlocking, Unlocks
<1> QED BY <1>8, <1>10, <1>11, <1>13, <1>14 DEF TriageInv

\* An effect that fails waits for nobody, and a word that fails is remembered.
LEMMA QueueFails ==
  ASSUME TriageInv, T!Fails
  PROVE  TriageInv'
<1> DEFINE d == pass.delivery
<1>0. TriageTyped /\ Recorded /\ Worded /\ Explained /\ Mirrored
  BY DEF TriageInv
<1>1. /\ pass.at \in {"gate", "seen", "send"} /\ Stays /\ T!Onward /\ changes' = changes
      /\ inbox' = inbox /\ settings' = settings /\ lockedThen' = lockedThen
      /\ labels' = labels /\ locked' = locked /\ welcome' = welcome
      /\ failures' = failures + 1
      /\ silent' = (silent \/ Head(pass.left).op = "postManagedComment")
  BY DEF T!Fails, T!Silences, T!Doing, T!issue, Stays
<1>2. /\ Busy /\ IsRestOf(d, pass.left) /\ d \in Report
  BY <1>0, <1>1, BusyFacts
<1>3. IF Tail(pass.left) = <<>> THEN pass' = T!Idle
      ELSE /\ pass' \in Round /\ pass' # T!Idle /\ pass'.at = "gate"
           /\ pass'.delivery = d /\ pass'.evaluated = pass.evaluated
           /\ pass'.left = Tail(pass.left) /\ IsRestOf(d, pass'.left)
  BY <1>0, <1>1, <1>2, GoesOnwards
<1>4. failures \in Nat /\ failures' # 0
  BY <1>0, <1>1 DEF TriageTyped
<1>5. /\ labels' \in Shows /\ locked' \in BOOLEAN /\ silent' \in BOOLEAN
      /\ welcome' \in Word \cup {None} /\ failures' \in Nat
  BY <1>0, <1>1, <1>4 DEF TriageTyped
<1>6. TriageTyped' /\ Recorded' /\ (\A m : Waits(m)' => Waits(m))
  BY <1>0, <1>1, <1>2, <1>3, <1>5, LaneKeepsRecord
<1>7. Busy' => /\ Tail(pass.left) # <<>> /\ pass'.at = "gate" /\ pass'.left = Tail(pass.left)
               /\ pass'.delivery = d /\ pass.left # <<LockIt>> /\ pass.left # <<UnlockIt>>
  BY <1>2, <1>3, RestFacts DEF Busy
<1>8. Worded'
  BY <1>0, <1>1, <1>2, <1>7, SameHuman DEF Worded, Writes
<1>9. Explained'
  <2>1. Busy' /\ pass'.left = <<LockIt>> => silent'
    <3>1. Busy' /\ pass'.left = <<LockIt>> => Head(pass.left) = WordOf(d)
      BY <1>2, <1>7, RestFacts
    <3> QED BY <1>1, <1>2, <3>1, EffectFacts
  <2>2. locked' => IsExplained'
    BY <1>0, <1>1, SameHuman DEF Explained, IsExplained
  <2> QED BY <1>7, <2>1, <2>2 DEF Explained
<1>10. Mirrored'
  BY <1>0, <1>1, <1>6, SameHuman DEF Mirrored
<1>11. Unlocking'
  BY <1>4 DEF Unlocking
<1> QED BY <1>6, <1>8, <1>9, <1>10, <1>11 DEF TriageInv

\* What a maintainer did after a delivery, and not by it, refuses all it asks for.
LEMMA MaintainerRefuses ==
  ASSUME TriageTyped, Recorded, NEW d \in Report, NEW k \in 1..Len(changes),
         changes[k].by = "maintainer", ~T!IsOwn(d, k), d.at <= changes[k].at
  PROVE  ~Passes(d, T!HumanAt(d))
<1>1. changes[k].at \in Nat /\ d.at \in Nat
  <2>1. changes[k] \in Change
    BY DEF TriageTyped
  <2> QED BY <2>1 DEF Change, Report
<1>2. /\ SecondOf(d.at) \in Nat /\ SecondOf(changes[k].at) \in Nat
      /\ SecondOf(changes[k].at) >= SecondOf(d.at)
  BY <1>1, SecondsFollow
<1>3. IsOvertaken(d, d.at)
  BY <1>2 DEF IsOvertaken, Counts, T!Person
<1>4. NewerHumanChange(T!HumanAt(d), d.at)
  BY <1>1, <1>3, NewerIsCounted DEF HumanIsCounted
<1> QED BY <1>4 DEF Passes

\* An opening is refused by whatever a maintainer did since.
LEMMA OpeningIsRefused ==
  ASSUME TriageTyped, Recorded, NEW d \in Report, Waits(d), d.action = "opened",
         NEW k \in 1..Len(changes), changes[k].by = "maintainer"
  PROVE  ~Passes(d, T!HumanAt(d))
<1>1. d.by # "maintainer" /\ d.at = 0
  BY Reported DEF IsReported
<1>2. ~T!IsOwn(d, k)
  BY <1>1 DEF T!IsOwn, T!IsShown
<1>3. changes[k].at \in Nat
  <2>1. changes[k] \in Change
    BY DEF TriageTyped
  <2> QED BY <2>1 DEF Change
<1> QED BY <1>1, <1>2, <1>3, MaintainerRefuses

\* A tier is refused its word by a maintainer's later move of a tier: its own change came
\* first of those it shows.
LEMMA TierIsRefused ==
  ASSUME TriageTyped, Recorded, NEW d \in Report, Waits(d),
         d.action # "opened", d.about = "skill",
         NEW k \in 1..Len(changes), changes[k].by = "maintainer", TierOf(k), d.id < k
  PROVE  ~Passes(d, T!HumanAt(d))
<1>1. /\ d.id \in 1..Len(changes) /\ (d.about \in d.labels) = (d.action = "labeled")
      /\ changes[d.id] = [kind |-> d.action, about |-> d.about, by |-> d.by, at |-> d.at]
      /\ d.action \in {"labeled", "unlabeled"}
  BY Reported DEF IsReported, Report
<1>2. T!IsShown(d, changes[d.id])
  BY <1>1 DEF T!IsShown
<1>3. d.id \in 1..(k - 1) /\ changes[d.id].about = changes[k].about
  BY <1>1 DEF TierOf
<1>4. ~T!IsOwn(d, k)
  BY <1>2, <1>3 DEF T!IsOwn
<1>5. d.at <= changes[k].at
  <2>1. changes[d.id].at <= changes[k].at
    BY <1>1 DEF Recorded
  <2> QED BY <1>1, <2>1
<1> QED BY <1>4, <1>5, MaintainerRefuses

\* A delivery that left the issue triaged asks for the unlocking.
LEMMA TriageAsks ==
  ASSUME TriageTyped, Recorded, Mirrored, T!StandsTriaged, settings.lockUntilTriaged,
         NEW d \in Report, Waits(d), Unlocks(d)
  PROVE  T!Asked(d) = <<UnlockIt>> /\ Passes(d, T!HumanAt(d))
<1>1. d.at \in Nat /\ d.at <= d.at
  BY DEF Report
<1>2. /\ ~NewerHumanChange(T!HumanAt(d), d.at) /\ T!HumanAt(d) \in Nat \cup {None}
      /\ Allows(d, d.labels) /\ labels = d.labels /\ d.locked
      /\ d.by = "maintainer" /\ d.action = T!Last.kind /\ d.about = T!Last.about
  BY <1>1, NobodyAfterTriage
<1>3. Passes(d, T!HumanAt(d))
  BY <1>2, AnswersAssumption DEF Passes
<1>4. d.labels \ {"skill"} = {"ready"} /\ d.labels \in Shows
  BY <1>2 DEF T!StandsTriaged, T!Meanings, Report
<1>5. T!Projection(d.labels).positions = {"ready"}
  <2>1. T!Projection(d.labels) = Project("issue", {"ready"}, Open)
    BY <1>4, ShownIsObserved
  <2> QED BY <2>1 DEF Project, PositionsOf, IssueMeanings
<1>6. T!CompletesTriage(d)
  BY <1>2, <1>5 DEF T!CompletesTriage, T!Added, T!Removed, T!StandsTriaged
<1>7. T!OnTriaged(d) = <<UnlockIt>>
  BY <1>2 DEF T!OnTriaged, T!When, UnlockIt
<1>8. T!Asked(d) = <<UnlockIt>>
  <2>1. ~T!IsOpening(d) /\ d.by \notin T!Machine
    BY <1>2 DEF Unlocks, T!IsOpening, T!Machine
  <2> QED BY <1>6, <1>7, <2>1 DEF T!Asked
<1> QED BY <1>3, <1>8

\* A delivery is decided: an older word meets the newer change that refuses it, and a
\* triage gets its unlocking.
LEMMA QueueDecides ==
  ASSUME TriageInv, NEW d \in inbox, T!Decides(d)
  PROVE  TriageInv'
<1>0. TriageTyped /\ Recorded /\ Worded /\ Explained /\ Mirrored /\ Unlocking
  BY DEF TriageInv
<1>1. PICK human \in {T!HumanAt(d)} \cup {Unknown} :
        /\ pass' = T!WithEffects([at |-> "deciding", delivery |-> d, evaluated |-> now,
                                  left |-> <<>>, seen |-> {}], T!Approved(d, human))
        /\ failures' = IF human = Unknown THEN failures + 1 ELSE failures
  BY DEF T!Decides
<1> DEFINE list == T!Approved(d, human)
<1>2. /\ pass = T!Idle /\ ~Busy /\ inbox' = inbox \ {d} /\ settings' = settings
      /\ author' = author /\ labels' = labels /\ locked' = locked /\ welcome' = welcome
      /\ now' = now /\ changes' = changes /\ silent' = silent /\ lockedThen' = lockedThen
  BY DEF T!Decides, T!issue, Busy
<1>3. /\ d \in Report /\ Waits(d) /\ failures \in Nat /\ now \in Nat /\ inbox \subseteq Report
      /\ changes \in Seq(Change) /\ Len(changes) \in Nat
  BY <1>0 DEF TriageTyped, Waits
<1>4. IsReported(d) /\ d.at <= now /\ d.id \in Nat /\ d.id <= Len(changes)
  BY <1>0, <1>3, Reported
<1>5. T!HumanAt(d) \in Nat \cup {None} /\ T!HumanAt(d) # Unknown
  BY <1>0, <1>3, NewerIsCounted, AnswersAssumption DEF HumanIsCounted
<1>6. /\ list = <<>> \/ IsListOf(d, list)
      /\ ~Passes(d, human) => list = <<>>
      /\ Passes(d, human) /\ T!Asked(d) = <<UnlockIt>> => list = <<UnlockIt>>
  BY <1>0, <1>3, <1>4, <1>5, ApprovedIs
<1>7. Passes(d, human) => human = T!HumanAt(d)
  BY DEF Passes
<1>8. IsListOf(d, list) => list \in Seq(Effect) /\ list # <<>> /\ list # <<LockIt>>
  <2>1. /\ LabelIt \in Effect /\ LockIt \in Effect /\ UnlockIt \in Effect /\ WordOf(d) \in Effect
        /\ WordOf(d) # LockIt /\ UnlockIt # LockIt
    BY <1>3, EffectFacts
  <2> HIDE DEF list
  <2>2. SUFFICES ASSUME IsListOf(d, list)
                 PROVE  list \in Seq(Effect) /\ list # <<>> /\ list # <<LockIt>>
    OBVIOUS
  <2>3. PICK a, b, c, e : a = LabelIt /\ b = WordOf(d) /\ c = LockIt /\ e = UnlockIt
    OBVIOUS
  <2>4. a \in Effect /\ b \in Effect /\ c \in Effect /\ e \in Effect /\ b # c /\ e # c
    BY <2>1, <2>3
  <2>5. list \in {<<a, b, c>>, <<a, b>>, <<b, c>>, <<b>>, <<e>>}
    BY <2>2, <2>3 DEF IsListOf
  <2>6. list \in Seq(Effect) /\ list # <<>> /\ list # <<c>>
    <3>1. CASE list = <<a, b, c>>
      BY <2>4, <3>1
    <3>2. CASE list = <<a, b>>
      BY <2>4, <3>2
    <3>3. CASE list = <<b, c>>
      BY <2>4, <3>3
    <3>4. CASE list = <<b>>
      BY <2>4, <3>4
    <3>5. CASE list = <<e>>
      BY <2>4, <3>5
    <3> QED BY <2>5, <3>1, <3>2, <3>3, <3>4, <3>5
  <2> QED BY <2>3, <2>6
<1> HIDE DEF list
<1>9. IF list = <<>> THEN pass' = T!Idle
      ELSE /\ pass' \in Round /\ pass'.at = "gate" /\ pass'.delivery = d /\ pass'.evaluated = now
           /\ pass'.left = list /\ IsListOf(d, list) /\ Passes(d, human)
  <2>1. CASE list = <<>>
    BY <1>1, <2>1 DEF T!WithEffects, list
  <2>2. CASE list # <<>>
    <3>1. pass' = [at |-> "gate", delivery |-> d, evaluated |-> now, left |-> list, seen |-> {}]
      BY <1>1, <2>2 DEF T!WithEffects, list
    <3>2. {} \in Shows
      BY DEF Shows
    <3> QED BY <1>3, <1>6, <1>8, <2>2, <3>1, <3>2 DEF Round
  <2> QED BY <2>1, <2>2
<1>10. Busy' => /\ list # <<>> /\ pass' \in Round /\ pass'.at = "gate" /\ pass'.delivery = d
                /\ pass'.evaluated = now /\ pass'.left = list /\ IsListOf(d, list)
                /\ Passes(d, human)
  BY <1>9 DEF Busy
<1>11. \A m : Waits(m)' => Waits(m)
  BY <1>2, <1>3, <1>10 DEF Waits
<1>12. TriageTyped'
  <2>1. failures' \in Nat /\ pass' \in Round \cup {T!Idle}
    BY <1>1, <1>3, <1>9
  <2>2. (Busy => IsRestOf(pass.delivery, pass.left))'
    BY <1>10 DEF IsRestOf, IsListOf, LabelIt, LockIt, UnlockIt, WordOf, T!Ask, T!Checklist
  <2> QED BY <1>0, <1>2, <2>1, <2>2 DEF TriageTyped, T!Idle
<1>13. Recorded'
  <2>1. \A m : IsReported(m)' <=> IsReported(m)
    BY <1>2 DEF IsReported
  <2>2. (\A m \in Report : Waits(m) => IsReported(m))'
    BY <1>0, <1>11, <2>1 DEF Recorded
  <2>3. (Busy => pass.delivery.at <= pass.evaluated /\ pass.evaluated <= now)'
    BY <1>2, <1>3, <1>4, <1>10
  <2>4. (\A m \in 1..Len(changes) :
           /\ changes[m].at <= now
           /\ (changes[m].kind = "commented") = (changes[m].by = "author"))'
    BY <1>0, <1>2 DEF Recorded
  <2>5. (\A m, n \in 1..Len(changes) : m <= n => changes[m].at <= changes[n].at)'
    BY <1>0, <1>2 DEF Recorded
  <2> QED BY <2>2, <2>3, <2>4, <2>5 DEF Recorded
<1>14. Worded'
  <2>1. ASSUME welcome # None, Writes', ~MovedByMachine
        PROVE  welcome.from <= d.id
    <3>1. SUFFICES ASSUME ~(welcome.from <= d.id) PROVE FALSE
      OBVIOUS
    <3> DEFINE k == welcome.from
    <3>2. k \in Nat
      BY <1>0, <2>1 DEF TriageTyped, Word
    <3>3. k # 0 /\ d.id < k
      BY <1>3, <1>4, <3>1, <3>2
    <3>4. k \in 1..Len(changes) /\ TierOf(k)
      BY <1>0, <2>1, <3>3 DEF Worded
    <3>5. changes[k].by = "maintainer"
      <4>1. changes[k] \in Change
        BY <1>3, <3>4
      <4>2. changes[k].by # "author"
        BY <1>0, <3>4 DEF TierOf, Recorded
      <4>3. changes[k].by # "machine"
        BY <2>1, <3>4 DEF MovedByMachine, TierOf, T!Machine
      <4> QED BY <4>1, <4>2, <4>3 DEF Change
    <3>6. Passes(d, T!HumanAt(d)) /\ IsListOf(d, list) /\ list # <<UnlockIt>>
      BY <1>7, <1>10, <2>1 DEF Writes, Busy
    <3> HIDE DEF k
    <3>7. CASE d.action = "opened"
      BY <1>0, <1>3, <3>4, <3>5, <3>6, <3>7, OpeningIsRefused
    <3>8. CASE d.action # "opened"
      <4>1. d.about = "skill"
        BY <3>6, <3>8 DEF IsListOf
      <4> QED BY <1>0, <1>3, <3>3, <3>4, <3>5, <3>6, <3>8, <4>1, TierIsRefused
    <3> QED BY <3>7, <3>8
  <2>2. Writes' => pass'.delivery = d
    BY <1>10 DEF Writes
  <2> QED BY <1>0, <1>2, <2>1, <2>2, SameHuman DEF Worded
<1>15. Explained'
  BY <1>0, <1>2, <1>8, <1>10, SameHuman DEF Explained, IsExplained
<1>16. Mirrored'
  BY <1>0, <1>2, <1>11, SameHuman DEF Mirrored
<1>17. Unlocking'
  <2>1. SUFFICES ASSUME failures' = 0, settings.lockUntilTriaged, T!StandsTriaged
                 PROVE  \/ \E e \in inbox' : Unlocks(e)
                        \/ /\ Busy' /\ Unlocks(pass'.delivery) /\ pass'.left = <<UnlockIt>>
                           /\ pass'.at # "seen"
                        \/ ~locked /\ ~Relocks'
    <3>1. T!StandsTriaged' <=> T!StandsTriaged
      BY <1>2 DEF T!StandsTriaged, T!Last
    <3> QED BY <1>2, <3>1 DEF Unlocking, Unlocks
  <2>2. failures = 0 /\ human = T!HumanAt(d)
    BY <1>1, <1>3, <2>1
  <2>3. CASE Unlocks(d)
    <3>1. T!Asked(d) = <<UnlockIt>> /\ Passes(d, human)
      BY <1>0, <1>3, <2>1, <2>2, <2>3, TriageAsks
    <3>2. list = <<UnlockIt>> /\ list # <<>>
      <4>1. <<UnlockIt>> # <<>>
        OBVIOUS
      <4> QED BY <1>6, <3>1, <4>1
    <3>3. Busy'
      BY <1>9, <3>2 DEF Busy, T!Idle
    <3> QED BY <1>10, <2>3, <3>2, <3>3
  <2>4. CASE (\E e \in inbox : Unlocks(e)) /\ ~Unlocks(d)
    BY <1>2, <2>4
  <2>5. CASE ~locked
    <3>1. ASSUME Relocks' PROVE FALSE
      <4>1. d.action = "opened" /\ Passes(d, T!HumanAt(d))
        BY <1>10, <2>2, <3>1 DEF Relocks
      <4>2. Len(changes) \in 1..Len(changes) /\ changes[Len(changes)].by = "maintainer"
        BY <1>3, <2>1 DEF T!StandsTriaged, T!Last
      <4> QED BY <1>0, <1>3, <4>1, <4>2, OpeningIsRefused
    <3> QED BY <2>5, <3>1
  <2> QED BY <1>0, <1>2, <2>1, <2>2, <2>3, <2>4, <2>5 DEF Unlocking
<1> QED BY <1>12, <1>13, <1>14, <1>15, <1>16, <1>17 DEF TriageInv


\* The issue is opened.
LEMMA QueueBegins ==
  ASSUME T!Init
  PROVE  TriageInv
<1> USE AnswersAssumption
<1>1. /\ settings \in [lockUntilTriaged : BOOLEAN, welcome : BOOLEAN, skill : BOOLEAN]
      /\ settings.lockUntilTriaged \/ settings.skill
  BY DEF T!Init
<1>2. /\ labels \in {{}, {"awaitingTriage"}} /\ author \in {"author", "machine"}
      /\ locked = FALSE /\ welcome = None /\ now = 0 /\ changes = <<>>
      /\ inbox = {T!Opened(author, labels)} /\ pass = T!Idle
      /\ failures = 0 /\ silent = FALSE /\ lockedThen = FALSE
  BY DEF T!Init
<1>3. labels \in Shows /\ {} \in Shows
  <2>1. "awaitingTriage" \in Meaning \cup {"skill"}
    BY DEF Meaning, IssueMeanings
  <2>2. {} \subseteq Meaning \cup {"skill"} /\ {"awaitingTriage"} \subseteq Meaning \cup {"skill"}
    BY <2>1
  <2> QED BY <1>2, <2>2 DEF Shows
<1>4. T!Opened(author, labels) \in Report
  <2>1. T!Opened(author, labels) =
          [action |-> "opened", about |-> None, by |-> author, at |-> 0, id |-> 0,
           labels |-> labels, locked |-> FALSE]
    BY DEF T!Opened
  <2>2. author \in {"author", "maintainer", "machine"} /\ 0 \in Nat
    BY <1>2
  <2> QED BY <1>3, <2>1, <2>2 DEF Report
<1>5. ~Busy /\ Len(changes) = 0 /\ 1..0 = {}
  BY <1>2 DEF Busy
<1>6. TriageTyped
  <2>1. inbox \subseteq Report /\ changes \in Seq(Change)
    BY <1>2, <1>4
  <2>2. locked \in BOOLEAN /\ lockedThen \in BOOLEAN /\ silent \in BOOLEAN
        /\ welcome \in Word \cup {None} /\ now \in Nat /\ failures \in Nat
        /\ pass \in Round \cup {T!Idle}
    BY <1>2
  <2> QED BY <1>1, <1>2, <1>3, <1>5, <2>1, <2>2 DEF TriageTyped
<1>7. Recorded
  <2>1. ASSUME NEW d \in Report, Waits(d) PROVE IsReported(d)
    <3>1. d = T!Opened(author, labels)
      BY <1>2, <1>5, <2>1 DEF Waits
    <3>2. d.action = "opened" /\ d.id = 0 /\ d.at = 0 /\ d.by = author
      BY <3>1 DEF T!Opened
    <3> QED BY <1>2, <3>2 DEF IsReported
  <2> QED BY <1>2, <1>5, <2>1 DEF Recorded
<1>8. Worded /\ Explained
  BY <1>2, <1>5 DEF Worded, Explained
<1>9. Mirrored
  <2>1. ASSUME NEW d \in Report, Waits(d) PROVE d.action = "opened"
    BY <1>2, <1>5, <2>1 DEF Waits, T!Opened
  <2> QED BY <1>5, <2>1 DEF Mirrored
<1>10. Unlocking
  BY <1>2 DEF Unlocking, T!StandsTriaged
<1> QED BY <1>6, <1>7, <1>8, <1>9, <1>10 DEF TriageInv

\* Every step of the issue and of its lane keeps the invariant.
LEMMA QueueGoesOn ==
  ASSUME TriageInv, T!Next
  PROVE  TriageInv'
<1>1. ASSUME NEW about \in {"awaitingTriage", "ready", "skill", "blocked"},
             T!Relabels("maintainer", about)
      PROVE  TriageInv'
  BY <1>1, QueueRelabels
<1>2. ASSUME NEW about \in {"ready", "skill"}, T!Relabels("machine", about) PROVE TriageInv'
  BY <1>2, QueueRelabels
<1>3. CASE T!Comments("author")
  BY <1>3, QueueComments
<1>4. CASE T!Tick
  BY <1>4, QueueTicks
<1>5. ASSUME NEW d \in inbox, T!Decides(d) PROVE TriageInv'
  BY <1>5, QueueDecides
<1>6. CASE T!GateReads
  BY <1>6, QueueReads
<1>7. CASE T!GateJudges
  BY <1>7, QueueJudges
<1>8. CASE T!Lands
  BY <1>8, QueueLands
<1>9. CASE T!Fails
  BY <1>9, QueueFails
<1> QED BY <1>1, <1>2, <1>3, <1>4, <1>5, <1>6, <1>7, <1>8, <1>9 DEF T!Next

\* Where nothing of the queue changes, the invariant stays.
LEMMA QueueStutter ==
  TriageInv /\ UNCHANGED vars => TriageInv'
<1> SUFFICES ASSUME TriageInv, UNCHANGED vars PROVE TriageInv'
  OBVIOUS
<1>1. /\ settings' = settings /\ author' = author /\ labels' = labels /\ locked' = locked
      /\ welcome' = welcome /\ now' = now /\ changes' = changes /\ inbox' = inbox
      /\ pass' = pass /\ failures' = failures /\ silent' = silent /\ lockedThen' = lockedThen
  BY DEF vars, onlyTriage
<1>2. /\ \A d : T!HumanAt(d)' = T!HumanAt(d)
      /\ (MachineActed' <=> MachineActed) /\ (MovedByMachine' <=> MovedByMachine)
      /\ \A k : (TierOf(k)' <=> TierOf(k)) /\ (IsLatest(k)' <=> IsLatest(k))
  BY <1>1, SameHuman
<1>3. Busy' <=> Busy
  BY <1>1 DEF Busy
<1>4. \A d, list : IsRestOf(d, list)' <=> IsRestOf(d, list)
  BY DEF IsRestOf, IsListOf, LabelIt, LockIt, UnlockIt, WordOf
<1>5. \A d : (Waits(d)' <=> Waits(d)) /\ (IsReported(d)' <=> IsReported(d))
  BY <1>1 DEF Waits, Busy, IsReported
<1>6. TriageTyped'
  BY <1>1 DEF TriageInv, TriageTyped, Busy
<1>7. Recorded'
  BY <1>1, <1>3, <1>5 DEF TriageInv, Recorded
<1>8. Worded'
  BY <1>1, <1>2, <1>3 DEF TriageInv, Worded, Writes
<1>9. Explained'
  BY <1>1, <1>2, <1>3 DEF TriageInv, Explained, IsExplained, Overruled, Refused
<1>10. Mirrored'
  BY <1>1, <1>2, <1>5 DEF TriageInv, Mirrored
<1>11. Unlocking'
  <2>1. T!StandsTriaged' <=> T!StandsTriaged
    BY <1>1 DEF T!StandsTriaged, T!Last
  <2> QED BY <1>1, <1>2, <1>3, <2>1 DEF TriageInv, Unlocking, Unlocks, Relocks
<1> QED BY <1>6, <1>7, <1>8, <1>9, <1>10, <1>11 DEF TriageInv

-----------------------------------------------------------------------------
(* Handlers: a behaviour is of one of the two.                             *)

IInv ==
  /\ capability = "assignment" => ClaimsInv
  /\ capability = "triageQueue" => TriageInv

\* The capability a behaviour is of never changes, and its invariant holds throughout.
THEOREM Invariance == Spec => []IInv
<1>1. Init => IInv
  <2>1. ASSUME Init, capability = "assignment" PROVE ClaimsInv
    BY <2>1, ClaimsBegin DEF Init
  <2>2. ASSUME Init, capability = "triageQueue" PROVE TriageInv
    BY <2>2, QueueBegins DEF Init
  <2> QED BY <2>1, <2>2 DEF IInv
<1>2. IInv /\ [Next]_vars => IInv'
  <2>1. ASSUME IInv, Next, capability' = "assignment" PROVE ClaimsInv'
    <3>1. capability = "assignment" /\ ClaimsNext
      BY <2>1 DEF Next
    <3> QED BY <2>1, <3>1, ClaimsGoOn DEF IInv
  <2>2. ASSUME IInv, UNCHANGED vars, capability' = "assignment" PROVE ClaimsInv'
    <3>1. capability = "assignment"
      BY <2>2 DEF vars
    <3> QED BY <2>2, <3>1, ClaimsStutter DEF IInv
  <2>3. ASSUME IInv, Next, capability' = "triageQueue" PROVE TriageInv'
    <3>1. capability = "triageQueue" /\ T!Next
      BY <2>3 DEF Next
    <3> QED BY <2>3, <3>1, QueueGoesOn DEF IInv
  <2>4. ASSUME IInv, UNCHANGED vars, capability' = "triageQueue" PROVE TriageInv'
    <3>1. capability = "triageQueue"
      BY <2>4 DEF vars
    <3> QED BY <2>4, <3>1, QueueStutter DEF IInv
  <2> QED BY <2>1, <2>2, <2>3, <2>4 DEF IInv
<1> QED BY <1>1, <1>2, PTL DEF Spec

\* Every step of the claims stays within its bounds.
Bounded == now \in 0..MaxNow /\ made \in 0..MaxChanges /\ failures \in 0..MaxFailures
LEMMA StaysBounded ==
  ASSUME Bounded, ClaimsNext
  PROVE  Bounded'
<1> USE ClaimsAssumption DEF Bounded
<1>1. ASSUME NEW by \in Login, NEW i \in Issue, NEW command \in {"assign", "unassign"},
             Commands(by, i, command)
      PROVE  Bounded'
  BY <1>1 DEF Commands, Does
<1>2. ASSUME NEW i \in Issue, Labels(i) PROVE Bounded'
  BY <1>2 DEF Labels, Does
<1>3. ASSUME NEW i \in Issue, NEW login \in Login, Natively(i, login) PROVE Bounded'
  BY <1>3 DEF Natively, Does
<1>4. CASE Tick
  BY <1>4 DEF Tick, github
<1>5. ASSUME NEW k \in Lane, NEW d \in inbox, Takes(k, d) PROVE Bounded'
  BY <1>5 DEF Takes, github
<1>6. ASSUME NEW k \in Lane, PassSteps(k) PROVE Bounded'
  <2>1. World /\ UNCHANGED failures => Bounded'
    BY DEF World, github
  <2>2. CASE Lands(k)
    BY <2>2 DEF Lands
  <2> QED BY <1>6, <2>1, <2>2
  DEF PassSteps, AsksHolders, AsksOpen, Judges, GateReads, GateJudges
<1>7. ASSUME NEW k \in Lane, Fails(k) PROVE Bounded'
  BY <1>7 DEF Fails, World, github
<1> QED BY <1>1, <1>2, <1>3, <1>4, <1>5, <1>6, <1>7 DEF ClaimsNext

\* The claim commands are well typed (Claims).
THEOREM TypeCorrect == Spec => [](capability = "assignment" => ClaimsTypeOK)
<1> DEFINE Kept == capability = "assignment" => Bounded
<1>1. Init => Kept
  BY ClaimsAssumption DEF Init, ClaimsInit, Bounded
<1>2. Kept /\ [Next]_vars => Kept'
  <2>1. ASSUME Kept, Next, capability' = "assignment" PROVE Bounded'
    BY <2>1, StaysBounded DEF Next
  <2>2. ASSUME Kept, UNCHANGED vars, capability' = "assignment" PROVE Bounded'
    BY <2>2 DEF vars, onlyClaims, Bounded
  <2> QED BY <2>1, <2>2
<1>3. IInv /\ Kept => (capability = "assignment" => ClaimsTypeOK)
  <2>1. SUFFICES ASSUME ClaimsInv, Bounded PROVE ClaimsTypeOK
    BY DEF IInv
  <2>2. \A k \in Lane : pass[k].at \in Places \cup {"idle"}
    BY <2>1, WalkFacts DEF ClaimsInv
  <2> QED BY <2>1, <2>2 DEF ClaimsInv, Typed, Bounded, ClaimsTypeOK
<1> HIDE DEF Kept
<1> QED BY <1>1, <1>2, <1>3, Invariance, PTL DEF Spec

\* A person's last word stands: when everything is decided and nothing failed, whoever
\* released an issue last, in a second of its own, does not hold it, however late an older
\* claim of theirs was delivered (issue-comment.ts, human-ordering.ts).
THEOREM LastWordStands == Spec => []LastCommandStands
<1>1. ASSUME ClaimsInv PROVE ReleaseStands
  <2>1. SUFFICES ASSUME inbox = {}, failures = 0, \A k \in Lane : pass[k] = Idle,
                        NEW i \in Issue \ disturbed, ReleaseIsNewest(i), Clear(labels[i])
                 PROVE  timeline[i][Len(timeline[i])].by \notin assignees[i]
    BY DEF ReleaseStands
  <2>2. Pending(i)
    BY <1>1, <2>1 DEF ClaimsInv, Released, Stands
  <2>3. \A k \in Lane : ~Carries(pass[k], i)
    BY <2>1 DEF Carries
  <2> QED BY <2>1, <2>2, <2>3 DEF Pending, Newest
<1>2. IInv => LastCommandStands
  BY <1>1 DEF IInv, LastCommandStands
<1> QED BY <1>2, Invariance, PTL

\* A claim lands on an issue nobody holds, within the cap and where nothing denies it,
\* except behind another pass's call, a person's change after its gate judged, a machine's
\* label after its gate read, or a change of the person's other holdings after they were
\* counted (assign.ts, gates.ts, resolvers.ts).
THEOREM ClaimsAreAllowed == Spec => ClaimsStayWithin
<1>1. ASSUME ClaimsInv PROVE ClaimWithin /\ ClaimAllowed
  <2>1. ASSUME NEW k \in Lane, ClaimLands(k)
        PROVE  LET d == pass[k].delivery
               IN /\ assignees[d.issue] = {} \/ "holders" \in stale[k]
                  /\ (MaxOpen > 0 /\ "count" \notin stale[k]) => Cardinality(Held(d.by)) < MaxOpen
                  /\ "gate" \notin stale[k] => labels[d.issue] \cap Denies = {}
    <3>1. pass[k].at = "send" /\ pass[k].delivery.command = "assign"
      BY <2>1 DEF ClaimLands, Is
    <3>2. Claiming(k)
      BY <3>1 DEF Claiming, Idle
    <3>3. NobodyHolds(k) /\ CountsLess(k) /\ NothingDenies(k)
      BY <1>1 DEF ClaimsInv, Asking
    <3>4. assignees[pass[k].delivery.issue] = {} \/ "holders" \in stale[k]
      BY <3>1, <3>2, <3>3 DEF NobodyHolds, GivesWay
    <3>5. (MaxOpen > 0 /\ "count" \notin stale[k]) => Cardinality(Held(pass[k].delivery.by)) < MaxOpen
      BY <3>1, <3>2, <3>3 DEF CountsLess, GivesWay
    <3>6. "gate" \notin stale[k] => labels[pass[k].delivery.issue] \cap Denies = {}
      BY <3>1, <3>2, <3>3 DEF NothingDenies, Claiming
    <3> QED BY <3>4, <3>5, <3>6
  <2> QED BY <2>1 DEF ClaimWithin, ClaimAllowed
<1>2. IInv => (capability = "assignment" => ClaimWithin /\ ClaimAllowed)
  BY <1>1 DEF IInv
<1>3. IInv /\ [Next]_vars => [capability = "assignment" => ClaimWithin /\ ClaimAllowed]_vars
  BY <1>2
<1> QED BY <1>3, Invariance, PTL DEF Spec, ClaimsStayWithin

\* A lock never stands without the word that explains it, and no longer once a person left
\* the issue at `ready` and everything is decided, in whatever order GitHub delivered
\* (triageQueue's design.md, D217).
THEOREM LockIsRight == Spec => []LockFollowsTriage
<1>1. ASSUME TriageInv PROVE T!TriagedIsUnlocked
  <2>1. SUFFICES ASSUME pass = T!Idle, inbox = {}, failures = 0, settings.lockUntilTriaged,
                        T!StandsTriaged
                 PROVE  ~locked
    BY DEF T!TriagedIsUnlocked
  <2>2. ~Busy
    BY <2>1 DEF Busy
  <2> QED BY <1>1, <2>1, <2>2 DEF TriageInv, Unlocking
<1>2. ASSUME TriageInv PROVE T!LockIsExplained
  BY <1>2 DEF TriageInv, Explained, IsExplained, MachineActed, T!LockIsExplained
<1>3. IInv => LockFollowsTriage
  BY <1>1, <1>2 DEF IInv, LockFollowsTriage
<1> QED BY <1>3, Invariance, PTL

\* A checklist drawn from an older payload never replaces a newer one, unless a machine
\* moved a tier: only a landing call writes it, and the delivery that would write an older
\* one was refused at its decision or at its act (human-ordering.ts, decide.ts).
THEOREM NewerWordStays == Spec => NewerChecklistStays
<1>1. ASSUME TriageInv, T!Next PROVE T!ChecklistStep
  <2>1. SUFFICES ASSUME welcome # None, welcome' # welcome
                 PROVE  welcome'.from >= welcome.from \/ MovedByMachine
    BY DEF T!ChecklistStep, MovedByMachine
  <2>2. T!Lands
    <3>1. \A by, about : ~T!Relabels(by, about)
      BY <2>1 DEF T!Relabels
    <3>2. ~T!Comments("author") /\ ~T!Tick
      BY <2>1 DEF T!Comments, T!Tick, T!issue
    <3>3. \A d : ~T!Decides(d)
      BY <2>1 DEF T!Decides, T!issue
    <3>4. ~T!GateReads /\ ~T!GateJudges /\ ~T!Fails
      BY <2>1 DEF T!GateReads, T!GateJudges, T!Fails, T!issue
    <3> QED BY <1>1, <3>1, <3>2, <3>3, <3>4 DEF T!Next
  <2> DEFINE d == pass.delivery
             effect == Head(pass.left)
  <2>3. pass.at = "send" /\ welcome' = IF effect.op = "postManagedComment" THEN effect.body ELSE welcome
    BY <2>2 DEF T!Lands, T!Doing
  <2>4. Busy /\ d \in Report /\ d.id \in Nat /\ IsRestOf(d, pass.left)
    <3>1. Busy /\ d \in Report /\ IsRestOf(d, pass.left)
      BY <1>1, <2>3, BusyFacts DEF TriageInv
    <3> QED BY <3>1 DEF Report
  <2>5. effect \in {LabelIt, WordOf(d), LockIt, UnlockIt}
    BY <2>4, RestFacts
  <2>6. effect.op = "postManagedComment"
    BY <2>1, <2>3
  <2>7. effect = WordOf(d) /\ effect.body = T!Checklist(d)
    BY <2>4, <2>5, <2>6, EffectFacts
  <2>8. welcome'.from = d.id
    BY <2>3, <2>6, <2>7 DEF T!Checklist
  <2>9. Writes
    <3>1. PICK lock, unlock : lock = LockIt /\ unlock = UnlockIt
      OBVIOUS
    <3>2. lock.op # "postManagedComment" /\ unlock.op # "postManagedComment"
      BY <2>4, <3>1, EffectFacts
    <3>3. pass.left # <<lock>> /\ pass.left # <<unlock>>
      BY <2>6, <3>2
    <3> QED BY <2>4, <3>1, <3>3 DEF Writes
  <2>10. welcome.from \in Nat /\ (welcome.from <= d.id \/ MovedByMachine)
    <3>1. welcome \in Word
      BY <1>1, <2>1 DEF TriageInv, TriageTyped
    <3> QED BY <1>1, <2>1, <2>9, <3>1 DEF TriageInv, Worded, Word
  <2> QED BY <2>4, <2>8, <2>10
<1>2. IInv /\ [Next]_vars => [capability = "triageQueue" => T!ChecklistStep]_vars
  BY <1>1 DEF IInv, Next
<1> QED BY <1>2, Invariance, PTL DEF Spec, NewerChecklistStays
=============================================================================
