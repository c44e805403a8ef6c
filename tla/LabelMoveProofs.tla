-------------------------- MODULE LabelMoveProofs --------------------------
(***************************************************************************)
(* Theorems of LabelMove, for any passes, recoveries and people at once,   *)
(* any positions, any clock and any bounds.                                *)
(***************************************************************************)
EXTENDS LabelMove, FiniteSetTheorems, WellFoundedInduction, TLAPS

(* The safety ladder, as far as the label lane leans on it.                *)

\* A set of naturals that is not empty has a least element.
LEMMA LeastExists ==
  ASSUME NEW T, T \subseteq Nat, T # {}
  PROVE  \E x \in T : \A y \in T : x <= y
<1>1. PICK x \in T : \A y \in T : ~(<<y, x>> \in OpToRel(<, Nat))
  <2>1. IsWellFoundedOn(OpToRel(<, Nat), Nat)
    BY NatLessThanWellFounded
  <2> HIDE DEF OpToRel
  <2>2. QED BY <2>1, WFMin
<1>2. \A y \in T : x <= y
  <2> TAKE y \in T
  <2>1. ~(y < x)
    <3>1. ~(<<y, x>> \in {ss \in Nat \X Nat : ss[1] < ss[2]})
      BY <1>1 DEF OpToRel
    <3>2. <<y, x>> \in Nat \X Nat /\ <<y, x>>[1] = y /\ <<y, x>>[2] = x
      OBVIOUS
    <3>3. QED BY <3>1, <3>2
  <2>2. QED BY <2>1
<1>3. QED BY <1>2

\* A write goes through only where what it was planned on holds, and the newest change by a
\* person is known and came before the write was decided.
LEMMA WriteApplies ==
  ASSUME NEW w, WriteVerdict(w) = "apply"
  PROVE  w.world.holds /\ w.since # Invalid /\ ~NewerHumanChange(w.human, w.since)
<1> DEFINE standing == StandingRules(w)
           rules == ItemRules(w)
           objects == [code \in DOMAIN standing \cup DOMAIN rules |->
                         IF code \in DOMAIN standing THEN standing[code] ELSE rules[code]]
           objecting == {i \in 1..Len(Order) : Order[i] \in DOMAIN objects /\ objects[Order[i]]}
<1>1. w.world.holds /\ FirstOf(Order, objects) = "apply"
  BY DEF WriteVerdict, Preflight, GeneralVerdict
<1>2. Len(Order) = 10 /\ \A i \in 1..10 : Order[i] # "apply"
  BY DEF Order
<1>3. Order[7] = "invalidTimestamp" /\ Order[8] = "newerHumanChange"
  BY DEF Order
<1>4. objects.invalidTimestamp = rules.invalidTimestamp /\ objects.newerHumanChange = rules.newerHumanChange
  BY DEF StandingRules, ItemRules
<1>5. {"invalidTimestamp", "newerHumanChange"} \subseteq DOMAIN objects
  BY DEF ItemRules
<1> HIDE DEF objects
<1>6. objecting = {}
  <2>1. SUFFICES ASSUME objecting # {} PROVE FALSE
    OBVIOUS
  <2>2. \E i \in objecting : \A j \in objecting : i <= j
    <3>1. objecting \subseteq Nat
      BY <1>2
    <3> HIDE DEF objecting
    <3> QED BY <2>1, <3>1, LeastExists
  <2>3. FirstOf(Order, objects) \in {Order[i] : i \in objecting}
    BY <2>1, <2>2 DEF FirstOf
  <2> QED BY <1>1, <1>2, <2>3
<1>7. ~objects.invalidTimestamp /\ ~objects.newerHumanChange
  BY <1>2, <1>3, <1>5, <1>6
<1> QED BY <1>1, <1>4, <1>7 DEF ItemRules

\* Dates to the second keep the order of the instants they stand for.
LEMMA OlderThanSince ==
  ASSUME NEW human \in Int, NEW since \in Int, ~NewerHumanChange(human, since)
  PROVE  human < since
<1> DEFINE x == human \div PerSecond
           y == since \div PerSecond
<1>1. /\ x \in Int /\ y \in Int
      /\ PerSecond * x <= human /\ human < PerSecond * (x + 1)
      /\ PerSecond * y <= since /\ since < PerSecond * (y + 1)
  BY SafetyAssumption
<1>2. x < y
  BY <1>1 DEF NewerHumanChange, SecondOf
<1> HIDE DEF x, y
<1>3. PerSecond * (x + 1) <= PerSecond * y
  BY <1>1, <1>2, SafetyAssumption
<1>4. PerSecond * (x + 1) \in Int /\ PerSecond * y \in Int
  BY <1>1, SafetyAssumption
<1> QED BY <1>1, <1>3, <1>4

----------------------------------------------------------------------------
(* What a pass carries, place by place.                                    *)

Facts == SUBSET (PrMeanings \cup {"blocked"})
Calls == [verb : {"addLabel", "removeLabel"}, meaning : PrMeanings]

IdlePass == [at : {"idle"}]
ReadPass == [at : {"read"}, facts : Facts, closed : {Open, "closed"}, observed : Nat]
AskedPass == [at : {"approved"}, facts : Facts, closed : {Open, "closed"}, observed : Nat,
              to : PrMeanings, evaluated : Nat]
SeenPass == [at : {"seen"}, facts : Facts, closed : {Open, "closed"}, observed : Nat,
             to : PrMeanings, evaluated : Nat, seen : Facts, closure : {Open, "closedByHuman"}]
CallPass == [at : {"add", "remove"}, facts : Facts, to : PrMeanings, closed : {Open, "closed"},
             observed : Nat]
Passes == IdlePass \cup ReadPass \cup AskedPass \cup SeenPass \cup CallPass

Typed ==
  /\ labels \in Facts /\ closedBy \in {Open, "closedByHuman"}
  /\ now \in Nat /\ humanAt \in Nat \cup {None} /\ (humanAt # None => humanAt <= now)
  /\ pass \in [Lane -> Passes] /\ half \in [Lane -> CallPass \cup {None}]
  /\ open \subseteq Calls /\ mending \in Calls \cup {None}
  /\ losses \in Nat /\ humans \in Nat /\ crossed \subseteq Lane

\* What was read came before the decision, and a person who changed the item since did so
\* when the decision had begun.
Timed(p) ==
  /\ p.at = "read" => p.observed <= now
  /\ p.at \in {"approved", "seen"} =>
       /\ p.observed <= p.evaluated /\ p.evaluated <= now
       /\ humanAt = None \/ humanAt < p.observed \/ humanAt >= p.evaluated

\* A move starts from one position at most, and goes on only when that one is displaced.
Single(S) == \A x, y \in S : x = y
FromOne(p) ==
  /\ p.at \in {"approved", "seen", "add", "remove"} => Single(Positions(p.facts))
  /\ p.at = "remove" => Displaced(p) # {}

\* What nobody crossed stands as the gate read it, but for the pass's own calls.
Placed(p) ==
  /\ p.at = "add" =>
       (Positions(p.facts) # {} => Positions(labels) = Positions(p.facts))
  /\ p.at = "remove" =>
       (Positions(p.facts) # {} => Positions(labels) = Positions(p.facts) \cup {p.to})

LaneOK(l) ==
  /\ Timed(pass[l]) /\ FromOne(pass[l])
  /\ half[l] # None => half[l].at = "remove" /\ FromOne(half[l]) /\ pass[l].at = "idle"
  /\ l \notin crossed =>
       /\ pass[l].at = "seen" => pass[l].seen = labels
       /\ Placed(pass[l])
       /\ half[l] # None => Placed(half[l])

IInv == Typed /\ \A l \in Lane : LaneOK(l)

----------------------------------------------------------------------------
(* What the ladder and the screen say of a move.                           *)

\* A set of at most one element, by its cardinality.
LEMMA SingleByCardinality ==
  ASSUME NEW S, S \subseteq PrMeanings, ~(Cardinality(S) > 1)
  PROVE  Single(S)
<1> SUFFICES ASSUME NEW x \in S, NEW y \in S, x # y PROVE FALSE
  BY DEF Single
<1>1. IsFiniteSet(PrMeanings)
  <2>1. IsFiniteSet({}) BY FS_EmptySet
  <2>2. IsFiniteSet({"needsReview"}) BY FS_Singleton
  <2>3. IsFiniteSet({"needsReview"} \cup {"needsRevision"}) BY <2>2, FS_AddElement
  <2>4. IsFiniteSet(({"needsReview"} \cup {"needsRevision"}) \cup {"readyToMerge"})
    BY <2>3, FS_AddElement
  <2>5. PrMeanings = ({"needsReview"} \cup {"needsRevision"}) \cup {"readyToMerge"}
    BY DEF PrMeanings
  <2>6. QED BY <2>4, <2>5
<1>2. IsFiniteSet(S) /\ Cardinality(S) \in Nat
  BY <1>1, FS_Subset, FS_CardinalityType
<1>3. IsFiniteSet({x}) /\ Cardinality({x}) = 1
  BY FS_Singleton
<1>4. IsFiniteSet({x} \cup {y}) /\ Cardinality({x} \cup {y}) = 2
  <2>1. y \notin {x}
    OBVIOUS
  <2>2. QED BY <1>3, <2>1, FS_AddElement
<1>5. {x} \cup {y} \subseteq S
  OBVIOUS
<1>6. Cardinality({x} \cup {y}) <= Cardinality(S)
  BY <1>2, <1>5, FS_Subset
<1>7. QED BY <1>2, <1>4, <1>6

\* What the ladder applied was open to it: what was observed bears the claims out, and the
\* newest change by a person came first.
LEMMA LadderApplies ==
  ASSUME Typed, NEW p, p.to \in PrMeanings, p.facts \in Facts,
         NEW meanings \in Facts, NEW closure, NEW since \in Nat,
         LadderVerdict(p, meanings, closure, since) = "apply"
  PROVE  /\ Single(Positions(meanings))
         /\ Positions(p.facts) \subseteq Positions(meanings)
         /\ humanAt = None \/ humanAt < since
<1> DEFINE proj == Project("pullRequest", meanings, closure)
           w == [capability |-> "prDashboard", class |-> "reversibleStateChange",
                 config |-> ActiveConfig, missing |-> {}, kill |-> FALSE,
                 world |-> DeriveWorld(proj, Claims(p), {}), human |-> humanAt, since |-> since]
<1>1. w.world.holds /\ ~NewerHumanChange(w.human, w.since)
  <2>1. WriteVerdict(w) = "apply"
    BY DEF LadderVerdict
  <2> HIDE DEF w
  <2>2. QED BY <2>1, WriteApplies
<1>2. w.world = DeriveWorld(proj, Claims(p), {}) /\ w.human = humanAt /\ w.since = since
  OBVIOUS
<1> HIDE DEF w, proj
<1>3. ~NewerHumanChange(humanAt, since)
  BY <1>1, <1>2
<1>4. humanAt = None \/ humanAt < since
  BY <1>3, OlderThanSince DEF Typed
<1>5. ~IsConflict(proj) /\ ExpectedHolds(Claims(p), proj, {})
  <2>1. DeriveWorld(proj, Claims(p), {}).holds
    BY <1>1, <1>2
  <2>2. DeriveWorld(proj, Claims(p), {}).holds
          = (~IsConflict(proj) /\ ExpectedHolds(Claims(p), proj, {}))
    BY DEF DeriveWorld
  <2>3. QED BY <2>1, <2>2, Zenon
<1>6. /\ proj.positions = Positions(meanings) /\ proj.blocked = ("blocked" \in meanings)
      /\ proj.ignored = meanings \ (PrMeanings \cup {"blocked"})
  BY DEF proj, Project, Positions, PositionsOf
<1>7. Positions(p.facts) \subseteq ObservedMeanings(proj)
  BY <1>5 DEF ExpectedHolds, Claims, Positions
<1>8. Single(Positions(meanings))
  BY <1>5, <1>6, SingleByCardinality DEF IsConflict, Positions
<1>9. Positions(p.facts) \subseteq Positions(meanings)
  BY <1>6, <1>7 DEF ObservedMeanings, Positions, PrMeanings
<1>10. QED BY <1>4, <1>8, <1>9

\* A move the screen lets through starts from one position at most.
LEMMA ScreenSingle ==
  ASSUME NEW meanings, NEW closure, NEW to, NEW cause,
         ScreenMove(Project("pullRequest", meanings, closure), to, cause) = "ok"
  PROVE  Single(Positions(meanings))
<1>1. ~IsConflict(Project("pullRequest", meanings, closure))
  BY DEF ScreenMove
<1>2. Project("pullRequest", meanings, closure).positions = meanings \cap PrMeanings
  BY DEF Project, PositionsOf
<1>3. QED BY <1>1, <1>2, SingleByCardinality DEF IsConflict, Positions

----------------------------------------------------------------------------
(* The steps.                                                              *)

\* A lane no step of its own: it is as it was, unless somebody crossed it.
LEMMA LaneCarries ==
  ASSUME Typed, Typed', NEW l \in Lane, LaneOK(l),
         pass'[l] = pass[l], half'[l] = half[l], now' >= now,
         humanAt' = humanAt \/ humanAt' = now,
         l \notin crossed' => l \notin crossed /\ labels' = labels
  PROVE  LaneOK(l)'
<1>1. Timed(pass[l])'
  <2>1. now \in Nat /\ now' \in Nat
    BY DEF Typed
  <2>2. pass[l].at = "read" => pass[l].observed \in Nat
    BY DEF Typed, Passes, IdlePass, ReadPass, AskedPass, SeenPass, CallPass
  <2>3. pass[l].at \in {"approved", "seen"} => pass[l].observed \in Nat /\ pass[l].evaluated \in Nat
    BY DEF Typed, Passes, IdlePass, ReadPass, AskedPass, SeenPass, CallPass
  <2>4. Timed(pass[l])
    BY DEF LaneOK
  <2>5. QED BY <2>1, <2>2, <2>3, <2>4 DEF Timed
<1>2. FromOne(pass[l])' /\ (half'[l] # None => half'[l].at = "remove" /\ FromOne(half[l])'
                                                /\ pass'[l].at = "idle")
  BY DEF LaneOK, FromOne, Displaced, Positions
<1>3. l \notin crossed' =>
        /\ pass'[l].at = "seen" => pass'[l].seen = labels'
        /\ Placed(pass[l])'
        /\ half'[l] # None => Placed(half[l])'
  BY DEF LaneOK, Placed, Positions
<1>4. QED BY <1>1, <1>2, <1>3 DEF LaneOK

\* Every lane but one is no lane's own step.
LEMMA OthersCarry ==
  ASSUME Typed, Typed', \A l \in Lane : LaneOK(l), NEW l \in Lane, LaneOK(l)',
         \A m \in Lane : m # l => pass'[m] = pass[m] /\ half'[m] = half[m],
         now' = now, humanAt' = humanAt,
         \A m \in Lane : m # l /\ m \notin crossed' => m \notin crossed /\ labels' = labels
  PROVE  IInv'
<1>1. \A m \in Lane : m # l => LaneOK(m)'
  <2> TAKE m \in Lane
  <2>1. now' >= now
    BY DEF Typed
  <2>2. QED BY <2>1, LaneCarries
<1>2. QED BY <1>1 DEF IInv

\* A pass's lane is touched at its own place only.
LEMMA OwnPlace ==
  ASSUME Typed, NEW l \in Lane, NEW q \in Passes, pass' = [pass EXCEPT ![l] = q]
  PROVE  /\ pass' \in [Lane -> Passes] /\ pass'[l] = q
         /\ \A m \in Lane : m # l => pass'[m] = pass[m]
BY DEF Typed

\* The invariant holds where nobody has done anything yet.
LEMMA InitIInv == Init => IInv
BY LabelMoveAssumption
DEF Init, IInv, Typed, Facts, Idle, Passes, IdlePass, LaneOK, Timed, FromOne, Placed, PrMeanings

\* ReadFacts keeps the invariant.
LEMMA ReadFactsStep ==
  ASSUME IInv, NEW l \in Lane, ReadFacts(l)
  PROVE  IInv'
<1> DEFINE q == [at |-> "read", facts |-> labels,
                 closed |-> IF closedBy = Open THEN Open ELSE "closed", observed |-> now]
<1>1. /\ pass' = [pass EXCEPT ![l] = q] /\ half[l] = None
      /\ UNCHANGED <<labels, closedBy, now, humanAt, half, open, mending, humans, losses, crossed>>
  BY DEF ReadFacts, item
<1>2. q \in ReadPass /\ q.at = "read" /\ q.observed = now
  BY DEF ReadPass, IInv, Typed
<1> HIDE DEF q
<1>3. q \in Passes
  BY <1>2 DEF Passes
<1>4. /\ pass' \in [Lane -> Passes] /\ pass'[l] = q
      /\ \A m \in Lane : m # l => pass'[m] = pass[m]
  BY <1>1, <1>3, OwnPlace DEF IInv
<1>5. Typed'
  BY <1>1, <1>4 DEF IInv, Typed
<1>6. LaneOK(l)'
  BY <1>1, <1>2, <1>4, <1>5 DEF IInv, Typed, LaneOK, Timed, FromOne, Placed
<1>7. QED BY <1>1, <1>4, <1>5, <1>6, OthersCarry DEF IInv

\* A lane that is idle, and resumes nothing, promises nothing.
LEMMA IdleIsOK ==
  ASSUME NEW l \in Lane, pass[l] = Idle, half[l] = None
  PROVE  LaneOK(l)
BY DEF LaneOK, Timed, FromOne, Placed, Idle

\* A decision, where it asks, asks from one position, later than it read.
LEMMA DecidesFacts ==
  ASSUME IInv, NEW l \in Lane, pass[l].at = "read", NEW to \in Movable, NEW cause
  PROVE  LET q == Decides(pass[l], to, cause)
         IN \/ q = Idle
            \/ /\ q \in AskedPass /\ q.at = "approved" /\ q.facts = pass[l].facts
               /\ Single(Positions(q.facts))
               /\ q.observed <= q.evaluated /\ q.evaluated = now
               /\ humanAt = None \/ humanAt < q.observed
<1> DEFINE p == pass[l]
           closure == IF p.closed = Open THEN Open ELSE "closedByHuman"
           asked == [at |-> "approved", facts |-> p.facts, closed |-> p.closed,
                     observed |-> p.observed, to |-> to, evaluated |-> now]
<1>1. p \in ReadPass /\ p.observed <= now
  BY DEF IInv, Typed, Passes, IdlePass, ReadPass, AskedPass, SeenPass, CallPass, LaneOK, Timed
<1>2. to \in PrMeanings
  BY LabelMoveAssumption
<1>3. asked \in AskedPass
  BY <1>1, <1>2 DEF ReadPass, AskedPass, IInv, Typed
<1>4. CASE /\ ScreenMove(Project("pullRequest", p.facts, closure), to, cause) = "ok"
           /\ LadderVerdict(asked, p.facts, closure, p.observed) = "apply"
           /\ Decides(p, to, cause) = asked
  <2>1. Single(Positions(p.facts))
    BY <1>4, ScreenSingle
  <2>2. /\ asked.to \in PrMeanings /\ asked.facts \in Facts /\ p.facts \in Facts
        /\ p.observed \in Nat /\ Typed
    BY <1>1, <1>2 DEF ReadPass, IInv
  <2> HIDE DEF p, asked, closure
  <2>3. humanAt = None \/ humanAt < p.observed
    BY <1>4, <2>2, LadderApplies
  <2>4. QED BY <1>1, <1>3, <1>4, <2>1, <2>3 DEF asked, p
<1>5. CASE Decides(p, to, cause) = Idle
  BY <1>5
<1>6. QED BY <1>4, <1>5 DEF Decides

\* Decide keeps the invariant.
LEMMA DecideStep ==
  ASSUME IInv, NEW l \in Lane, Decide(l)
  PROVE  IInv'
<1>1. PICK to \in Movable, cause \in CausesOf("pullRequest") :
        pass' = [pass EXCEPT ![l] = Decides(pass[l], to, cause)]
  BY DEF Decide
<1>2. /\ pass[l].at = "read"
      /\ UNCHANGED <<labels, closedBy, now, humanAt, half, open, mending, humans, losses, crossed>>
  BY DEF Decide, item, Is
<1> DEFINE q == Decides(pass[l], to, cause)
<1>3. \/ q = Idle
      \/ /\ q \in AskedPass /\ q.at = "approved" /\ Single(Positions(q.facts))
         /\ q.observed <= q.evaluated /\ q.evaluated = now
         /\ humanAt = None \/ humanAt < q.observed
  BY <1>2, DecidesFacts
<1> HIDE DEF q
<1>4. q \in Passes
  BY <1>3 DEF Passes, IdlePass, Idle
<1>5. /\ pass' \in [Lane -> Passes] /\ pass'[l] = q
      /\ \A m \in Lane : m # l => pass'[m] = pass[m]
  BY <1>1, <1>4, OwnPlace DEF IInv, q
<1>6. Typed'
  BY <1>2, <1>5 DEF IInv, Typed
<1>7. half'[l] = None
  BY <1>2 DEF IInv, LaneOK
<1>8. LaneOK(l)'
  <2>1. CASE q = Idle
    BY <1>5, <1>7, <2>1 DEF LaneOK, Timed, FromOne, Placed, Idle
  <2>2. CASE q # Idle
    <3>1. Timed(pass[l])' /\ FromOne(pass[l])' /\ Placed(pass[l])'
      BY <1>2, <1>3, <1>5, <2>2 DEF Timed, FromOne, Placed, Positions, IInv, Typed
    <3>2. pass'[l].at = "approved"
      BY <1>3, <1>5, <2>2
    <3>3. QED BY <1>7, <3>1, <3>2 DEF LaneOK
  <2>3. QED BY <2>1, <2>2
<1>9. QED BY <1>2, <1>5, <1>6, <1>8, OthersCarry DEF IInv

\* GateReads keeps the invariant: what it read is what the item shows.
LEMMA GateReadsStep ==
  ASSUME IInv, NEW l \in Lane, GateReads(l)
  PROVE  IInv'
<1> DEFINE p == pass[l]
           q == [at |-> "seen", facts |-> p.facts, closed |-> p.closed, observed |-> p.observed,
                 to |-> p.to, evaluated |-> p.evaluated, seen |-> labels, closure |-> closedBy]
<1>1. /\ p.at = "approved" /\ crossed' = crossed \ {l}
      /\ pass' = [pass EXCEPT ![l] = q]
      /\ UNCHANGED <<labels, closedBy, now, humanAt, half, open, mending, humans, losses>>
  BY DEF GateReads, item, Is
<1>2. p \in AskedPass
  BY <1>1 DEF IInv, Typed, Passes, IdlePass, ReadPass, AskedPass, SeenPass, CallPass
<1>3. /\ q \in SeenPass /\ q.at = "seen" /\ q.facts = p.facts /\ q.observed = p.observed
      /\ q.evaluated = p.evaluated /\ q.seen = labels
  BY <1>2 DEF AskedPass, SeenPass, IInv, Typed
<1> HIDE DEF q
<1>4. q \in Passes
  BY <1>3 DEF Passes
<1>5. /\ pass' \in [Lane -> Passes] /\ pass'[l] = q
      /\ \A m \in Lane : m # l => pass'[m] = pass[m]
  BY <1>1, <1>4, OwnPlace DEF IInv
<1>6. Typed'
  BY <1>1, <1>5 DEF IInv, Typed
<1>7. half'[l] = None /\ Timed(p) /\ FromOne(p)
  BY <1>1 DEF IInv, LaneOK
<1>8. Timed(pass[l])' /\ FromOne(pass[l])' /\ Placed(pass[l])'
  BY <1>1, <1>3, <1>5, <1>7 DEF Timed, FromOne, Placed
<1>9. LaneOK(l)'
  BY <1>1, <1>3, <1>5, <1>7, <1>8 DEF LaneOK
<1>10. \A m \in Lane : m # l /\ m \notin crossed' => m \notin crossed /\ labels' = labels
  BY <1>1
<1>11. QED BY <1>1, <1>5, <1>6, <1>9, <1>10, OthersCarry DEF IInv

\* What the gate let through: the one position the facts showed is the one it read, and
\* no person changed the item since the facts were seen.
LEMMA GateFacts ==
  ASSUME IInv, NEW l \in Lane, pass[l].at = "seen",
         LadderVerdict(pass[l], pass[l].seen, pass[l].closure, pass[l].evaluated) = "apply"
  PROVE  /\ humanAt = None \/ (humanAt < pass[l].observed /\ humanAt < pass[l].evaluated)
         /\ Single(Positions(pass[l].seen))
         /\ Positions(pass[l].facts) \subseteq Positions(pass[l].seen)
<1> DEFINE p == pass[l]
<1>1. p \in SeenPass
  BY DEF IInv, Typed, Passes, IdlePass, ReadPass, AskedPass, SeenPass, CallPass
<1>2. /\ p.to \in PrMeanings /\ p.facts \in Facts /\ p.seen \in Facts /\ p.evaluated \in Nat
      /\ p.observed \in Nat /\ Typed
  BY <1>1 DEF SeenPass, IInv
<1>3. Timed(p)
  BY DEF IInv, LaneOK
<1> HIDE DEF p
<1>4. /\ humanAt = None \/ humanAt < p.evaluated
      /\ Single(Positions(p.seen)) /\ Positions(p.facts) \subseteq Positions(p.seen)
  BY <1>2, LadderApplies DEF p
<1>5. humanAt = None \/ (humanAt < p.observed /\ humanAt < p.evaluated)
  <2>1. p.at = "seen"
    BY DEF p
  <2>2. CASE humanAt # None
    <3>1. humanAt \in Nat
      BY <1>2, <2>2 DEF Typed
    <3>2. QED BY <1>2, <1>3, <1>4, <2>1, <2>2, <3>1 DEF Timed
  <2>3. QED BY <2>2
<1>6. QED BY <1>4, <1>5 DEF p

\* GateJudges keeps the invariant: what it lets through stands where the facts had it.
LEMMA GateJudgesStep ==
  ASSUME IInv, NEW l \in Lane, GateJudges(l)
  PROVE  IInv'
<1> DEFINE p == pass[l]
           q == [at |-> "add", facts |-> p.facts, to |-> p.to, closed |-> p.closed,
                 observed |-> p.observed]
           applies == LadderVerdict(p, p.seen, p.closure, p.evaluated) = "apply"
<1>1. /\ p.at = "seen" /\ half' = half
      /\ pass' = [pass EXCEPT ![l] = IF applies THEN q ELSE Idle]
      /\ UNCHANGED <<labels, closedBy, now, humanAt, open, mending, humans, losses, crossed>>
  BY DEF GateJudges, item, Is, Stops
<1>2. p \in SeenPass
  BY <1>1 DEF IInv, Typed, Passes, IdlePass, ReadPass, AskedPass, SeenPass, CallPass
<1>3. q \in CallPass /\ q.at = "add" /\ q.facts = p.facts /\ q.to = p.to
  BY <1>2 DEF SeenPass, CallPass
<1>4. half[l] = None /\ FromOne(p) /\ (l \notin crossed => p.seen = labels)
  BY <1>1 DEF IInv, LaneOK
<1>5. applies => Single(Positions(p.seen)) /\ Positions(p.facts) \subseteq Positions(p.seen)
  BY <1>1, GateFacts
<1> HIDE DEF q, applies
<1>6. q \in Passes /\ Idle \in Passes
  BY <1>3 DEF Passes, IdlePass, Idle
<1>7. /\ pass' \in [Lane -> Passes] /\ pass'[l] = IF applies THEN q ELSE Idle
      /\ \A m \in Lane : m # l => pass'[m] = pass[m]
  BY <1>1, <1>6 DEF IInv, Typed
<1>8. Typed'
  BY <1>1, <1>7 DEF IInv, Typed
<1>9. LaneOK(l)'
  <2>1. CASE ~applies
    BY <1>1, <1>4, <1>7, <2>1 DEF LaneOK, Timed, FromOne, Placed, Idle
  <2>2. CASE applies
    <3>1. pass'[l] = q
      BY <1>7, <2>2
    <3>2. Timed(pass[l])' /\ FromOne(pass[l])'
      BY <1>1, <1>3, <1>4, <3>1 DEF Timed, FromOne
    <3>3. l \notin crossed' => Placed(pass[l])'
      BY <1>1, <1>3, <1>4, <1>5, <2>2, <3>1 DEF Placed, Single, Positions
    <3>4. half'[l] = None /\ pass'[l].at = "add"
      BY <1>1, <1>3, <1>4, <3>1
    <3>5. QED BY <3>2, <3>3, <3>4 DEF LaneOK
  <2>3. QED BY <2>1, <2>2
<1>10. QED BY <1>1, <1>7, <1>8, <1>9, OthersCarry DEF IInv

\* What a call makes of the labels.
LEMMA PerformedFacts ==
  ASSUME Typed, NEW c \in Calls
  PROVE  /\ Performed(c) \in Facts
         /\ c.verb = "addLabel" => Positions(Performed(c)) = Positions(labels) \cup {c.meaning}
         /\ c.verb # "addLabel" => Positions(Performed(c)) = Positions(labels) \ {c.meaning}
BY DEF Typed, Facts, Calls, Performed, Positions

\* The calls of a pass: the position asked for, then the one it displaces.
LEMMA NextCallFacts ==
  ASSUME NEW p \in CallPass, FromOne(p), NEW c \in NextCalls(p)
  PROVE  /\ c \in Calls
         /\ p.at = "add" => c = Call("addLabel", p.to)
         /\ p.at = "remove" =>
              /\ c.verb = "removeLabel" /\ c.meaning # p.to
              /\ Positions(p.facts) = {c.meaning}
<1>1. CASE p.at = "add"
  BY <1>1 DEF NextCalls, CallPass, Calls, Call
<1>2. CASE p.at = "remove"
  <2>1. PICK old \in Displaced(p) : c = Call("removeLabel", old)
    BY <1>2 DEF NextCalls
  <2>2. old \in Positions(p.facts) /\ old # p.to /\ old \in PrMeanings
    BY <2>1 DEF Displaced, Positions
  <2>3. c \in Calls /\ c.verb = "removeLabel" /\ c.meaning = old
    BY <2>1, <2>2 DEF Call, Calls
  <2>4. QED BY <1>2, <2>2, <2>3 DEF FromOne, Single
<1>3. QED BY <1>1, <1>2 DEF CallPass

\* Where a pass of a lane nobody crossed lands, its item holds what its plan says so far.
LEMMA LandFacts ==
  ASSUME IInv, NEW l \in Lane, pass[l].at \in {"add", "remove"}, NEW c \in NextCalls(pass[l])
  PROVE  /\ pass[l] \in CallPass /\ FromOne(pass[l]) /\ c \in Calls
         /\ l \notin crossed /\ Positions(pass[l].facts) # {} =>
              Positions(Performed(c)) =
                IF pass[l].at = "add" THEN Positions(pass[l].facts) \cup {pass[l].to}
                                      ELSE {pass[l].to}
<1> DEFINE p == pass[l]
<1>1. p \in CallPass
  BY DEF IInv, Typed, Passes, IdlePass, ReadPass, AskedPass, SeenPass, CallPass
<1>2. FromOne(p) /\ (l \notin crossed => Placed(p)) /\ Typed
  BY DEF IInv, LaneOK
<1>3. /\ c \in Calls
      /\ p.at = "add" => c = Call("addLabel", p.to)
      /\ p.at = "remove" => /\ c.verb = "removeLabel" /\ c.meaning # p.to
                            /\ Positions(p.facts) = {c.meaning}
  BY <1>1, <1>2, NextCallFacts
<1> HIDE DEF p
<1>4. p.at = "add" => c.verb = "addLabel" /\ c.meaning = p.to
  BY <1>3 DEF Call
<1>5. /\ c.verb = "addLabel" => Positions(Performed(c)) = Positions(labels) \cup {c.meaning}
      /\ c.verb # "addLabel" => Positions(Performed(c)) = Positions(labels) \ {c.meaning}
  BY <1>2, <1>3, PerformedFacts
<1>6. p.at \in {"add", "remove"}
  BY DEF p
<1>7. ASSUME l \notin crossed, Positions(p.facts) # {}
      PROVE  Positions(Performed(c)) =
               IF p.at = "add" THEN Positions(p.facts) \cup {p.to} ELSE {p.to}
  <2>1. CASE p.at = "add"
    BY <1>2, <1>4, <1>5, <1>7, <2>1 DEF Placed
  <2>2. CASE p.at = "remove"
    <3>1. Positions(labels) = {c.meaning} \cup {p.to} /\ c.meaning # p.to
      BY <1>2, <1>3, <1>7, <2>2 DEF Placed
    <3>2. Positions(Performed(c)) = Positions(labels) \ {c.meaning}
      BY <1>3, <1>5, <2>2
    <3>3. QED BY <2>2, <3>1, <3>2
  <2>3. QED BY <1>6, <2>1, <2>2
<1>8. QED BY <1>1, <1>2, <1>3, <1>7 DEF p

\* Lands keeps the invariant: its own call is what changed, and the others are crossed.
LEMMA LandsStep ==
  ASSUME IInv, NEW l \in Lane, Lands(l)
  PROVE  IInv'
<1> DEFINE p == pass[l]
           q == [p EXCEPT !.at = "remove"]
<1>1. PICK c \in NextCalls(p) : labels' = Performed(c)
  BY DEF Lands
<1>2. /\ p.at \in {"add", "remove"}
      /\ pass' = [pass EXCEPT ![l] = IF p.at = "add" /\ Displaced(p) # {} THEN q ELSE Idle]
      /\ crossed' = IF labels' = labels THEN crossed ELSE crossed \cup (Lane \ {l})
      /\ UNCHANGED <<closedBy, now, humanAt, half, open, mending, humans, losses>>
  <2>1. IF p.at = "add" /\ Displaced(p) # {} THEN Goes(l, "remove") ELSE Stops(l)
    BY DEF Lands
  <2>2. pass' = [pass EXCEPT ![l] = IF p.at = "add" /\ Displaced(p) # {} THEN q ELSE Idle]
    BY <2>1 DEF Goes, Stops
  <2>3. QED BY <2>2 DEF Lands, Crosses
<1>3. /\ p \in CallPass /\ FromOne(p) /\ c \in Calls
      /\ l \notin crossed /\ Positions(p.facts) # {} =>
           Positions(labels') = IF p.at = "add" THEN Positions(p.facts) \cup {p.to} ELSE {p.to}
  BY <1>1, <1>2, LandFacts
<1>4. q \in CallPass /\ q.at = "remove" /\ q.facts = p.facts /\ q.to = p.to
  BY <1>3 DEF CallPass
<1>5. half[l] = None
  BY <1>2 DEF IInv, LaneOK
<1> HIDE DEF q
<1>6. q \in Passes /\ Idle \in Passes
  BY <1>4 DEF Passes, IdlePass, Idle
<1>7. /\ pass' \in [Lane -> Passes]
      /\ pass'[l] = IF p.at = "add" /\ Displaced(p) # {} THEN q ELSE Idle
      /\ \A m \in Lane : m # l => pass'[m] = pass[m]
  BY <1>2, <1>6 DEF IInv, Typed
<1>8. labels' \in Facts
  BY <1>1, <1>3, PerformedFacts DEF IInv
<1>9. Typed'
  BY <1>2, <1>7, <1>8 DEF IInv, Typed
<1>10. LaneOK(l)'
  <2>1. CASE pass'[l] = Idle
    BY <1>2, <1>5, <2>1 DEF LaneOK, Timed, FromOne, Placed, Idle
  <2>2. CASE p.at = "add" /\ Displaced(p) # {} /\ pass'[l] = q
    <3>1. Timed(pass[l])'
      BY <1>4, <2>2 DEF Timed
    <3>2. FromOne(pass[l])'
      BY <1>3, <1>4, <2>2 DEF FromOne, Displaced, Positions
    <3>3. l \notin crossed' => l \notin crossed
      BY <1>2
    <3>4. l \notin crossed' => Placed(pass[l])'
      BY <1>3, <1>4, <2>2, <3>3 DEF Placed, Positions
    <3>5. QED BY <1>2, <1>4, <1>5, <2>2, <3>1, <3>2, <3>4 DEF LaneOK
  <2>3. QED BY <1>7, <2>1, <2>2
<1>11. \A m \in Lane : m # l /\ m \notin crossed' => m \notin crossed /\ labels' = labels
  BY <1>2
<1>12. QED BY <1>2, <1>7, <1>9, <1>10, <1>11, OthersCarry DEF IInv

\* IsLost keeps the invariant: the pass is over, whatever became of its call.
LEMMA IsLostStep ==
  ASSUME IInv, NEW l \in Lane, IsLost(l)
  PROVE  IInv'
<1>1. PICK c \in NextCalls(pass[l]) :
        labels' \in {labels, Performed(c)} /\ open' = open \cup {c}
  BY DEF IsLost
<1>2. /\ pass[l].at \in {"add", "remove"} /\ losses' = losses + 1
      /\ pass' = [pass EXCEPT ![l] = Idle]
      /\ crossed' = IF labels' = labels THEN crossed ELSE crossed \cup (Lane \ {l})
      /\ UNCHANGED <<closedBy, now, humanAt, half, mending, humans>>
  BY DEF IsLost, Stops, Crosses
<1>3. c \in Calls
  BY <1>1, <1>2, LandFacts
<1>4. labels' \in Facts
  BY <1>1, <1>3, PerformedFacts DEF IInv, Typed
<1>5. /\ pass' \in [Lane -> Passes] /\ pass'[l] = Idle
      /\ \A m \in Lane : m # l => pass'[m] = pass[m]
  BY <1>2 DEF IInv, Typed, Passes, IdlePass, Idle
<1>6. Typed'
  BY <1>1, <1>2, <1>3, <1>4, <1>5 DEF IInv, Typed
<1>7. half'[l] = None
  BY <1>2 DEF IInv, LaneOK
<1>8. LaneOK(l)'
  BY <1>5, <1>7 DEF LaneOK, Timed, FromOne, Placed, Idle
<1>9. \A m \in Lane : m # l /\ m \notin crossed' => m \notin crossed /\ labels' = labels
  BY <1>2
<1>10. QED BY <1>2, <1>5, <1>6, <1>8, <1>9, OthersCarry DEF IInv

\* IsCutOff keeps the invariant: a move that comes back is the one that was cut off.
LEMMA IsCutOffStep ==
  ASSUME IInv, NEW l \in Lane, IsCutOff(l)
  PROVE  IInv'
<1> DEFINE p == pass[l]
<1>1. /\ p.at \in {"add", "remove"} /\ losses' = losses + 1
      /\ half' = half \/ (p.at = "remove" /\ half' = [half EXCEPT ![l] = p])
      /\ pass' = [pass EXCEPT ![l] = Idle]
      /\ UNCHANGED <<labels, closedBy, now, humanAt, open, mending, humans, crossed>>
  BY DEF IsCutOff, Stops, Is, item
<1>2. p \in CallPass
  BY <1>1 DEF IInv, Typed, Passes, IdlePass, ReadPass, AskedPass, SeenPass, CallPass
<1>3. half[l] = None /\ FromOne(p) /\ (l \notin crossed => Placed(p))
  BY <1>1 DEF IInv, LaneOK
<1>4. /\ pass' \in [Lane -> Passes] /\ pass'[l] = Idle
      /\ \A m \in Lane : m # l => pass'[m] = pass[m]
  BY <1>1 DEF IInv, Typed, Passes, IdlePass, Idle
<1>5. /\ half' \in [Lane -> CallPass \cup {None}]
      /\ half'[l] = None \/ (p.at = "remove" /\ half'[l] = p)
      /\ \A m \in Lane : m # l => half'[m] = half[m]
  BY <1>1, <1>2, <1>3 DEF IInv, Typed
<1>6. Typed'
  BY <1>1, <1>4, <1>5 DEF IInv, Typed
<1> HIDE DEF p
<1>7. LaneOK(l)'
  <2>1. Timed(pass[l])' /\ FromOne(pass[l])' /\ Placed(pass[l])' /\ pass'[l].at = "idle"
    BY <1>4 DEF Timed, FromOne, Placed, Idle
  <2>2. CASE half'[l] = None
    BY <2>1, <2>2 DEF LaneOK
  <2>3. CASE p.at = "remove" /\ half'[l] = p
    <3>1. FromOne(half[l])' /\ (l \notin crossed' => Placed(half[l])')
      BY <1>1, <1>3, <2>3 DEF FromOne, Placed, Displaced, Positions
    <3>2. QED BY <2>1, <2>3, <3>1 DEF LaneOK
  <2>4. QED BY <1>5, <2>2, <2>3
<1>8. \A m \in Lane : m # l /\ m \notin crossed' => m \notin crossed /\ labels' = labels
  BY <1>1
<1>9. QED BY <1>1, <1>4, <1>5, <1>6, <1>7, <1>8, OthersCarry DEF IInv

\* Resume keeps the invariant: the move goes on where it was cut off.
LEMMA ResumeStep ==
  ASSUME IInv, NEW l \in Lane, Resume(l)
  PROVE  IInv'
<1> DEFINE p == half[l]
<1>1. /\ p # None /\ half' = [half EXCEPT ![l] = None]
      /\ pass' = [pass EXCEPT ![l] = p] \/ pass' = [pass EXCEPT ![l] = Idle]
      /\ UNCHANGED <<labels, closedBy, now, humanAt, open, mending, humans, losses, crossed>>
  BY DEF Resume, item
<1>2. p \in CallPass /\ p.at = "remove" /\ FromOne(p) /\ (l \notin crossed => Placed(p))
  BY <1>1 DEF IInv, Typed, LaneOK
<1>3. p \in Passes /\ Idle \in Passes
  BY <1>2 DEF Passes, IdlePass, Idle
<1>4. /\ pass' \in [Lane -> Passes] /\ (pass'[l] = p \/ pass'[l] = Idle)
      /\ \A m \in Lane : m # l => pass'[m] = pass[m]
  BY <1>1, <1>3 DEF IInv, Typed
<1>5. /\ half' \in [Lane -> CallPass \cup {None}] /\ half'[l] = None
      /\ \A m \in Lane : m # l => half'[m] = half[m]
  BY <1>1 DEF IInv, Typed
<1>6. Typed'
  BY <1>1, <1>4, <1>5 DEF IInv, Typed
<1> HIDE DEF p
<1>7. LaneOK(l)'
  <2>1. CASE pass'[l] = Idle
    BY <1>5, <2>1 DEF LaneOK, Timed, FromOne, Placed, Idle
  <2>2. CASE pass'[l] = p
    <3>1. Timed(pass[l])' /\ FromOne(pass[l])' /\ (l \notin crossed' => Placed(pass[l])')
      BY <1>1, <1>2, <2>2 DEF Timed, FromOne, Placed, Displaced, Positions
    <3>2. QED BY <1>2, <1>5, <2>2, <3>1 DEF LaneOK
  <2>3. QED BY <1>4, <2>1, <2>2
<1>8. \A m \in Lane : m # l /\ m \notin crossed' => m \notin crossed /\ labels' = labels
  BY <1>1
<1>9. QED BY <1>1, <1>4, <1>5, <1>6, <1>7, <1>8, OthersCarry DEF IInv

\* A step of no lane keeps the invariant, if it crosses every lane whose item it changes.
LEMMA NoLaneStep ==
  ASSUME IInv, Typed', UNCHANGED <<pass, half>>, now' >= now, humanAt' = humanAt \/ humanAt' = now,
         \A l \in Lane : l \notin crossed' => l \notin crossed /\ labels' = labels
  PROVE  IInv'
<1>1. \A l \in Lane : LaneOK(l)'
  <2> TAKE l \in Lane
  <2>1. QED BY LaneCarries DEF IInv
<1>2. QED BY <1>1 DEF IInv

\* Recovery keeps the invariant.
LEMMA RecoveryStep ==
  ASSUME IInv, RecoveryReads \/ Resend
  PROVE  IInv'
<1>1. CASE RecoveryReads
  <2>1. UNCHANGED <<labels, closedBy, now, humanAt, pass, half, humans, losses, crossed>>
    BY <1>1 DEF RecoveryReads, item
  <2>2. PICK c \in open : IF Held(c) THEN open' = open \ {c} /\ UNCHANGED mending
                          ELSE mending' = c /\ UNCHANGED open
    BY <1>1 DEF RecoveryReads
  <2>3. open' \subseteq Calls /\ mending' \in Calls \cup {None}
    BY <2>2 DEF IInv, Typed
  <2>4. Typed' /\ now' >= now
    BY <2>1, <2>3 DEF IInv, Typed
  <2>5. QED BY <2>1, <2>4, NoLaneStep
<1>2. CASE Resend
  <2>1. /\ mending # None /\ labels' = Performed(mending) /\ open' = open \ {mending}
        /\ mending' = None /\ crossed' = IF labels' = labels THEN crossed ELSE Lane
        /\ UNCHANGED <<closedBy, now, humanAt, pass, half, humans, losses>>
    BY <1>2 DEF Resend
  <2>2. mending \in Calls
    BY <2>1 DEF IInv, Typed
  <2>3. labels' \in Facts
    BY <2>1, <2>2, PerformedFacts DEF IInv
  <2>4. Typed' /\ now' >= now
    BY <2>1, <2>3 DEF IInv, Typed
  <2>5. QED BY <2>1, <2>4, NoLaneStep
<1>3. QED BY <1>1, <1>2

\* People and the clock keep the invariant.
LEMMA OutsideStep ==
  ASSUME IInv, Human \/ Tick
  PROVE  IInv'
<1>1. CASE Human
  <2>1. /\ humanAt' = now /\ humans' = humans + 1 /\ crossed' = Lane
        /\ UNCHANGED <<now, pass, half, open, mending, losses>>
    BY <1>1 DEF Human
  <2>2. labels' \in Facts /\ closedBy' \in {Open, "closedByHuman"}
    BY <1>1, LabelMoveAssumption DEF Human, IInv, Typed, Facts
  <2>3. Typed' /\ now' >= now
    BY <2>1, <2>2 DEF IInv, Typed
  <2>4. QED BY <2>1, <2>3, NoLaneStep
<1>2. CASE Tick
  <2>1. /\ now' = now + 1
        /\ UNCHANGED <<labels, closedBy, humanAt, pass, half, open, mending, humans, losses, crossed>>
    BY <1>2 DEF Tick, item
  <2>2. Typed' /\ now' >= now
    BY <2>1 DEF IInv, Typed
  <2>3. QED BY <2>1, <2>2, NoLaneStep
<1>3. QED BY <1>1, <1>2

\* The invariant is inductive.
LEMMA NextStep == IInv /\ [Next]_vars => IInv'
<1> SUFFICES ASSUME IInv, [Next]_vars PROVE IInv'
  OBVIOUS
<1>1. CASE UNCHANGED vars
  <2>1. Typed' /\ now' >= now
    BY <1>1 DEF vars, item, IInv, Typed
  <2>2. QED BY <1>1, <2>1, NoLaneStep DEF vars, item
<1>2. ASSUME NEW l \in Lane, PassSteps(l) \/ IsLost(l) \/ IsCutOff(l) PROVE IInv'
  BY <1>2, ReadFactsStep, DecideStep, GateReadsStep, GateJudgesStep, LandsStep, ResumeStep,
     IsLostStep, IsCutOffStep DEF PassSteps
<1>3. QED BY <1>1, <1>2, RecoveryStep, OutsideStep DEF Next

\* The inductive invariant holds in every state: what a pass carries was read and decided
\* in that order, starts from one position, and stands on the item unless it was crossed.
THEOREM Invariance == Spec => []IInv
BY InitIInv, NextStep, PTL DEF Spec

\* Type correctness: every variable keeps its type, and recovery mends an open send.
THEOREM TypeCorrect == Spec => []TypeOK
<1> DEFINE Bounded == /\ now <= MaxNow /\ mending \in open \cup {None}
<1>1. Init => Bounded
  BY LabelMoveAssumption DEF Init
<1>2. IInv /\ Bounded /\ [Next]_vars => Bounded'
  <2> SUFFICES ASSUME IInv, Bounded, [Next]_vars PROVE Bounded'
    OBVIOUS
  <2>1. now' <= MaxNow
    BY LabelMoveAssumption
    DEF Next, PassSteps, ReadFacts, Decide, GateReads, GateJudges, Lands, Resume, IsLost, IsCutOff,
        RecoveryReads, Resend, Human, Tick, vars, IInv, Typed
  <2>2. mending' \in open' \cup {None}
    BY DEF Next, PassSteps, ReadFacts, Decide, GateReads, GateJudges, Lands, Resume, IsLost,
           IsCutOff, RecoveryReads, Resend, Human, Tick, vars
  <2>3. QED BY <2>1, <2>2
<1>3. IInv /\ Bounded => TypeOK
  BY LabelMoveAssumption
  DEF IInv, Typed, TypeOK, Facts, Calls, Passes, IdlePass, ReadPass, AskedPass, SeenPass, CallPass
<1>4. QED BY <1>1, <1>2, <1>3, Invariance, PTL DEF Spec

\* Whenever a gate lets a move through, no person changed the item since the facts were
\* seen or the decision began, in whatever order the change and the gate's reads fall.
THEOREM GateYields == Spec => GateYieldsToHuman
<1> DEFINE P == \A l \in Lane : Is(l, "seen") /\ pass'[l].at = "add" =>
                  humanAt = None \/ (humanAt < pass[l].observed /\ humanAt < pass[l].evaluated)
<1>1. IInv /\ [Next]_vars => P
  <2> SUFFICES ASSUME IInv, [Next]_vars, NEW l \in Lane, pass[l].at = "seen", pass'[l].at = "add"
               PROVE  humanAt = None \/ (humanAt < pass[l].observed /\ humanAt < pass[l].evaluated)
    BY DEF Is
  <2>1. pass'[l] # pass[l] /\ pass'[l] # Idle
    BY DEF Idle
  <2>2. GateJudges(l)
    <3>1. UNCHANGED pass => FALSE
      BY <2>1
    <3>2. PICK m \in Lane : PassSteps(m) \/ IsLost(m) \/ IsCutOff(m)
      BY <3>1 DEF Next, RecoveryReads, Resend, Human, Tick, vars
    <3>3. m = l
      BY <2>1, <3>2 DEF PassSteps, ReadFacts, Decide, GateReads, GateJudges, Lands, Resume,
                        IsLost, IsCutOff, Goes, Stops, IInv, Typed
    <3>4. ~GateReads(l) /\ ~ReadFacts(l) /\ ~Decide(l) /\ ~Lands(l) /\ ~Resume(l) /\ ~IsLost(l)
          /\ ~IsCutOff(l)
      BY DEF ReadFacts, Decide, GateReads, Lands, Resume, IsLost, IsCutOff, Is
    <3>5. QED BY <3>2, <3>3, <3>4 DEF PassSteps
  <2>3. LadderVerdict(pass[l], pass[l].seen, pass[l].closure, pass[l].evaluated) = "apply"
    BY <2>1, <2>2 DEF GateJudges, Stops, IInv, Typed
  <2>4. QED BY <2>3, GateFacts
<1>2. QED BY <1>1, Invariance, PTL DEF Spec, GateYieldsToHuman

\* A lane's own step that ends its pass and loses nothing is the landing of its last call.
LEMMA EndsByLanding ==
  ASSUME IInv, [Next]_vars, NEW l \in Lane, pass[l].at \in {"add", "remove"},
         pass'[l].at = "idle", losses' = losses
  PROVE  Lands(l)
<1>1. pass'[l] # pass[l]
  OBVIOUS
<1>2. PICK m \in Lane : PassSteps(m) \/ IsLost(m) \/ IsCutOff(m)
  BY <1>1 DEF Next, RecoveryReads, Resend, Human, Tick, vars
<1>3. m = l
  BY <1>1, <1>2 DEF PassSteps, ReadFacts, Decide, GateReads, GateJudges, Lands, Resume,
                    IsLost, IsCutOff, Goes, Stops, IInv, Typed
<1>4. ~IsLost(l) /\ ~IsCutOff(l)
  BY DEF IsLost, IsCutOff, IInv, Typed
<1>5. QED BY <1>2, <1>3, <1>4 DEF PassSteps, ReadFacts, Decide, GateReads, GateJudges, Resume, Is

\* A move from a position that runs to its end on an item nobody crossed leaves exactly
\* the position it was asked for, for any passes and people at work on it.
THEOREM MovesLandWhole == Spec => MoveLandsWhole
<1> DEFINE P == \A l \in Lane : pass[l].at \in {"add", "remove"} /\ Is(l, "idle")' /\ l \notin crossed
                       /\ losses' = losses /\ Positions(pass[l].facts) # {}
                       => Positions(labels)' = {pass[l].to}
<1>1. IInv /\ [Next]_vars => P
  <2> SUFFICES ASSUME IInv, [Next]_vars, NEW l \in Lane, pass[l].at \in {"add", "remove"},
                      pass'[l].at = "idle", l \notin crossed, losses' = losses,
                      Positions(pass[l].facts) # {}
               PROVE  Positions(labels)' = {pass[l].to}
    BY DEF Is
  <2>1. Lands(l)
    BY EndsByLanding
  <2>2. PICK c \in NextCalls(pass[l]) : labels' = Performed(c)
    BY <2>1 DEF Lands
  <2>3. Positions(labels') = IF pass[l].at = "add" THEN Positions(pass[l].facts) \cup {pass[l].to}
                                                  ELSE {pass[l].to}
    BY <2>2, LandFacts
  <2>4. pass[l].at = "add" => Displaced(pass[l]) = {}
    <3>1. SUFFICES ASSUME pass[l].at = "add", Displaced(pass[l]) # {} PROVE FALSE
      OBVIOUS
    <3>2. pass' = [pass EXCEPT ![l].at = "remove"]
      BY <2>1, <3>1 DEF Lands, Goes
    <3>3. pass[l] \in CallPass
      BY <2>2, LandFacts
    <3>4. pass'[l].at = "remove"
      BY <3>2, <3>3 DEF IInv, Typed, CallPass
    <3>5. QED BY <3>4
  <2>5. QED BY <2>3, <2>4 DEF Displaced, Positions
<1>2. QED BY <1>1, Invariance, PTL DEF Spec, MoveLandsWhole

\* No step takes an item's last position but a person's, a removal that recovery sends
\* again, and one whose item somebody changed since its gate.
THEOREM PositionsAreKept == Spec => PositionIsKept
<1> DEFINE P == Positions(labels) # {} /\ Positions(labels)' = {} =>
                   \/ humans' # humans
                   \/ resent'
                   \/ \E l \in crossed : Is(l, "remove") /\ Is(l, "idle")'
<1>1. IInv /\ [Next]_vars => P
  <2> SUFFICES ASSUME IInv, [Next]_vars, Positions(labels) # {}, Positions(labels') = {}
               PROVE  \/ humans' # humans \/ resent'
                      \/ \E l \in crossed : pass[l].at = "remove" /\ pass'[l].at = "idle"
    BY DEF Is, Positions
  <2>1. labels' # labels
    OBVIOUS
  <2>2. CASE Human
    BY <2>2 DEF Human, IInv, Typed
  <2>3. CASE Resend
    <3>1. mending \in Calls /\ labels' = Performed(mending)
      BY <2>3 DEF Resend, IInv, Typed
    <3>2. mending.verb # "addLabel"
      BY <3>1, PerformedFacts DEF IInv
    <3>3. mending.verb = "removeLabel"
      BY <3>1, <3>2 DEF Calls
    <3>4. QED BY <2>3, <3>3 DEF Resend
  <2>4. ASSUME NEW l \in Lane, Lands(l) \/ IsLost(l)
        PROVE  l \in crossed /\ pass[l].at = "remove" /\ pass'[l].at = "idle"
    <3>1. /\ pass[l].at \in {"add", "remove"}
          /\ \E c \in NextCalls(pass[l]) : labels' = Performed(c)
      BY <2>1, <2>4 DEF Lands, IsLost
    <3>2. PICK c \in NextCalls(pass[l]) : labels' = Performed(c)
      BY <3>1
    <3>3. /\ pass[l] \in CallPass /\ FromOne(pass[l]) /\ c \in Calls
          /\ l \notin crossed /\ Positions(pass[l].facts) # {} =>
               Positions(labels') =
                 IF pass[l].at = "add" THEN Positions(pass[l].facts) \cup {pass[l].to}
                                       ELSE {pass[l].to}
      BY <3>1, <3>2, LandFacts
    <3>4. pass[l].at = "remove"
      <4>1. SUFFICES ASSUME pass[l].at = "add" PROVE FALSE
        BY <3>1
      <4>2. c = Call("addLabel", pass[l].to)
        BY <3>3, <4>1, NextCallFacts
      <4>3. c.verb = "addLabel"
        BY <4>2 DEF Call
      <4>4. QED BY <3>2, <3>3, <4>3, PerformedFacts DEF IInv
    <3>5. Positions(pass[l].facts) # {}
      BY <3>3, <3>4 DEF FromOne, Displaced
    <3>6. l \in crossed
      BY <3>3, <3>4, <3>5
    <3>7. pass' = [pass EXCEPT ![l] = Idle]
      BY <2>4, <3>4 DEF Lands, IsLost, Stops
    <3>8. pass'[l].at = "idle"
      BY <3>7 DEF IInv, Typed, Idle
    <3>9. QED BY <3>4, <3>6, <3>8
  <2>5. \/ Human \/ Resend \/ \E l \in Lane : Lands(l) \/ IsLost(l)
    BY <2>1 DEF Next, PassSteps, ReadFacts, Decide, GateReads, GateJudges, Resume, IsCutOff,
                RecoveryReads, Tick, vars, item
  <2>6. QED BY <2>2, <2>3, <2>4, <2>5
<1>2. QED BY <1>1, Invariance, PTL DEF Spec, PositionIsKept
=============================================================================
