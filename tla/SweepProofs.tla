---------------------------- MODULE SweepProofs ----------------------------
(***************************************************************************)
(* Theorems of Sweep, for any repositories and items, any window and costs, *)
(* any times and any number of faults.                                     *)
(***************************************************************************)
EXTENDS Sweep, TLAPS

Holding == {"config", "list", "walk", "decide"}

\* What a place of the pass implies of the variables that serve it.
PlaceOK ==
  /\ at \in {"idle", "down"} => queue = {}
  /\ at \in Holding => hand \in Repo
  /\ at \notin {"walk", "decide"} => records = {}

\* What a round still owes is open.
OwedIsOpen == \A r \in Repo : owed[r] \subseteq OpenItems(r)

\* The walk has taken a prefix of what is eligible, its last item among it, and
\* everything the round owes is in the list.
WalkOK ==
  at = "walk" =>
    /\ owed[hand] \subseteq Listed
    /\ records \subseteq Eligible(hand)
    /\ \A n \in records, m \in ToRead(hand) : n < m
    /\ records # {} => \E n \in records : \A m \in records : n >= m

\* What is owed and not about to be decided lies past the next cursor.
DecideOK ==
  at = "decide" =>
    \A n \in owed[hand] : n \in records \/ (left /\ (next # None => n > next))

\* A repository turned away stands before every one fired since.
OrderOK ==
  /\ \A s \in Repo \ away : since[s] = {}
  /\ \A s \in away : \A r \in since[s] : <<s, r>> \in before

IInv ==
  /\ TypeOK
  /\ PlaceOK
  /\ RunningIsHeld
  /\ CursorSkipsNothing
  /\ OwedIsOpen
  /\ WalkOK
  /\ DecideOK
  /\ OrderOK

(* Types.                                                                  *)

LEMMA NumberTypes ==
  /\ UpdCap \in Nat
  /\ \A a \in 0..UpdCap : Older(a, UpdCap) \in 0..UpdCap
  /\ \A a \in 0..MaxAge : Older(a, MaxAge) \in 0..MaxAge
  /\ \A a, b \in 0..UpdCap : Least(a, b) \in 0..UpdCap
  /\ \A c \in Nat : spent \in 0..Budget => Charged(c) \in 0..Budget
BY TimeAssumption, BudgetAssumption DEF UpdCap, Older, Least, Later, Charged

\* What is written over one stored read or one item keeps its type.
LEMMA EntryTypes ==
  ASSUME TypeOK
  PROVE  /\ \A r \in Repo, n \in Item : Overtaken(r, n) \in [Repo -> [Item -> Snapshot \cup {None}]]
         /\ \A s \in Snapshot \cup {None} : AgedSnap(s) \in Snapshot \cup {None}
         /\ \A n \in Listed : Kept(Stored(n)) \in Snapshot \cup {None}
         /\ ClosedItem \in GitItem /\ OldItem \in GitItem
<1>1. \A r \in Repo, n \in Item : Overtaken(r, n) \in [Repo -> [Item -> Snapshot \cup {None}]]
  <2> SUFFICES ASSUME NEW r \in Repo, NEW n \in Item
               PROVE  Overtaken(r, n) \in [Repo -> [Item -> Snapshot \cup {None}]]
    OBVIOUS
  <2> DEFINE new == IF snap[r][n] = None THEN None ELSE [snap[r][n] EXCEPT !.behind = TRUE]
  <2>1. snap[r][n] \in Snapshot \cup {None} /\ snap \in [Repo -> [Item -> Snapshot \cup {None}]]
    BY DEF TypeOK
  <2>2. new \in Snapshot \cup {None}
    BY <2>1 DEF Snapshot
  <2>3. Overtaken(r, n) = [snap EXCEPT ![r] = [snap[r] EXCEPT ![n] = new]]
    BY <2>1 DEF Overtaken
  <2> HIDE DEF new
  <2> QED BY <2>1, <2>2, <2>3
<1>2. \A s \in Snapshot \cup {None} : AgedSnap(s) \in Snapshot \cup {None}
  BY NumberTypes, ItemAssumption DEF AgedSnap, Kept, Snapshot
<1>3. \A n \in Listed : Kept(Stored(n)) \in Snapshot \cup {None}
  BY TimeAssumption DEF TypeOK, Listed, Kept, Stored, Snapshot
<1>4. ClosedItem \in GitItem /\ OldItem \in GitItem
  BY NumberTypes DEF ClosedItem, OldItem, GitItem
<1> QED BY <1>1, <1>2, <1>3, <1>4

LEMMA TypeInit == Init => TypeOK
<1> SUFFICES ASSUME Init PROVE TypeOK
  OBVIOUS
<1>1. Undeclared \in Row /\ OldItem \in GitItem
  BY NumberTypes, TimeAssumption DEF Undeclared, Row, OldItem, GitItem
<1>2. row \in [Repo -> Row] /\ item \in [Repo -> [Item -> GitItem]]
  BY <1>1 DEF Init
<1>3. /\ snap \in [Repo -> [Item -> Snapshot \cup {None}]]
      /\ listed \in [Item -> 0..UpdCap \cup {None}]
      /\ owed \in [Repo -> SUBSET Item] /\ since \in [Repo -> SUBSET Repo]
  BY DEF Init
<1>4. /\ listAge \in 0..MaxAge /\ spent \in 0..Budget /\ writes \in 0..WriteCap
      /\ faults \in 0..MaxFaults
  BY TimeAssumption, BudgetAssumption DEF Init
<1> QED BY <1>2, <1>3, <1>4 DEF Init, TypeOK, Places

\* A row armed with a due date and a cursor is a row.
LEMMA ArmedType ==
  ASSUME TypeOK, NEW r, NEW due \in {0, Cadence}, NEW resume \in Item \cup {None},
         Armed(r, due, resume)
  PROVE  row' \in [Repo -> Row]
<1>1. [status |-> "pending", due |-> due, resume |-> resume] \in Row
  BY TimeAssumption DEF Row
<1> QED BY <1>1 DEF Armed, TypeOK

LEMMA RanType ==
  ASSUME TypeOK, NEW r \in Repo, Ran(r)
  PROVE  /\ before' \subseteq Repo \X Repo
         /\ away' \subseteq Repo
         /\ since' \in [Repo -> SUBSET Repo]
BY DEF TypeOK, Ran, StartedLast

\* The types of what a firing holds in memory.
FiringType ==
  /\ hand \in Repo \cup {None}
  /\ listed \in [Item -> 0..UpdCap \cup {None}]
  /\ listAge \in 0..MaxAge
  /\ held \subseteq Item
  /\ records \subseteq Item
  /\ next \in Item \cup {None}
  /\ left \in BOOLEAN

RowType ==
  /\ row \in [Repo -> Row]
  /\ before \subseteq Repo \X Repo
  /\ away \subseteq Repo
  /\ since \in [Repo -> SUBSET Repo]

LEMMA ForgetType == ASSUME TypeOK, Forget PROVE FiringType'
<1>1. left' \in BOOLEAN
  BY Zenon DEF Forget
<1>2. listed' \in [Item -> 0..UpdCap \cup {None}] /\ listAge' \in 0..MaxAge
  BY TimeAssumption DEF Forget
<1>3. hand' = None /\ held' = {} /\ records' = {} /\ next' = None
  BY DEF Forget
<1> QED BY <1>1, <1>2, <1>3 DEF FiringType

LEMMA GoOnType ==
  ASSUME TypeOK, NEW rest \in SUBSET Repo, GoOn(rest)
  PROVE  at' \in Places /\ queue' \subseteq Repo /\ FiringType'
BY ForgetType DEF GoOn, Places

LEMMA FaultType == ASSUME TypeOK, Fault PROVE faults' \in 0..MaxFaults
BY BudgetAssumption DEF TypeOK, Fault

\* A firing in hand that read nothing is armed with the cursor it has.
LEMMA NothingReadType ==
  ASSUME TypeOK, PlaceOK, at \in Holding, NothingRead(hand)
  PROVE  RowType'
<1>1. hand \in Repo /\ row[hand].resume \in Item \cup {None}
  BY DEF PlaceOK, TypeOK, Row
<1>2. row' \in [Repo -> Row]
  BY <1>1, ArmedType DEF NothingRead
<1> QED BY <1>1, <1>2, RanType DEF NothingRead, RowType

LEMMA TurnedAwayType ==
  ASSUME TypeOK, NEW r \in Repo, TurnedAway(r)
  PROVE  RowType'
<1>1. row[r].resume \in Item \cup {None}
  BY DEF TypeOK, Row
<1>2. row' \in [Repo -> Row]
  BY <1>1, ArmedType DEF TurnedAway
<1> QED BY <1>2 DEF TurnedAway, TypeOK, RowType

\* Every step keeps the types.
LEMMA TypeStep == IInv /\ [Next]_vars => TypeOK'
<1> SUFFICES ASSUME IInv, [Next]_vars PROVE TypeOK'
  OBVIOUS
<1> USE DEF IInv
<1>0. TypeOK /\ PlaceOK
  OBVIOUS
<1> DEFINE Rest == /\ snap \in [Repo -> [Item -> Snapshot \cup {None}]]
                   /\ item \in [Repo -> [Item -> GitItem]]
                   /\ at \in Places /\ queue \subseteq Repo
                   /\ spent \in 0..Budget /\ writes \in 0..WriteCap
                   /\ owed \in [Repo -> SUBSET Item] /\ faults \in 0..MaxFaults
<1>r. /\ RowType /\ FiringType /\ Rest
      /\ RowType' /\ FiringType' /\ Rest' => TypeOK'
  BY <1>0 DEF TypeOK, RowType, FiringType
<1> HIDE DEF IInv
<1>u. /\ UNCHANGED <<rowVars, away, since>> => RowType'
      /\ UNCHANGED <<hand, listVars, walkVars>> => FiringType'
  BY <1>r, Zenon DEF RowType, FiringType, rowVars, listVars, walkVars
<1>1. ASSUME NEW r \in Repo, Declare(r) PROVE TypeOK'
  <2>1. [row[r] EXCEPT !.status = "pending"] \in Row
    BY <1>r DEF RowType, Row
  <2>2. RowType'
    BY <1>1, <1>r, <2>1 DEF Declare, RowType, historyVars
  <2> QED BY <1>1, <1>r, <1>u, <2>2 DEF Declare, gitVars, firingVars, historyVars
<1>2. CASE ClaimDue
  <2>1. \A r \in Repo : [row[r] EXCEPT !.status = "running"] \in Row
    BY <1>r DEF RowType, Row
  <2>2. RowType'
    BY <1>2, <1>r, <2>1 DEF ClaimDue, RowType, historyVars
  <2>3. queue' \subseteq Repo /\ writes' \in 0..WriteCap /\ at' \in Places
    BY <1>2, BudgetAssumption DEF ClaimDue, Due, Places
  <2> QED BY <1>2, <1>r, <1>u, <2>2, <2>3 DEF ClaimDue, gitVars, historyVars
<1>3. ASSUME NEW r \in Repo, Defer(r) PROVE TypeOK'
  <2>1. RowType'
    BY <1>0, <1>3, TurnedAwayType DEF Defer
  <2>2. at' \in Places /\ queue' \subseteq Repo /\ FiringType'
    BY <1>0, <1>3, <1>r, GoOnType DEF Defer
  <2> QED BY <1>3, <1>r, <2>1, <2>2 DEF Defer, gitVars
<1>4. ASSUME NEW r \in Repo, Begin(r) PROVE TypeOK'
  BY <1>4, <1>r, <1>u
  DEF Begin, FiringType, RowType, Places, rowVars, gitVars, listVars, walkVars, historyVars
<1>5. CASE ReadConfig
  <2>1. spent' \in 0..Budget
    <3>1. PICK c \in 0..1 : spent' = Charged(c)
      BY <1>5, Zenon DEF ReadConfig
    <3>2. c \in Nat /\ spent \in 0..Budget
      BY <1>r
    <3> QED BY <3>1, <3>2, NumberTypes
  <2>2. CASE TurnedAway(hand) /\ GoOn(queue)
    <3>1. hand \in Repo
      BY <1>0, <1>5 DEF ReadConfig, PlaceOK, Holding
    <3>2. RowType'
      BY <1>0, <2>2, <3>1, TurnedAwayType
    <3>3. at' \in Places /\ queue' \subseteq Repo /\ FiringType'
      BY <1>0, <2>2, <1>r, GoOnType
    <3> QED BY <1>5, <1>r, <2>1, <3>2, <3>3 DEF ReadConfig, gitVars
  <2>3. CASE at' = "list" /\ UNCHANGED <<rowVars, queue, hand, listVars, walkVars, away, since>>
    BY <1>5, <1>r, <1>u, <2>1, <2>3 DEF ReadConfig, gitVars, Places
  <2> QED BY <1>5, <2>2, <2>3 DEF ReadConfig
<1>6. ASSUME NothingRead(hand), GoOn(queue), Fault \/ UNCHANGED faults, at \in Holding,
             spent' \in 0..Budget, UNCHANGED <<gitVars, snap, writes, owed>>
      PROVE  TypeOK'
  <2>1. RowType'
    BY <1>0, <1>6, NothingReadType
  <2>2. at' \in Places /\ queue' \subseteq Repo /\ FiringType'
    BY <1>0, <1>6, <1>r, GoOnType
  <2>3. faults' \in 0..MaxFaults
    BY <1>0, <1>6, <1>r, FaultType
  <2> QED BY <1>6, <1>r, <2>1, <2>2, <2>3 DEF gitVars
<1>7. CASE ReadsNothing
  <2>1. spent' \in 0..Budget
    BY <1>7, <1>r, NumberTypes DEF ReadsNothing
  <2> QED BY <1>6, <1>7, <2>1 DEF ReadsNothing, Holding
<1>8. CASE ListFails
  <2>1. spent' \in 0..Budget
    BY <1>8, <1>r, BudgetAssumption DEF ListFails
  <2> QED BY <1>6, <1>8, <2>1 DEF ListFails, Holding
<1>9. CASE DecideThrows
  BY <1>6, <1>9, <1>r DEF DecideThrows, Holding
<1>10. CASE ListItems
  <2>1. spent' \in 0..Budget
    <3>1. PICK c \in 0..ListCost : spent' = Charged(c)
      BY <1>10, Zenon DEF ListItems
    <3> QED BY <3>1, <1>r, NumberTypes, BudgetAssumption
  <2>2. hand \in Repo
    BY <1>0, <1>10 DEF ListItems, PlaceOK, Holding
  <2>3. listed' \in [Item -> 0..UpdCap \cup {None}] /\ listAge' \in 0..MaxAge
    BY <1>10, <1>r, <2>2, TimeAssumption DEF ListItems, GitItem
  <2>4. snap' \in [Repo -> [Item -> Snapshot \cup {None}]]
    BY <1>10, <1>r, <2>2 DEF ListItems
  <2>5. held' \subseteq Item
    BY <1>10 DEF ListItems, OpenItems
  <2>6. owed' \in [Repo -> SUBSET Item]
    BY <1>10, <1>r, <2>2 DEF ListItems, OpenItems
  <2>7. RowType' /\ FiringType'
    BY <1>10, <1>r, <2>3, <2>5 DEF ListItems, RowType, FiringType, rowVars, walkVars
  <2> QED BY <1>10, <1>r, <2>1, <2>4, <2>6, <2>7 DEF ListItems, Places, gitVars
<1>11. ASSUME NEW n \in Item, Reuse(n) PROVE TypeOK'
  <2>1. FiringType' /\ RowType'
    BY <1>11, <1>r DEF Reuse, FiringType, RowType, rowVars, listVars, historyVars
  <2> QED BY <1>11, <1>r, <2>1 DEF Reuse, gitVars, historyVars
<1>12. ASSUME NEW n \in Item, ReadItem(n) PROVE TypeOK'
  <2>1. spent' \in 0..Budget
    <3>1. PICK c \in 0..ItemCost : spent + c <= Budget /\ spent' = spent + c
      BY <1>12, Zenon DEF ReadItem
    <3> QED BY <3>1, <1>r, BudgetAssumption
  <2>2. FiringType' /\ RowType'
    BY <1>12, <1>r DEF ReadItem, FiringType, RowType, rowVars, listVars, historyVars
  <2>3. n \in Listed
    BY <1>12 DEF ReadItem, First, ToRead, Eligible
  <2>4. Kept(Stored(n)) \in Snapshot \cup {None}
    BY <1>0, <2>3, EntryTypes
  <2>5. hand \in Repo
    BY <1>0, <1>12 DEF ReadItem, PlaceOK, Holding
  <2>6. snap' = [snap EXCEPT ![hand] = [snap[hand] EXCEPT ![n] = Kept(Stored(n))]]
    BY <1>12 DEF ReadItem
  <2>7. snap' \in [Repo -> [Item -> Snapshot \cup {None}]]
    BY <1>r, <2>4, <2>5, <2>6
  <2> QED BY <1>12, <1>r, <2>1, <2>2, <2>7 DEF ReadItem, gitVars, historyVars
<1>13. CASE EndWalk
  <2>1. spent' \in 0..Budget
    BY <1>13, <1>r, BudgetAssumption DEF EndWalk
  <2>2. hand \in Repo
    BY <1>0, <1>13 DEF EndWalk, PlaceOK, Holding
  <2>3. next' \in Item \cup {None}
    <3>1. records # {} => Highest(records) \in Item
      <4>1. records # {} => \E n \in records : \A m \in records : n >= m
        BY <1>13 DEF EndWalk, IInv, WalkOK
      <4> QED BY <4>1, <1>r DEF Highest, FiringType
    <3>2. row[hand].resume \in Item \cup {None}
      BY <1>r, <2>2 DEF RowType, Row
    <3> QED BY <1>13, <3>1, <3>2 DEF EndWalk, ResumeAfter
  <2>4. left' \in BOOLEAN
    BY <1>13, Zenon DEF EndWalk
  <2>5. FiringType' /\ RowType'
    BY <1>13, <1>r, <2>3, <2>4 DEF EndWalk, FiringType, RowType, rowVars, listVars, historyVars
  <2> QED BY <1>13, <1>r, <2>1, <2>5 DEF EndWalk, Places, gitVars, historyVars
<1>14. CASE Decide
  <2>1. spent' \in 0..Budget
    <3>1. PICK c \in 0..GateCost : spent' = Charged(c)
      BY <1>14, Zenon DEF Decide
    <3> QED BY <3>1, <1>r, NumberTypes, BudgetAssumption
  <2>2. writes' \in 0..WriteCap
    BY <1>14, <1>r, BudgetAssumption DEF Decide
  <2>3. PICK n \in records : records' = records \ {n} /\ owed' = [owed EXCEPT ![hand] = @ \ {n}]
    BY <1>14, Zenon DEF Decide
  <2>4. owed' \in [Repo -> SUBSET Item]
    BY <1>r, <2>3
  <2>5. FiringType' /\ RowType'
    BY <1>14, <1>r, <2>3 DEF Decide, FiringType, RowType, rowVars, listVars
  <2> QED BY <1>14, <1>r, <2>1, <2>2, <2>4, <2>5 DEF Decide, gitVars
<1>15. CASE Finish
  <2>1. hand \in Repo
    BY <1>0, <1>15 DEF Finish, PlaceOK, Holding
  <2>2. row' \in [Repo -> Row]
    <3>1. next \in Item \cup {None} /\ (IF next # None THEN 0 ELSE Cadence) \in {0, Cadence}
      BY <1>r DEF FiringType
    <3> QED BY <1>0, <1>15, <3>1, ArmedType DEF Finish
  <2>3. RowType'
    BY <1>0, <1>15, <2>1, <2>2, RanType DEF Finish, RowType
  <2>4. at' \in Places /\ queue' \subseteq Repo /\ FiringType'
    BY <1>0, <1>15, <1>r, GoOnType DEF Finish
  <2> QED BY <1>15, <1>r, <2>3, <2>4 DEF Finish, gitVars
<1>16. CASE PassFails
  <2>1. at' \in Places /\ queue' \subseteq Repo /\ FiringType'
    BY <1>0, <1>16, GoOnType DEF PassFails
  <2>2. faults' \in 0..MaxFaults
    BY <1>0, <1>16, FaultType DEF PassFails
  <2> QED BY <1>16, <1>r, <1>u, <2>1, <2>2 DEF PassFails, gitVars, historyVars
<1>17. ASSUME NEW r \in Repo, NEW n \in Item,
              Touch(r, n) \/ Review(r, n) \/ Close(r, n) \/ Open(r, n) \/ Propagate(r, n)
       PROVE  TypeOK'
  <2>1. item[r][n] \in GitItem
    BY <1>r
  <2>2. /\ [item[r][n] EXCEPT !.upd = 0] \in GitItem
        /\ [OldItem EXCEPT !.upd = 0] \in GitItem
        /\ item[r][n].late = None => [item[r][n] EXCEPT !.late = 0] \in GitItem
    <3>1. OldItem \in GitItem /\ 0 \in 0..UpdCap /\ 0 \in 0..Lag
      BY <1>0, EntryTypes, NumberTypes, TimeAssumption
    <3> QED BY <2>1, <3>1 DEF GitItem
  <2>3. item[r][n].late # None => Reviewed(item[r][n]) \in GitItem
    <3>1. item[r][n].late # None => Least(item[r][n].upd, item[r][n].late) \in 0..UpdCap
      BY <2>1, NumberTypes, TimeAssumption DEF GitItem, Least
    <3> QED BY <2>1, <3>1 DEF GitItem, Reviewed
  <2>4. \E new \in GitItem : item' = [item EXCEPT ![r] = [item[r] EXCEPT ![n] = new]]
    <3>1. CASE Touch(r, n)
      BY <3>1, <2>2 DEF Touch
    <3>2. CASE Review(r, n)
      BY <3>2, <2>2 DEF Review
    <3>3. CASE Close(r, n)
      BY <3>3, <1>0, EntryTypes DEF Close
    <3>4. CASE Open(r, n)
      BY <3>4, <2>2 DEF Open
    <3>5. CASE Propagate(r, n)
      BY <3>5, <2>3 DEF Propagate
    <3> QED BY <1>17, <3>1, <3>2, <3>3, <3>4, <3>5
  <2>5. item' \in [Repo -> [Item -> GitItem]]
    BY <1>r, <2>4
  <2>6. snap' \in [Repo -> [Item -> Snapshot \cup {None}]]
    BY <1>17, <1>0, <1>r, EntryTypes DEF Touch, Review, Close, Open, Propagate
  <2>7. owed' \in [Repo -> SUBSET Item]
    BY <1>17, <1>r DEF Touch, Review, Close, Open, Propagate, historyVars
  <2> QED BY <1>17, <1>r, <1>u, <2>5, <2>6, <2>7
          DEF Touch, Review, Close, Open, Propagate, rowVars, firingVars, historyVars
<1>18. CASE Roll \/ Restart \/ UNCHANGED vars
  <2>1. spent' \in 0..Budget /\ at' \in Places
    BY <1>18, <1>r, BudgetAssumption DEF Roll, Restart, vars, firingVars, Places
  <2> QED BY <1>18, <1>r, <1>u, <2>1
          DEF Roll, Restart, vars, rowVars, gitVars, firingVars, historyVars
<1>19. CASE Tick
  <2>1. row' \in [Repo -> Row]
    <3>1. \A r \in Repo : [row[r] EXCEPT !.due = IF @ = 0 THEN 0 ELSE @ - 1] \in Row
      <4>1. \A r \in Repo : row[r] \in Row
        BY <1>r DEF RowType
      <4>2. \A d \in 0..Cadence : (IF d = 0 THEN 0 ELSE d - 1) \in 0..Cadence
        BY TimeAssumption
      <4> QED BY <4>1, <4>2 DEF Row
    <3> QED BY <1>19, <3>1 DEF Tick
  <2>2. item' \in [Repo -> [Item -> GitItem]]
    <3>1. \A r \in Repo, n \in Item : AgedItem(item[r][n]) \in GitItem
      <4> SUFFICES ASSUME NEW r \in Repo, NEW n \in Item
                   PROVE  AgedItem(item[r][n]) \in GitItem
        OBVIOUS
      <4>1. item[r][n] \in GitItem /\ (item[r][n].late # None => item[r][n].late < Lag)
        BY <1>19, <1>r DEF Tick
      <4>2. (IF item[r][n].late = None THEN None ELSE item[r][n].late + 1) \in 0..Lag \cup {None}
        BY <4>1, TimeAssumption DEF GitItem
      <4>3. Older(item[r][n].upd, UpdCap) \in 0..UpdCap
        BY <4>1, NumberTypes DEF GitItem
      <4> QED BY <4>1, <4>2, <4>3 DEF GitItem, AgedItem
    <3> QED BY <1>19, <3>1 DEF Tick
  <2>3. snap' \in [Repo -> [Item -> Snapshot \cup {None}]]
    BY <1>19, <1>0, <1>r, EntryTypes DEF Tick
  <2>4. listed' \in [Item -> 0..UpdCap \cup {None}]
    BY <1>19, <1>r, NumberTypes DEF Tick, FiringType
  <2>5. listAge' \in 0..MaxAge
    BY <1>19, <1>r, NumberTypes DEF Tick, FiringType
  <2>6. FiringType' /\ RowType'
    BY <1>19, <1>r, <2>1, <2>4, <2>5 DEF Tick, FiringType, RowType, walkVars, historyVars
  <2> QED BY <1>19, <1>r, <2>2, <2>3, <2>6 DEF Tick, historyVars
<1>20. CASE Crash
  <2>1. FiringType' /\ faults' \in 0..MaxFaults
    BY <1>0, <1>20, ForgetType, FaultType DEF Crash
  <2> QED BY <1>20, <1>r, <1>u, <2>1, BudgetAssumption DEF Crash, Places, gitVars, historyVars
<1> QED
  BY <1>1, <1>2, <1>3, <1>4, <1>5, <1>7, <1>8, <1>9, <1>10, <1>11, <1>12, <1>13, <1>14, <1>15,
     <1>16, <1>17, <1>18, <1>19, <1>20
  DEF Next, Firing, Failure, People

(* The pass and its rows.                                                  *)

LEMMA GoOnPlace == ASSUME NEW rest, GoOn(rest) PROVE PlaceOK'
BY DEF GoOn, Forget, PlaceOK, Holding

LEMMA PlaceStep == IInv /\ [Next]_vars => PlaceOK'
<1> SUFFICES ASSUME IInv, [Next]_vars PROVE PlaceOK'
  OBVIOUS
<1>0. PlaceOK /\ at \in Places /\ queue \subseteq Repo
  BY DEF IInv, TypeOK
<1>1. ASSUME NEW r \in Repo, Defer(r) PROVE PlaceOK'
  BY <1>1, GoOnPlace DEF Defer
<1>2. CASE ReadsNothing \/ ListFails \/ DecideThrows \/ Finish \/ PassFails
  BY <1>2, GoOnPlace DEF ReadsNothing, ListFails, DecideThrows, Finish, PassFails
<1>3. CASE ReadConfig
  BY <1>0, <1>3, GoOnPlace DEF ReadConfig, PlaceOK, Holding, walkVars
<1>4. ASSUME NEW r \in Repo, Begin(r) PROVE PlaceOK'
  BY <1>0, <1>4 DEF Begin, PlaceOK, Holding, walkVars
<1>5. CASE ListItems \/ EndWalk \/ Decide \/ \E n \in Item : Reuse(n) \/ ReadItem(n)
  <2>1. at' \in {"walk", "decide"} /\ hand' = hand /\ at \in Holding
    BY <1>5, Zenon DEF ListItems, EndWalk, Decide, Reuse, ReadItem, Holding
  <2> QED BY <1>0, <2>1 DEF PlaceOK, Holding
<1>6. CASE ClaimDue \/ Crash \/ Restart
  BY <1>0, <1>6 DEF ClaimDue, Crash, Restart, Forget, PlaceOK, Holding, walkVars
<1>7. CASE UNCHANGED <<at, queue, hand, records>>
  BY <1>0, <1>7 DEF PlaceOK
<1>8. ASSUME NEW r \in Repo, Declare(r) PROVE UNCHANGED <<at, queue, hand, records>>
  BY <1>8, Zenon DEF Declare, firingVars, walkVars
<1>9. ASSUME NEW r \in Repo, NEW n \in Item,
             Touch(r, n) \/ Review(r, n) \/ Close(r, n) \/ Open(r, n) \/ Propagate(r, n)
      PROVE  UNCHANGED <<at, queue, hand, records>>
  BY <1>9, Zenon DEF Touch, Review, Close, Open, Propagate, firingVars, walkVars
<1>10. ASSUME Roll \/ Tick \/ UNCHANGED vars PROVE UNCHANGED <<at, queue, hand, records>>
  BY <1>10, Zenon DEF Roll, Tick, vars, firingVars, walkVars
<1> QED
  BY <1>1, <1>2, <1>3, <1>4, <1>5, <1>6, <1>7, <1>8, <1>9, <1>10
  DEF Next, Firing, Failure, People

\* A row armed is held by nobody, and the others are held as they were.
LEMMA ArmedRunning ==
  ASSUME IInv, NEW r \in Repo, NEW due, NEW resume, Armed(r, due, resume),
         GoOn(queue \ {r}), InFiring(r) \/ (at = "pass" /\ r \in queue), faults' \in {faults, faults + 1}
  PROVE  RunningIsHeld'
<1>0. RunningIsHeld /\ row \in [Repo -> Row] /\ faults \in Nat /\ queue \subseteq Repo
  BY BudgetAssumption DEF IInv, TypeOK
<1>1. \A s \in Repo : row'[s].status = IF s = r THEN "pending" ELSE row[s].status
  BY <1>0 DEF Armed
<1>2. queue' = queue \ {r} /\ at' \in {"idle", "pass"}
  BY DEF GoOn
<1>3. \A s \in Repo : Stranded(s)' => Stranded(s)
  <2> SUFFICES ASSUME NEW s \in Repo, Stranded(s)' PROVE Stranded(s)
    OBVIOUS
  <2>1. s # r /\ row[s].status = "running" /\ s \notin queue
    BY <1>1, <1>2 DEF Stranded
  <2> QED BY <2>1 DEF Stranded, InFiring
<1>4. faults' \in {faults, faults + 1} /\ \A s \in Repo : ~InFiring(s)'
  BY <1>2 DEF InFiring
<1>5. \A s \in Repo : Stranded(s)' => faults' > 0
  BY <1>0, <1>3, <1>4 DEF RunningIsHeld
<1>6. \A s \in queue' : row'[s].status = "running"
  BY <1>0, <1>1, <1>2 DEF RunningIsHeld
<1> QED BY <1>4, <1>5, <1>6 DEF RunningIsHeld

LEMMA FaultGrows == ASSUME TypeOK, Fault \/ UNCHANGED faults PROVE faults' \in {faults, faults + 1}
BY BudgetAssumption DEF TypeOK, Fault

LEMMA RunningStep == IInv /\ [Next]_vars => RunningIsHeld'
<1> SUFFICES ASSUME IInv, [Next]_vars PROVE RunningIsHeld'
  OBVIOUS
<1>0. /\ RunningIsHeld /\ TypeOK /\ PlaceOK
      /\ row \in [Repo -> Row] /\ faults \in Nat /\ queue \subseteq Repo
  BY BudgetAssumption DEF IInv, TypeOK
<1>1. ASSUME NEW r \in Repo, Defer(r) PROVE RunningIsHeld'
  <2>1. \E resume : Armed(r, 0, resume)
    BY <1>1 DEF Defer, TurnedAway
  <2>2. faults' \in {faults, faults + 1}
    BY <1>0, <1>1, FaultGrows DEF Defer
  <2> QED BY <1>1, <2>1, <2>2, ArmedRunning DEF Defer, Turn
<1>2. CASE ReadsNothing \/ ListFails \/ DecideThrows \/ Finish \/ (ReadConfig /\ GoOn(queue))
  <2>1. \E due, resume : Armed(hand, due, resume)
    <3>1. CASE ReadConfig /\ GoOn(queue)
      <4>1. at' # "list"
        BY <3>1 DEF GoOn
      <4> QED BY <3>1, <4>1 DEF ReadConfig, TurnedAway
    <3>2. CASE Finish
      BY <3>2, Zenon DEF Finish
    <3> QED BY <1>2, <3>1, <3>2 DEF ReadsNothing, ListFails, DecideThrows, NothingRead
  <2>2. GoOn(queue) /\ at \in Holding
    BY <1>2, Zenon DEF ReadsNothing, ListFails, DecideThrows, Finish, ReadConfig, Holding
  <2>3. hand \in Repo /\ InFiring(hand)
    BY <1>0, <2>2 DEF PlaceOK, InFiring, Holding
  <2>4. queue \ {hand} = queue
    BY <1>0, <2>3 DEF RunningIsHeld
  <2>5. faults' \in {faults, faults + 1}
    BY <1>0, <1>2, FaultGrows DEF ReadsNothing, ListFails, DecideThrows, Finish, ReadConfig
  <2> QED BY <2>1, <2>2, <2>3, <2>4, <2>5, ArmedRunning
<1>3. ASSUME NEW r \in Repo, Begin(r) PROVE RunningIsHeld'
  BY <1>0, <1>3 DEF Begin, Turn, RunningIsHeld, InFiring, Stranded, rowVars, historyVars
<1>4. CASE ClaimDue
  BY <1>0, <1>4 DEF ClaimDue, Due, PlaceOK, RunningIsHeld, InFiring, Stranded, Row, historyVars
<1>5. CASE PassFails \/ Crash
  <2>1. queue' = {} /\ at' \in {"idle", "down"} /\ faults' = faults + 1
    BY <1>5 DEF PassFails, Crash, GoOn, Fault
  <2> QED BY <1>0, <2>1 DEF RunningIsHeld, InFiring, Stranded
<1>6. ASSUME UNCHANGED <<queue, faults>>, \A r \in Repo : InFiring(r)' <=> InFiring(r),
             \A r \in Repo : row'[r].status = "running" <=> row[r].status = "running"
      PROVE  RunningIsHeld'
  BY <1>0, <1>6 DEF RunningIsHeld, Stranded
<1>7. CASE ListItems \/ EndWalk \/ Decide \/ (ReadConfig /\ at' = "list")
             \/ \E n \in Item : Reuse(n) \/ ReadItem(n)
  <2>1. UNCHANGED <<row, queue, faults, hand>> /\ at \in Holding /\ at' \in Holding
    <3>1. CASE ReadConfig /\ at' = "list"
      <4>1. ~GoOn(queue)
        BY <3>1 DEF GoOn
      <4> QED BY <3>1, <4>1 DEF ReadConfig, Holding, rowVars
    <3> QED BY <1>7, <3>1, Zenon
            DEF ListItems, EndWalk, Decide, Reuse, ReadItem, Holding, rowVars, historyVars
  <2>2. \A r \in Repo : InFiring(r)' <=> InFiring(r)
    BY <2>1 DEF InFiring, Holding
  <2> QED BY <1>6, <2>1, <2>2
<1>8. ASSUME NEW r \in Repo, Declare(r) PROVE RunningIsHeld'
  <2>1. UNCHANGED <<queue, faults, at, hand>>
    BY <1>8, Zenon DEF Declare, firingVars, historyVars
  <2>2. \A s \in Repo : row'[s].status = IF s = r THEN "pending" ELSE row[s].status
    BY <1>0, <1>8 DEF Declare, Row
  <2>3. row[r].status = "absent"
    BY <1>8 DEF Declare
  <2>4. \A s \in Repo : InFiring(s)' <=> InFiring(s)
    BY <2>1 DEF InFiring
  <2> QED BY <1>6, <2>1, <2>2, <2>3, <2>4
<1>9. ASSUME NEW r \in Repo, NEW n \in Item,
             Touch(r, n) \/ Review(r, n) \/ Close(r, n) \/ Open(r, n) \/ Propagate(r, n)
      PROVE  RunningIsHeld'
  <2>1. UNCHANGED <<row, queue, faults, at, hand>>
    BY <1>9, Zenon DEF Touch, Review, Close, Open, Propagate, rowVars, firingVars, historyVars
  <2>2. \A s \in Repo : InFiring(s)' <=> InFiring(s)
    BY <2>1 DEF InFiring
  <2> QED BY <1>6, <2>1, <2>2
<1>10. CASE Tick
  <2>1. UNCHANGED <<queue, faults, at, hand>>
    BY <1>10, Zenon DEF Tick, historyVars
  <2>2. \A r \in Repo : row'[r].status = row[r].status
    BY <1>0, <1>10 DEF Tick, Row
  <2>3. \A r \in Repo : InFiring(r)' <=> InFiring(r)
    BY <2>1 DEF InFiring
  <2> QED BY <1>6, <2>1, <2>2, <2>3
<1>11. CASE Roll \/ Restart \/ UNCHANGED vars
  <2>1. UNCHANGED <<row, queue, faults, hand>>
    BY <1>11, Zenon DEF Roll, Restart, vars, rowVars, firingVars, listVars, historyVars
  <2>2. at' = at \/ (at = "down" /\ at' = "idle")
    BY <1>11, Zenon DEF Roll, Restart, vars, firingVars
  <2>3. \A r \in Repo : InFiring(r)' <=> InFiring(r)
    BY <2>1, <2>2 DEF InFiring
  <2> QED BY <1>6, <2>1, <2>3
<1>12. ReadConfig => GoOn(queue) \/ at' = "list"
  BY Zenon DEF ReadConfig
<1> QED
  BY <1>1, <1>2, <1>3, <1>4, <1>5, <1>7, <1>8, <1>9, <1>10, <1>11, <1>12
  DEF Next, Firing, Failure, People

(* The cursor and the round.                                               *)

RoundOK == CursorSkipsNothing /\ OwedIsOpen /\ WalkOK /\ DecideOK

\* Outside a walk and its decisions, only the cursor and what is owed count.
LEMMA Elsewhere ==
  ASSUME RoundOK, at' \notin {"walk", "decide"}, UNCHANGED <<owed, item>>,
         \A r \in Repo : row'[r].resume = row[r].resume
  PROVE  RoundOK'
BY DEF RoundOK, CursorSkipsNothing, OwedIsOpen, OpenItems, WalkOK, DecideOK

LEMMA KeepsCursor ==
  ASSUME TypeOK, NEW r \in Repo, NEW due, Armed(r, due, row[r].resume)
  PROVE  \A s \in Repo : row'[s].resume = row[s].resume
BY DEF TypeOK, Armed

LEMMA ListStep == IInv /\ ListItems => RoundOK'
<1> SUFFICES ASSUME IInv, ListItems PROVE RoundOK'
  OBVIOUS
<1>0. TypeOK /\ PlaceOK /\ CursorSkipsNothing /\ OwedIsOpen
  BY DEF IInv
<1>1. hand \in Repo /\ records = {}
  BY <1>0 DEF ListItems, PlaceOK, Holding
<1>2. UNCHANGED <<row, item, hand, records>> /\ at' = "walk"
  BY DEF ListItems, rowVars, gitVars, walkVars
<1>3. /\ \A r \in Repo \ {hand} : owed'[r] = owed[r]
      /\ row[hand].resume = None => owed'[hand] = OpenItems(hand)
      /\ row[hand].resume # None => owed'[hand] = owed[hand]
  BY <1>0, <1>1 DEF ListItems, TypeOK
<1>4. CursorSkipsNothing'
  BY <1>0, <1>2, <1>3 DEF CursorSkipsNothing
<1>5. OwedIsOpen'
  BY <1>0, <1>1, <1>2, <1>3 DEF OwedIsOpen, OpenItems
<1>6. Listed' = OpenItems(hand)
  <2>1. \A n \in Item : item[hand][n].upd # None
    BY <1>0, <1>1, ItemAssumption, NumberTypes DEF TypeOK, GitItem
  <2> QED BY <2>1 DEF ListItems, Listed, OpenItems
<1>7. WalkOK'
  BY <1>1, <1>2, <1>5, <1>6 DEF WalkOK, OwedIsOpen, OpenItems
<1> QED BY <1>2, <1>4, <1>5, <1>7 DEF RoundOK, DecideOK

\* The walk takes the first item it has not.
LEMMA TakeStep ==
  ASSUME IInv, NEW n \in Item, Reuse(n) \/ ReadItem(n)
  PROVE  RoundOK'
<1>0. CursorSkipsNothing /\ OwedIsOpen /\ WalkOK /\ at = "walk"
  BY DEF IInv, Reuse, ReadItem
<1>1. /\ UNCHANGED <<row, item, hand, listed, owed, at>>
      /\ records' = records \cup {n} /\ First(n, ToRead(hand))
  BY Zenon DEF Reuse, ReadItem, rowVars, gitVars, listVars, historyVars
<1>2. Eligible(hand)' = Eligible(hand) /\ Listed' = Listed
  BY <1>1 DEF Eligible, Listed
<1>3. ToRead(hand)' = ToRead(hand) \ {n} /\ n \in Eligible(hand) /\ Eligible(hand) \subseteq Nat
  BY <1>1, <1>2, ItemAssumption DEF ToRead, First, Eligible, Listed
<1>4. records \subseteq Eligible(hand) /\ \A k \in records, m \in ToRead(hand) : k < m
  BY <1>0 DEF WalkOK
<1>5. \A k \in records', m \in ToRead(hand)' : k < m
  BY <1>1, <1>3, <1>4 DEF First, ToRead
<1>6. \A k \in records' : n >= k
  BY <1>1, <1>3, <1>4 DEF First
<1>7. WalkOK'
  BY <1>0, <1>1, <1>2, <1>3, <1>4, <1>5, <1>6 DEF WalkOK
<1> QED BY <1>0, <1>1, <1>7 DEF RoundOK, CursorSkipsNothing, OwedIsOpen, OpenItems, DecideOK

\* Where the walk ends, what it owes and did not take is past the next cursor.
LEMMA EndStep == IInv /\ EndWalk => RoundOK'
<1> SUFFICES ASSUME IInv, EndWalk PROVE RoundOK'
  OBVIOUS
<1>0. TypeOK /\ CursorSkipsNothing /\ OwedIsOpen /\ WalkOK /\ at = "walk" /\ hand \in Repo
  BY DEF IInv, EndWalk, PlaceOK, Holding
<1>1. /\ UNCHANGED <<row, item, hand, owed, records>> /\ at' = "decide"
      /\ next' = ResumeAfter(hand) /\ (ToRead(hand) # {} => left' = TRUE)
  BY Zenon DEF EndWalk, rowVars, gitVars, historyVars
<1>2. \A n \in owed[hand] : n \in Eligible(hand)
  BY <1>0 DEF WalkOK, Eligible, CursorSkipsNothing
<1>3. ASSUME NEW n \in owed[hand], n \notin records
      PROVE  left' /\ (next' # None => n > next')
  <2>1. n \in ToRead(hand)
    BY <1>2, <1>3 DEF ToRead
  <2>2. CASE records = {}
    <3>1. next' = row[hand].resume
      BY <1>1, <2>1, <2>2 DEF ResumeAfter
    <3> QED BY <1>0, <1>1, <2>1, <3>1 DEF CursorSkipsNothing
  <2>3. CASE records # {}
    <3>1. next' = Highest(records)
      BY <1>1, <2>1, <2>3 DEF ResumeAfter
    <3>2. Highest(records) \in records
      BY <1>0, <2>3 DEF WalkOK, Highest
    <3>3. n \in Nat /\ Highest(records) \in Nat
      BY <1>0, <2>1, <3>2, ItemAssumption DEF TypeOK, ToRead, Eligible, Listed
    <3> QED BY <1>0, <1>1, <2>1, <3>1, <3>2, <3>3 DEF WalkOK
  <2> QED BY <2>2, <2>3
<1>4. DecideOK'
  BY <1>1, <1>3 DEF DecideOK
<1> QED BY <1>0, <1>1, <1>4 DEF RoundOK, CursorSkipsNothing, OwedIsOpen, OpenItems, WalkOK

LEMMA DecideStep == IInv /\ Decide => RoundOK'
<1> SUFFICES ASSUME IInv, Decide PROVE RoundOK'
  OBVIOUS
<1>0. /\ TypeOK /\ CursorSkipsNothing /\ OwedIsOpen /\ DecideOK
      /\ at = "decide" /\ hand \in Repo
  BY DEF IInv, Decide, PlaceOK, Holding
<1>1. PICK n \in records : records' = records \ {n} /\ owed' = [owed EXCEPT ![hand] = @ \ {n}]
  BY Zenon DEF Decide
<1>2. UNCHANGED <<row, item, hand, next, left, at>>
  BY Zenon DEF Decide, rowVars, gitVars
<1>3. owed'[hand] = owed[hand] \ {n} /\ \A r \in Repo : owed'[r] \subseteq owed[r]
  BY <1>0, <1>1 DEF TypeOK
<1> QED BY <1>0, <1>1, <1>2, <1>3
        DEF RoundOK, CursorSkipsNothing, OwedIsOpen, OpenItems, WalkOK, DecideOK

LEMMA FinishStep == IInv /\ Finish => RoundOK'
<1> SUFFICES ASSUME IInv, Finish PROVE RoundOK'
  OBVIOUS
<1>0. /\ TypeOK /\ CursorSkipsNothing /\ OwedIsOpen /\ DecideOK
      /\ at = "decide" /\ records = {} /\ hand \in Repo
  BY DEF IInv, Finish, PlaceOK, Holding
<1>1. UNCHANGED <<item, owed>> /\ at' \notin {"walk", "decide"}
  BY DEF Finish, GoOn, gitVars
<1>2. \A r \in Repo : row'[r].resume = IF r = hand THEN next ELSE row[r].resume
  BY <1>0 DEF Finish, Armed, TypeOK
<1>3. CursorSkipsNothing'
  BY <1>0, <1>1, <1>2 DEF CursorSkipsNothing, DecideOK
<1> QED BY <1>0, <1>1, <1>3 DEF RoundOK, OwedIsOpen, OpenItems, WalkOK, DecideOK

\* What happens elsewhere leaves a firing its place and its list, and only ever
\* takes from what a round owes.
LEMMA RoundFrame ==
  ASSUME RoundOK, at' = at, UNCHANGED <<hand, records, next, left>>, Listed' = Listed,
         \A r \in Repo : row'[r].resume = row[r].resume,
         \A r \in Repo : owed'[r] \subseteq owed[r], OwedIsOpen', PlaceOK
  PROVE  RoundOK'
<1>1. at = "walk" \/ at = "decide" => hand \in Repo
  BY DEF PlaceOK, Holding
<1>2. at = "walk" => Eligible(hand)' = Eligible(hand) /\ ToRead(hand)' = ToRead(hand)
  BY <1>1 DEF Eligible, ToRead
<1>3. WalkOK'
  BY <1>1, <1>2 DEF RoundOK, WalkOK
<1>4. DecideOK' /\ CursorSkipsNothing'
  BY <1>1 DEF RoundOK, DecideOK, CursorSkipsNothing
<1> QED BY <1>3, <1>4 DEF RoundOK

LEMMA RoundStep == IInv /\ [Next]_vars => RoundOK'
<1> SUFFICES ASSUME IInv, [Next]_vars PROVE RoundOK'
  OBVIOUS
<1>0. /\ TypeOK /\ PlaceOK /\ RoundOK /\ OwedIsOpen /\ row \in [Repo -> Row]
      /\ owed \in [Repo -> SUBSET Item] /\ item \in [Repo -> [Item -> GitItem]]
  BY DEF IInv, RoundOK, TypeOK
<1>1. ASSUME NEW r \in Repo, TurnedAway(r) \/ NothingRead(r), at' \in {"idle", "pass"},
             UNCHANGED <<owed, item>>
      PROVE  RoundOK'
  <2>1. \E due : Armed(r, due, row[r].resume)
    BY <1>1 DEF TurnedAway, NothingRead
  <2>2. \A s \in Repo : row'[s].resume = row[s].resume
    BY <1>0, <2>1, KeepsCursor
  <2> QED BY <1>0, <1>1, <2>2, Elsewhere
<1>2. ASSUME NEW r \in Repo, Defer(r) PROVE RoundOK'
  BY <1>1, <1>2 DEF Defer, GoOn, gitVars
<1>3. CASE ReadsNothing \/ ListFails \/ DecideThrows \/ (ReadConfig /\ TurnedAway(hand) /\ GoOn(queue))
  <2>1. hand \in Repo
    BY <1>0, <1>3 DEF ReadsNothing, ListFails, DecideThrows, ReadConfig, PlaceOK, Holding
  <2>2. at' \in {"idle", "pass"} /\ UNCHANGED <<owed, item>>
    BY <1>3 DEF ReadsNothing, ListFails, DecideThrows, ReadConfig, GoOn, gitVars
  <2>3. TurnedAway(hand) \/ NothingRead(hand)
    BY <1>3 DEF ReadsNothing, ListFails, DecideThrows
  <2> QED BY <1>1, <2>1, <2>2, <2>3
<1>4. ASSUME NEW r \in Repo, Begin(r) PROVE RoundOK'
  BY <1>0, <1>4, Elsewhere DEF Begin, rowVars, gitVars, historyVars
<1>5. CASE (ReadConfig /\ at' = "list") \/ PassFails \/ Crash \/ Restart
  <2>1. UNCHANGED <<row, owed, item>>
    <3>1. CASE ReadConfig /\ at' = "list"
      BY <3>1 DEF ReadConfig, GoOn, rowVars, gitVars
    <3> QED BY <1>5, <3>1, Zenon DEF PassFails, Crash, Restart, rowVars, gitVars, historyVars
  <2>2. at' \notin {"walk", "decide"}
    BY <1>5 DEF PassFails, Crash, Restart, GoOn
  <2> QED BY <1>0, <2>1, <2>2, Elsewhere
<1>6. CASE ClaimDue
  <2>1. \A r \in Repo : row'[r].resume = row[r].resume
    BY <1>0, <1>6 DEF ClaimDue, Row
  <2> QED BY <1>0, <1>6, <2>1, Elsewhere DEF ClaimDue, gitVars, historyVars
<1>7. ASSUME NEW r \in Repo, Declare(r) PROVE RoundOK'
  <2>1. \A s \in Repo : row'[s].resume = row[s].resume
    BY <1>0, <1>7 DEF Declare, Row
  <2>2. UNCHANGED <<at, hand, records, next, left, listed, owed, item>>
    BY <1>7, Zenon DEF Declare, firingVars, gitVars, listVars, walkVars, historyVars
  <2> QED BY <1>0, <2>1, <2>2, RoundFrame DEF Listed, OwedIsOpen, OpenItems
<1>8. ASSUME NEW r \in Repo, NEW n \in Item,
             Touch(r, n) \/ Review(r, n) \/ Close(r, n) \/ Open(r, n) \/ Propagate(r, n)
      PROVE  RoundOK'
  <2>1. UNCHANGED <<row, at, hand, records, next, left, listed>>
    BY <1>8, Zenon DEF Touch, Review, Close, Open, Propagate, rowVars, firingVars, listVars, walkVars
  <2>2. /\ Close(r, n) => owed' = [owed EXCEPT ![r] = @ \ {n}]
        /\ ~Close(r, n) => owed' = owed
    BY <1>8, Zenon DEF Touch, Review, Close, Open, Propagate, historyVars
  <2>3. \A s \in Repo : owed'[s] \subseteq owed[s]
    BY <1>0, <2>2
  <2>4. ASSUME NEW s \in Repo, NEW m \in Item, item[s][m].open, ~Close(r, n) \/ s # r \/ m # n
        PROVE  item'[s][m].open
    <3>1. CASE Touch(r, n)
      BY <1>0, <2>4, <3>1 DEF Touch, GitItem
    <3>2. CASE Review(r, n)
      BY <1>0, <2>4, <3>2 DEF Review, GitItem
    <3>3. CASE Close(r, n)
      BY <1>0, <2>4, <3>3 DEF Close
    <3>4. CASE Open(r, n)
      BY <1>0, <2>4, <3>4 DEF Open, OldItem
    <3>5. CASE Propagate(r, n)
      BY <1>0, <2>4, <3>5 DEF Propagate, Reviewed, GitItem
    <3> QED BY <1>8, <3>1, <3>2, <3>3, <3>4, <3>5
  <2>5. OwedIsOpen'
    BY <1>0, <2>2, <2>3, <2>4 DEF OwedIsOpen, OpenItems
  <2> QED BY <1>0, <2>1, <2>3, <2>5, RoundFrame DEF Listed
<1>9. CASE Tick
  <2>1. \A r \in Repo : row'[r].resume = row[r].resume
    BY <1>0, <1>9 DEF Tick, Row
  <2>2. UNCHANGED <<at, hand, records, next, left, owed>>
    BY <1>9, Zenon DEF Tick, walkVars, historyVars
  <2>3. OwedIsOpen'
    <3>1. \A r \in Repo, n \in Item : item'[r][n].open = item[r][n].open
      <4>1. \A i \in GitItem : AgedItem(i).open = i.open
        BY DEF GitItem, AgedItem
      <4>2. item' = [r \in Repo |-> [n \in Item |-> AgedItem(item[r][n])]]
        BY <1>9 DEF Tick
      <4>3. \A r \in Repo, n \in Item : item[r][n] \in GitItem
        BY <1>0 DEF TypeOK
      <4> QED BY <4>1, <4>2, <4>3
    <3> QED BY <1>0, <2>2, <3>1 DEF OwedIsOpen, OpenItems
  <2>4. Listed' = Listed
    <3>1. \A n \in Item : listed[n] # None => Older(listed[n], UpdCap) # None
      BY <1>0, NumberTypes, ItemAssumption DEF TypeOK
    <3> QED BY <1>9, <3>1 DEF Tick, Listed
  <2> QED BY <1>0, <2>1, <2>2, <2>3, <2>4, RoundFrame
<1>10. CASE Roll \/ UNCHANGED vars
  <2>1. UNCHANGED <<row, item, owed, at, hand, records, next, left, listed>>
    BY <1>10, Zenon DEF Roll, vars, rowVars, gitVars, firingVars, listVars, walkVars, historyVars
  <2> QED BY <1>0, <2>1, RoundFrame DEF Listed, OwedIsOpen, OpenItems
<1>11. ReadConfig => (TurnedAway(hand) /\ GoOn(queue)) \/ at' = "list"
  BY Zenon DEF ReadConfig
<1> QED
  BY <1>2, <1>3, <1>4, <1>5, <1>6, <1>7, <1>8, <1>9, <1>10, <1>11,
     ListStep, TakeStep, EndStep, DecideStep, FinishStep
  DEF Next, Firing, Failure, People

(* The order of turns.                                                     *)

\* A firing of r keeps the repositories turned away ahead of those fired since.
LEMMA RanOrder ==
  ASSUME TypeOK, OrderOK, NEW r \in Repo, Ran(r)
  PROVE  OrderOK'
BY DEF TypeOK, OrderOK, Ran, StartedLast

LEMMA OrderStep == IInv /\ [Next]_vars => OrderOK'
<1> SUFFICES ASSUME IInv, [Next]_vars PROVE OrderOK'
  OBVIOUS
<1>0. TypeOK /\ PlaceOK /\ OrderOK
  BY DEF IInv
<1>1. ASSUME NEW r \in Repo, TurnedAway(r) PROVE OrderOK'
  BY <1>0, <1>1 DEF TypeOK, OrderOK, TurnedAway
<1>2. ASSUME NEW r \in Repo, Defer(r) PROVE OrderOK'
  BY <1>1, <1>2 DEF Defer
<1>3. CASE ReadsNothing \/ ListFails \/ DecideThrows \/ Finish
  <2>1. Ran(hand) /\ at \in Holding
    BY <1>3 DEF ReadsNothing, ListFails, DecideThrows, Finish, NothingRead, Holding
  <2> QED BY <1>0, <2>1, RanOrder DEF PlaceOK
<1>4. CASE ReadConfig
  <2>1. hand \in Repo
    BY <1>0, <1>4 DEF ReadConfig, PlaceOK, Holding
  <2>2. TurnedAway(hand) \/ UNCHANGED <<before, away, since>>
    BY <1>4, Zenon DEF ReadConfig, rowVars
  <2> QED BY <1>0, <1>1, <2>1, <2>2 DEF OrderOK
<1>5. CASE UNCHANGED <<before, away, since>>
  BY <1>0, <1>5 DEF OrderOK
<1>6. ASSUME \/ ClaimDue \/ ListItems \/ EndWalk \/ Decide \/ PassFails \/ Crash \/ Restart
             \/ Roll \/ Tick \/ UNCHANGED vars
             \/ \E r \in Repo : Declare(r) \/ Begin(r)
             \/ \E n \in Item : Reuse(n) \/ ReadItem(n)
      PROVE  UNCHANGED <<before, away, since>>
  BY <1>6, Zenon
  DEF ClaimDue, ListItems, EndWalk, Decide, PassFails, Crash, Restart, Roll, Tick, vars,
      Declare, Begin, Reuse, ReadItem, rowVars, historyVars
<1>7. ASSUME NEW r \in Repo, NEW n \in Item,
             Touch(r, n) \/ Review(r, n) \/ Close(r, n) \/ Open(r, n) \/ Propagate(r, n)
      PROVE  UNCHANGED <<before, away, since>>
  BY <1>7, Zenon DEF Touch, Review, Close, Open, Propagate, rowVars, historyVars
<1> QED
  BY <1>2, <1>3, <1>4, <1>5, <1>6, <1>7 DEF Next, Firing, Failure, People

(* Stored reads.                                                           *)

\* The list in hand shows nothing younger than itself.
ListOK == at \in {"walk", "decide"} => \A n \in Listed : listAge <= listed[n]

\* A stored read's facts are no older than its list, and its list no older than the update
\* it showed; and a change its facts miss is younger than they are, where the item shows it.
Backs(s, i) ==
  /\ s.facts <= s.read /\ s.read <= s.upd /\ s.read < MaxAge
  /\ s.behind /\ i.open => i.upd <= s.facts \/ (i.late # None /\ i.late <= s.facts)
StoredOK == \A r \in Repo, n \in Item : snap[r][n] # None => Backs(snap[r][n], item[r][n])

ReadsOK == ListOK /\ StoredOK

LEMMA ReadTypes ==
  ASSUME TypeOK
  PROVE  /\ \A n \in Listed : listed[n] \in 0..UpdCap
         /\ listAge \in Nat /\ MaxAge \in Nat /\ UpdCap \in Nat /\ MaxAge < UpdCap /\ None \notin Nat
         /\ \A r \in Repo, n \in Item :
              /\ item[r][n] \in GitItem
              /\ snap[r][n] # None => snap[r][n] \in Snapshot
BY TimeAssumption, ItemAssumption DEF TypeOK, Listed, UpdCap, Later

\* A list ages as its fields do.
LEMMA ListOKStep == IInv /\ ListOK /\ [Next]_vars => ListOK'
<1> SUFFICES ASSUME IInv, ListOK, [Next]_vars PROVE ListOK'
  OBVIOUS
<1>0. TypeOK /\ /\ listAge \in Nat /\ MaxAge \in Nat /\ UpdCap \in Nat /\ MaxAge < UpdCap
      /\ \A n \in Listed : listed[n] \in 0..UpdCap
  BY ReadTypes DEF IInv
<1>1. CASE ListItems
  <2>1. listAge' = 0 /\ \A n \in Item : listed'[n] = IF item[hand][n].open THEN item[hand][n].upd
                                                     ELSE None
    BY <1>1 DEF ListItems
  <2>2. hand \in Repo
    BY <1>1 DEF ListItems, IInv, PlaceOK, Holding
  <2>3. \A n \in Item : item[hand][n].upd \in Nat
    BY <1>0, <2>2, ReadTypes DEF GitItem
  <2> QED BY <2>1, <2>3 DEF ListOK, Listed
<1>2. CASE Tick
  <2>1. /\ at' = at /\ (at \in {"walk", "decide"} => listAge' = Older(listAge, MaxAge))
        /\ \A n \in Item : listed'[n] = IF listed[n] = None THEN None ELSE Older(listed[n], UpdCap)
    BY <1>2 DEF Tick
  <2>2. SUFFICES ASSUME at \in {"walk", "decide"}, NEW n \in Item, listed'[n] # None
                 PROVE  listAge' <= listed'[n]
    BY <2>1 DEF ListOK, Listed
  <2>3. n \in Listed /\ listAge <= listed[n] /\ listed[n] \in 0..UpdCap
    BY <1>0, <2>1, <2>2 DEF ListOK, Listed
  <2>4. listAge' = Older(listAge, MaxAge) /\ listed'[n] = Older(listed[n], UpdCap)
    BY <2>1, <2>2, <2>3
  <2> QED BY <1>0, <2>3, <2>4 DEF Older, Least
<1>3. CASE UNCHANGED listVars /\ (at' \in {"walk", "decide"} => at \in {"walk", "decide"})
  BY <1>3 DEF ListOK, Listed, listVars
<1>4. CASE at' \notin {"walk", "decide"}
  BY <1>4 DEF ListOK
<1>5. ASSUME ReadsNothing \/ ListFails \/ DecideThrows \/ Finish \/ PassFails \/ ClaimDue
             \/ ReadConfig \/ Crash \/ Restart \/ \E r \in Repo : Defer(r) \/ Begin(r)
      PROVE  at' \notin {"walk", "decide"}
  BY <1>5 DEF ReadsNothing, ListFails, DecideThrows, Finish, PassFails, ClaimDue, ReadConfig,
              Crash, Restart, Defer, Begin, GoOn
<1>6. ASSUME EndWalk \/ Decide \/ (\E n \in Item : Reuse(n) \/ ReadItem(n)) \/ Roll
             \/ (\E r \in Repo : Declare(r)) \/ UNCHANGED vars
      PROVE  UNCHANGED listVars /\ (at' \in {"walk", "decide"} => at \in {"walk", "decide"})
  BY <1>6, Zenon DEF EndWalk, Decide, Reuse, ReadItem, Roll, Declare, vars, firingVars
<1>7. ASSUME NEW r \in Repo, NEW n \in Item,
             Touch(r, n) \/ Review(r, n) \/ Close(r, n) \/ Open(r, n) \/ Propagate(r, n)
      PROVE  UNCHANGED listVars /\ (at' \in {"walk", "decide"} => at \in {"walk", "decide"})
  BY <1>7, Zenon DEF Touch, Review, Close, Open, Propagate, firingVars
<1> QED
  BY <1>1, <1>2, <1>3, <1>4, <1>5, <1>6, <1>7 DEF Next, Firing, Failure, People

\* An item's change marks its stored read and leaves the others.
LEMMA Overtakes ==
  ASSUME TypeOK, NEW r \in Repo, NEW n \in Item, snap' = Overtaken(r, n)
  PROVE  /\ \A q \in Repo, m \in Item : q # r \/ m # n => snap'[q][m] = snap[q][m]
         /\ snap[r][n] = None => snap'[r][n] = None
         /\ snap[r][n] # None => snap'[r][n] = [snap[r][n] EXCEPT !.behind = TRUE]
<1>1. snap \in [Repo -> [Item -> Snapshot \cup {None}]]
  BY DEF TypeOK
<1>2. snap' = [snap EXCEPT ![r] =
                 [snap[r] EXCEPT ![n] = IF snap[r][n] = None THEN None
                                        ELSE [snap[r][n] EXCEPT !.behind = TRUE]]]
  BY <1>1 DEF Overtaken
<1>3. PICK new : new = IF snap[r][n] = None THEN None ELSE [snap[r][n] EXCEPT !.behind = TRUE]
  OBVIOUS
<1>4. snap' = [snap EXCEPT ![r] = [snap[r] EXCEPT ![n] = new]]
  BY <1>2, <1>3
<1>5. snap'[r][n] = new /\ \A q \in Repo, m \in Item : q # r \/ m # n => snap'[q][m] = snap[q][m]
  BY <1>1, <1>4
<1> QED BY <1>3, <1>5

\* What an item's change leaves of the stored reads, wherever the item then shows it.
LEMMA ChangeIsShown ==
  ASSUME TypeOK, StoredOK, NEW r \in Repo, NEW n \in Item, NEW i,
         snap' = Overtaken(r, n), item' = [item EXCEPT ![r][n] = i],
         i.open => i.upd = 0 \/ i.late = 0
  PROVE  StoredOK'
<1>1. SUFFICES ASSUME NEW q \in Repo, NEW m \in Item, snap'[q][m] # None
               PROVE  Backs(snap'[q][m], item'[q][m])
  BY DEF StoredOK, Backs
<1>2. item \in [Repo -> [Item -> GitItem]] /\ 0 # None
  BY ItemAssumption DEF TypeOK
<1>3. CASE q = r /\ m = n
  <2>1. snap[r][n] # None /\ snap'[r][n] = [snap[r][n] EXCEPT !.behind = TRUE] /\ item'[r][n] = i
    BY <1>1, <1>2, <1>3, Overtakes
  <2>2. snap[r][n] \in Snapshot /\ Backs(snap[r][n], item[r][n])
    BY <2>1, ReadTypes DEF StoredOK
  <2> QED BY <1>2, <1>3, <2>1, <2>2 DEF Backs, Snapshot
<1>4. CASE q # r \/ m # n
  <2>0. \A a \in Repo, b \in Item : a # r \/ b # n => snap'[a][b] = snap[a][b]
    BY Overtakes
  <2>1. snap'[q][m] = snap[q][m]
    BY <1>4, <2>0
  <2>2. item'[q][m] = item[q][m]
    BY <1>2, <1>4
  <2> QED BY <1>1, <2>1, <2>2 DEF StoredOK
<1> QED BY <1>3, <1>4

\* A stored read and its item age alike.
LEMMA Ages ==
  ASSUME NEW s \in Snapshot, NEW i \in GitItem, Backs(s, i), AgedSnap(s) # None,
         i.late # None => i.late < Lag
  PROVE  Backs(AgedSnap(s), AgedItem(i))
<1>1. MaxAge \in Nat /\ UpdCap \in Nat /\ MaxAge < UpdCap /\ None \notin Nat /\ Lag \in Nat
  BY TimeAssumption, ItemAssumption DEF UpdCap, Later
<1>2. s.facts \in Nat /\ s.read \in Nat /\ s.upd \in 0..UpdCap /\ i.upd \in 0..UpdCap
      /\ (i.late = None \/ i.late \in Nat) /\ s # None
  BY <1>1 DEF Snapshot, GitItem, AgedSnap
<1> DEFINE t == [s EXCEPT !.upd = Older(@, UpdCap), !.read = Older(@, MaxAge),
                          !.facts = Older(@, MaxAge)]
<1>3. AgedSnap(s) = t /\ t.read < MaxAge
  BY <1>2 DEF AgedSnap, Kept
<1>4. /\ t.upd = Older(s.upd, UpdCap) /\ t.read = Older(s.read, MaxAge)
      /\ t.facts = Older(s.facts, MaxAge) /\ t.behind = s.behind
  BY DEF Snapshot
<1>5. s.read + 1 < MaxAge /\ t.read = s.read + 1 /\ t.facts = s.facts + 1
  BY <1>1, <1>2, <1>3, <1>4 DEF Older, Least, Backs
<1>6. AgedItem(i).open = i.open /\ AgedItem(i).upd = Older(i.upd, UpdCap)
      /\ AgedItem(i).late = IF i.late = None THEN None ELSE i.late + 1
  BY DEF AgedItem, GitItem
<1>7. t.facts <= t.read /\ t.read <= t.upd /\ t.read < MaxAge
  BY <1>1, <1>2, <1>4, <1>5 DEF Older, Least, Backs
<1>8. ASSUME t.behind, AgedItem(i).open
      PROVE  \/ AgedItem(i).upd <= t.facts
             \/ AgedItem(i).late # None /\ AgedItem(i).late <= t.facts
  <2>1. i.upd <= s.facts \/ (i.late # None /\ i.late <= s.facts)
    BY <1>4, <1>6, <1>8 DEF Backs
  <2> QED BY <1>1, <1>2, <1>5, <1>6, <2>1 DEF Older, Least
<1> HIDE DEF t
<1> QED BY <1>3, <1>7, <1>8 DEF Backs

\* Every step leaves each stored read backed.
LEMMA StoredOKStep == IInv /\ ReadsOK /\ [Next]_vars => StoredOK'
<1> SUFFICES ASSUME IInv, ReadsOK, [Next]_vars PROVE StoredOK'
  OBVIOUS
<1>0. TypeOK /\ ListOK /\ StoredOK /\ item \in [Repo -> [Item -> GitItem]]
      /\ snap \in [Repo -> [Item -> Snapshot \cup {None}]]
  BY DEF IInv, ReadsOK, TypeOK
<1>1. CASE UNCHANGED <<snap, item>>
  BY <1>0, <1>1 DEF StoredOK, Backs
<1>2. CASE ListItems
  <2>1. item' = item /\ \A q \in Repo, m \in Item : snap'[q][m] \in {snap[q][m], None}
    BY <1>0, <1>2 DEF ListItems, gitVars
  <2> QED BY <1>0, <2>1 DEF StoredOK, Backs
<1>3. ASSUME NEW n \in Item, ReadItem(n) PROVE StoredOK'
  <2>1. /\ item' = item /\ snap' = [snap EXCEPT ![hand][n] = Kept(Stored(n))]
        /\ at = "walk" /\ n \in Listed
    BY <1>3 DEF ReadItem, gitVars, First, ToRead, Eligible
  <2>2. hand \in Repo
    BY <2>1 DEF IInv, PlaceOK, Holding
  <2>3. SUFFICES ASSUME NEW q \in Repo, NEW m \in Item, snap'[q][m] # None
                 PROVE  Backs(snap'[q][m], item[q][m])
    BY <2>1 DEF StoredOK, Backs
  <2>4. CASE <<q, m>> = <<hand, n>>
    <3>1. snap'[q][m] = Kept(Stored(n))
      BY <1>0, <2>1, <2>2, <2>4
    <3>2. snap'[q][m] = Stored(n) /\ Stored(n).read < MaxAge
      BY <2>3, <3>1 DEF Kept
    <3>3. listAge \in Nat /\ listed[n] \in 0..UpdCap /\ listAge <= listed[n]
      BY <1>0, <2>1, ReadTypes DEF ListOK
    <3> QED BY <3>2, <3>3 DEF Backs, Stored
  <2>5. CASE <<q, m>> # <<hand, n>>
    <3>1. snap'[q][m] = snap[q][m]
      BY <1>0, <2>1, <2>2, <2>5
    <3> QED BY <1>0, <2>3, <3>1 DEF StoredOK
  <2> QED BY <2>4, <2>5
<1>4. ASSUME NEW r \in Repo, NEW n \in Item, Touch(r, n) PROVE StoredOK'
  <2> DEFINE i == [item[r][n] EXCEPT !.upd = 0]
  <2>1. snap' = Overtaken(r, n) /\ item' = [item EXCEPT ![r][n] = i]
    BY <1>0, <1>4 DEF Touch
  <2>2. i.upd = 0
    BY <1>0 DEF GitItem
  <2> QED BY <1>0, <2>1, <2>2, ChangeIsShown
<1>5. ASSUME NEW r \in Repo, NEW n \in Item, Review(r, n) PROVE StoredOK'
  <2> DEFINE i == [item[r][n] EXCEPT !.late = 0]
  <2>1. snap' = Overtaken(r, n) /\ item' = [item EXCEPT ![r][n] = i]
    BY <1>0, <1>5 DEF Review
  <2>2. i.late = 0
    BY <1>0 DEF GitItem
  <2> QED BY <1>0, <2>1, <2>2, ChangeIsShown
<1>6. ASSUME NEW r \in Repo, NEW n \in Item, Close(r, n) PROVE StoredOK'
  BY <1>0, <1>6, ChangeIsShown DEF Close, ClosedItem
<1>7. ASSUME NEW r \in Repo, NEW n \in Item, Open(r, n) PROVE StoredOK'
  BY <1>0, <1>7, ChangeIsShown DEF Open, OldItem
<1>8. ASSUME NEW r \in Repo, NEW n \in Item, Propagate(r, n) PROVE StoredOK'
  <2>1. /\ snap' = snap /\ item' = [item EXCEPT ![r][n] = Reviewed(item[r][n])]
        /\ item[r][n].late # None
    BY <1>0, <1>8 DEF Propagate
  <2>2. \A q \in Repo, m \in Item : <<q, m>> # <<r, n>> => item'[q][m] = item[q][m]
    BY <1>0, <2>1
  <2>3. item[r][n] \in GitItem /\ item'[r][n] = Reviewed(item[r][n])
    BY <1>0, <2>1
  <2>4. ASSUME snap[r][n] # None PROVE Backs(snap[r][n], item'[r][n])
    <3>1. Backs(snap[r][n], item[r][n]) /\ snap[r][n].facts \in Nat
      BY <1>0, <2>4 DEF StoredOK, Snapshot
    <3>2. item[r][n].upd \in Nat /\ item[r][n].late \in Nat
      BY <2>1, <2>3 DEF GitItem
    <3>3. /\ item'[r][n].open = item[r][n].open
          /\ item'[r][n].upd <= item[r][n].upd /\ item'[r][n].upd <= item[r][n].late
          /\ item'[r][n].upd \in Nat
      BY <2>3, <3>2 DEF Reviewed, Least, GitItem
    <3> QED BY <3>1, <3>2, <3>3 DEF Backs
  <2> QED BY <1>0, <2>1, <2>2, <2>4 DEF StoredOK, Backs
<1>9. CASE Tick
  <2>1. SUFFICES ASSUME NEW q \in Repo, NEW m \in Item, snap'[q][m] # None
                 PROVE  Backs(snap'[q][m], item'[q][m])
    BY DEF StoredOK, Backs
  <2>2. snap'[q][m] = AgedSnap(snap[q][m]) /\ item'[q][m] = AgedItem(item[q][m])
        /\ (item[q][m].late # None => item[q][m].late < Lag)
    BY <1>9 DEF Tick
  <2>3. snap[q][m] \in Snapshot /\ item[q][m] \in GitItem /\ Backs(snap[q][m], item[q][m])
    BY <1>0, <2>1, <2>2 DEF StoredOK, AgedSnap
  <2> QED BY <2>1, <2>2, <2>3, Ages
<1>10. ASSUME \/ ClaimDue \/ EndWalk \/ Decide \/ PassFails \/ Crash \/ Restart
              \/ ReadsNothing \/ ListFails \/ DecideThrows \/ Finish \/ ReadConfig
              \/ Roll \/ UNCHANGED vars
              \/ \E r \in Repo : Declare(r) \/ Begin(r) \/ Defer(r)
              \/ \E n \in Item : Reuse(n)
       PROVE  UNCHANGED <<snap, item>>
  BY <1>10, Zenon
  DEF ClaimDue, EndWalk, Decide, PassFails, Crash, Restart, ReadsNothing, ListFails,
      DecideThrows, Finish, ReadConfig, Roll, vars, Declare, Begin, Defer, Reuse, gitVars
<1> QED
  BY <1>1, <1>2, <1>3, <1>4, <1>5, <1>6, <1>7, <1>8, <1>9, <1>10 DEF Next, Firing, Failure, People

(* The theorems.                                                           *)

LEMMA InitIInv == Init => IInv
<1> SUFFICES ASSUME Init PROVE IInv
  OBVIOUS
<1>1. TypeOK
  BY TypeInit
<1>2. PlaceOK /\ WalkOK /\ DecideOK
  BY DEF Init, PlaceOK, WalkOK, DecideOK, Holding
<1>3. RunningIsHeld
  BY DEF Init, RunningIsHeld, InFiring, Stranded, Undeclared
<1>4. CursorSkipsNothing /\ OwedIsOpen /\ OrderOK
  BY DEF Init, CursorSkipsNothing, OwedIsOpen, OrderOK
<1> QED BY <1>1, <1>2, <1>3, <1>4 DEF IInv

LEMMA StepIInv == IInv /\ [Next]_vars => IInv'
BY TypeStep, PlaceStep, RunningStep, RoundStep, OrderStep DEF IInv, RoundOK

\* The inductive invariant of the sweep.
THEOREM Invariance == Spec => []IInv
<1> QED BY InitIInv, StepIInv, PTL DEF Spec

\* The state of the sweep is well typed; no request is charged past the cap.
THEOREM TypeCorrect == Spec => []TypeOK
<1>1. IInv => TypeOK
  BY DEF IInv
<1> QED BY <1>1, Invariance, PTL

\* A row is running only while its pass holds it, unless a crash or a throw
\* stranded it (fireDue, scheduleAgain).
THEOREM RunningRowsAreHeld == Spec => []RunningIsHeld
<1>1. IInv => RunningIsHeld
  BY DEF IInv
<1> QED BY <1>1, Invariance, PTL

\* The cursor passes no item that was open since its round began and has not
\* been decided (readRecords, afterCursor, D170).
THEOREM NothingIsSkipped == Spec => []CursorSkipsNothing
<1>1. IInv => CursorSkipsNothing
  BY DEF IInv
<1> QED BY <1>1, Invariance, PTL

\* A firing at the end of its list ends a round in which every item open
\* throughout was decided.
THEOREM RoundsAreWhole == Spec => []RoundIsWhole
<1>1. IInv => RoundIsWhole
  BY DEF IInv, DecideOK, RoundIsWhole
<1> QED BY <1>1, Invariance, PTL

\* A repository turned away is not passed over for one fired since (claimDue's
\* order, and the start a deferred row does not take, D192).
THEOREM TurnsAreFair == Spec => NoOvertaking
<1> DEFINE A == \A r \in queue :
                  queue' = queue \ {r} => \A s \in queue' \cap away : r \notin since[s]
<1>1. ASSUME IInv, [Next]_vars PROVE A
  <2> SUFFICES ASSUME NEW r \in queue, queue' = queue \ {r}, NEW s \in queue' \cap away
               PROVE  r \notin since[s]
    OBVIOUS
  <2>0. TypeOK /\ PlaceOK /\ OrderOK /\ queue \subseteq Repo /\ queue' # queue /\ queue' # {}
    BY <1>1 DEF IInv, TypeOK
  <2>1. PICK x \in Repo : Turn(x) /\ queue' = queue \ {x}
    <3>1. ~ClaimDue /\ ~PassFails /\ ~Crash
      BY <2>0 DEF ClaimDue, PassFails, Crash, GoOn, PlaceOK
    <3>2. ~(ReadConfig \/ ReadsNothing \/ ListFails \/ DecideThrows \/ Finish)
      BY <2>0, Zenon DEF ReadConfig, ReadsNothing, ListFails, DecideThrows, Finish, GoOn
    <3>3. ~(ListItems \/ EndWalk \/ Decide \/ Roll \/ Restart \/ Tick \/ UNCHANGED vars)
      BY <2>0, Zenon DEF ListItems, EndWalk, Decide, Roll, Restart, Tick, vars, firingVars
    <3>4. \A n \in Item : ~Reuse(n) /\ ~ReadItem(n)
      BY <2>0, Zenon DEF Reuse, ReadItem
    <3>5. \A q \in Repo : ~Declare(q)
      BY <2>0, Zenon DEF Declare, firingVars
    <3>6. \A q \in Repo, n \in Item :
            ~(Touch(q, n) \/ Review(q, n) \/ Close(q, n) \/ Open(q, n) \/ Propagate(q, n))
      BY <2>0, Zenon DEF Touch, Review, Close, Open, Propagate, firingVars
    <3>7. PICK x \in Repo : Defer(x) \/ Begin(x)
      BY <1>1, <3>1, <3>2, <3>3, <3>4, <3>5, <3>6 DEF Next, Firing, Failure, People
    <3> QED BY <3>7 DEF Defer, Begin, GoOn
  <2>2. x = r
    BY <2>1 DEF Turn
  <2> QED BY <2>0, <2>1, <2>2 DEF Turn, OrderOK
<1> QED BY <1>1, Invariance, PTL DEF Spec, NoOvertaking

\* A stored read the sweep decides from misses no change of its item, except a review that
\* the list does not show yet, or a change in the tick of both the list it was stored with
\* and the update that list showed, for any settling time, age and lag (stillStands, D193).
THEOREM StoredReadsHeedTheList == Spec => ReuseHeedsTheList
<1>1. Init => ReadsOK
  BY DEF Init, ReadsOK, ListOK, StoredOK
<1>2. IInv /\ ReadsOK /\ [Next]_vars => ReadsOK'
  BY ListOKStep, StoredOKStep DEF ReadsOK
<1>3. ASSUME IInv, ReadsOK, [Next]_vars PROVE ReuseStep
  <2>1. SUFFICES ASSUME Lists, NEW n \in held', snap[hand][n].behind, item[hand][n].late = None
                 PROVE  snap[hand][n].upd = snap[hand][n].read
    BY DEF ReuseStep
  <2>2. ListItems
    <3>1. at = "list" /\ at' = "walk"
      BY <2>1 DEF Lists
    <3>2. ~(ReadsNothing \/ ListFails \/ DecideThrows \/ Finish \/ PassFails \/ ClaimDue
            \/ ReadConfig \/ Crash \/ Restart \/ \E r \in Repo : Defer(r) \/ Begin(r))
      BY <3>1 DEF ReadsNothing, ListFails, DecideThrows, Finish, PassFails, ClaimDue, ReadConfig,
                  Crash, Restart, Defer, Begin, GoOn
    <3>3. ~(EndWalk \/ Decide \/ (\E m \in Item : Reuse(m) \/ ReadItem(m)))
      BY <3>1 DEF EndWalk, Decide, Reuse, ReadItem
    <3>4. ~(Roll \/ Tick \/ (\E r \in Repo : Declare(r)) \/ UNCHANGED vars)
      BY <3>1, Zenon DEF Roll, Tick, Declare, vars, firingVars
    <3>5. \A r \in Repo, m \in Item :
            ~(Touch(r, m) \/ Review(r, m) \/ Close(r, m) \/ Open(r, m) \/ Propagate(r, m))
      BY <3>1, Zenon DEF Touch, Review, Close, Open, Propagate, firingVars
    <3> QED BY <1>3, <3>2, <3>3, <3>4, <3>5 DEF Next, Firing, Failure, People
  <2>3. hand \in Repo /\ n \in Item /\ item[hand][n].open
        /\ StillStands(snap[hand][n], item[hand][n].upd)
    BY <1>3, <2>2 DEF ListItems, OpenItems, IInv, PlaceOK, Holding
  <2>4. /\ snap[hand][n] \in Snapshot /\ item[hand][n].upd \in Nat
        /\ snap[hand][n].upd = item[hand][n].upd /\ Backs(snap[hand][n], item[hand][n])
    BY <1>3, <2>3, ReadTypes DEF IInv, ReadsOK, StoredOK, StillStands, GitItem
  <2>5. snap[hand][n].upd \in Nat /\ snap[hand][n].read \in Nat /\ snap[hand][n].facts \in Nat
    BY <2>4 DEF Snapshot
  <2> QED BY <2>1, <2>3, <2>4, <2>5 DEF Backs
<1> QED BY <1>1, <1>2, <1>3, Invariance, PTL DEF Spec, ReuseHeedsTheList
=============================================================================
