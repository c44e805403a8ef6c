----------------------------- MODULE PartsProofs -----------------------------
(***************************************************************************)
(* What eight of the ten parts keep, for every value of their constants.   *)
(* Each part with state of its own has an invariant, proved of the actions *)
(* of its module and carried here under "the behaviour is about this       *)
(* part": HostedOK (one process), SettingsOK and EngineOK (a file, a       *)
(* decision), HistoryOK (an effect's facts), AllowanceOK (a lane), BoardOK *)
(* (a pull request and its dashboard) and ContractOK (a fleet the boot     *)
(* admitted).  The sweep's is the one SweepProofs establishes, of the same *)
(* text; it comes last, so that no proof but its own carries that module.  *)
(***************************************************************************)
EXTENDS Parts, FiniteSetTheorems, SequenceTheorems, WellFoundedInduction, TLAPS

\* Whatever asks GitHub was armed for it, and whatever a shutdown joined has nothing behind
\* it that could start it again.
HostedOK ==
  /\ phase = "unborn" => /\ ~asked /\ ~ticking /\ stop = "no" /\ lane = "none" /\ sweep = "none"
                         /\ \A r \in Recovery : recovery[r] = "none"
  /\ asked => ~armed.suspended
  /\ \A r \in Recovery : recovery[r] # "none" => ~armed.suspended
  /\ recovery \in [Recovery -> {"none", "reading", "resending"}]
  /\ conn \in [Connection -> {"none", "reading", "idle"}]
  /\ stop \in {"no", "closing", "settling", "closed"}
  /\ stop # "no" => ~ticking
  /\ stop \in {"settling", "closed"} =>
       /\ \A c \in Connection : conn[c] = "none"
       /\ lane # "none" => "lane" \in joined
       /\ sweep # "none" => "sweep" \in joined
  /\ stop = "closed" => joined = {}

LEMMA HostedStarts == L!Init => HostedOK
BY DEF L!Init, HostedOK, L!Unarmed

LEMMA EdgeGoesOn ==
  ASSUME HostedOK, phase # "unborn", NEW c \in Connection,
         L!Connects(c) \/ L!RefusesRequest(c) \/ L!AcceptsDelivery(c) \/ L!Leaves(c)
  PROVE  HostedOK'
<1> USE DEF HostedOK
<1>1. CASE L!Connects(c)
  BY <1>1 DEF L!Connects, L!work
<1>2. CASE L!RefusesRequest(c)
  BY <1>2 DEF L!RefusesRequest, L!work
<1>3. CASE L!AcceptsDelivery(c)
  BY <1>3 DEF L!AcceptsDelivery, L!DrainFrom
<1>4. CASE L!Leaves(c)
  BY <1>4 DEF L!Leaves, L!work
<1> QED BY <1>1, <1>2, <1>3, <1>4

LEMMA HostedGoesOn ==
  ASSUME HostedOK, L!Next
  PROVE  HostedOK'
<1>1. ASSUME NEW env \in L!Environment, L!Boot(env) PROVE HostedOK'
  BY <1>1 DEF HostedOK, L!Boot, L!CreatesShell, L!Composition
<1>2. ASSUME L!Alive, L!Running PROVE HostedOK'
  <2>0. phase # "unborn"
    BY <1>2 DEF L!Alive
  <2>1. CASE L!BecomesReady
    BY <2>0, <2>1 DEF HostedOK, L!BecomesReady, L!work
  <2>2. CASE L!Tick
    BY <2>0, <2>2 DEF HostedOK, L!Tick, L!Recovers
  <2>3. CASE L!Signal
    BY <2>0, <2>3 DEF HostedOK, L!Signal, L!work
  <2>4. ASSUME NEW c \in Connection,
               L!Connects(c) \/ L!RefusesRequest(c) \/ L!AcceptsDelivery(c) \/ L!Leaves(c)
        PROVE HostedOK'
    BY <2>0, <2>4, EdgeGoesOn
  <2>5. CASE L!LaneSteps \/ L!Reads \/ L!SweepReads \/ L!SweepEnds
    <3>1. CASE L!Claims \/ L!Settles
      BY <2>0, <3>1 DEF HostedOK, L!Claims, L!Settles
    <3>2. CASE L!Reads
      BY <2>0, <3>2 DEF HostedOK, L!Reads
    <3>3. CASE L!SweepReads \/ L!SweepEnds
      BY <2>0, <3>3 DEF HostedOK, L!SweepReads, L!SweepEnds, L!work
    <3> QED BY <2>5, <3>1, <3>2, <3>3 DEF L!LaneSteps
  <2>6. ASSUME NEW r \in Recovery, L!RecoveryReads(r) \/ L!RecoveryEnds(r) PROVE HostedOK'
    BY <2>0, <2>6 DEF HostedOK, L!RecoveryReads, L!RecoveryEnds
  <2>7. CASE L!Joins
    BY <2>0, <2>7 DEF HostedOK, L!Joins, L!SocketClosed, L!InFlight, L!work
  <2>8. CASE L!OneSettles
    BY <2>0, <2>8 DEF HostedOK, L!OneSettles, L!InFlight, L!work
  <2>9. CASE L!ClosesStore \/ L!Exits
    BY <2>0, <2>9 DEF HostedOK, L!ClosesStore, L!Exits, L!work
  <2> QED BY <1>2, <2>1, <2>2, <2>3, <2>4, <2>5, <2>6, <2>7, <2>8, <2>9 DEF L!Running, L!StopSteps
<1> QED BY <1>1, <1>2 DEF L!Next

LEMMA HostedHoldsBack ==
  ASSUME HostedOK
  PROVE  L!NothingIsClaimedBehind /\ L!SuspendedAsksNothing
BY DEF HostedOK, L!NothingIsClaimedBehind, L!SuspendedAsksNothing

\* What holds of each part in every state it reaches.
ProcessOK == part = "process" => HostedOK

LEMMA ProcessGoesOn ==
  ASSUME ProcessOK, [Next]_vars
  PROVE  ProcessOK'
<1>1. CASE Next
  BY <1>1, HostedGoesOn DEF ProcessOK, Next
<1>2. CASE UNCHANGED vars
  BY <1>2 DEF vars, ProcessOK, HostedOK, hosted
<1> QED BY <1>1, <1>2

\* Whenever a shutdown begins, and whichever lanes, ticks and recoveries it meets, the process
\* it leaves has claimed no delivery and no row it will not answer for; and one suspended by
\* its armed record asks GitHub nothing, at any instant (shutdown.ts, jobs.ts, live.ts).
THEOREM ProcessAlwaysHoldsBack == Spec => []ProcessHoldsBack
<1>1. Init => ProcessOK
  BY HostedStarts DEF Init, ProcessOK
<1>2. ProcessOK /\ [Next]_vars => ProcessOK'
  BY ProcessGoesOn
<1>3. ProcessOK => ProcessHoldsBack
  BY HostedHoldsBack DEF ProcessOK, ProcessHoldsBack
<1> QED BY <1>1, <1>2, <1>3, PTL DEF Spec

----------------------------------------------------------------------------
\* A set of naturals that is not empty has a least element.
LEMMA LeastExists ==
  ASSUME NEW T, T \subseteq Nat, T # {}
  PROVE  \E x \in T : \A y \in T : x <= y
<1>1. PICK x \in T : \A y \in T : ~(<<y, x>> \in OpToRel(<, Nat))
  <2>1. IsWellFoundedOn(OpToRel(<, Nat), Nat)
    BY NatLessThanWellFounded
  <2> HIDE DEF OpToRel
  <2>2. QED BY <2>1, WFMin
<1>2. \A y \in T : x <= y
  <2> TAKE y \in T
  <2>1. ~(y < x)
    <3>1. ~(<<y, x>> \in {ss \in Nat \X Nat : ss[1] < ss[2]})
      BY <1>1 DEF OpToRel
    <3>2. <<y, x>> \in Nat \X Nat /\ <<y, x>>[1] = y /\ <<y, x>>[2] = x
      OBVIOUS
    <3>3. QED BY <3>1, <3>2
  <2>2. QED BY <2>1
<1>3. QED BY <1>2

LEMMA ChoosesLeast ==
  ASSUME NEW T, T \subseteq Nat, NEW x \in T, \A y \in T : x <= y
  PROVE  (CHOOSE i \in T : \A j \in T : i <= j) = x
<1> DEFINE c == CHOOSE i \in T : \A j \in T : i <= j
<1>1. c \in T /\ \A j \in T : c <= j
  OBVIOUS
<1> HIDE DEF c
<1>2. c <= x /\ x <= c /\ c \in Nat /\ x \in Nat
  BY <1>1
<1>3. c = x
  BY <1>2
<1> QED BY <1>3 DEF c

----------------------------------------------------------------------------
(* The file a maintainer writes.                                           *)

Consents == {None, "disabled", "observe", "dry-run", "active", Garbled}
Clocks == Hours \cup {None, Garbled}

Files ==
  [flaw : BOOLEAN, mode : Consents, enabled : [Capability -> {"true", "false", Garbled}],
   stated : [Capability -> Consents],
   spelled : [S!Labelled \cup S!Skilled \cup S!Alerted -> S!Spelling \cup {None}],
   word : {None, "/working", "working"},
   remind : [S!Level -> Clocks], reap : [S!Level -> Clocks],
   on : SUBSET S!Level, act : SUBSET S!Acting]

SettingsOK == file \in Files \cup {Absent}

LEMMA StarterIsAFile == S!Starter \in Files
BY DEF S!Starter, Files, Consents, Clocks, S!Labelled, S!Skilled, S!Alerted, S!Spelling, S!Level, S!Acting

LEMMA SettingsStart == S!SettingsInit => SettingsOK
BY StarterIsAFile DEF S!SettingsInit, SettingsOK

\* Every edit leaves a file a maintainer could have written.
LEMMA EditedIsAFile ==
  ASSUME file \in Files, S!EditsConsent \/ S!EditsMappings \/ S!EditsClocks
  PROVE  file' \in Files
<1>1. CASE S!EditsConsent
  <2>1. \/ file' = [file EXCEPT !.flaw = ~@]
        \/ \E m \in Consents : file' = [file EXCEPT !.mode = m]
        \/ \E c \in Capability, e \in {"true", "false", Garbled} : file' = [file EXCEPT !.enabled[c] = e]
        \/ \E c \in Capability, m \in Consents : file' = [file EXCEPT !.stated[c] = m]
    BY <1>1 DEF S!EditsConsent, S!Becomes, Consents
  <2>2. CASE file' = [file EXCEPT !.flaw = ~@]
    BY <2>2 DEF Files
  <2>3. CASE \E m \in Consents : file' = [file EXCEPT !.mode = m]
    BY <2>3 DEF Files
  <2>4. CASE \E c \in Capability, e \in {"true", "false", Garbled} : file' = [file EXCEPT !.enabled[c] = e]
    BY <2>4 DEF Files
  <2>5. CASE \E c \in Capability, m \in Consents : file' = [file EXCEPT !.stated[c] = m]
    BY <2>5 DEF Files
  <2> QED BY <2>1, <2>2, <2>3, <2>4, <2>5
<1>2. CASE S!EditsMappings
  BY <1>2 DEF S!EditsMappings, S!Becomes, Files
<1>3. CASE S!EditsClocks
  <2>1. PICK l \in S!Level, h \in Clocks :
          \/ file' = [file EXCEPT !.remind[l] = h] \/ file' = [file EXCEPT !.reap[l] = h]
          \/ file' = [file EXCEPT !.on = S!Toggled(@, l)]
          \/ l \in S!Acting /\ file' = [file EXCEPT !.act = S!Toggled(@, l)]
    BY <1>3 DEF S!EditsClocks, S!Becomes, Clocks, S!Acting, S!Level
  <2> QED BY <2>1 DEF Files, S!Toggled
<1> QED BY <1>1, <1>2, <1>3

LEMMA SettingsGoOn ==
  ASSUME SettingsOK, S!SettingsNext
  PROVE  SettingsOK'
<1>1. CASE S!ReadsContents \/ S!Corroborates \/ S!ReadFails \/ S!AccessChanges
  BY <1>1 DEF SettingsOK, S!ReadsContents, S!Corroborates, S!ReadFails, S!AccessChanges, Files
<1>2. CASE S!CommitsFile \/ S!DeletesFile
  BY <1>2, StarterIsAFile DEF SettingsOK, S!CommitsFile, S!DeletesFile, S!Becomes, Files
<1>3. CASE S!EditsConsent \/ S!EditsMappings \/ S!EditsClocks
  <2>1. file # Absent
    BY <1>3 DEF S!EditsConsent, S!EditsMappings, S!EditsClocks, S!Editable
  <2>2. file' \in Files
    BY <1>3, <2>1, EditedIsAFile DEF SettingsOK
  <2> QED BY <2>2 DEF SettingsOK
<1> QED BY <1>1, <1>2, <1>3 DEF S!SettingsNext

\* Labels: two meanings of one family, or of two.
LEMMA MappingsAreSound ==
  ASSUME NEW f, S!MappingsOk(f), NEW m \in S!Carried(f), NEW n \in S!Carried(f), m # n
  PROVE  S!Merged(f)[m] # S!Merged(f)[n]
<1> DEFINE meaning(x) == IF f.spelled[x] = None THEN x ELSE f.spelled[x]
<1>1. S!Merged(f)[m] = meaning(m) /\ S!Merged(f)[n] = meaning(n)
  BY DEF S!Merged
<1>2. /\ S!FamilyOk(f, S!Labelled) /\ S!DefaultsUnshadowed(f) /\ S!EarlierUntaken(f)
  BY DEF S!MappingsOk, S!Families
<1>3. CASE m \in S!Labelled /\ n \in S!Labelled
  BY <1>1, <1>2, <1>3 DEF S!FamilyOk, S!DefaultsUnshadowed
<1>4. \A i, j \in 1..3 : i < j =>
        \A x \in S!Families[i] \cap S!Carried(f), y \in S!Families[j] \cap S!Carried(f) :
          S!Merged(f)[x] # S!Merged(f)[y]
  BY <1>2 DEF S!EarlierUntaken
<1>5. S!Families[1] = S!Labelled /\ S!Families[2] = S!Skilled /\ S!Families[3] = S!Alerted
  BY DEF S!Families
<1>6. \A x \in S!Labelled \cap S!Carried(f), y \in (S!Skilled \cup S!Alerted) \cap S!Carried(f) :
        S!Merged(f)[x] # S!Merged(f)[y]
  BY <1>4, <1>5
<1>7. \A x \in S!Skilled \cap S!Carried(f), y \in S!Alerted \cap S!Carried(f) :
        S!Merged(f)[x] # S!Merged(f)[y]
  BY <1>4, <1>5
<1>8. /\ m \in S!Labelled \cup S!Skilled \cup S!Alerted
      /\ n \in S!Labelled \cup S!Skilled \cup S!Alerted
  BY DEF S!Carried
<1>9. \A x, y \in S!Skilled : x = y
  BY DEF S!Skilled
<1>10. \A x, y \in S!Alerted : x = y
  BY DEF S!Alerted
<1> HIDE DEF meaning
<1> QED BY <1>3, <1>6, <1>7, <1>8, <1>9, <1>10

\* The level's own clock, where it has one, is the one the ladder reads first.
LEMMA OwnClockFirst ==
  ASSUME NEW f, NEW clock, NEW l \in S!Acting, f[clock][l] # None
  PROVE  S!Named(f, clock, S!Outward(l)) = S!InRange(f[clock][l])
<1> DEFINE levels == S!Outward(l)
           stating == {i \in 1..Len(levels) : f[clock][levels[i]] # None}
<1>1. Len(levels) \in {2, 3} /\ levels[1] = l
  BY DEF S!Outward, S!Acting
<1>2. 1 \in stating /\ \A j \in stating : 1 <= j
  BY <1>1
<1>3. (CHOOSE i \in stating : \A j \in stating : i <= j) = 1
  <2> HIDE DEF levels
  <2>1. stating \subseteq 1..3
    BY <1>1
  <2>2. stating \subseteq Nat
    BY <2>1
  <2> HIDE DEF stating
  <2> QED BY <1>2, <2>2, ChoosesLeast
<1> QED BY <1>1, <1>2, <1>3 DEF S!Named

\* Where it has none, the ladder reads on outwards.
LEMMA OuterClockNext ==
  ASSUME NEW f, NEW clock, NEW l \in S!Acting, f[clock][l] = None
  PROVE  S!Named(f, clock, S!Outward(l)) = S!Named(f, clock, Tail(S!Outward(l)))
<1> DEFINE levels == S!Outward(l)
           outer == Tail(S!Outward(l))
           stating == {i \in 1..Len(levels) : f[clock][levels[i]] # None}
           beyond == {i \in 1..Len(outer) : f[clock][outer[i]] # None}
           first == CHOOSE i \in stating : \A j \in stating : i <= j
           next1 == CHOOSE i \in beyond : \A j \in beyond : i <= j
<1>1. /\ Len(levels) \in {2, 3} /\ levels[1] = l /\ Len(outer) = Len(levels) - 1
      /\ \A i \in 1..Len(outer) : outer[i] = levels[i + 1]
  BY DEF S!Outward, S!Acting
<1> HIDE DEF levels, outer
<1>2. 1 \notin stating /\ stating \subseteq 2..3 /\ beyond \subseteq 1..2
  BY <1>1
<1>3. \A i \in 1..Len(outer) : i \in beyond <=> i + 1 \in stating
  BY <1>1
<1>4. \A i \in 2..Len(levels) : i \in stating <=> i - 1 \in beyond
  BY <1>1
<1>5. CASE stating = {}
  <2>1. beyond = {}
    BY <1>3, <1>5
  <2> QED BY <1>5, <2>1 DEF S!Named, levels, outer
<1>6. CASE stating # {}
  <2>1. beyond # {} /\ beyond \subseteq 1..Len(outer) /\ stating \subseteq 1..Len(levels)
    BY <1>1, <1>2, <1>4, <1>6
  <2>2. PICK b \in beyond : \A j \in beyond : b <= j
    <3> HIDE DEF beyond, stating
    <3>1. beyond \subseteq Nat
      BY <1>2
    <3> QED BY <2>1, <3>1, LeastExists
  <2>3. b + 1 \in stating /\ \A j \in stating : b + 1 <= j
    <3> HIDE DEF beyond, stating
    <3> QED BY <1>1, <1>2, <1>3, <1>4, <2>1, <2>2
  <2>4. next1 = b
    <3>1. beyond \subseteq Nat
      BY <1>2
    <3> HIDE DEF beyond
    <3> QED BY <2>2, <3>1, ChoosesLeast
  <2>5. first = b + 1
    <3>1. stating \subseteq Nat
      BY <1>2
    <3> HIDE DEF stating
    <3> QED BY <2>3, <3>1, ChoosesLeast
  <2>6. levels[first] = outer[next1]
    BY <1>1, <2>1, <2>2, <2>4, <2>5
  <2>7. S!Named(f, clock, levels) = S!InRange(f[clock][levels[first]])
    BY <1>6 DEF S!Named
  <2>8. S!Named(f, clock, outer) = S!InRange(f[clock][outer[next1]])
    BY <2>1 DEF S!Named
  <2> QED BY <2>6, <2>7, <2>8 DEF levels, outer
<1> QED BY <1>5, <1>6

LEMMA ClocksAreSound ==
  ASSUME NEW f, S!ClocksOk(f), NEW l \in S!ReadLevels(f), S!Reaps(f, l)
  PROVE  S!Resolved(f, "reap", l) - S!Resolved(f, "remind", l) >= MinGrace
<1> DEFINE after == S!Resolved(f, "reap", l)
           before1 == S!Resolved(f, "remind", l)
           floor == S!Named(f, "remind", S!Outward(l))
<1>1. l \in S!Acting
  BY DEF S!Reaps
<1>2. before1 # None /\ after # None /\ after >= MinReap /\ (floor = None \/ after >= floor + MinGrace)
  BY DEF S!ClocksOk, S!FarEnough
<1>3. floor = before1
  BY <1>1, OwnClockFirst, OuterClockNext DEF S!Resolved
<1>4. \A h : S!InRange(h) \in Nat \cup {None}
  BY DEF S!InRange
<1>5. \A clock, levels : S!Named(f, clock, levels) \in Nat \cup {None}
  BY <1>4, SettingsAssumption DEF S!Named, S!Default
<1>6. after \in Nat \cup {None} /\ before1 \in Nat \cup {None}
  BY <1>4, <1>5 DEF S!Resolved
<1> HIDE DEF after, before1, floor
<1>7. after >= before1 + MinGrace
  BY <1>2, <1>3
<1>8. after - before1 >= MinGrace
  BY <1>2, <1>6, <1>7, SettingsAssumption
<1> QED BY <1>8 DEF after, before1

LEMMA AcceptedIsSound == S!OneMeaningPerLabel /\ S!GraceOutlastsReminder
<1>1. S!OneMeaningPerLabel
  BY MappingsAreSound DEF S!OneMeaningPerLabel, S!Accepted
<1>2. S!GraceOutlastsReminder
  BY ClocksAreSound DEF S!GraceOutlastsReminder, S!Accepted, S!CapabilitiesOk
<1> QED BY <1>1, <1>2

----------------------------------------------------------------------------
(* What a pass may do under the file.                                      *)

LEMMA Ranks ==
  S!Rank("disabled") = 1 /\ S!Rank("observe") = 2 /\ S!Rank("dry-run") = 3 /\ S!Rank("active") = 4
BY DEF S!Rank, S!Modes

\* The standing rules let a write through only of an enabled capability that is active.
LEMMA StandingApplies ==
  ASSUME NEW w, S!StandingVerdict(w) = "apply"
  PROVE  /\ w.capability \in w.config.enabled
         /\ S!EffectiveMode(w.config, w.capability) \notin {"disabled", "observe", "dry-run"}
<1> DEFINE objects == S!StandingRules(w)
           objecting == {i \in 1..Len(S!Order) : S!Order[i] \in DOMAIN objects /\ objects[S!Order[i]]}
<1>1. S!FirstOf(S!Order, objects) = "apply"
  BY DEF S!StandingVerdict
<1>2. /\ Len(S!Order) = 10 /\ \A i \in 1..10 : S!Order[i] # "apply"
      /\ S!Order[2] = "capabilityDisabled" /\ S!Order[9] = "modeDisabled"
      /\ S!Order[10] = "modeRecordsOnly"
  BY DEF S!Order
<1>3. {"capabilityDisabled", "modeDisabled", "modeRecordsOnly"} \subseteq DOMAIN objects
  BY DEF S!StandingRules
<1> HIDE DEF objects
<1>4. objecting = {}
  <2>1. SUFFICES ASSUME objecting # {} PROVE FALSE
    OBVIOUS
  <2>2. \E i \in objecting : \A j \in objecting : i <= j
    <3>1. objecting \subseteq Nat
      BY <1>2
    <3> HIDE DEF objecting
    <3> QED BY <2>1, <3>1, LeastExists
  <2>3. S!FirstOf(S!Order, objects) \in {S!Order[i] : i \in objecting}
    BY <2>1, <2>2 DEF S!FirstOf
  <2> QED BY <1>1, <1>2, <2>3
<1>5. ~objects.capabilityDisabled /\ ~objects.modeDisabled /\ ~objects.modeRecordsOnly
  BY <1>2, <1>3, <1>4
<1> QED BY <1>5 DEF objects, S!StandingRules

\* An accepted file's capability is active only where the file is, and its block says no less.
LEMMA ActiveWasSaid ==
  ASSUME file \in Files, S!Accepted(file), NEW c \in Capability, c \in S!Enabled(file),
         S!EffectiveMode(S!ConfigOf(file), c) \notin {"disabled", "observe", "dry-run"}
  PROVE  /\ file.mode = "active" /\ file.enabled[c] = "true"
         /\ file.stated[c] \in {None, "active"}
<1> DEFINE level == S!FileMode(file)
           stated == file.stated[c]
<1>1. /\ S!ConfigOf(file).mode = level /\ S!ConfigOf(file).stated[c] = stated
  BY DEF S!ConfigOf
<1>2. file.enabled[c] = "true"
  BY DEF S!Enabled
<1>3. level \in {"disabled", "observe", "dry-run", "active"}
  BY DEF S!FileMode, S!Accepted, S!ModeOk, Files, Consents
<1>4. S!BlockModeOk(file, c)
  BY DEF S!Accepted, S!CapabilitiesOk
<1>5. CASE stated = None
  <2>1. level = "active"
    BY <1>1, <1>3, <1>5 DEF S!EffectiveMode
  <2> QED BY <1>2, <1>5, <2>1 DEF S!FileMode
<1>6. CASE stated # None
  <2>1. stated \in {"observe", "dry-run", "active"} /\ ~S!IsAbove(stated, level)
    BY <1>4, <1>6 DEF S!BlockModeOk
  <2>2. stated = "active"
    BY <1>1, <1>6, <2>1 DEF S!EffectiveMode
  <2>3. level = "active"
    BY <1>3, <2>1, <2>2, Ranks DEF S!IsAbove
  <2> QED BY <1>2, <2>2, <2>3 DEF S!FileMode
<1> QED BY <1>5, <1>6

\* Under the arming ceiling nothing is active.
LEMMA LoweredIsNotActive ==
  ASSUME NEW config, NEW stated \in [Capability -> Consents], NEW chosen \in SUBSET Capability,
         NEW level \in {"disabled", "observe", "dry-run", "active"},
         config = [mode |-> level, enabled |-> chosen, stated |-> stated],
         \A c \in chosen : stated[c] \in {None, "observe", "dry-run", "active"}
  PROVE  ~S!AnyCapabilityActive(S!LoweredTo(config, "dry-run"))
<1> DEFINE lower(m) == S!LoweredMode(m, "dry-run")
           lowered == [c \in Capability |-> IF stated[c] = None THEN None ELSE lower(stated[c])]
           capped == S!LoweredTo(config, "dry-run")
<1>1. /\ capped.mode = lower(level) /\ capped.enabled = chosen /\ capped.stated = lowered
  BY DEF S!LoweredTo
<1>2. \A m \in {"disabled", "observe", "dry-run", "active"} : lower(m) # "active"
  BY Ranks DEF S!LoweredMode, S!IsAbove
<1> HIDE DEF capped
<1>3. ASSUME NEW c \in chosen PROVE S!EffectiveMode(capped, c) # "active"
  <2>1. capped.mode # "active"
    BY <1>1, <1>2
  <2>2. capped.stated[c] = IF stated[c] = None THEN None ELSE lower(stated[c])
    BY <1>1
  <2>3. stated[c] = None \/ lower(stated[c]) # "active"
    BY <1>2
  <2> HIDE DEF lower, lowered
  <2> QED BY <2>1, <2>2, <2>3 DEF S!EffectiveMode
<1> QED BY <1>1, <1>3 DEF S!AnyCapabilityActive, capped

\* What a pass decides under a file it accepted.
LEMMA AcceptedDecides ==
  ASSUME file \in Files, S!Accepted(file), file # Absent
  PROVE  /\ \A c \in S!Decided(S!ConfigOf(file)).for :
              /\ process = "armed" /\ file.mode = "active" /\ file.enabled[c] = "true"
              /\ file.stated[c] \in {None, "active"}
         /\ process = "action" => S!Decided(S!ConfigOf(file)).end # "modeUnsupported"
<1> DEFINE config == S!ConfigOf(file)
           capped == S!Ceilinged(config)
<1>1. config = [mode |-> S!FileMode(file), enabled |-> S!Enabled(file), stated |-> file.stated]
  BY DEF S!ConfigOf
<1>2. S!FileMode(file) \in {"disabled", "observe", "dry-run", "active"}
  BY DEF S!FileMode, S!Accepted, S!ModeOk, Files, Consents
<1>3. file.stated \in [Capability -> Consents] /\ S!Enabled(file) \in SUBSET Capability
  BY DEF Files, S!Enabled
<1>4. \A c \in S!Enabled(file) : file.stated[c] \in {None, "observe", "dry-run", "active"}
  BY <1>3 DEF S!Accepted, S!CapabilitiesOk, S!BlockModeOk
<1> HIDE DEF config
<1>5. process = "action" => ~S!AnyCapabilityActive(capped)
  BY <1>1, <1>2, <1>3, <1>4, LoweredIsNotActive DEF S!Ceilinged
<1>6. process = "armed" => capped = config
  BY DEF S!Ceilinged
<1>7. process = "action" => S!Decided(config).end # "modeUnsupported"
  BY <1>5 DEF S!Decided
<1>8. ASSUME NEW c \in S!Decided(config).for
      PROVE  /\ process = "armed" /\ file.mode = "active" /\ file.enabled[c] = "true"
             /\ file.stated[c] \in {None, "active"}
  <2>1. process = "armed" /\ c \in S!MayActFor(capped)
    BY <1>8 DEF S!Decided
  <2>2. c \in S!MayActFor(config)
    BY <1>6, <2>1
  <2>3. /\ c \in Capability /\ c \in config.enabled
        /\ S!EffectiveMode(config, c) \notin {"disabled", "observe", "dry-run"}
    <3> DEFINE w == [capability |-> c, class |-> "reversibleStateChange", config |-> config,
                     missing |-> {}, kill |-> FALSE]
    <3>1. c \in Capability /\ S!StandingVerdict(w) = "apply"
      BY <2>2 DEF S!MayActFor
    <3>2. w.capability = c /\ w.config = config
      OBVIOUS
    <3> HIDE DEF w
    <3> QED BY <3>1, <3>2, StandingApplies
  <2>4. c \in S!Enabled(file)
    BY <1>1, <2>3
  <2> QED BY <2>1, <2>3, <2>4, ActiveWasSaid DEF config
<1> QED BY <1>7, <1>8 DEF config

\* And under no file at all.
LEMMA SilenceDecides ==
  S!Decided(S!NoConfig).for = {} /\ S!Decided(S!NoConfig).end # "modeUnsupported"
<1>1. S!NoConfig = [mode |-> "observe", enabled |-> {}, stated |-> [c \in Capability |-> None]]
  BY DEF S!NoConfig, S!Starter
<1>2. S!Ceilinged(S!NoConfig) = S!NoConfig
  BY <1>1 DEF S!Ceilinged, S!AnyCapabilityActive
<1>3. ~S!AnyCapabilityActive(S!NoConfig)
  BY <1>1 DEF S!AnyCapabilityActive
<1> QED BY <1>2, <1>3 DEF S!Decided

LEMMA ConsentIsAsked ==
  ASSUME SettingsOK, S!SettingsNext
  PROVE  S!ConsentStep
<1> DEFINE quiet == decision'.for = {} /\ decision'.end # "modeUnsupported"
<1>1. CASE S!ReadsContents
  <2>1. CASE visible /\ file # Absent
    <3>1. CASE S!Accepted(file)
      <4>1. file \in Files /\ decision' = S!Decided(S!ConfigOf(file))
        BY <1>1, <2>1, <3>1 DEF S!ReadsContents, SettingsOK
      <4> QED BY <2>1, <3>1, <4>1, AcceptedDecides DEF S!ConsentStep
    <3>2. CASE ~S!Accepted(file)
      <4>1. quiet
        BY <1>1, <2>1, <3>2 DEF S!ReadsContents, S!Ended
      <4> QED BY <4>1 DEF S!ConsentStep
    <3> QED BY <3>1, <3>2
  <2>2. CASE ~(visible /\ file # Absent)
    BY <1>1, <2>2 DEF S!ReadsContents, S!ConsentStep
  <2> QED BY <2>1, <2>2
<1>2. CASE S!Corroborates
  <2>1. quiet
    BY <1>2, SilenceDecides DEF S!Corroborates, S!Ended
  <2> QED BY <2>1 DEF S!ConsentStep
<1>3. CASE S!ReadFails
  BY <1>3 DEF S!ReadFails, S!Ended, S!ConsentStep
<1>4. CASE S!AccessChanges
  BY <1>4 DEF S!AccessChanges, S!ConsentStep
<1>5. CASE S!CommitsFile \/ S!DeletesFile \/ S!EditsConsent \/ S!EditsMappings \/ S!EditsClocks
  <2>1. decision' = S!Ended("none")
    BY <1>5 DEF S!CommitsFile, S!DeletesFile, S!EditsConsent, S!EditsMappings, S!EditsClocks, S!Becomes
  <2> QED BY <2>1 DEF S!Ended, S!ConsentStep
<1> QED BY <1>1, <1>2, <1>3, <1>4, <1>5 DEF S!SettingsNext

\* Of any capabilities, clocks and defaults, no file the parser accepts gives one label two
\* meanings or lets a ladder act before its grace is over (sections.ts, settings.ts).
THEOREM AcceptedFileIsAlwaysSound == Spec => []AcceptedFileIsSound
<1>1. AcceptedFileIsSound
  BY AcceptedIsSound DEF AcceptedFileIsSound
<1> QED BY <1>1, PTL

----------------------------------------------------------------------------
(* One decision over the record of one item.                               *)

Intents == [by : Capability, n : Nat, flaw : {"none", "foreign", "otherItem"}, graced : BOOLEAN]
Effects == [by : Capability, n : Nat, act : {"plain", "graced", "warning"},
            flaw : {"none", "foreign", "otherItem"}]

Midway == {"evaluating", "returned", "gating"}

EngineTyped ==
  /\ turn \in [n : 1..Len(N!Order), at : {"choosing", "applying", "written"} \cup Midway]
  /\ handle \in [asked : Nat, skipped : BOOLEAN]
  /\ ordering \in {None, "none", "newer", "unknown"}
  /\ intents \in Seq(Intents) /\ approved \in Seq(Effects) /\ outcomes \in Seq([of : Effects, end : {"landed", "failed"}])
  /\ earned \subseteq Intents
  /\ turn.at = "gating" => intents # <<>>
  /\ Len(outcomes) <= Len(approved) /\ (turn.at = "written" => Len(outcomes) = Len(approved))

\* The capability in hand was woken by this record, and what it means to return is its own.
InHandIsWoken ==
  turn.at \in Midway =>
    /\ ~N!LacksFacts(N!InHand) /\ ~N!HasLeft(N!InHand)
    /\ \A i \in 1..Len(intents) : intents[i].by = N!InHand

\* Nobody was stopped whose turn is still to come; the one in hand was where its handle or
\* its empty hands say so, and never once its intents are gated.
StoppedAreBehind ==
  /\ \A j \in 1..Len(N!Order) : j > turn.n => N!Order[j] \notin stopped
  /\ turn.at \in {"choosing", "gating"} => N!InHand \notin stopped
  /\ turn.at \in {"evaluating", "returned"} => (handle.skipped => N!InHand \in stopped)
  /\ turn.at = "evaluating" /\ N!InHand \in stopped => handle.skipped
  /\ turn.at = "returned" /\ N!InHand \in stopped => handle.skipped \/ intents = <<>>

IsSound(effect) ==
  /\ \E j \in 1..Len(N!Order) :
       /\ effect.by = N!Order[j]
       /\ j <= turn.n /\ (turn.at \in {"choosing", "evaluating", "returned"} => j < turn.n)
  /\ effect.by \notin stopped /\ effect.flaw = "none"
  /\ mode[effect.by] = "active" /\ ordering = "none"
  /\ ~N!LacksFacts(effect.by) /\ ~N!HasLeft(effect.by)
  /\ (effect.act = "graced") => effect.by \in warned
  /\ (effect.act = "warning") => effect.by \notin warned

ApprovedAreSound == \A i \in 1..Len(approved) : IsSound(approved[i])

IsApproved(intent) == \E i \in 1..Len(approved) : approved[i].by = intent.by /\ approved[i].n = intent.n
IsWaiting(intent) == turn.at = "gating" /\ \E i \in 1..Len(intents) : intents[i] = intent

EarnedAreKept ==
  \A intent \in earned :
    /\ intent.flaw = "none"
    /\ ordering \in {None, "none"} /\ mode[intent.by] = "active" => IsApproved(intent) \/ IsWaiting(intent)

EngineOK == EngineTyped /\ InHandIsWoken /\ StoppedAreBehind /\ ApprovedAreSound /\ EarnedAreKept

\* The shipped capabilities stand in one order, each once.
LEMMA OrderStands ==
  /\ Len(N!Order) \in Nat \ {0}
  /\ \A i \in 1..Len(N!Order) : N!Order[i] \in Capability
  /\ \A i, j \in 1..Len(N!Order) : N!Order[i] = N!Order[j] => i = j
<1> DEFINE n == Cardinality(Capability)
<1>1. n \in Nat /\ ExistsBijection(1..n, Capability)
  BY EngineAssumption, FS_CardinalityType
<1>2. n # 0
  BY EngineAssumption, SettingsAssumption, FS_EmptySet
<1> HIDE DEF n
<1>3. PICK f \in [1..n -> Capability] : \A i, j \in 1..n : f[i] = f[j] => i = j
  BY <1>1 DEF ExistsBijection, Bijection, Injection, IsInjective
<1>4. N!Order = CHOOSE g \in [1..n -> Capability] : N!IsInjective(g)
  <2>1. N!Cardinality(Capability) = Cardinality(Capability)
    BY DEF N!Cardinality, Cardinality
  <2> QED BY <2>1 DEF N!Order, n
<1>5. \A g \in [1..n -> Capability] : N!IsInjective(g) <=> (\A i, j \in 1..n : g[i] = g[j] => i = j)
  BY DEF N!IsInjective
<1>6. N!Order \in [1..n -> Capability] /\ N!IsInjective(N!Order)
  BY <1>3, <1>4, <1>5
<1>7. Len(N!Order) = n
  BY <1>1, <1>6
<1> QED BY <1>1, <1>2, <1>5, <1>6, <1>7

LEMMA EngineStarts == N!EngineInit => EngineOK
<1> SUFFICES ASSUME N!EngineInit PROVE EngineOK
  OBVIOUS
<1> USE OrderStands DEF N!EngineInit
<1>1. EngineTyped
  BY DEF EngineTyped, N!Fresh
<1>2. InHandIsWoken /\ ApprovedAreSound /\ EarnedAreKept
  BY DEF InHandIsWoken, ApprovedAreSound, EarnedAreKept, Midway
<1>3. StoppedAreBehind
  BY DEF StoppedAreBehind
<1> QED BY <1>1, <1>2, <1>3 DEF EngineOK

LEMMA OrderIsFixed == N!Order' = N!Order
BY DEF N!Order, N!Cardinality, N!IsInjective

\* What the environment gave the decision stays, and with it who a record wakes.
LEMMA GivenStays ==
  ASSUME N!Given
  PROVE  /\ \A c : N!LacksFacts(c)' <=> N!LacksFacts(c)
         /\ \A c : N!HasLeft(c)' <=> N!HasLeft(c)
         /\ mode' = mode /\ warned' = warned
BY DEF N!Given, N!LacksFacts, N!HasLeft

\* Effects that were sound stay sound while nobody behind them is stopped, no answer about
\* people's changes is replaced, and the turn does not go back.
LEMMA SoundStays ==
  ASSUME EngineTyped, N!Given, NEW effect, IsSound(effect),
         effect.by \notin stopped' \/ stopped' = stopped,
         ordering' = ordering,
         \/ turn'.n > turn.n
         \/ turn'.n = turn.n /\ (turn'.at \in {"choosing", "evaluating", "returned"} =>
                                   turn.at \in {"choosing", "evaluating", "returned"}),
         turn' \in [n : 1..Len(N!Order), at : {"choosing", "applying", "written"} \cup Midway]
  PROVE  IsSound(effect)'
<1>1. PICK j \in 1..Len(N!Order) :
        /\ effect.by = N!Order[j]
        /\ j <= turn.n /\ (turn.at \in {"choosing", "evaluating", "returned"} => j < turn.n)
  BY DEF IsSound
<1>2. j <= turn'.n /\ (turn'.at \in {"choosing", "evaluating", "returned"} => j < turn'.n)
  BY <1>1, OrderStands DEF EngineTyped
<1>3. effect.by \notin stopped'
  BY DEF IsSound
<1> QED BY <1>1, <1>2, <1>3, OrderIsFixed, GivenStays DEF IsSound

\* The next capability in hand is ahead of the last one, and nobody stopped it.
LEMMA NextInHand ==
  ASSUME EngineTyped, StoppedAreBehind, N!Passes, stopped' = stopped
  PROVE  /\ turn' \in [n : 1..Len(N!Order), at : {"choosing", "applying"}]
         /\ StoppedAreBehind'
         /\ \/ turn'.n > turn.n
            \/ turn'.n = turn.n /\ turn'.at = "applying"
<1> USE OrderStands DEF EngineTyped
<1>1. CASE turn.n < Len(N!Order)
  <2>1. turn' = [n |-> turn.n + 1, at |-> "choosing"]
    BY <1>1 DEF N!Passes
  <2>2. N!Order[turn.n + 1] \notin stopped
    BY <1>1 DEF StoppedAreBehind
  <2> QED BY <1>1, <2>1, <2>2, OrderIsFixed DEF StoppedAreBehind, N!InHand
<1>2. CASE ~(turn.n < Len(N!Order))
  <2>1. turn' = [turn EXCEPT !.at = "applying"]
    BY <1>2 DEF N!Passes
  <2> QED BY <2>1, OrderIsFixed DEF StoppedAreBehind, N!InHand
<1> QED BY <1>1, <1>2

\* An evaluation adds nothing to what is approved: only the one in hand may be stopped by it,
\* and nothing of its own is approved yet.
LEMMA EvaluationKeeps ==
  ASSUME EngineOK, N!Given, turn.at = "evaluating", turn'.at \in {"evaluating", "returned"},
         turn' = [turn EXCEPT !.at = turn'.at],
         stopped' = stopped \/ stopped' = stopped \cup {N!InHand},
         UNCHANGED <<ordering, approved, earned>>
  PROVE  ApprovedAreSound' /\ EarnedAreKept'
<1> USE DEF EngineOK
<1>1. turn.n \in 1..Len(N!Order) /\ turn'.n = turn.n
      /\ turn' \in [n : 1..Len(N!Order), at : {"choosing", "applying", "written"} \cup Midway]
  BY DEF EngineTyped, Midway
<1>2. ASSUME NEW i \in 1..Len(approved) PROVE IsSound(approved[i])'
  <2>1. IsSound(approved[i])
    BY DEF ApprovedAreSound
  <2>2. approved[i].by # N!InHand
    BY <2>1, <1>1, OrderStands DEF IsSound, N!InHand
  <2>3. approved[i].by \notin stopped'
    BY <2>1, <2>2 DEF IsSound
  <2> QED BY <1>1, <2>1, <2>3, SoundStays
<1>3. ApprovedAreSound'
  BY <1>2 DEF ApprovedAreSound
<1>4. EarnedAreKept'
  BY GivenStays DEF EarnedAreKept, IsApproved, IsWaiting
<1> QED BY <1>3, <1>4

\* The first of the intents is put to the gates, and the others wait.
LEMMA IntentIsPut ==
  ASSUME EngineOK, N!Given, turn.at = "gating", N!NextIntent, stopped' = stopped,
         UNCHANGED <<handle, outcomes>>, approved' \in Seq(Effects), Len(approved') >= Len(approved), 
         earned' \subseteq Intents, ordering' \in {None, "none", "newer", "unknown"}
  PROVE  /\ EngineTyped' /\ InHandIsWoken' /\ StoppedAreBehind'
         /\ N!Intent \in Intents /\ N!Intent.by = N!InHand
         /\ \/ turn'.n > turn.n
            \/ turn'.n = turn.n /\ turn'.at \notin {"choosing", "evaluating", "returned"}
         /\ \A intent : IsWaiting(intent) /\ intent # N!Intent => IsWaiting(intent)'
<1> USE DEF EngineOK
<1>1. /\ intents \in Seq(Intents) /\ intents # <<>> /\ turn.n \in 1..Len(N!Order)
      /\ intents' = Tail(intents)
  BY DEF EngineTyped, N!NextIntent
<1>2. /\ intents' \in Seq(Intents) /\ Len(intents) \in Nat \ {0} /\ Len(intents') = Len(intents) - 1
      /\ \A i \in 1..Len(intents') : intents'[i] = intents[i + 1]
      /\ N!Intent = intents[1]
  BY <1>1 DEF N!Intent
<1>3. N!Intent \in Intents /\ N!Intent.by = N!InHand
  BY <1>1, <1>2 DEF InHandIsWoken, Midway
<1>4. CASE Len(intents) = 1
  <2>1. N!Passes
    BY <1>4 DEF N!NextIntent
  <2>2. EngineTyped'
    BY <1>2, <2>1, NextInHand, OrderIsFixed DEF EngineTyped
  <2>3. InHandIsWoken' /\ StoppedAreBehind'
    BY <2>1, NextInHand DEF InHandIsWoken, Midway
  <2>4. \A intent : IsWaiting(intent) => intent = N!Intent
    BY <1>2, <1>4 DEF IsWaiting
  <2> QED BY <1>3, <2>1, <2>2, <2>3, <2>4, NextInHand
<1>5. CASE Len(intents) # 1
  <2>1. turn' = turn
    BY <1>5 DEF N!NextIntent
  <2>2. intents' # <<>>
    BY <1>2, <1>5
  <2>3. EngineTyped'
    BY <1>2, <2>1, <2>2, OrderIsFixed DEF EngineTyped
  <2>4. InHandIsWoken'
    BY <1>1, <1>2, <2>1, GivenStays, OrderIsFixed DEF InHandIsWoken, N!InHand, Midway
  <2>5. StoppedAreBehind'
    BY <1>1, <2>1, OrderIsFixed DEF StoppedAreBehind, N!InHand
  <2>6. ASSUME NEW intent, IsWaiting(intent), intent # N!Intent PROVE IsWaiting(intent)'
    <3>1. PICK i \in 1..Len(intents) : intents[i] = intent
      BY <2>6 DEF IsWaiting
    <3>2. i - 1 \in 1..Len(intents') /\ intents'[i - 1] = intent
      BY <1>2, <2>6, <3>1
    <3> QED BY <2>1, <3>2 DEF IsWaiting
  <2> QED BY <1>3, <2>1, <2>3, <2>4, <2>5, <2>6
<1> QED BY <1>4, <1>5

LEMMA EngineGoesOn ==
  ASSUME EngineOK, N!EngineNext
  PROVE  EngineOK'
<1> USE DEF EngineOK
<1>0. turn.n \in 1..Len(N!Order)
  BY OrderStands DEF EngineTyped
<1>e. <<>> \in Seq(Intents)
  OBVIOUS
<1>1. CASE N!PassesOver
  <2>1. N!Passes /\ N!Given /\ UNCHANGED <<ordering, handle, intents, approved, outcomes, stopped, earned>>
    BY <1>1 DEF N!PassesOver
  <2>2. turn.at = "choosing"
    BY <1>1 DEF N!PassesOver
  <2>3. EngineTyped'
    BY <2>1, NextInHand, OrderIsFixed DEF EngineTyped
  <2>4. InHandIsWoken' /\ StoppedAreBehind'
    BY <2>1, NextInHand DEF InHandIsWoken, Midway
  <2>5. ApprovedAreSound'
    BY <2>1, <2>3, NextInHand, OrderIsFixed, SoundStays DEF ApprovedAreSound, EngineTyped
  <2>6. EarnedAreKept'
    BY <2>1, <2>2, GivenStays DEF EarnedAreKept, IsApproved, IsWaiting
  <2> QED BY <2>3, <2>4, <2>5, <2>6
<1>2. CASE N!Evaluates
  <2>1. /\ turn.at = "choosing" /\ turn' = [turn EXCEPT !.at = "evaluating"]
        /\ ~N!LacksFacts(N!InHand) /\ ~N!HasLeft(N!InHand)
        /\ handle' = N!Fresh /\ intents' = <<>> /\ N!Given
        /\ UNCHANGED <<ordering, approved, outcomes, stopped, earned>>
    BY <1>2 DEF N!Evaluates, N!Goes
  <2>2. EngineTyped'
    <3>1. /\ turn' \in [n : 1..Len(N!Order), at : {"choosing", "applying", "written"} \cup Midway]
          /\ turn'.at = "evaluating"
      BY <2>1 DEF EngineTyped, Midway
    <3>2. handle' \in [asked : Nat, skipped : BOOLEAN]
      BY <2>1 DEF N!Fresh
    <3> QED BY <1>e, <2>1, <3>1, <3>2, OrderIsFixed DEF EngineTyped
  <2>3. InHandIsWoken'
    BY <2>1, <1>0, GivenStays, OrderIsFixed DEF InHandIsWoken, EngineTyped, N!InHand
  <2>4. StoppedAreBehind'
    BY <2>1, <1>0, OrderIsFixed DEF StoppedAreBehind, EngineTyped, N!InHand, N!Fresh
  <2>5. ApprovedAreSound'
    BY <2>1, <2>2, OrderIsFixed, SoundStays DEF ApprovedAreSound, EngineTyped
  <2>6. EarnedAreKept'
    BY <2>1, GivenStays DEF EarnedAreKept, IsApproved, IsWaiting
  <2> QED BY <2>2, <2>3, <2>4, <2>5, <2>6
<1>3. CASE N!AsksPlatform
  <2>0. /\ turn.at = "evaluating" /\ N!Given /\ UNCHANGED <<ordering, approved, outcomes, earned>>
        /\ intents' = intents \/ intents' = <<>>
        /\ turn' = turn \/ turn' = [turn EXCEPT !.at = "returned"]
        /\ handle' = N!Resolved \/ handle' = [N!Resolved EXCEPT !.skipped = TRUE]
    BY <1>3 DEF N!AsksPlatform, N!GoesOnWith, N!StopsWith, N!Goes
  <2>1. /\ turn.at = "evaluating" /\ N!Given /\ UNCHANGED <<ordering, approved, outcomes, earned>>
        /\ handle' \in [asked : Nat, skipped : BOOLEAN] /\ turn' = [turn EXCEPT !.at = turn'.at]
        /\ intents' = intents \/ intents' = <<>>
    <3>1. turn' = [turn EXCEPT !.at = turn'.at]
      BY <2>0 DEF EngineTyped
    <3>2. N!Resolved \in [asked : Nat, skipped : BOOLEAN]
      BY DEF N!Resolved, EngineTyped
    <3>3. handle' \in [asked : Nat, skipped : BOOLEAN]
      <4> HIDE DEF N!Resolved
      <4> QED BY <2>0, <3>2
    <3> QED BY <2>0, <3>1, <3>3
  <2>2. \/ handle'.skipped = handle.skipped /\ stopped' = stopped /\ turn'.at = "evaluating"
        \/ handle'.skipped /\ stopped' = stopped \cup {N!InHand} /\ turn'.at \in {"evaluating", "returned"}
    BY <1>3 DEF N!AsksPlatform, N!GoesOnWith, N!StopsWith, N!Resolved, N!Goes, EngineTyped
  <2>3. EngineTyped'
    BY <1>e, <2>1, <2>2, OrderIsFixed DEF EngineTyped, Midway
  <2>4. InHandIsWoken'
    BY <2>1, <1>0, GivenStays, OrderIsFixed DEF InHandIsWoken, EngineTyped, N!InHand, Midway
  <2>5. StoppedAreBehind'
    BY <2>1, <2>2, <1>0, OrderIsFixed, OrderStands DEF StoppedAreBehind, EngineTyped, N!InHand
  <2>6. ApprovedAreSound' /\ EarnedAreKept'
    BY <2>1, <2>2, EvaluationKeeps
  <2> QED BY <2>3, <2>4, <2>5, <2>6
<1>4. CASE N!MakesIntent
  <2>1. CASE N!StopsWith(handle)
    <3>1. /\ turn.at = "evaluating" /\ N!Given /\ UNCHANGED <<ordering, approved, outcomes, earned>>
          /\ handle' \in [asked : Nat, skipped : BOOLEAN] /\ handle'.skipped
          /\ turn' = [turn EXCEPT !.at = turn'.at] /\ turn'.at \in {"evaluating", "returned"}
          /\ intents' = intents \/ intents' = <<>>
          /\ stopped' = stopped \cup {N!InHand}
      BY <1>4, <2>1 DEF N!MakesIntent, N!StopsWith, N!Goes, EngineTyped
    <3>2. EngineTyped'
      BY <1>e, <3>1, OrderIsFixed DEF EngineTyped, Midway
    <3>3. InHandIsWoken'
      <4>1. turn'.n = turn.n
        BY <3>1 DEF EngineTyped
      <4>2. N!InHand' = N!InHand
        BY <4>1, OrderIsFixed DEF N!InHand
      <4> QED BY <3>1, <4>2, GivenStays DEF InHandIsWoken, Midway
    <3>4. StoppedAreBehind'
      BY <3>1, <1>0, OrderIsFixed, OrderStands DEF StoppedAreBehind, EngineTyped, N!InHand
    <3>5. ApprovedAreSound' /\ EarnedAreKept'
      BY <3>1, EvaluationKeeps
    <3> QED BY <3>2, <3>3, <3>4, <3>5
  <2>2. CASE ~N!StopsWith(handle)
    <3>1. /\ turn.at = "evaluating" /\ N!Given /\ turn' = turn
          /\ UNCHANGED <<ordering, approved, outcomes, earned, handle, stopped>>
      BY <1>4, <2>2 DEF N!MakesIntent
    <3>2. PICK flaw \in N!Flaws, graced \in BOOLEAN :
            intents' = Append(intents, [by |-> N!InHand, n |-> Len(intents) + 1, flaw |-> flaw,
                                        graced |-> graced])
      BY <1>4, <2>2 DEF N!MakesIntent
    <3> DEFINE made1 == [by |-> N!InHand, n |-> Len(intents) + 1, flaw |-> flaw, graced |-> graced]
    <3>3. made1 \in Intents /\ made1.by = N!InHand
      BY <1>0, OrderStands DEF Intents, N!Flaws, N!InHand, EngineTyped
    <3> HIDE DEF made1
    <3>4. /\ intents' \in Seq(Intents) /\ Len(intents') = Len(intents) + 1
          /\ \A i \in 1..Len(intents') : intents'[i] = IF i <= Len(intents) THEN intents[i] ELSE made1
      BY <3>2, <3>3 DEF EngineTyped, made1
    <3>5. EngineTyped'
      BY <3>1, <3>4, OrderIsFixed DEF EngineTyped
    <3>6. InHandIsWoken'
      BY <3>1, <3>3, <3>4, <1>0, GivenStays, OrderIsFixed DEF InHandIsWoken, EngineTyped, N!InHand, Midway
    <3>7. StoppedAreBehind'
      BY <3>1, <1>0, OrderIsFixed DEF StoppedAreBehind, N!InHand
    <3>8. ApprovedAreSound' /\ EarnedAreKept'
      <4>1. turn' = [turn EXCEPT !.at = turn'.at]
        BY <3>1 DEF EngineTyped
      <4> QED BY <3>1, <4>1, EvaluationKeeps
    <3> QED BY <3>5, <3>6, <3>7, <3>8
  <2> QED BY <2>1, <2>2
<1>5. CASE N!Returns
  <2>1. /\ turn.at = "evaluating" /\ N!Given /\ turn' = [turn EXCEPT !.at = "returned"]
        /\ UNCHANGED <<ordering, handle, approved, outcomes, earned>>
        /\ \/ UNCHANGED <<intents, stopped>>
           \/ intents' = <<>> /\ stopped' = stopped \cup {N!InHand}
    BY <1>5 DEF N!Returns, N!Goes
  <2>2. turn'.at = "returned" /\ turn' = [turn EXCEPT !.at = turn'.at]
    BY <2>1 DEF EngineTyped
  <2>3. EngineTyped'
    <3>1. turn' \in [n : 1..Len(N!Order), at : {"choosing", "applying", "written"} \cup Midway]
      BY <2>1 DEF EngineTyped, Midway
    <3>2. intents' \in Seq(Intents)
      BY <1>e, <2>1 DEF EngineTyped
    <3> QED BY <2>1, <2>2, <3>1, <3>2, OrderIsFixed DEF EngineTyped
  <2>4. InHandIsWoken'
    BY <2>1, <1>0, GivenStays, OrderIsFixed DEF InHandIsWoken, EngineTyped, N!InHand, Midway
  <2>5. StoppedAreBehind'
    BY <2>1, <1>0, OrderIsFixed, OrderStands DEF StoppedAreBehind, EngineTyped, N!InHand
  <2>6. ApprovedAreSound' /\ EarnedAreKept'
    BY <2>1, <2>2, EvaluationKeeps
  <2> QED BY <2>3, <2>4, <2>5, <2>6
<1>6. CASE N!Concludes
  <2> DEFINE clean == {intents[i] : i \in {j \in 1..Len(intents) : intents[j].flaw = "none"}}
  <2>1. /\ turn.at = "returned" /\ N!Given /\ UNCHANGED <<ordering, handle, intents, approved, outcomes, stopped>>
        /\ earned' = earned \cup (IF N!InHand \in stopped THEN {} ELSE clean)
    BY <1>6 DEF N!Concludes
  <2>2. \/ ~handle.skipped /\ intents # <<>> /\ turn' = [turn EXCEPT !.at = "gating"]
        \/ (handle.skipped \/ intents = <<>>) /\ N!Passes
    BY <1>6 DEF N!Concludes, N!Goes, N!IsKept
  <2>3. clean \subseteq Intents
    BY DEF EngineTyped
  <2>4. EngineTyped'
    <3>1. /\ turn' \in [n : 1..Len(N!Order), at : {"choosing", "applying", "written"} \cup Midway]
          /\ turn'.at \in {"choosing", "applying", "gating"}
          /\ turn'.at = "gating" => intents # <<>>
      <4>1. CASE intents # <<>> /\ turn' = [turn EXCEPT !.at = "gating"]
        BY <4>1 DEF EngineTyped, Midway
      <4>2. CASE N!Passes
        BY <2>1, <4>2, NextInHand
      <4> QED BY <2>2, <4>1, <4>2
    <3>2. earned' \subseteq Intents
      <4> HIDE DEF clean
      <4> QED BY <2>1, <2>3 DEF EngineTyped
    <3> HIDE DEF clean
    <3>3. turn'.at # "written"
      BY <3>1
    <3> QED BY <2>1, <3>1, <3>2, <3>3, OrderIsFixed DEF EngineTyped
  <2>5. InHandIsWoken'
    <3>1. CASE N!Passes
      BY <2>1, <3>1, NextInHand DEF InHandIsWoken, Midway
    <3>2. CASE turn' = [turn EXCEPT !.at = "gating"]
      <4>1. turn'.n = turn.n
        BY <3>2 DEF EngineTyped
      <4>2. N!InHand' = N!InHand
        BY <4>1, OrderIsFixed DEF N!InHand
      <4> QED BY <2>1, <4>2, GivenStays DEF InHandIsWoken, Midway
    <3> QED BY <2>2, <3>1, <3>2
  <2>6. StoppedAreBehind'
    BY <2>1, <2>2, <1>0, NextInHand, OrderIsFixed, OrderStands DEF StoppedAreBehind, EngineTyped, N!InHand
  <2>7. ApprovedAreSound'
    <3>1. \/ turn'.n > turn.n
          \/ turn'.n = turn.n /\ turn'.at \notin {"choosing", "evaluating", "returned"}
      BY <2>1, <2>2, NextInHand DEF EngineTyped
    <3>2. turn' \in [n : 1..Len(N!Order), at : {"choosing", "applying", "written"} \cup Midway]
      BY <2>4, OrderIsFixed DEF EngineTyped
    <3> QED BY <2>1, <3>1, <3>2, SoundStays DEF ApprovedAreSound
  <2>8. EarnedAreKept'
    <3>1. ASSUME NEW intent \in earned' PROVE intent.flaw = "none" /\ (intent \in earned \/ IsWaiting(intent)')
      <4>1. CASE intent \in earned
        BY <4>1 DEF EarnedAreKept
      <4>2. CASE intent \notin earned
        <5>1. N!InHand \notin stopped /\ intent \in clean
          BY <2>1, <3>1, <4>2
        <5>2. PICK i \in 1..Len(intents) : intents[i] = intent /\ intents[i].flaw = "none"
          BY <5>1
        <5>3. ~handle.skipped /\ intents # <<>>
          BY <2>1, <5>1, <5>2 DEF StoppedAreBehind
        <5>4. turn'.at = "gating"
          BY <2>2, <5>3 DEF EngineTyped
        <5> QED BY <2>1, <5>2, <5>4 DEF IsWaiting
      <4> QED BY <4>1, <4>2
    <3>2. ASSUME NEW intent \in earned PROVE ~IsWaiting(intent)
      BY <2>1 DEF IsWaiting
    <3> QED BY <2>1, <3>1, <3>2, GivenStays DEF EarnedAreKept, IsApproved
  <2> QED BY <2>4, <2>5, <2>6, <2>7, <2>8
<1>7. CASE N!Refuses
  <2>1. /\ turn.at = "gating" /\ N!Given /\ UNCHANGED <<ordering, handle, approved, outcomes, stopped, earned>>
        /\ N!Intent.flaw # "none" /\ N!NextIntent
    BY <1>7 DEF N!Refuses, N!Screened, N!NamesTheRecord
  <2>a. /\ approved' \in Seq(Effects) /\ Len(approved') >= Len(approved) /\ earned' \subseteq Intents
        /\ ordering' \in {None, "none", "newer", "unknown"}
    BY <2>1 DEF EngineTyped
  <2>2. EngineTyped' /\ InHandIsWoken' /\ StoppedAreBehind'
    BY <2>1, <2>a, IntentIsPut
  <2>3. ApprovedAreSound'
    BY <2>1, <2>2, <2>a, IntentIsPut, OrderIsFixed, SoundStays DEF ApprovedAreSound, EngineTyped
  <2>4. ASSUME NEW intent \in earned, IsWaiting(intent) PROVE IsWaiting(intent)'
    BY <2>1, <2>4, <2>a, IntentIsPut DEF EarnedAreKept
  <2> QED BY <2>1, <2>2, <2>3, <2>4, GivenStays DEF EarnedAreKept, IsApproved
<1>8. CASE N!Judges
  <2>1. /\ turn.at = "gating" /\ N!Given /\ UNCHANGED <<handle, outcomes, stopped>>
        /\ N!Intent.flaw # "otherItem" /\ N!Intent.flaw \in {"none", "otherItem"} /\ N!NextIntent
    BY <1>8 DEF N!Judges, N!Screened, N!NamesTheRecord
  <2>2. PICK found \in IF ordering = None THEN {"none", "newer", "unknown"} ELSE {ordering},
             answered \in BOOLEAN :
          LET warns == N!Intent.graced /\ N!Warns(answered)
              silent == N!Intent.graced /\ ~answered /\ ~warns
              acts == mode[N!InHand] = "active" /\ found = "none"
          IN /\ ordering' = found /\ (~N!Intent.graced => answered)
             /\ approved' = IF silent \/ ~acts THEN approved
                            ELSE Append(approved, IF warns THEN N!Warning ELSE N!Act)
             /\ earned' = IF answered THEN earned ELSE earned \ {N!Intent}
    BY <1>8 DEF N!Judges
  <2> DEFINE warns == N!Intent.graced /\ N!Warns(answered)
             effect == IF warns THEN N!Warning ELSE N!Act
             adds == ~(N!Intent.graced /\ ~answered /\ ~warns) /\ mode[N!InHand] = "active" /\ found = "none"
  <2>3. N!Intent \in Intents /\ N!Intent.by = N!InHand /\ N!Intent.flaw = "none"
    <3>1. /\ intents \in Seq(Intents) /\ intents # <<>> /\ Len(intents) \in Nat \ {0} /\ N!Intent = intents[1]
      BY <2>1 DEF EngineTyped, N!Intent
    <3> QED BY <2>1, <3>1 DEF InHandIsWoken, Midway
  <2>4. /\ effect \in Effects /\ effect.by = N!InHand /\ effect.n = N!Intent.n /\ effect.flaw = "none"
        /\ effect.act = IF warns THEN "warning" ELSE IF N!Intent.graced THEN "graced" ELSE "plain"
    BY <2>3, <1>0, OrderStands DEF N!Act, N!Warning, Effects, Intents, N!InHand
  <2>5. approved' = IF adds THEN Append(approved, effect) ELSE approved
    BY <2>2
  <2>6. /\ ordering' = found /\ found \in {"none", "newer", "unknown"}
        /\ ordering \in {None, found}
    BY <2>2 DEF EngineTyped
  <2> HIDE DEF effect
  <2>a. /\ approved' \in Seq(Effects) /\ Len(approved') >= Len(approved) /\ earned' \subseteq Intents
        /\ ordering' \in {None, "none", "newer", "unknown"}
        /\ \A i \in 1..Len(approved) : approved'[i] = approved[i]
        /\ adds => Len(approved') = Len(approved) + 1 /\ approved'[Len(approved) + 1] = effect
        /\ ~adds => Len(approved') = Len(approved)
    <3>1. earned' \subseteq Intents
      BY <2>2 DEF EngineTyped
    <3>2. approved \in Seq(Effects)
      BY DEF EngineTyped
    <3> HIDE DEF adds
    <3>3. CASE adds
      BY <2>4, <2>5, <2>6, <3>1, <3>2, <3>3
    <3>4. CASE ~adds
      BY <2>5, <2>6, <3>1, <3>2, <3>4
    <3> QED BY <3>3, <3>4
  <2>7. /\ EngineTyped' /\ InHandIsWoken' /\ StoppedAreBehind'
        /\ \/ turn'.n > turn.n
           \/ turn'.n = turn.n /\ turn'.at \notin {"choosing", "evaluating", "returned"}
        /\ \A intent : IsWaiting(intent) /\ intent # N!Intent => IsWaiting(intent)'
    BY <2>1, <2>a, IntentIsPut
  <2>8. ApprovedAreSound'
    <3>1. ASSUME NEW i \in 1..Len(approved), NEW e, e = approved[i] PROVE IsSound(e)'
      <4>1. IsSound(e)
        BY <3>1 DEF ApprovedAreSound
      <4>2. ordering = "none"
        BY <4>1 DEF IsSound
      <4>3. ordering' = ordering
        BY <4>2, <2>6, NoneAssumption
      <4>4. turn' \in [n : 1..Len(N!Order), at : {"choosing", "applying", "written"} \cup Midway]
        BY <2>7, OrderIsFixed DEF EngineTyped
      <4> QED BY <4>1, <4>3, <4>4, <2>1, <2>7, SoundStays
    <3>2. ASSUME adds, NEW e, e = effect PROVE IsSound(e)'
      <4>1. mode[N!InHand] = "active" /\ ordering' = "none" /\ (N!Intent.graced => answered \/ warns)
        BY <3>2, <2>6
      <4>2. /\ e.by = N!Order[turn.n] /\ turn.n <= turn'.n
            /\ (turn'.at \in {"choosing", "evaluating", "returned"} => turn.n < turn'.n)
        BY <3>2, <2>4, <2>7, <1>0, OrderIsFixed DEF N!InHand, EngineTyped
      <4>3. e.by \notin stopped' /\ ~N!LacksFacts(e.by) /\ ~N!HasLeft(e.by)
        BY <3>2, <2>1, <2>4 DEF StoppedAreBehind, InHandIsWoken, Midway
      <4>4. e.act = "graced" => N!Intent.by \in warned
        BY <3>2, <2>4, <4>1 DEF N!Warns
      <4>5. e.act = "warning" => N!Intent.by \notin warned
        BY <3>2, <2>4 DEF N!Warns
      <4>6. \E j \in 1..Len(N!Order) :
              /\ e.by = N!Order[j]
              /\ j <= turn'.n /\ (turn'.at \in {"choosing", "evaluating", "returned"} => j < turn'.n)
        BY <4>2, <1>0
      <4> HIDE DEF adds, warns
      <4> QED BY <3>2, <2>1, <2>3, <2>4, <4>1, <4>3, <4>4, <4>5, <4>6, GivenStays, OrderIsFixed DEF IsSound
    <3> HIDE DEF adds
    <3>3. ASSUME NEW i \in 1..Len(approved'), NEW e, e = approved'[i] PROVE IsSound(e)'
      <4>1. CASE i \in 1..Len(approved)
        <5>1. e = approved[i]
          BY <2>a, <3>3, <4>1
        <5> QED BY <3>1, <4>1, <5>1
      <4>2. CASE i \notin 1..Len(approved)
        <5>1. adds /\ i = Len(approved) + 1
          BY <2>a, <4>2 DEF EngineTyped
        <5>2. e = effect
          BY <2>a, <3>3, <5>1
        <5> QED BY <3>2, <5>1, <5>2
      <4> QED BY <4>1, <4>2
    <3> QED BY <3>3 DEF ApprovedAreSound, IsSound
  <2>9. EarnedAreKept'
    <3>1. earned' \subseteq earned
      BY <2>2
    <3>2. ASSUME NEW intent, IsApproved(intent) PROVE IsApproved(intent)'
      <4>1. PICK i \in 1..Len(approved) : approved[i].by = intent.by /\ approved[i].n = intent.n
        BY <3>2 DEF IsApproved
      <4>2. i \in 1..Len(approved') /\ approved'[i] = approved[i]
        BY <2>a DEF EngineTyped
      <4> QED BY <4>1, <4>2 DEF IsApproved
    <3>3. ASSUME NEW intent \in earned', ordering' \in {None, "none"}, mode[intent.by] = "active"
          PROVE  IsApproved(intent)' \/ IsWaiting(intent)'
      <4>1. found = "none"
        BY <2>6, <3>3, NoneAssumption
      <4>2. CASE intent = N!Intent
        <5>1. answered
          BY <2>2, <4>2
        <5>2. adds
          BY <2>3, <3>3, <4>1, <4>2, <5>1
        <5>3. /\ Len(approved) + 1 \in 1..Len(approved') /\ approved'[Len(approved) + 1] = effect
              /\ effect.by = intent.by /\ effect.n = intent.n
          BY <2>a, <2>3, <2>4, <4>2, <5>2 DEF EngineTyped
        <5> QED BY <5>3 DEF IsApproved
      <4>3. CASE intent # N!Intent
        <5>1. ordering \in {None, "none"} /\ intent \in earned
          BY <2>6, <3>1, <4>1
        <5>2. IsApproved(intent) \/ IsWaiting(intent)
          BY <3>3, <5>1 DEF EarnedAreKept
        <5> QED BY <2>7, <3>2, <4>3, <5>2
      <4> QED BY <4>2, <4>3
    <3>4. ASSUME NEW intent \in earned' PROVE intent.flaw = "none"
      BY <3>1 DEF EarnedAreKept
    <3> HIDE DEF effect, warns, adds
    <3> QED BY <2>1, <3>3, <3>4, GivenStays DEF EarnedAreKept
  <2> QED BY <2>7, <2>8, <2>9
<1>9. CASE N!Applies
  <2>1. /\ turn.at = "applying" /\ N!Given
        /\ UNCHANGED <<ordering, handle, intents, approved, stopped, earned>>
        /\ \/ Len(outcomes) = Len(approved) /\ turn' = [turn EXCEPT !.at = "written"] /\ UNCHANGED outcomes
           \/ turn' = turn /\ outcomes' \in Seq([of : Effects, end : {"landed", "failed"}])
              /\ Len(outcomes') <= Len(approved)
    <3>1. CASE Len(outcomes) = Len(approved)
      BY <1>9, <3>1 DEF N!Applies, N!Goes
    <3>2. CASE Len(outcomes) # Len(approved)
      <4>1. PICK end \in {"landed", "failed"} :
              /\ outcomes' = Append(outcomes, [of |-> approved[Len(outcomes) + 1], end |-> end])
              /\ turn' = turn
        BY <1>9, <3>2 DEF N!Applies
      <4>2. Len(outcomes) + 1 \in 1..Len(approved)
        BY <3>2 DEF EngineTyped
      <4>3. approved[Len(outcomes) + 1] \in Effects
        BY <4>2 DEF EngineTyped
      <4>4. /\ outcomes' \in Seq([of : Effects, end : {"landed", "failed"}])
            /\ Len(outcomes') <= Len(approved)
        BY <4>1, <4>2, <4>3 DEF EngineTyped
      <4> QED BY <1>9, <4>1, <4>4 DEF N!Applies
    <3> QED BY <3>1, <3>2
  <2>2. EngineTyped'
    BY <2>1, OrderIsFixed DEF EngineTyped
  <2>3. InHandIsWoken' /\ StoppedAreBehind'
    BY <2>1, <1>0, OrderIsFixed DEF InHandIsWoken, StoppedAreBehind, EngineTyped, N!InHand, Midway
  <2>4. ApprovedAreSound'
    BY <2>1, <2>2, OrderIsFixed, SoundStays DEF ApprovedAreSound, EngineTyped
  <2>5. EarnedAreKept'
    BY <2>1, GivenStays DEF EarnedAreKept, IsApproved, IsWaiting
  <2> QED BY <2>2, <2>3, <2>4, <2>5
<1> QED BY <1>1, <1>2, <1>3, <1>4, <1>5, <1>6, <1>7, <1>8, <1>9 DEF N!EngineNext

LEMMA EngineIsSound ==
  ASSUME EngineOK
  PROVE  N!OnlyTheSoundActs /\ N!NobodyIsSilenced
<1> USE DEF EngineOK
<1>1. N!OnlyTheSoundActs
  BY DEF ApprovedAreSound, IsSound, N!OnlyTheSoundActs
<1>2. ASSUME turn.at = "written" PROVE Len(outcomes) = Len(approved)
  BY <1>2 DEF EngineTyped
<1>3. ASSUME turn.at = "written", ordering = "none", NEW intent \in earned, mode[intent.by] = "active"
      PROVE  IsApproved(intent)
  BY <1>3 DEF EarnedAreKept, IsWaiting
<1> QED BY <1>1, <1>2, <1>3 DEF N!NobodyIsSilenced, IsApproved

EngineStays == part = "engine" => EngineOK
SettingsStay == part = "settings" => SettingsOK
EngineSpeaks == part = "engine" => N!OnlyTheSoundActs /\ N!NobodyIsSilenced

LEMMA EngineKept ==
  ASSUME EngineStays, [Next]_vars
  PROVE  EngineStays'
<1>1. CASE Next
  BY <1>1, EngineGoesOn DEF EngineStays, Next
<1>2. CASE UNCHANGED vars
  <2>1. UNCHANGED engine /\ UNCHANGED part
    BY <1>2 DEF vars
  <2>2. EngineOK => EngineOK'
    <3>1. UNCHANGED <<fact, declared, mode, warned, ordering, turn, handle, intents, approved, outcomes,
                      stopped, earned>>
      BY <2>1 DEF engine
    <3> QED BY <3>1, OrderIsFixed
        DEF EngineOK, EngineTyped, InHandIsWoken, StoppedAreBehind, ApprovedAreSound, EarnedAreKept,
            IsSound, IsApproved, IsWaiting, N!InHand, N!LacksFacts, N!HasLeft
  <2> QED BY <2>1, <2>2 DEF EngineStays
<1> QED BY <1>1, <1>2

LEMMA SettingsKept ==
  ASSUME SettingsStay, [Next]_vars
  PROVE  SettingsStay'
<1>1. CASE Next
  BY <1>1, SettingsGoOn DEF SettingsStay, Next
<1>2. CASE UNCHANGED vars
  BY <1>2 DEF vars, settings, SettingsStay, SettingsOK
<1> QED BY <1>1, <1>2

\* Of any fleet, however its capabilities return, throw, skip or run out of time, a pass acts
\* only where every level consents, only on what an evaluation was let to finish and a record
\* warned of, and what stops one capability silences no other (item.ts, run.ts, decide.ts).
THEOREM ConsentAlwaysPrecedesActing == Spec => ActsByConsent
<1>1. Init => EngineStays /\ SettingsStay
  BY EngineStarts, SettingsStart DEF Init, EngineStays, SettingsStay
<1>2. EngineStays /\ SettingsStay /\ [Next]_vars => EngineStays' /\ SettingsStay'
  BY EngineKept, SettingsKept
<1>3. EngineStays => EngineSpeaks
  BY EngineIsSound DEF EngineStays, EngineSpeaks
<1>4. SettingsStay /\ EngineSpeaks' /\ [Next]_vars =>
        [/\ part = "settings" => S!ConsentStep
         /\ part = "engine" => N!OnlyTheSoundActs' /\ N!NobodyIsSilenced']_<<settings, engine>>
  <2> SUFFICES ASSUME SettingsStay, EngineSpeaks', [Next]_vars, ~UNCHANGED <<settings, engine>>
               PROVE  /\ part = "settings" => S!ConsentStep
                      /\ part = "engine" => N!OnlyTheSoundActs' /\ N!NobodyIsSilenced'
    OBVIOUS
  <2>1. Next
    BY DEF vars
  <2>2. part' = part
    BY <2>1 DEF Next
  <2>3. ASSUME part = "settings" PROVE S!ConsentStep
    BY <2>1, <2>3, ConsentIsAsked DEF Next, SettingsStay
  <2>4. ASSUME part = "engine" PROVE N!OnlyTheSoundActs' /\ N!NobodyIsSilenced'
    BY <2>2, <2>4 DEF EngineSpeaks
  <2> QED BY <2>3, <2>4
<1> QED BY <1>1, <1>2, <1>3, <1>4, PTL DEF Spec, ActsByConsent

-----------------------------------------------------------------------------
(* The history of one effect, and its fold.                                *)

IsFoldOf(g, h) ==
  g = [n \in 0..Len(h) |-> IF n = 0 THEN H!NoFacts ELSE H!After(g[n - 1], h[n].seq, h[n].kind)]

\* The loop over a history goes one way: two of them part at no added.
LEMMA FoldsAreOne ==
  ASSUME NEW h, Len(h) \in Nat, NEW g1, NEW g2, IsFoldOf(g1, h), IsFoldOf(g2, h)
  PROVE  g1 = g2
<1> DEFINE apart == {n \in 0..Len(h) : g1[n] # g2[n]}
<1>1. ASSUME apart # {} PROVE FALSE
  <2>0. apart \subseteq Nat
    OBVIOUS
  <2>1. PICK m \in apart : \A n \in apart : m <= n
    <3> HIDE DEF apart
    <3> QED BY <1>1, <2>0, LeastExists
  <2>2. CASE m = 0
    BY <2>1, <2>2 DEF IsFoldOf
  <2>3. CASE m # 0
    <3>1. m - 1 \in 0..Len(h) /\ m - 1 \notin apart
      BY <2>1, <2>3
    <3>2. g1[m - 1] = g2[m - 1]
      BY <3>1
    <3>3. /\ g1[m] = H!After(g1[m - 1], h[m].seq, h[m].kind)
          /\ g2[m] = H!After(g2[m - 1], h[m].seq, h[m].kind)
      BY <2>1, <2>3 DEF IsFoldOf
    <3> QED BY <2>1, <3>2, <3>3
  <2> QED BY <2>2, <2>3
<1>2. \A n \in 0..Len(h) : g1[n] = g2[n]
  BY <1>1
<1>3. g1 = [n \in 0..Len(h) |-> g1[n]] /\ g2 = [n \in 0..Len(h) |-> g2[n]]
  BY DEF IsFoldOf
<1> QED BY <1>2, <1>3

LEMMA FoldIsItsLast ==
  ASSUME NEW h, Len(h) \in Nat, NEW g, IsFoldOf(g, h)
  PROVE  H!Fold(h) = g[Len(h)]
<1> DEFINE c == CHOOSE a : IsFoldOf(a, h)
<1>1. H!Fold(h) = c[Len(h)]
  BY DEF H!Fold, IsFoldOf
<1>2. IsFoldOf(c, h)
  OBVIOUS
<1> HIDE DEF c
<1>3. c = g
  BY <1>2, FoldsAreOne
<1> QED BY <1>1, <1>3

LEMMA FoldStarts == \E g : IsFoldOf(g, <<>>) /\ g[Len(<<>>)] = H!NoFacts
<1> DEFINE g == [n \in 0..0 |-> H!NoFacts]
<1>1. Len(<<>>) = 0
  OBVIOUS
<1>2. g = [n \in 0..Len(<<>>) |-> IF n = 0 THEN H!NoFacts ELSE H!After(g[n - 1], <<>>[n].seq, <<>>[n].kind)]
  BY <1>1
<1> HIDE DEF g
<1>3. g[0] = H!NoFacts
  BY DEF g
<1> QED BY <1>1, <1>2, <1>3 DEF IsFoldOf

LEMMA FoldGoesOn ==
  ASSUME NEW X, NEW h \in Seq(X), NEW x \in X, NEW g, IsFoldOf(g, h)
  PROVE  \E g2 : /\ IsFoldOf(g2, Append(h, x))
                 /\ g2[Len(Append(h, x))] = H!After(g[Len(h)], x.seq, x.kind)
<1> DEFINE e == Append(h, x)
           last == H!After(g[Len(h)], x.seq, x.kind)
           g2 == [n \in 0..Len(h) + 1 |-> IF n <= Len(h) THEN g[n] ELSE last]
<1>1. /\ Len(h) \in Nat /\ Len(e) = Len(h) + 1 /\ e[Len(h) + 1] = x
      /\ \A n \in 1..Len(h) : e[n] = h[n]
  OBVIOUS
<1> HIDE DEF e
<1>2. ASSUME NEW n \in 0..Len(h) + 1
      PROVE  g2[n] = IF n = 0 THEN H!NoFacts ELSE H!After(g2[n - 1], e[n].seq, e[n].kind)
  <2>1. CASE n = 0
    BY <1>1, <2>1 DEF IsFoldOf
  <2>2. CASE n # 0 /\ n <= Len(h)
    <3>1. g2[n] = g[n] /\ g2[n - 1] = g[n - 1] /\ e[n] = h[n]
      BY <1>1, <2>2
    <3>2. g[n] = H!After(g[n - 1], h[n].seq, h[n].kind)
      BY <1>1, <2>2 DEF IsFoldOf
    <3> QED BY <2>2, <3>1, <3>2
  <2>3. CASE n = Len(h) + 1
    <3>1. g2[n] = last /\ g2[n - 1] = g[n - 1] /\ e[n] = x /\ n # 0 /\ n - 1 = Len(h)
      BY <1>1, <2>3
    <3> QED BY <3>1
  <2> QED BY <1>1, <2>1, <2>2, <2>3
<1>3. g2[Len(e)] = last
  BY <1>1
<1>4. g2 = [n \in 0..Len(h) + 1 |-> g2[n]]
  OBVIOUS
<1> HIDE DEF g2, last
<1>5. IsFoldOf(g2, e)
  BY <1>1, <1>2, <1>4 DEF IsFoldOf
<1> QED BY <1>3, <1>5 DEF e, last

----------------------------------------------------------------------------
(* What the accumulator says of the facts.                                 *)

HistoryCalls == H!CallFacts(facts)

AgreesOnCalls(f) ==
  /\ f.landed = H!LandedCalls(facts, HistoryCalls)
  /\ H!OpenCall(facts, HistoryCalls) = IF f.open = 0 THEN {} ELSE {f.open}
  /\ f.settled = "no" <=> \A i \in HistoryCalls : ~H!Settles(facts[i])
  /\ f.anyCall <=> HistoryCalls # {}

\* The calls that landed are the first ones, and a settled effect has none open.
AgreesOnOrder(f) ==
  /\ f.settled # "no" => f.open = 0
  /\ \E k \in 0..PlanLength : f.landed = 1..k /\ f.open <= k + 1 /\ (f.settled = "no" => k < PlanLength)

AgreesOnAttempts(f) == \A s \in H!Calls : f.attempts[s] = H!AttemptsAt(s)

AgreesOnSends(f) ==
  \A i \in H!Sends :
    H!StillOpen(i) /\ H!LatestSend(i) <=>
      f.open # 0 /\ facts[i].seq = f.open /\ \A j \in H!Sends : j <= i

Agrees(f) ==
  /\ f \in H!Folds
  /\ f.broken <=> ~H!Possible(facts)
  /\ ~f.broken => AgreesOnCalls(f) /\ AgreesOnOrder(f) /\ AgreesOnAttempts(f) /\ AgreesOnSends(f)

HistoryOK ==
  /\ facts \in Seq(H!Fact)
  /\ \E g, f : IsFoldOf(g, facts) /\ f = g[Len(facts)] /\ Agrees(f)

LEMMA HistoryFolds ==
  ASSUME HistoryOK
  PROVE  \E f : f = H!Fold(facts) /\ Agrees(f)
<1>1. PICK g, f : IsFoldOf(g, facts) /\ f = g[Len(facts)] /\ Agrees(f)
  BY DEF HistoryOK
<1>2. Len(facts) \in Nat
  BY DEF HistoryOK
<1> QED BY <1>1, <1>2, FoldIsItsLast

SendsOf(s) == {i \in H!Sends : facts[i].seq = s}
UnsentsOf(s) == {i \in DOMAIN facts : facts[i].kind = "unsent" /\ facts[i].seq = s}

LEMMA AttemptsAreCounted ==
  /\ \A s : H!AttemptsAt(s) = Cardinality(SendsOf(s)) - Cardinality(UnsentsOf(s))
  /\ \A s : H!AttemptsAt(s)' = Cardinality(SendsOf(s)') - Cardinality(UnsentsOf(s)')
<1>1. \A T : H!Cardinality(T) = Cardinality(T)
  BY DEF H!Cardinality, Cardinality
<1> QED BY <1>1, Zenon DEF H!AttemptsAt, SendsOf, UnsentsOf

LEMMA HistoryStarts == facts = <<>> => HistoryOK
<1> SUFFICES ASSUME facts = <<>> PROVE HistoryOK
  OBVIOUS
<1>1. PICK g : IsFoldOf(g, facts) /\ g[Len(facts)] = H!NoFacts
  BY FoldStarts
<1>2. H!NoFacts \in H!Folds
  BY HistoryAssumption DEF H!NoFacts, H!Folds
<1>3. HistoryCalls = {} /\ H!Sends = {} /\ H!Possible(facts)
  BY DEF HistoryCalls, H!CallFacts, H!Sends, H!Possible
<1>4. AgreesOnCalls(H!NoFacts)
  BY <1>3 DEF AgreesOnCalls, H!NoFacts, H!LandedCalls, H!OpenCall
<1>5. AgreesOnOrder(H!NoFacts)
  <2>1. 0 \in 0..PlanLength /\ {} = 1..0 /\ 0 < PlanLength
    BY HistoryAssumption
  <2> QED BY <2>1 DEF AgreesOnOrder, H!NoFacts
<1>6. AgreesOnAttempts(H!NoFacts)
  <2>1. ASSUME NEW s \in H!Calls PROVE H!AttemptsAt(s) = 0
    <3>1. SendsOf(s) = {} /\ UnsentsOf(s) = {}
      BY <1>3 DEF SendsOf, UnsentsOf
    <3>2. H!AttemptsAt(s) = Cardinality({}) - Cardinality({})
      BY <3>1, AttemptsAreCounted
    <3>3. Cardinality({}) = 0
      BY FS_EmptySet
    <3> QED BY <3>2, <3>3
  <2> QED BY <2>1 DEF AgreesOnAttempts, H!NoFacts
<1>7. AgreesOnSends(H!NoFacts)
  BY <1>3 DEF AgreesOnSends
<1>8. Agrees(H!NoFacts)
  BY <1>2, <1>3, <1>4, <1>5, <1>6, <1>7 DEF Agrees, H!NoFacts
<1>9. facts \in Seq(H!Fact)
  OBVIOUS
<1> QED BY <1>1, <1>8, <1>9 DEF HistoryOK

LEMMA HistoryRestarts == (facts = <<>>)' => HistoryOK'
BY HistoryStarts, PTL

\* One fact more leaves what was said of those before it.
LEMMA HistoryGrows ==
  ASSUME facts \in Seq(H!Fact), NEW added \in H!Fact, facts' = Append(facts, added)
  PROVE  /\ Len(facts) \in Nat /\ DOMAIN facts = 1..Len(facts) /\ DOMAIN facts' = 1..(Len(facts) + 1)
         /\ facts' \in Seq(H!Fact) /\ facts'[Len(facts) + 1] = added
         /\ \A i \in 1..Len(facts) : facts'[i] = facts[i]
OBVIOUS

LEMMA CallsGrow ==
  ASSUME facts \in Seq(H!Fact), NEW added \in H!Fact, facts' = Append(facts, added)
  PROVE  /\ HistoryCalls \subseteq 1..Len(facts)
         /\ HistoryCalls' = HistoryCalls \cup (IF added.kind \in H!CallKinds THEN {Len(facts) + 1} ELSE {})
         /\ H!CallFactsBefore(facts', Len(facts) + 1) = HistoryCalls
         /\ \A i \in 1..Len(facts) : H!CallFactsBefore(facts', i) = H!CallFactsBefore(facts, i)
<1> USE HistoryGrows DEF HistoryCalls, H!CallFacts
<1>1. HistoryCalls \subseteq 1..Len(facts)
  OBVIOUS
<1>2. HistoryCalls' = HistoryCalls \cup (IF added.kind \in H!CallKinds THEN {Len(facts) + 1} ELSE {})
  <2>1. \A i \in DOMAIN facts' : i \in 1..Len(facts) \/ i = Len(facts) + 1
    BY HistoryGrows
  <2> QED BY <2>1
<1>3. H!CallFactsBefore(facts', Len(facts) + 1) = HistoryCalls
  <2>1. \A i \in DOMAIN facts' : i < Len(facts) + 1 <=> i \in 1..Len(facts)
    BY HistoryGrows
  <2> QED BY <2>1 DEF H!CallFactsBefore
<1>4. ASSUME NEW n \in 1..Len(facts) PROVE H!CallFactsBefore(facts', n) = H!CallFactsBefore(facts, n)
  <2>1. \A i \in DOMAIN facts' : i < n => i \in 1..Len(facts)
    BY HistoryGrows
  <2>2. \A i \in 1..Len(facts) : i \in DOMAIN facts'
    BY HistoryGrows
  <2> QED BY <2>1, <2>2 DEF H!CallFactsBefore
<1> QED BY <1>1, <1>2, <1>3, <1>4

LEMMA CallsAreRead ==
  ASSUME facts \in Seq(H!Fact), NEW added \in H!Fact, facts' = Append(facts, added),
         NEW T, T \subseteq 1..Len(facts)
  PROVE  /\ H!OpenCall(facts', T) = H!OpenCall(facts, T)
         /\ H!LandedCalls(facts', T) = H!LandedCalls(facts, T)
         /\ \A i \in T : H!Settles(facts'[i]) <=> H!Settles(facts[i])
<1>1. \A i \in T : facts'[i] = facts[i]
  BY HistoryGrows
<1>2. H!LandedCalls(facts', T) = H!LandedCalls(facts, T)
  BY <1>1 DEF H!LandedCalls
<1>3. H!OpenCall(facts', T) = H!OpenCall(facts, T)
  BY <1>1 DEF H!OpenCall
<1>4. \A i \in T : H!Settles(facts'[i]) <=> H!Settles(facts[i])
  BY <1>1
<1> QED BY <1>2, <1>3, <1>4

LEMMA PossibleGoesOn ==
  ASSUME facts \in Seq(H!Fact), NEW added \in H!Fact, facts' = Append(facts, added)
  PROVE  H!Possible(facts') <=>
           H!Possible(facts) /\ (added.kind \in H!CallKinds => H!MayFollow(facts', Len(facts) + 1))
<1>1. ASSUME NEW n \in HistoryCalls PROVE H!MayFollow(facts', n) <=> H!MayFollow(facts, n)
  <2> DEFINE past == H!CallFactsBefore(facts, n)
  <2>1. n \in 1..Len(facts) /\ H!CallFactsBefore(facts', n) = past
    BY CallsGrow
  <2>2. past \subseteq 1..Len(facts)
    BY CallsGrow DEF H!CallFactsBefore, HistoryCalls
  <2> HIDE DEF past
  <2>3. /\ H!OpenCall(facts', past) = H!OpenCall(facts, past)
        /\ H!LandedCalls(facts', past) = H!LandedCalls(facts, past)
        /\ \A i \in past : H!Settles(facts'[i]) <=> H!Settles(facts[i])
    BY <2>2, CallsAreRead
  <2>4. facts'[n] = facts[n]
    BY <2>1, HistoryGrows
  <2>5. H!CallFactsBefore(facts, n) = past
    BY DEF past
  <2> QED BY <2>1, <2>3, <2>4, <2>5 DEF H!MayFollow
<1>2. H!Possible(facts) <=> \A n \in HistoryCalls : H!MayFollow(facts, n)
  BY DEF H!Possible, HistoryCalls
<1>3. H!Possible(facts') <=> \A n \in HistoryCalls' : H!MayFollow(facts', n)
  BY DEF H!Possible, HistoryCalls
<1> QED BY <1>1, <1>2, <1>3, CallsGrow

\* The fold finds a fact impossible exactly when it could not follow.
LEMMA ImpossibleIsFound ==
  ASSUME facts \in Seq(H!Fact), NEW added \in H!Fact, facts' = Append(facts, added),
         added.kind \in H!CallKinds, NEW f \in H!Folds, AgreesOnCalls(f)
  PROVE  H!MayFollow(facts', Len(facts) + 1) <=> ~H!Impossible(f, added.seq, added.kind)
<1> DEFINE seq == added.seq
           past == HistoryCalls
<1>1. /\ seq \in Nat /\ f.open \in 0..PlanLength /\ PlanLength \in Nat
      /\ H!Calls = 1..PlanLength
  BY HistoryAssumption DEF H!Fact, H!Folds, H!Calls
<1>2. /\ facts'[Len(facts) + 1] = added /\ H!CallFactsBefore(facts', Len(facts) + 1) = past
      /\ past \subseteq 1..Len(facts)
  BY HistoryGrows, CallsGrow
<1> HIDE DEF past
<1>3. /\ H!OpenCall(facts', past) = IF f.open = 0 THEN {} ELSE {f.open}
      /\ H!LandedCalls(facts', past) = f.landed
      /\ (\A i \in past : ~H!Settles(facts'[i])) <=> f.settled = "no"
  BY <1>2, CallsAreRead DEF AgreesOnCalls, past
<1>4. H!MayFollow(facts', Len(facts) + 1) <=>
        /\ seq \in H!Calls /\ f.settled = "no"
        /\ IF added.kind = "sent"
           THEN H!OpenCall(facts', past) \subseteq {seq} /\ 1..(seq - 1) \subseteq f.landed
           ELSE H!OpenCall(facts', past) = {seq}
  BY <1>2, <1>3 DEF H!MayFollow
<1>5. ASSUME seq \in H!Calls
      PROVE  /\ H!OpenCall(facts', past) \subseteq {seq} <=> f.open \in {0, seq}
             /\ H!OpenCall(facts', past) = {seq} <=> f.open = seq
  <2>1. seq # 0
    BY <1>1, <1>5
  <2>2. CASE f.open = 0
    BY <1>3, <2>1, <2>2
  <2>3. CASE f.open # 0
    BY <1>3, <2>3
  <2> QED BY <2>2, <2>3
<1>6. H!GapBefore(f, seq) <=> ~(1..(seq - 1) \subseteq f.landed)
  BY DEF H!GapBefore
<1> QED BY <1>4, <1>5, <1>6 DEF H!Impossible

\* A fact that is no call's changes nothing that is read.
LEMMA EffectFactIsSilent ==
  ASSUME facts \in Seq(H!Fact), NEW added \in H!Fact, facts' = Append(facts, added),
         added.kind \notin H!CallKinds, NEW f, Agrees(f)
  PROVE  Agrees(f)'
<1> DEFINE n == Len(facts) + 1
<1>1. HistoryCalls' = HistoryCalls /\ HistoryCalls \subseteq 1..Len(facts)
  BY CallsGrow
<1>2. H!Possible(facts') <=> H!Possible(facts)
  BY PossibleGoesOn
<1>3. AgreesOnCalls(f) => AgreesOnCalls(f)'
  <2>1. /\ H!OpenCall(facts', HistoryCalls) = H!OpenCall(facts, HistoryCalls)
        /\ H!LandedCalls(facts', HistoryCalls) = H!LandedCalls(facts, HistoryCalls)
        /\ \A i \in HistoryCalls : H!Settles(facts'[i]) <=> H!Settles(facts[i])
    BY <1>1, CallsAreRead
  <2> QED BY <1>1, <2>1 DEF AgreesOnCalls
<1>4. H!Sends' = H!Sends /\ added.kind \notin H!ClosingKinds /\ added.kind # "unsent" /\ added.kind # "sent"
  BY HistoryGrows DEF H!Sends, H!CallKinds, H!ClosingKinds
<1>5. \A s : SendsOf(s)' = SendsOf(s) /\ UnsentsOf(s)' = UnsentsOf(s)
  <2>1. ASSUME NEW s PROVE SendsOf(s)' = SendsOf(s)
    BY <1>4, HistoryGrows DEF SendsOf, H!Sends
  <2>2. ASSUME NEW s PROVE UnsentsOf(s)' = UnsentsOf(s)
    BY <1>4, HistoryGrows DEF UnsentsOf
  <2> QED BY <2>1, <2>2
<1>6. AgreesOnAttempts(f) => AgreesOnAttempts(f)'
  <2>1. \A s : H!AttemptsAt(s)' = Cardinality(SendsOf(s)') - Cardinality(UnsentsOf(s)')
    BY AttemptsAreCounted
  <2> QED BY <1>5, <2>1, AttemptsAreCounted DEF AgreesOnAttempts, H!Calls
<1>7. AgreesOnSends(f) => AgreesOnSends(f)'
  <2>1. ASSUME NEW i \in H!Sends
        PROVE  /\ H!StillOpen(i)' <=> H!StillOpen(i)
               /\ H!LatestSend(i)' <=> H!LatestSend(i)
               /\ facts'[i] = facts[i]
    <3>1. i \in 1..Len(facts) /\ H!Sends \subseteq 1..Len(facts)
      BY HistoryGrows DEF H!Sends
    <3>2. H!LatestSend(i)' <=> H!LatestSend(i)
      BY <1>4, <3>1, HistoryGrows DEF H!LatestSend
    <3>3. H!StillOpen(i)' <=> H!StillOpen(i)
      BY <1>4, <3>1, HistoryGrows DEF H!StillOpen
    <3> QED BY <3>1, <3>2, <3>3, HistoryGrows
  <2> QED BY <1>4, <2>1 DEF AgreesOnSends
<1>8. AgreesOnOrder(f)' <=> AgreesOnOrder(f)
  BY DEF AgreesOnOrder
<1> QED BY <1>2, <1>3, <1>6, <1>7, <1>8 DEF Agrees, H!Folds, H!Calls

LEMMA CountsAreFinite ==
  ASSUME facts \in Seq(H!Fact)
  PROVE  \A s : /\ SendsOf(s) \subseteq 1..Len(facts) /\ UnsentsOf(s) \subseteq 1..Len(facts)
                /\ IsFiniteSet(SendsOf(s)) /\ IsFiniteSet(UnsentsOf(s))
                /\ Cardinality(SendsOf(s)) \in Nat /\ Cardinality(UnsentsOf(s)) \in Nat
<1>1. Len(facts) \in Nat /\ DOMAIN facts = 1..Len(facts) /\ IsFiniteSet(1..Len(facts))
  BY FS_Interval
<1> SUFFICES ASSUME NEW s
             PROVE  /\ SendsOf(s) \subseteq 1..Len(facts) /\ UnsentsOf(s) \subseteq 1..Len(facts)
                    /\ IsFiniteSet(SendsOf(s)) /\ IsFiniteSet(UnsentsOf(s))
                    /\ Cardinality(SendsOf(s)) \in Nat /\ Cardinality(UnsentsOf(s)) \in Nat
  OBVIOUS
<1>2. SendsOf(s) \subseteq 1..Len(facts) /\ UnsentsOf(s) \subseteq 1..Len(facts)
  BY <1>1 DEF SendsOf, UnsentsOf, H!Sends
<1>3. IsFiniteSet(SendsOf(s)) /\ IsFiniteSet(UnsentsOf(s))
  BY <1>1, <1>2, FS_Subset
<1> QED BY <1>2, <1>3, FS_CardinalityType

\* A send that may follow opens its call, and is the newest of its number.
LEMMA SendIsRead ==
  ASSUME facts \in Seq(H!Fact), NEW added \in H!Fact, facts' = Append(facts, added),
         added.kind = "sent", NEW f, Agrees(f), ~f.broken, ~H!Impossible(f, added.seq, added.kind),
         NEW e, e = H!Sent(f, added.seq)
  PROVE  Agrees(e)'
<1> DEFINE n == Len(facts) + 1
           seq == added.seq
<1>1. /\ f \in H!Folds /\ H!Possible(facts)
      /\ AgreesOnCalls(f) /\ AgreesOnOrder(f) /\ AgreesOnAttempts(f) /\ AgreesOnSends(f)
  BY DEF Agrees
<1>2. /\ seq \in H!Calls /\ H!Calls = 1..PlanLength /\ PlanLength \in Nat
      /\ f.settled = "no" /\ f.open \in {0, seq} /\ ~H!GapBefore(f, seq)
  BY HistoryAssumption DEF H!Impossible, H!Calls
<1>3. /\ e \in H!Folds /\ e.broken = FALSE /\ e.anyCall = TRUE /\ e.open = seq /\ e.settled = "no" /\ e.landed = f.landed
      /\ e.attempts = [f.attempts EXCEPT ![seq] = @ + 1]
  <2>1. e = [f EXCEPT !.anyCall = TRUE, !.open = seq, !.attempts = [f.attempts EXCEPT ![seq] = @ + 1]]
    BY DEF H!Sent
  <2>2. f.attempts \in [H!Calls -> Int] /\ [f.attempts EXCEPT ![seq] = @ + 1] \in [H!Calls -> Int]
    BY <1>1, <1>2 DEF H!Folds
  <2>3. e \in H!Folds
    <3> DEFINE new == [f.attempts EXCEPT ![seq] = @ + 1]
    <3>1. new \in [H!Calls -> Int] /\ seq \in 0..PlanLength
      BY <1>2, <2>2
    <3> HIDE DEF new
    <3>2. e = [f EXCEPT !.anyCall = TRUE, !.open = seq, !.attempts = new]
      BY <2>1 DEF new
    <3> QED BY <1>1, <3>1, <3>2 DEF H!Folds
  <2> QED BY <1>1, <1>2, <2>1, <2>3 DEF H!Folds
<1>4. /\ n \in Nat /\ facts'[n] = added /\ added.kind \in H!CallKinds
      /\ added.kind \notin H!ClosingKinds /\ added.kind # "unsent"
      /\ HistoryCalls' = HistoryCalls \cup {n} /\ HistoryCalls \subseteq 1..Len(facts) /\ Len(facts) \in Nat
  BY HistoryGrows, CallsGrow DEF H!CallKinds, H!ClosingKinds
<1>5. H!Possible(facts')
  BY <1>1, <1>4, PossibleGoesOn, ImpossibleIsFound
<1>6. AgreesOnCalls(e)'
  <2>1. H!OpenCall(facts', HistoryCalls') = {seq}
    <3>1. \A k \in HistoryCalls' : k <= n
      BY <1>4
    <3>2. \A j \in HistoryCalls' : (facts'[j].kind = "sent" /\ \A k \in HistoryCalls' : k <= j) <=> j = n
      BY <1>4, <3>1
    <3> QED BY <1>4, <3>2 DEF H!OpenCall
  <2>2. H!LandedCalls(facts', HistoryCalls') = H!LandedCalls(facts, HistoryCalls)
    <3>1. H!LandedCalls(facts', HistoryCalls') = H!LandedCalls(facts', HistoryCalls)
      BY <1>4 DEF H!LandedCalls
    <3> QED BY <1>4, <3>1, CallsAreRead
  <2>3. \A i \in HistoryCalls' : ~H!Settles(facts'[i])
    <3>1. ~H!Settles(added)
      BY DEF H!Settles
    <3>2. \A i \in HistoryCalls : H!Settles(facts'[i]) <=> H!Settles(facts[i])
      BY <1>4, CallsAreRead
    <3> QED BY <1>1, <1>2, <1>4, <3>1, <3>2 DEF AgreesOnCalls
  <2>4. HistoryCalls' # {} /\ seq # 0
    BY <1>2, <1>4
  <2> QED BY <1>1, <1>3, <2>1, <2>2, <2>3, <2>4 DEF AgreesOnCalls
<1>7. AgreesOnOrder(e)'
  <2>1. PICK k \in 0..PlanLength : f.landed = 1..k /\ k < PlanLength
    BY <1>1, <1>2 DEF AgreesOnOrder
  <2>2. seq <= k + 1
    <3>1. seq - 1 \in 1..(seq - 1) => seq - 1 \in f.landed
      BY <1>2 DEF H!GapBefore
    <3> QED BY <1>2, <2>1, <3>1
  <2> QED BY <1>3, <2>1, <2>2 DEF AgreesOnOrder
<1>8. AgreesOnAttempts(e)'
  <2>1. H!Sends' = H!Sends \cup {n}
    BY <1>4, HistoryGrows DEF H!Sends
  <2>2. ASSUME NEW s PROVE SendsOf(s)' = (IF s = seq THEN SendsOf(s) \cup {n} ELSE SendsOf(s)) /\ UnsentsOf(s)' = UnsentsOf(s)
    <3>1. SendsOf(s)' = IF s = seq THEN SendsOf(s) \cup {n} ELSE SendsOf(s)
      BY <1>4, <2>1, HistoryGrows DEF SendsOf, H!Sends
    <3>2. UnsentsOf(s)' = UnsentsOf(s)
      BY <1>4, HistoryGrows DEF UnsentsOf
    <3> QED BY <3>1, <3>2
  <2>3. n \notin SendsOf(seq)
    BY <1>4, CountsAreFinite
  <2>4. Cardinality(SendsOf(seq) \cup {n}) = Cardinality(SendsOf(seq)) + 1
    BY <2>3, CountsAreFinite, FS_AddElement
  <2>5. ASSUME NEW s \in H!Calls PROVE e.attempts[s] = H!AttemptsAt(s)'
    <3>1. /\ H!AttemptsAt(s) = Cardinality(SendsOf(s)) - Cardinality(UnsentsOf(s))
          /\ H!AttemptsAt(s)' = Cardinality(SendsOf(s)') - Cardinality(UnsentsOf(s)')
          /\ Cardinality(SendsOf(s)) \in Nat /\ Cardinality(UnsentsOf(s)) \in Nat
      BY AttemptsAreCounted, CountsAreFinite
    <3>2. f.attempts[s] = H!AttemptsAt(s) /\ f.attempts \in [H!Calls -> Int]
      BY <1>1 DEF AgreesOnAttempts, H!Folds
    <3>3. CASE s = seq
      <4>1. SendsOf(s)' = SendsOf(s) \cup {n} /\ UnsentsOf(s)' = UnsentsOf(s)
        BY <2>2, <3>3
      <4>2. Cardinality(SendsOf(s) \cup {n}) = Cardinality(SendsOf(s)) + 1
        BY <2>4, <3>3
      <4>3. e.attempts[s] = f.attempts[s] + 1
        BY <1>3, <3>2, <3>3
      <4> QED BY <3>1, <3>2, <4>1, <4>2, <4>3
    <3>4. CASE s # seq
      <4>1. SendsOf(s)' = SendsOf(s) /\ UnsentsOf(s)' = UnsentsOf(s)
        BY <2>2, <3>4
      <4>2. e.attempts[s] = f.attempts[s]
        BY <1>3, <3>2, <3>4
      <4> QED BY <3>1, <3>2, <4>1, <4>2
    <3> QED BY <3>3, <3>4
  <2> QED BY <2>5 DEF AgreesOnAttempts, H!Calls
<1>9. AgreesOnSends(e)'
  <2>1. H!Sends' = H!Sends \cup {n} /\ H!Sends \subseteq 1..Len(facts)
    BY <1>4, HistoryGrows DEF H!Sends
  <2>2. ASSUME NEW i, i = n PROVE H!StillOpen(i)' /\ H!LatestSend(i)'
    <3>1. \A j \in DOMAIN facts' : ~(j > i)
      BY <1>4, <2>2, HistoryGrows
    <3>2. \A j \in H!Sends' : j <= i
      BY <1>4, <2>1, <2>2
    <3>3. H!StillOpen(i)'
      BY <3>1 DEF H!StillOpen
    <3>4. H!LatestSend(i)'
      BY <3>2, <2>1 DEF H!LatestSend
    <3> QED BY <3>3, <3>4
  <2>3. ASSUME NEW i \in H!Sends PROVE ~(H!StillOpen(i)' /\ H!LatestSend(i)')
    <3>1. i \in 1..Len(facts) /\ facts'[i] = facts[i]
      BY <2>1, HistoryGrows
    <3>2. H!StillOpen(i)' => H!StillOpen(i)
      BY <3>1, HistoryGrows DEF H!StillOpen
    <3>3. H!LatestSend(i)' => H!LatestSend(i) /\ facts[i].seq # seq
      BY <1>4, <2>1, <3>1, HistoryGrows DEF H!LatestSend
    <3> QED BY <1>1, <1>2, <3>2, <3>3 DEF AgreesOnSends
  <2>4. ASSUME NEW i \in H!Sends PROVE ~(\A j \in H!Sends' : j <= i)
    BY <1>4, <2>1
  <2>5. \A j \in H!Sends' : j <= n
    BY <1>4, <2>1
  <2>6. ASSUME NEW i \in H!Sends'
        PROVE  H!StillOpen(i)' /\ H!LatestSend(i)' <=>
                 e.open # 0 /\ facts'[i].seq = e.open /\ \A j \in H!Sends' : j <= i
    <3>1. CASE i = n
      <4>1. e.open # 0 /\ facts'[i].seq = e.open
        BY <1>2, <1>3, <1>4, <3>1
      <4> QED BY <2>2, <2>5, <3>1, <4>1
    <3>2. CASE i # n
      <4>1. i \in H!Sends
        BY <2>1, <3>2
      <4> QED BY <2>3, <2>4, <4>1
    <3> QED BY <3>1, <3>2
  <2> QED BY <2>6 DEF AgreesOnSends
<1> QED BY <1>3, <1>5, <1>6, <1>7, <1>8, <1>9 DEF Agrees, H!Folds, H!Calls

\* A fact that may close the open call leaves none open.
LEMMA CloseIsRead ==
  ASSUME facts \in Seq(H!Fact), NEW added \in H!Fact, facts' = Append(facts, added),
         added.kind \in H!ClosingKinds, NEW f, Agrees(f), ~f.broken,
         ~H!Impossible(f, added.seq, added.kind), NEW e, e = H!Closed(f, added.seq, added.kind)
  PROVE  Agrees(e)'
<1> DEFINE n == Len(facts) + 1
           seq == added.seq
           kind == added.kind
           over == ~(kind = "unsent" \/ (kind = "landed" /\ seq # PlanLength))
<1>1. /\ f \in H!Folds /\ H!Possible(facts)
      /\ AgreesOnCalls(f) /\ AgreesOnOrder(f) /\ AgreesOnAttempts(f) /\ AgreesOnSends(f)
  BY DEF Agrees
<1>2. /\ seq \in H!Calls /\ H!Calls = 1..PlanLength /\ PlanLength \in Nat
      /\ kind \in {"landed", "refused", "abandoned", "unsent"}
      /\ f.settled = "no" /\ f.open = seq /\ f.landed \subseteq H!Calls
  BY <1>1, HistoryAssumption DEF H!Impossible, H!Calls, H!ClosingKinds, H!Folds
<1> DEFINE landedNow == IF kind = "landed" THEN f.landed \cup {seq} ELSE f.landed
           tried == IF kind = "unsent" THEN f.attempts[seq] - 1 ELSE f.attempts[seq]
           attempts == [f.attempts EXCEPT ![seq] = tried]
           settled == IF over THEN kind ELSE "no"
<1>3. /\ e \in H!Folds /\ e.broken = FALSE /\ e.anyCall = TRUE /\ e.open = 0
      /\ e.landed = landedNow /\ e.attempts = attempts /\ e.settled = settled
  <2>1. e = [f EXCEPT !.anyCall = TRUE, !.open = 0, !.landed = landedNow, !.attempts = attempts, !.settled = settled]
    BY <1>1, <1>2 DEF H!Closed, H!Folds
  <2>2. f.attempts \in [H!Calls -> Int]
    BY <1>1 DEF H!Folds
  <2>3. tried \in Int /\ landedNow \subseteq H!Calls /\ settled \in {"no", "landed", "refused", "abandoned"}
    BY <1>2, <2>2
  <2>4. attempts \in [H!Calls -> Int]
    <3> HIDE DEF tried
    <3> QED BY <1>2, <2>2, <2>3
  <2> HIDE DEF landedNow, attempts, settled
  <2>5. e \in H!Folds
    <3>1. f.broken \in BOOLEAN /\ 0 \in 0..PlanLength
      BY <1>1, <1>2 DEF H!Folds
    <3>2. e = [landed |-> landedNow, open |-> 0, attempts |-> attempts, settled |-> settled,
               anyCall |-> TRUE, broken |-> f.broken]
      BY <1>1, <2>1 DEF H!Folds
    <3> QED BY <2>3, <2>4, <3>1, <3>2 DEF H!Folds
  <2> QED BY <1>1, <1>2, <2>1, <2>5 DEF H!Folds
<1> HIDE DEF attempts, settled
<1>4. /\ n \in Nat /\ facts'[n] = added /\ kind \in H!CallKinds /\ kind # "sent"
      /\ HistoryCalls' = HistoryCalls \cup {n} /\ HistoryCalls \subseteq 1..Len(facts) /\ Len(facts) \in Nat
  BY HistoryGrows, CallsGrow DEF H!CallKinds, H!ClosingKinds
<1>5. H!Possible(facts')
  BY <1>1, <1>4, PossibleGoesOn, ImpossibleIsFound
<1>6. AgreesOnCalls(e)'
  <2>1. H!OpenCall(facts', HistoryCalls') = {}
    <3>1. \A j \in HistoryCalls' : ~(facts'[j].kind = "sent" /\ \A k \in HistoryCalls' : k <= j)
      BY <1>4
    <3> QED BY <3>1 DEF H!OpenCall
  <2>2. H!LandedCalls(facts', HistoryCalls') = landedNow
    <3>1. H!LandedCalls(facts', HistoryCalls) = f.landed
      BY <1>1, <1>4, CallsAreRead DEF AgreesOnCalls
    <3>2. CASE kind = "landed"
      BY <1>4, <3>1, <3>2 DEF H!LandedCalls
    <3>3. CASE kind # "landed"
      BY <1>4, <3>1, <3>3 DEF H!LandedCalls
    <3> QED BY <3>2, <3>3
  <2>3. (\A i \in HistoryCalls' : ~H!Settles(facts'[i])) <=> ~over
    <3>1. H!Settles(added) <=> over
      BY <1>2 DEF H!Settles
    <3>2. \A i \in HistoryCalls : H!Settles(facts'[i]) <=> H!Settles(facts[i])
      BY <1>4, CallsAreRead
    <3>3. \A i \in HistoryCalls : ~H!Settles(facts'[i])
      BY <1>1, <1>2, <3>2 DEF AgreesOnCalls
    <3> HIDE DEF over
    <3> QED BY <1>4, <3>1, <3>3
  <2>4. settled = "no" <=> ~over
    BY <1>2 DEF settled
  <2>5. HistoryCalls' # {}
    BY <1>4
  <2> HIDE DEF landedNow, over
  <2> QED BY <1>3, <2>1, <2>2, <2>3, <2>4, <2>5 DEF AgreesOnCalls
<1>7. AgreesOnOrder(e)
  <2>1. PICK k \in 0..PlanLength : f.landed = 1..k /\ seq <= k + 1 /\ k < PlanLength
    BY <1>1, <1>2 DEF AgreesOnOrder
  <2>2. CASE kind = "landed"
    <3>1. CASE seq \in 1..k
      <4>1. landedNow = 1..k /\ k < PlanLength
        BY <2>1, <2>2, <3>1
      <4> QED BY <1>3, <2>1, <4>1 DEF AgreesOnOrder
    <3>2. CASE seq \notin 1..k
      <4>1. seq = k + 1
        BY <1>1, <1>2, <2>1, <3>2
      <4>2. landedNow = 1..(k + 1) /\ k + 1 \in 0..PlanLength
        <5>1. 1..(k + 1) = 1..k \cup {k + 1}
          OBVIOUS
        <5>2. k + 1 \in 0..PlanLength
          BY <1>2, <2>1
        <5> QED BY <2>1, <2>2, <4>1, <5>1, <5>2
      <4>3. settled = "no" => k + 1 < PlanLength
        BY <1>2, <2>1, <2>2, <4>1 DEF settled
      <4> QED BY <1>3, <4>2, <4>3 DEF AgreesOnOrder
    <3> QED BY <3>1, <3>2
  <2>3. CASE kind # "landed"
    <3>1. landedNow = 1..k
      BY <2>1, <2>3
    <3> QED BY <1>3, <2>1, <3>1 DEF AgreesOnOrder
  <2> QED BY <2>2, <2>3
<1>8. AgreesOnAttempts(e)'
  <2>1. H!Sends' = H!Sends
    BY <1>4, HistoryGrows DEF H!Sends
  <2>2. ASSUME NEW s
        PROVE  /\ SendsOf(s)' = SendsOf(s)
               /\ UnsentsOf(s)' = IF s = seq /\ kind = "unsent" THEN UnsentsOf(s) \cup {n} ELSE UnsentsOf(s)
    <3>1. SendsOf(s)' = SendsOf(s)
      BY <1>4, <2>1, HistoryGrows DEF SendsOf, H!Sends
    <3>2. UnsentsOf(s)' = IF s = seq /\ kind = "unsent" THEN UnsentsOf(s) \cup {n} ELSE UnsentsOf(s)
      BY <1>4, HistoryGrows DEF UnsentsOf
    <3> QED BY <3>1, <3>2
  <2>3. n \notin UnsentsOf(seq)
    BY <1>4, CountsAreFinite
  <2>4. Cardinality(UnsentsOf(seq) \cup {n}) = Cardinality(UnsentsOf(seq)) + 1
    BY <2>3, CountsAreFinite, FS_AddElement
  <2>5. ASSUME NEW s \in H!Calls PROVE e.attempts[s] = H!AttemptsAt(s)'
    <3>1. /\ H!AttemptsAt(s) = Cardinality(SendsOf(s)) - Cardinality(UnsentsOf(s))
          /\ H!AttemptsAt(s)' = Cardinality(SendsOf(s)') - Cardinality(UnsentsOf(s)')
          /\ Cardinality(SendsOf(s)) \in Nat /\ Cardinality(UnsentsOf(s)) \in Nat
      BY AttemptsAreCounted, CountsAreFinite
    <3>2. f.attempts[s] = H!AttemptsAt(s) /\ f.attempts \in [H!Calls -> Int]
      BY <1>1 DEF AgreesOnAttempts, H!Folds
    <3>3. CASE s = seq /\ kind = "unsent"
      <4>1. UnsentsOf(s)' = UnsentsOf(s) \cup {n} /\ SendsOf(s)' = SendsOf(s)
        BY <2>2, <3>3
      <4>2. Cardinality(UnsentsOf(s) \cup {n}) = Cardinality(UnsentsOf(s)) + 1
        BY <2>4, <3>3
      <4>3. e.attempts[s] = f.attempts[s] - 1
        BY <1>3, <3>2, <3>3 DEF attempts
      <4> QED BY <3>1, <3>2, <4>1, <4>2, <4>3
    <3>4. CASE ~(s = seq /\ kind = "unsent")
      <4>1. SendsOf(s)' = SendsOf(s) /\ UnsentsOf(s)' = UnsentsOf(s)
        BY <2>2, <3>4
      <4>2. e.attempts[s] = f.attempts[s]
        BY <1>3, <3>2, <3>4 DEF attempts
      <4> QED BY <3>1, <3>2, <4>1, <4>2
    <3> QED BY <3>3, <3>4
  <2> QED BY <2>5 DEF AgreesOnAttempts, H!Calls
<1>9. AgreesOnSends(e)'
  <2>1. H!Sends' = H!Sends /\ H!Sends \subseteq 1..Len(facts)
    BY <1>4, HistoryGrows DEF H!Sends
  <2>2. ASSUME NEW i \in H!Sends PROVE ~(H!StillOpen(i)' /\ H!LatestSend(i)')
    <3>1. i \in 1..Len(facts) /\ facts'[i] = facts[i]
      BY <2>1, HistoryGrows
    <3>2. H!StillOpen(i)' => H!StillOpen(i) /\ facts[i].seq # seq
      BY <1>4, <3>1, HistoryGrows DEF H!StillOpen
    <3>3. H!LatestSend(i)' => H!LatestSend(i)
      BY <2>1, <3>1, HistoryGrows DEF H!LatestSend
    <3> QED BY <1>1, <1>2, <3>2, <3>3 DEF AgreesOnSends
  <2> QED BY <1>3, <2>1, <2>2 DEF AgreesOnSends
<1>10. AgreesOnOrder(e)' <=> AgreesOnOrder(e)
  BY DEF AgreesOnOrder
<1> QED BY <1>3, <1>5, <1>6, <1>7, <1>8, <1>9, <1>10 DEF Agrees, H!Folds, H!Calls

LEMMA HistoryGoesOn ==
  ASSUME HistoryOK, H!Next
  PROVE  HistoryOK'
<1>1. CASE \E before2 \in 1..MaxTime : H!Prune(before2)
  <2>1. facts' = <<>>
    BY <1>1 DEF H!Prune
  <2> QED BY <2>1, HistoryRestarts
<1>2. CASE \E added \in H!Fact : H!Record(added)
  <2>1. PICK added \in H!Fact : facts' = Append(facts, added)
    BY <1>2 DEF H!Record
  <2>2. facts \in Seq(H!Fact)
    BY DEF HistoryOK
  <2>3. PICK g, f : IsFoldOf(g, facts) /\ f = g[Len(facts)] /\ Agrees(f)
    BY DEF HistoryOK
  <2>4. PICK g2, e : /\ IsFoldOf(g2, facts') /\ e = g2[Len(facts')]
                     /\ e = H!After(f, added.seq, added.kind)
    BY <2>1, <2>2, <2>3, FoldGoesOn
  <2>5. Agrees(e)'
    <3>1. added.kind \in H!CallKinds \cup H!EffectKinds
      BY DEF H!Fact, H!Kinds
    <3>2. CASE added.kind \in H!EffectKinds
      <4>1. e = f /\ added.kind \notin H!CallKinds
        BY <2>4, <3>2 DEF H!After, H!EffectKinds, H!CallKinds, H!ClosingKinds
      <4> QED BY <2>1, <2>2, <2>3, <4>1, EffectFactIsSilent
    <3>3. CASE added.kind \in H!CallKinds /\ added.kind \notin H!EffectKinds /\ f.broken
      <4>1. e = f
        BY <2>4, <3>3 DEF H!After
      <4>2. ~H!Possible(facts')
        BY <2>1, <2>2, <2>3, <3>3, PossibleGoesOn DEF Agrees
      <4> QED BY <2>3, <3>3, <4>1, <4>2 DEF Agrees, H!Folds, H!Calls
    <3>4. CASE /\ added.kind \in H!CallKinds /\ added.kind \notin H!EffectKinds /\ ~f.broken
               /\ H!Impossible(f, added.seq, added.kind)
      <4>1. e = [f EXCEPT !.broken = TRUE]
        BY <2>4, <3>4 DEF H!After
      <4>2. f \in H!Folds /\ AgreesOnCalls(f)
        BY <2>3, <3>4 DEF Agrees
      <4>3. ~H!Possible(facts')
        BY <2>1, <2>2, <3>4, <4>2, PossibleGoesOn, ImpossibleIsFound
      <4>4. e \in H!Folds /\ e.broken
        BY <4>1, <4>2 DEF H!Folds
      <4> QED BY <4>3, <4>4 DEF Agrees, H!Folds, H!Calls
    <3>5. CASE /\ added.kind \in H!CallKinds /\ added.kind \notin H!EffectKinds /\ ~f.broken
               /\ ~H!Impossible(f, added.seq, added.kind)
      <4>1. CASE added.kind = "sent"
        <5>1. e = H!Sent(f, added.seq)
          BY <2>4, <3>5, <4>1 DEF H!After
        <5> QED BY <2>1, <2>2, <2>3, <3>5, <4>1, <5>1, SendIsRead
      <4>2. CASE added.kind # "sent"
        <5>1. e = H!Closed(f, added.seq, added.kind) /\ added.kind \in H!ClosingKinds
          BY <2>4, <3>5, <4>2 DEF H!After, H!CallKinds
        <5> QED BY <2>1, <2>2, <2>3, <3>5, <5>1, CloseIsRead
      <4> QED BY <4>1, <4>2
    <3> QED BY <3>1, <3>2, <3>3, <3>4, <3>5
  <2>6. facts' \in Seq(H!Fact)
    BY <2>1, <2>2, HistoryGrows
  <2> QED BY <2>4, <2>5, <2>6 DEF HistoryOK
<1> QED BY <1>1, <1>2 DEF H!Next

\* The fold reads what its accumulator agrees on.
LEMMA HistoryIsRead ==
  ASSUME HistoryOK
  PROVE  H!FoldReadsHistory /\ H!WorklistIsOpenCall
<1>1. PICK f : f = H!Fold(facts) /\ Agrees(f)
  BY HistoryFolds
<1>2. facts \in Seq(H!Fact) /\ f \in H!Folds
  BY <1>1 DEF HistoryOK, Agrees
<1>3. H!Inconsistent(f) <=> ~H!Possible(facts)
  BY <1>1 DEF Agrees, H!Inconsistent
<1>4. ASSUME ~f.broken
      PROVE  /\ H!Settled(f) <=> \E i \in HistoryCalls : H!Settles(facts[i])
             /\ H!OpenCall(facts, HistoryCalls) = IF H!Open(f) THEN {f.open} ELSE {}
             /\ H!NeverStarted(f) <=> HistoryCalls = {}
             /\ H!Resumable(f) => H!NextSeq(f) \in H!Calls \ H!LandedCalls(facts, HistoryCalls)
  <2>1. AgreesOnCalls(f) /\ AgreesOnOrder(f)
    BY <1>1, <1>4 DEF Agrees
  <2>2. H!Settled(f) <=> \E i \in HistoryCalls : H!Settles(facts[i])
    BY <1>4, <2>1 DEF AgreesOnCalls, H!Settled
  <2>3. H!OpenCall(facts, HistoryCalls) = IF H!Open(f) THEN {f.open} ELSE {}
    BY <1>4, <2>1 DEF AgreesOnCalls, AgreesOnOrder, H!Open
  <2>4. H!NeverStarted(f) <=> HistoryCalls = {}
    BY <1>4, <2>1 DEF AgreesOnCalls, H!NeverStarted
  <2>5. ASSUME H!Resumable(f) PROVE H!NextSeq(f) \in H!Calls \ H!LandedCalls(facts, HistoryCalls)
    <3>1. PICK k \in 0..PlanLength : f.landed = 1..k /\ k < PlanLength
      BY <2>1, <2>5 DEF AgreesOnOrder, H!Resumable
    <3>2. Cardinality(1..k) = k
      BY FS_Interval, HistoryAssumption
    <3>3. H!NextSeq(f) = k + 1
      <4>1. H!NextSeq(f) = Cardinality(f.landed) + 1
        BY DEF H!NextSeq, H!Cardinality, Cardinality
      <4> QED BY <3>1, <3>2, <4>1
    <3> QED BY <2>1, <3>1, <3>3, HistoryAssumption DEF AgreesOnCalls, H!Calls
  <2> QED BY <2>2, <2>3, <2>4, <2>5
<1>5. H!FoldReadsHistory
  BY <1>1, <1>3, <1>4 DEF H!FoldReadsHistory, H!Inconsistent, HistoryCalls
<1>6. ASSUME ~f.broken
      PROVE  H!OpenSends(MaxTime) =
               IF H!Open(f)
               THEN {[seq |-> f.open, attempts |-> f.attempts[f.open],
                      at |-> facts[CHOOSE i \in H!Sends : \A j \in H!Sends : j <= i].at]}
               ELSE {}
  <2> DEFINE found == {j \in H!Sends : facts[j].at <= MaxTime /\ H!StillOpen(j) /\ H!LatestSend(j)}
             Said(i) == [seq |-> facts[i].seq, at |-> facts[i].at, attempts |-> H!AttemptsAt(facts[i].seq)]
  <2>1. /\ AgreesOnCalls(f) /\ AgreesOnOrder(f) /\ AgreesOnAttempts(f) /\ AgreesOnSends(f)
    BY <1>1, <1>6 DEF Agrees
  <2>2. H!Sends \subseteq 1..Len(facts) /\ \A j \in H!Sends : facts[j].at <= MaxTime
    <3>1. \A j \in 1..Len(facts) : facts[j] \in H!Fact
      BY <1>2
    <3>2. \A x \in H!Fact : x.at <= MaxTime
      BY HistoryAssumption DEF H!Fact
    <3> QED BY <1>2, <3>1, <3>2 DEF H!Sends
  <2>3. H!OpenSends(MaxTime) = {Said(i) : i \in found}
    BY DEF H!OpenSends
  <2>4. CASE ~H!Open(f)
    <3>1. f.open = 0
      BY <1>6, <2>1, <2>4 DEF H!Open, AgreesOnOrder
    <3>2. found = {}
      BY <2>1, <3>1 DEF AgreesOnSends
    <3> HIDE DEF found
    <3> QED BY <2>3, <2>4, <3>2
  <2>5. CASE H!Open(f)
    <3>1. f.open # 0 /\ f.open \in H!Calls
      BY <1>2, <2>5, HistoryAssumption DEF H!Open, H!Folds, H!Calls
    <3>2. f.open \in H!OpenCall(facts, HistoryCalls)
      BY <2>1, <3>1 DEF AgreesOnCalls
    <3>3. PICK m \in HistoryCalls : facts[m].seq = f.open /\ facts[m].kind = "sent" /\ \A k \in HistoryCalls : k <= m
      BY <3>2 DEF H!OpenCall
    <3>4. m \in H!Sends /\ H!Sends \subseteq HistoryCalls
      BY <3>3 DEF H!Sends, HistoryCalls, H!CallFacts, H!CallKinds
    <3>5. \A j \in H!Sends : j <= m
      BY <3>3, <3>4
    <3>6. ASSUME NEW i \in H!Sends, \A j \in H!Sends : j <= i PROVE i = m
      <4>1. i <= m /\ m <= i
        BY <3>4, <3>5, <3>6
      <4> QED BY <2>2, <3>4, <4>1
    <3>7. found = {m}
      BY <2>1, <2>2, <3>1, <3>3, <3>4, <3>5, <3>6 DEF AgreesOnSends
    <3>8. (CHOOSE i \in H!Sends : \A j \in H!Sends : j <= i) = m
      BY <3>4, <3>5, <3>6
    <3>9. Said(m) = [seq |-> f.open, attempts |-> f.attempts[f.open], at |-> facts[m].at]
      BY <2>1, <3>1, <3>3 DEF AgreesOnAttempts
    <3> HIDE DEF found, Said
    <3>10. H!OpenSends(MaxTime) = {Said(m)}
      BY <2>3, <3>7
    <3> QED BY <2>5, <3>8, <3>9, <3>10
  <2> QED BY <2>4, <2>5
<1>7. H!WorklistIsOpenCall
  BY <1>1, <1>6 DEF H!WorklistIsOpenCall, H!Inconsistent
<1> QED BY <1>5, <1>7

\* What retention takes has no send open: an open call is a send that nothing closed.
LEMMA RetentionIsSafe ==
  ASSUME HistoryOK, H!Next
  PROVE  H!RetentionStep
<1> SUFFICES ASSUME facts # <<>>, facts' = <<>>
             PROVE  /\ ~H!Open(H!Fold(facts))
                    /\ \A i \in DOMAIN facts : facts[i].kind = "warned" => facts[i].at + Grace <= MaxTime
  BY DEF H!RetentionStep
<1>1. PICK f : f = H!Fold(facts) /\ Agrees(f)
  BY HistoryFolds
<1>2. facts \in Seq(H!Fact)
  BY DEF HistoryOK
<1>3. PICK b \in 1..MaxTime : H!Prunable(b)
  <2>1. ASSUME NEW added \in H!Fact, H!Record(added) PROVE FALSE
    BY <1>2, <2>1 DEF H!Record
  <2> QED BY <2>1 DEF H!Next, H!Prune
<1>4. ~H!Open(f)
  <2>1. SUFFICES ASSUME H!Open(f) PROVE FALSE
    OBVIOUS
  <2>2. AgreesOnCalls(f) /\ AgreesOnSends(f) /\ f.open # 0
    BY <1>1, <2>1 DEF Agrees, H!Open
  <2>3. PICK m \in HistoryCalls : facts[m].seq = f.open /\ facts[m].kind = "sent" /\ \A k \in HistoryCalls : k <= m
    BY <2>2 DEF AgreesOnCalls, H!OpenCall
  <2>4. m \in H!Sends /\ \A j \in H!Sends : j <= m
    BY <2>3 DEF H!Sends, HistoryCalls, H!CallFacts, H!CallKinds
  <2>5. H!StillOpen(m)
    BY <2>2, <2>3, <2>4 DEF AgreesOnSends
  <2> QED BY <1>3, <2>4, <2>5 DEF H!Prunable
<1>5. ASSUME NEW i \in DOMAIN facts, facts[i].kind = "warned" PROVE facts[i].at + Grace <= MaxTime
  <2>1. facts[i].at \in Nat
    <3>1. facts[i] \in H!Fact
      BY <1>2
    <3> QED BY <3>1, HistoryAssumption DEF H!Fact
  <2>2. ~(facts[i].at + Grace > b)
    BY <1>3, <1>5 DEF H!Prunable, H!PromiseAhead
  <2> QED BY <2>1, <2>2, HistoryAssumption
<1> QED BY <1>1, <1>4, <1>5

HistoryStays == part = "history" => HistoryOK

LEMMA HistoryKept ==
  /\ Init => HistoryStays
  /\ HistoryStays /\ [Next]_vars => HistoryStays'
<1>1. Init => HistoryStays
  BY HistoryStarts DEF Init, HistoryStays, H!Init
<1>2. ASSUME HistoryStays, Next PROVE HistoryStays'
  BY <1>2, HistoryGoesOn DEF HistoryStays, Next
<1>3. ASSUME HistoryStays, UNCHANGED vars PROVE HistoryStays'
  <2>1. UNCHANGED facts /\ UNCHANGED part
    BY <1>3 DEF vars, history
  <2>2. HistoryCalls' = HistoryCalls /\ H!Sends' = H!Sends
    BY <2>1 DEF HistoryCalls, H!CallFacts, H!Sends
  <2>3. \A s : H!AttemptsAt(s)' = H!AttemptsAt(s)
    <3>1. \A s : SendsOf(s)' = SendsOf(s) /\ UnsentsOf(s)' = UnsentsOf(s)
      BY <2>1, <2>2 DEF SendsOf, UnsentsOf
    <3> QED BY <3>1, AttemptsAreCounted
  <2>4. \A i : (H!StillOpen(i)' <=> H!StillOpen(i)) /\ (H!LatestSend(i)' <=> H!LatestSend(i))
    BY <2>1, <2>2 DEF H!StillOpen, H!LatestSend
  <2>5. ASSUME NEW f, Agrees(f) PROVE Agrees(f)'
    <3>1. AgreesOnCalls(f) => AgreesOnCalls(f)'
      BY <2>1, <2>2 DEF AgreesOnCalls
    <3>2. AgreesOnAttempts(f) => AgreesOnAttempts(f)'
      BY <2>3 DEF AgreesOnAttempts, H!Calls
    <3>3. AgreesOnSends(f) => AgreesOnSends(f)'
      BY <2>1, <2>2, <2>4 DEF AgreesOnSends
    <3>4. AgreesOnOrder(f) => AgreesOnOrder(f)'
      BY DEF AgreesOnOrder
    <3> QED BY <2>1, <2>5, <3>1, <3>2, <3>3, <3>4 DEF Agrees, H!Folds, H!Calls
  <2>6. HistoryOK => HistoryOK'
    BY <2>1, <2>5 DEF HistoryOK
  <2> QED BY <1>3, <2>1, <2>6 DEF HistoryStays
<1> QED BY <1>1, <1>2, <1>3

\* Fold and worklist read every history alike and as its call facts say, of any length, for a
\* plan of any length and whoever wrote it (fold.ts, ledger.ts).
THEOREM FoldAlwaysReadsHistory == Spec => []FoldReadsHistory
<1>1. HistoryStays => FoldReadsHistory
  BY HistoryIsRead DEF HistoryStays, FoldReadsHistory
<1> QED BY <1>1, HistoryKept, PTL DEF Spec

\* Retention takes no effect whose call may be unanswered, nor one whose promise is ahead, at
\* any instant of any history (ledger.ts prune, D166).
THEOREM RetentionAlwaysKeeps == Spec => RetentionKeepsOpenAndPromised
<1>1. HistoryStays /\ [Next]_vars => [part = "history" => H!RetentionStep]_facts
  BY RetentionIsSafe DEF HistoryStays, Next, vars, history
<1> QED BY <1>1, HistoryKept, PTL DEF Spec, RetentionKeepsOpenAndPromised

-----------------------------------------------------------------------------
(* A lane's share of GitHub's window.                                      *)

\* What the performed requests of T, whose answers are on their way, have cost: the set with
\* one pair for each point.
Points(T, f) == {p \in T \X (1..MostPoints) : p[2] <= f[p[1]].cost}

LEMMA CardinalityUpTo ==
  ASSUME NEW m \in Nat
  PROVE  IsFiniteSet(1..m) /\ Cardinality(1..m) = m
<1>1. IsFiniteSet(1..m) /\ Cardinality(1..m) = IF 1 > m THEN 0 ELSE m - 1 + 1
  BY FS_Interval
<1> QED BY <1>1

LEMMA PointsAreBounded ==
  ASSUME NEW T, IsFiniteSet(T), NEW f, MostPoints \in Nat
  PROVE  /\ IsFiniteSet(Points(T, f))
         /\ Cardinality(T) \in Nat /\ Cardinality(Points(T, f)) \in Nat
         /\ Cardinality(Points(T, f)) <= Cardinality(T) * MostPoints
<1>1. IsFiniteSet(1..MostPoints) /\ Cardinality(1..MostPoints) = MostPoints
  BY CardinalityUpTo
<1>2. IsFiniteSet(T \X (1..MostPoints))
      /\ Cardinality(T \X (1..MostPoints)) = Cardinality(T) * MostPoints
  BY <1>1, FS_Product
<1>3. Points(T, f) \subseteq T \X (1..MostPoints)
  BY DEF Points
<1> QED BY <1>2, <1>3, FS_Subset, FS_CardinalityType

LEMMA PointsOfOne ==
  ASSUME NEW r, NEW f, NEW c \in 0..MostPoints, f[r].cost = c, MostPoints \in Nat
  PROVE  IsFiniteSet({r} \X (1..c)) /\ Cardinality({r} \X (1..c)) = c /\ c \in Nat
<1>0. c \in Nat
  OBVIOUS
<1>1. IsFiniteSet(1..c) /\ Cardinality(1..c) = c
  BY <1>0, CardinalityUpTo
<1>2. IsFiniteSet({r}) /\ Cardinality({r}) = 1
  BY FS_Singleton
<1>3. IsFiniteSet({r} \X (1..c)) /\ Cardinality({r} \X (1..c)) = 1 * c
  <2>1. Cardinality({r} \X (1..c)) = Cardinality({r}) * Cardinality(1..c)
        /\ IsFiniteSet({r} \X (1..c))
    BY <1>1, <1>2, FS_Product
  <2> QED BY <1>1, <1>2, <2>1
<1> QED BY <1>0, <1>3

\* One more request adds what it cost.
LEMMA PointsAdd ==
  ASSUME NEW T, IsFiniteSet(T), NEW r, r \notin T, NEW f, NEW c \in 0..MostPoints,
         f[r].cost = c, MostPoints \in Nat
  PROVE  Cardinality(Points(T \cup {r}, f)) = Cardinality(Points(T, f)) + c
<1> DEFINE one == {r} \X (1..c)
<1>1. Points(T \cup {r}, f) = Points(T, f) \cup one
  BY DEF Points
<1>2. Points(T, f) \cap one = {}
  BY DEF Points
<1>3. IsFiniteSet(one) /\ Cardinality(one) = c /\ c \in Nat
  BY PointsOfOne
<1>4. IsFiniteSet(Points(T, f)) /\ Cardinality(Points(T, f)) \in Nat
  BY PointsAreBounded
<1>5. IsFiniteSet(Points(T, f) \cap one) /\ Cardinality(Points(T, f) \cap one) = 0
  BY <1>2, FS_EmptySet
<1> HIDE DEF one
<1>6. Cardinality(Points(T, f) \cup one)
      = Cardinality(Points(T, f)) + Cardinality(one) - Cardinality(Points(T, f) \cap one)
  BY <1>3, <1>4, FS_Union
<1>7. Cardinality(Points(T, f) \cup one) = Cardinality(Points(T, f)) + c
  BY <1>3, <1>4, <1>5, <1>6
<1> QED BY <1>1, <1>7

LEMMA PointsStay ==
  ASSUME NEW T, NEW f, NEW g, \A r \in T : f[r].cost = g[r].cost
  PROVE  Points(T, f) = Points(T, g)
BY DEF Points

----------------------------------------------------------------------------
Flying == {r \in Request : flight[r] # None}

\* What the lane can have used by the time its last request fills its share.
Most == A!CapUnder(Limit) - 1 + Cardinality(Request) * MostPoints

\* The performed requests of the open window, whose answers have yet to be charged.
OfThisWindow(r) == flight[r] # None /\ flight[r].step = "answered" /\ flight[r].reset >= ends
Counted == IF A!Live THEN charged ELSE 0

AllowanceTyped ==
  /\ ends \in Nat /\ used \in Nat /\ charged \in Nat /\ unheard \in Nat /\ misled \in BOOLEAN
  /\ limit \in {Assumed, Limit}
  /\ flight \in [Request -> A!Sent \cup A!Answered \cup {None}]
  /\ resetAt \in Int \cup {None}

\* What is charged, and what is out at its most, is under the share but for one request.
OutIsWithin ==
  /\ limit # Limit => charged = 0
  /\ charged + Cardinality(Flying) * MostPoints <= Most

\* An answer of this pool that has not outlived its window, and the end a ledger keeps that
\* nothing misled, are the end of GitHub's window.
EndsAreTrue ==
  /\ \A r \in Request :
       flight[r] # None /\ flight[r].step = "answered" /\ flight[r].own /\ flight[r].reset > 0
         => flight[r].reset = ends
  /\ ~misled /\ resetAt # None /\ resetAt > 0 => resetAt = ends

\* All that was used of the open window is charged, on its way, or unheard of.
AllIsAccounted ==
  ~misled /\ ends > 0 =>
    \E T \in SUBSET Request :
      /\ \A r \in T : OfThisWindow(r)
      /\ used <= Cardinality(Points(T, flight)) + Counted + unheard * MostPoints

UseIsBounded == ~misled => used <= Most + unheard * MostPoints

AllowanceOK ==
  AllowanceTyped /\ OutIsWithin /\ EndsAreTrue /\ AllIsAccounted /\ UseIsBounded

LEMMA CapsAreNatural ==
  /\ A!CapUnder(Limit) \in Nat /\ A!CapUnder(Assumed) \in Nat
  /\ Most \in Int /\ Most >= A!CapUnder(Limit) - 1 + MostPoints
  /\ Cardinality(Request) \in Nat
<1>1. \A m, d \in Nat : d > 0 => m \div d \in Nat
  OBVIOUS
<1>2. Share * Limit \in Nat /\ Share * Assumed \in Nat /\ Denominator \in Nat /\ Denominator > 0
  BY AllowanceAssumption
<1>3. A!CapUnder(Limit) \in Nat /\ A!CapUnder(Assumed) \in Nat
  BY <1>1, <1>2 DEF A!CapUnder
<1>4. Cardinality(Request) \in Nat /\ Cardinality(Request) # 0
  BY LaneAssumption, FS_CardinalityType, FS_EmptySet
<1>5. MostPoints \in Nat
  BY AllowanceAssumption
<1>6. Cardinality(Request) * MostPoints \in Nat /\ Cardinality(Request) * MostPoints >= MostPoints
  <2>1. \A k, m \in Nat : k # 0 => k * m \in Nat /\ k * m >= m
    <3> TAKE k, m \in Nat
    <3> HAVE k # 0
    <3>1. k * m = (k - 1) * m + m /\ (k - 1) * m \in Nat
      OBVIOUS
    <3> QED BY <3>1
  <2> QED BY <1>4, <1>5, <2>1
<1> QED BY <1>3, <1>4, <1>5, <1>6 DEF Most

LEMMA FlyingIsFinite ==
  /\ IsFiniteSet(Flying) /\ Cardinality(Flying) \in Nat
  /\ Cardinality(Flying) <= Cardinality(Request)
BY LaneAssumption, FS_Subset, FS_CardinalityType, CapsAreNatural DEF Flying

LEMMA AllowanceStarts == A!Init => AllowanceOK
<1> SUFFICES ASSUME A!Init PROVE AllowanceOK
  OBVIOUS
<1>1. AllowanceTyped
  BY DEF A!Init, AllowanceTyped
<1>2. OutIsWithin
  <2>1. Flying = {}
    BY DEF A!Init, Flying
  <2>2. Cardinality(Flying) = 0
    BY <2>1, FS_EmptySet
  <2>3. 0 * MostPoints = 0 /\ MostPoints > 0 /\ MostPoints \in Nat
    BY AllowanceAssumption
  <2> QED BY <2>2, <2>3, CapsAreNatural DEF A!Init, OutIsWithin
<1>3. EndsAreTrue /\ AllIsAccounted
  BY DEF A!Init, EndsAreTrue, AllIsAccounted
<1>4. UseIsBounded
  <2>1. unheard * MostPoints = 0 /\ MostPoints \in Nat /\ MostPoints > 0
    BY AllowanceAssumption DEF A!Init
  <2> QED BY <2>1, CapsAreNatural DEF A!Init, UseIsBounded
<1> QED BY <1>1, <1>2, <1>3, <1>4 DEF AllowanceOK
----------------------------------------------------------------------------
LEMMA OutIsTyped ==
  ASSUME AllowanceTyped, NEW q \in Request, A!Is(q, "answered")
  PROVE  /\ flight[q] \in A!Answered
         /\ flight[q].cost \in 0..MostPoints /\ flight[q].cost \in Nat /\ flight[q].reset \in Nat
<1>1. flight[q] \in A!Answered
  BY DEF AllowanceTyped, A!Is, A!Sent
<1> QED BY <1>1, AllowanceAssumption DEF A!Answered

LEMMA AnswersAreAnswers ==
  ASSUME NEW a \in BOOLEAN, NEW c \in 0..MostPoints, NEW k \in Nat, NEW o \in BOOLEAN
  PROVE  [step |-> "answered", mutation |-> a, cost |-> c, reset |-> k, own |-> o] \in A!Answered
BY DEF A!Answered

LEMMA TypesGoOn ==
  ASSUME AllowanceTyped, A!Next
  PROVE  AllowanceTyped'
<1> USE AllowanceAssumption DEF AllowanceTyped
<1>1. ASSUME NEW q \in Request, NEW mutation \in BOOLEAN, A!Sends(q, mutation)
      PROVE  AllowanceTyped'
  <2>1. [step |-> "sent", mutation |-> mutation] \in A!Sent
    BY DEF A!Sent
  <2> QED BY <1>1, <2>1 DEF A!Sends, A!SpentNow, A!ResetNow, A!github
<1>2. ASSUME NEW q \in Request, NEW c \in 0..MostPoints, NEW e \in 0..Slack \cup Foreign,
             A!Performs(q, c, e)
      PROVE  AllowanceTyped'
  <2>1. flight[q].mutation \in BOOLEAN
    BY <1>2 DEF A!Performs, A!Is, A!Sent, A!Answered
  <2>2. /\ ends' = (IF ends = 0 THEN Window ELSE ends)
        /\ flight' = [flight EXCEPT ![q] = [step |-> "answered", mutation |-> flight[q].mutation,
                                            cost |-> c, reset |-> ends' + e, own |-> e = 0]]
        /\ used' = (IF ends = 0 THEN 0 ELSE used) + c
        /\ unheard' = IF ends = 0 THEN 0 ELSE unheard
        /\ UNCHANGED <<limit, resetAt, charged, written, misled>>
    BY <1>2 DEF A!Performs, A!ledger
  <2>3. ends' \in Nat /\ e \in Nat /\ c \in Nat
    BY <2>2
  <2>4. [step |-> "answered", mutation |-> flight[q].mutation, cost |-> c, reset |-> ends' + e,
         own |-> e = 0] \in A!Answered
    <3>1. (e = 0) \in BOOLEAN
      OBVIOUS
    <3>2. ends' + e \in Nat
      <4>1. \A k, j \in Nat : k + j \in Nat
        OBVIOUS
      <4> QED BY <2>3, <4>1
    <3> QED BY <2>1, <3>1, <3>2, AnswersAreAnswers
  <2> QED BY <2>2, <2>3, <2>4
<1>3. ASSUME NEW q \in Request, A!Charges(q) PROVE AllowanceTyped'
  <2>1. A!Is(q, "answered")
    BY <1>3 DEF A!Charges
  <2>2. flight[q].cost \in Nat /\ flight[q].reset \in Nat
    BY <2>1, OutIsTyped
  <2>3. /\ limit' = Limit /\ ends' = ends /\ used' = used /\ unheard' = unheard
        /\ resetAt' \in {flight[q].reset, resetAt}
        /\ charged' \in {flight[q].cost, charged + flight[q].cost}
        /\ flight' = [flight EXCEPT ![q] = None]
        /\ misled' \in BOOLEAN
    BY <1>3, <2>2 DEF A!Charges, A!github
  <2> QED BY <2>2, <2>3
<1>4. ASSUME NEW q \in Request, A!IsLost(q) PROVE AllowanceTyped'
  BY <1>4 DEF A!IsLost, A!ledger
<1>5. CASE A!ArmMutations
  BY <1>5 DEF A!ArmMutations, A!github, A!ledger
<1>6. CASE A!Tick
  <2>1. ends' \in Nat
    BY <1>6 DEF A!Tick, A!Passed
  <2>2. ASSUME NEW q \in Request PROVE flight'[q] \in A!Sent \cup A!Answered \cup {None}
    <3>1. CASE A!Is(q, "answered")
      <4>1. flight'[q] = [flight[q] EXCEPT !.reset = A!Passed(@)]
        BY <1>6, <3>1 DEF A!Tick
      <4>2. flight[q] \in A!Answered
        BY <3>1, OutIsTyped
      <4> QED BY <4>1, <4>2 DEF A!Answered, A!Passed
    <3>2. CASE ~A!Is(q, "answered")
      BY <1>6, <3>2 DEF A!Tick
    <3> QED BY <3>1, <3>2
  <2>3. flight' \in [Request -> A!Sent \cup A!Answered \cup {None}]
    BY <1>6, <2>2 DEF A!Tick
  <2> QED BY <1>6, <2>1, <2>3 DEF A!Tick
<1> QED BY <1>1, <1>2, <1>3, <1>4, <1>5, <1>6 DEF A!Next

\* No step has a request out that was not, but a send of one that was not.
LEMMA OutGoesOn ==
  ASSUME AllowanceTyped, OutIsWithin, A!Next
  PROVE  OutIsWithin'
<1> DEFINE n == Cardinality(Flying)
           m == Cardinality(Flying')
<1>0. n \in Nat /\ MostPoints \in Nat /\ MostPoints > 0 /\ Most \in Int /\ charged \in Nat
      /\ charged + n * MostPoints <= Most /\ n * MostPoints \in Nat
  <2>1. n \in Nat
    BY FlyingIsFinite
  <2>2. \A k, j \in Nat : k * j \in Nat
    OBVIOUS
  <2> QED BY <2>1, <2>2, AllowanceAssumption, CapsAreNatural DEF AllowanceTyped, OutIsWithin
<1>1. /\ Flying' \subseteq Request /\ m \in Nat /\ m <= Cardinality(Request)
      /\ \A k, j, i \in Nat : k <= j => k * i <= j * i /\ k * i \in Nat
  <2>1. Flying' \subseteq Request
    BY DEF Flying
  <2>2. \A k, j, i \in Nat : k <= j => k * i <= j * i /\ k * i \in Nat
    <3> TAKE k, j, i \in Nat
    <3> HAVE k <= j
    <3>1. j * i = k * i + (j - k) * i /\ (j - k) * i \in Nat /\ k * i \in Nat
      OBVIOUS
    <3> QED BY <3>1
  <2>3. m \in Nat /\ m <= Cardinality(Request)
    BY <2>1, LaneAssumption, FS_Subset, FS_CardinalityType
  <2> QED BY <2>1, <2>2, <2>3
<1>2. ASSUME Flying' \subseteq Flying, charged' = charged, limit' = limit
      PROVE  OutIsWithin'
  <2>1. m <= n
    BY <1>2, FlyingIsFinite, FS_Subset
  <2>2. m * MostPoints <= n * MostPoints /\ m * MostPoints \in Nat
    BY <1>0, <1>1, <2>1
  <2> HIDE DEF n, m
  <2>3. charged' + m * MostPoints <= Most
    BY <1>0, <1>2, <2>2
  <2>4. limit' # Limit => charged' = 0
    BY <1>2 DEF OutIsWithin
  <2> QED BY <2>3, <2>4 DEF OutIsWithin, Most, m, A!CapUnder
<1>3. ASSUME NEW q \in Request, NEW mutation \in BOOLEAN, A!Sends(q, mutation)
      PROVE  OutIsWithin'
  <2>1. charged' \in {0, charged} /\ charged' < A!CapUnder(limit) /\ limit' = limit
    BY <1>0, <1>3, CapsAreNatural DEF A!Sends, A!Refuses, A!Cap, A!SpentNow, AllowanceTyped, A!CapUnder
  <2>2. m * MostPoints <= Cardinality(Request) * MostPoints
        /\ m * MostPoints \in Nat /\ Cardinality(Request) * MostPoints \in Nat
    BY <1>0, <1>1, CapsAreNatural
  <2> HIDE DEF n, m
  <2>3. charged' \in Nat /\ charged' <= A!CapUnder(Limit) - 1
    <3>1. CASE limit = Limit
      BY <1>0, <2>1, <3>1, CapsAreNatural
    <3>2. CASE limit # Limit
      <4>1. limit = Assumed /\ charged = 0
        BY <3>2 DEF AllowanceTyped, OutIsWithin
      <4>2. A!CapUnder(Assumed) > 0
        BY <2>1, <4>1, CapsAreNatural
      <4> QED BY <2>1, <4>1, <4>2, LaneAssumption, CapsAreNatural
    <3> QED BY <3>1, <3>2
  <2>4. charged' + m * MostPoints <= Most
    BY <2>2, <2>3, CapsAreNatural DEF Most
  <2>5. limit' # Limit => charged' = 0
    BY <2>1 DEF OutIsWithin
  <2> QED BY <2>4, <2>5 DEF OutIsWithin, Most, m, A!CapUnder
<1>4. ASSUME NEW q \in Request, NEW c \in 0..MostPoints, NEW e \in 0..Slack \cup Foreign,
             A!Performs(q, c, e)
      PROVE  OutIsWithin'
  <2>1. Flying' \subseteq Flying
    BY <1>4 DEF A!Performs, A!Is, Flying, AllowanceTyped
  <2> QED BY <1>2, <1>4, <2>1 DEF A!Performs, A!ledger
<1>5. ASSUME NEW q \in Request, A!Charges(q) PROVE OutIsWithin'
  <2>1. A!Is(q, "answered") /\ limit' = Limit /\ flight' = [flight EXCEPT ![q] = None]
    BY <1>5 DEF A!Charges
  <2>2. flight[q].cost \in 0..MostPoints /\ flight[q].cost \in Nat
    BY <2>1, OutIsTyped
  <2>3. charged' \in {flight[q].cost, charged + flight[q].cost}
    BY <1>0, <1>5, <2>2 DEF A!Charges
  <2>4. Flying' = Flying \ {q} /\ q \in Flying
    BY <2>1 DEF A!Is, Flying, AllowanceTyped
  <2>5. m = n - 1 /\ n > 0
    <3>1. Cardinality(Flying \ {q}) = Cardinality(Flying) - 1
      BY <2>4, FlyingIsFinite, FS_RemoveElement
    <3> QED BY <1>0, <1>1, <2>4, <3>1
  <2> HIDE DEF n, m
  <2>6. n * MostPoints = m * MostPoints + MostPoints /\ m * MostPoints \in Nat
    <3>1. n = m + 1 /\ m \in Nat
      BY <1>0, <1>1, <2>5
    <3>2. \A k, i \in Nat : (k + 1) * i = k * i + i /\ k * i \in Nat
      OBVIOUS
    <3> QED BY <1>0, <3>1, <3>2
  <2>7. charged' + m * MostPoints <= Most
    BY <1>0, <2>2, <2>3, <2>6
  <2> QED BY <2>1, <2>7 DEF OutIsWithin, Most, m, A!CapUnder
<1>6. ASSUME NEW q \in Request, A!IsLost(q) PROVE OutIsWithin'
  <2>1. Flying' \subseteq Flying
    BY <1>6 DEF A!IsLost, Flying, AllowanceTyped
  <2> QED BY <1>2, <1>6, <2>1 DEF A!IsLost, A!ledger
<1>7. CASE A!ArmMutations
  BY <1>2, <1>7 DEF A!ArmMutations, A!github, A!ledger, Flying
<1>8. CASE A!Tick
  <2>1. Flying' \subseteq Flying
    BY <1>8 DEF A!Tick, A!Is, Flying, AllowanceTyped
  <2> QED BY <1>2, <1>8, <2>1 DEF A!Tick
<1> QED BY <1>3, <1>4, <1>5, <1>6, <1>7, <1>8 DEF A!Next

----------------------------------------------------------------------------
LEMMA EndsGoOn ==
  ASSUME AllowanceTyped, EndsAreTrue, A!Next
  PROVE  EndsAreTrue'
<1> USE AllowanceAssumption
<1>1. ASSUME NEW q \in Request, NEW mutation \in BOOLEAN, A!Sends(q, mutation)
      PROVE  EndsAreTrue'
  <2>1. \A r \in Request : flight'[r] = flight[r] \/ flight'[r].step = "sent"
    BY <1>1 DEF A!Sends, AllowanceTyped
  <2>2. resetAt' \in {None, resetAt} /\ ends' = ends /\ misled' = misled
    BY <1>1 DEF A!Sends, A!ResetNow, A!github
  <2> QED BY <2>1, <2>2, "sent" # "answered" DEF EndsAreTrue
<1>2. ASSUME NEW q \in Request, NEW c \in 0..MostPoints, NEW e \in 0..Slack \cup Foreign,
             A!Performs(q, c, e)
      PROVE  EndsAreTrue'
  <2>1. /\ ends' = (IF ends = 0 THEN Window ELSE ends)
        /\ flight' = [flight EXCEPT ![q] = [step |-> "answered", mutation |-> flight[q].mutation,
                                            cost |-> c, reset |-> ends' + e, own |-> e = 0]]
        /\ UNCHANGED <<resetAt, misled>>
    BY <1>2 DEF A!Performs, A!ledger
  <2>2. \A r \in Request \ {q} : flight'[r] = flight[r]
    BY <2>1 DEF AllowanceTyped
  <2>3. flight'[q].reset = ends' + e /\ (flight'[q].own <=> e = 0) /\ ends' \in Nat
    BY <2>1 DEF AllowanceTyped
  <2>4. flight'[q].own => flight'[q].reset = ends'
    BY <2>3
  <2>5. ~misled /\ resetAt # None /\ resetAt > 0 => resetAt = ends' 
    BY <2>1 DEF EndsAreTrue, AllowanceTyped
  <2>6. ASSUME NEW r \in Request \ {q}, flight[r] # None, flight[r].step = "answered",
               flight[r].own, flight[r].reset > 0
        PROVE  flight[r].reset = ends'
    BY <2>1, <2>6 DEF EndsAreTrue, AllowanceTyped
  <2> QED BY <2>1, <2>2, <2>4, <2>5, <2>6 DEF EndsAreTrue
<1>3. ASSUME NEW q \in Request, A!Charges(q) PROVE EndsAreTrue'
  <2>1. A!Is(q, "answered") /\ ends' = ends /\ flight' = [flight EXCEPT ![q] = None]
    BY <1>3 DEF A!Charges, A!github
  <2>2. \A r \in Request : flight'[r] # None => flight'[r] = flight[r]
    BY <2>1 DEF AllowanceTyped
  <2>3. flight[q].reset \in Nat
    BY <2>1, OutIsTyped
  <2>4. ASSUME ~misled', resetAt' # None, resetAt' > 0 PROVE resetAt' = ends
    <3>1. ~misled
      BY <1>3, <2>4 DEF A!Charges, AllowanceTyped
    <3>2. CASE A!OpensWindow(flight[q].reset) \/ A!MovesEnd(flight[q].reset)
      <4>1. resetAt' = flight[q].reset
        BY <1>3, <3>2 DEF A!Charges
      <4>2. flight[q].own
        <5>1. flight[q].own \in BOOLEAN
          BY <2>1, OutIsTyped DEF A!Answered
        <5>2. ~A!Live \/ A!MovesEnd(flight[q].reset)
          BY <3>2 DEF A!OpensWindow, A!Live, AllowanceTyped
        <5>3. ~(/\ A!OpensWindow(flight[q].reset) \/ A!MovesEnd(flight[q].reset)
                /\ ~flight[q].own
                /\ ~A!Live \/ A!MovesEnd(flight[q].reset))
          BY <1>3, <2>4 DEF A!Charges
        <5> QED BY <3>2, <5>1, <5>2, <5>3
      <4> QED BY <2>1, <2>4, <4>1, <4>2 DEF EndsAreTrue, A!Is
    <3>3. CASE ~(A!OpensWindow(flight[q].reset) \/ A!MovesEnd(flight[q].reset))
      <4>1. resetAt' = resetAt
        BY <1>3, <3>3 DEF A!Charges
      <4> QED BY <2>4, <3>1, <4>1 DEF EndsAreTrue
    <3> QED BY <3>2, <3>3
  <2> QED BY <2>1, <2>2, <2>4 DEF EndsAreTrue
<1>4. ASSUME NEW q \in Request, A!IsLost(q) PROVE EndsAreTrue'
  <2>1. \A r \in Request : flight'[r] # None => flight'[r] = flight[r]
    BY <1>4 DEF A!IsLost, AllowanceTyped
  <2> QED BY <1>4, <2>1 DEF A!IsLost, A!ledger, EndsAreTrue
<1>5. CASE A!ArmMutations
  BY <1>5 DEF A!ArmMutations, A!github, A!ledger, EndsAreTrue
<1>6. CASE A!Tick
  <2>1. ends' = A!Passed(ends) /\ misled' = misled
    BY <1>6 DEF A!Tick
  <2>2. ASSUME NEW r \in Request, flight'[r] # None, flight'[r].step = "answered",
               flight'[r].own, flight'[r].reset > 0
        PROVE  flight'[r].reset = ends'
    <3>1. A!Is(r, "answered")
      BY <1>6, <2>2 DEF A!Tick, A!Is
    <3>2. flight'[r] = [flight[r] EXCEPT !.reset = A!Passed(@)]
      BY <1>6, <3>1 DEF A!Tick
    <3>3. flight[r] \in A!Answered
      BY <3>1, OutIsTyped
    <3>4. flight'[r].own = flight[r].own /\ flight'[r].reset = A!Passed(flight[r].reset)
      BY <3>2, <3>3 DEF A!Answered
    <3>5. flight[r].reset \in Nat /\ flight[r].reset > 0
      BY <2>2, <3>3, <3>4 DEF A!Answered, A!Passed
    <3>6. flight[r].reset = ends
      BY <2>2, <3>1, <3>4, <3>5 DEF EndsAreTrue, A!Is
    <3> QED BY <2>1, <3>4, <3>6
  <2>3. ASSUME ~misled, resetAt' # None, resetAt' > 0 PROVE resetAt' = ends'
    <3>1. resetAt \in Int /\ resetAt # None /\ resetAt > 0 /\ resetAt' = resetAt - 1
      <4>1. resetAt' = IF resetAt = None \/ resetAt = -Slack THEN resetAt ELSE resetAt - 1
        BY <1>6 DEF A!Tick
      <4>2. resetAt # None /\ resetAt \in Int
        BY <2>3, <4>1 DEF AllowanceTyped
      <4>3. Slack \in Nat
        OBVIOUS
      <4> QED BY <2>3, <4>1, <4>2, <4>3
    <3>2. resetAt = ends
      BY <2>3, <3>1 DEF EndsAreTrue
    <3> QED BY <2>1, <2>3, <3>1, <3>2 DEF A!Passed
  <2> QED BY <2>1, <2>2, <2>3 DEF EndsAreTrue
<1> QED BY <1>1, <1>2, <1>3, <1>4, <1>5, <1>6 DEF A!Next

----------------------------------------------------------------------------
LEMMA CountedIsNatural ==
  ASSUME AllowanceTyped
  PROVE  Counted \in Nat /\ Counted <= charged
BY DEF Counted, AllowanceTyped

LEMMA CountedIsNaturalNext ==
  ASSUME AllowanceTyped'
  PROVE  Counted' \in Nat
BY DEF Counted, AllowanceTyped

\* A witness of the accounting before a step, with what it holds of it.
LEMMA RequestsOfWindow ==
  ASSUME AllowanceTyped, NEW T \in SUBSET Request, \A r \in T : OfThisWindow(r)
  PROVE  /\ IsFiniteSet(T)
         /\ T \subseteq Flying
         /\ \A r \in T : flight[r] \in A!Answered /\ A!Is(r, "answered")
<1>1. IsFiniteSet(T)
  BY LaneAssumption, FS_Subset
<1>2. \A r \in T : A!Is(r, "answered")
  BY DEF OfThisWindow, A!Is
<1> QED BY <1>1, <1>2, OutIsTyped DEF Flying, OfThisWindow

\* A step that keeps what it does not answer keeps the accounting of T.
LEMMA AccountKept ==
  ASSUME AllowanceTyped, AllowanceTyped', NEW T \in SUBSET Request,
         \A r \in T : OfThisWindow(r)' /\ flight'[r].cost = flight[r].cost,
         used <= Cardinality(Points(T, flight)) + Counted + unheard * MostPoints,
         used' = used, unheard' = unheard, Counted' >= Counted
  PROVE  AllIsAccounted'
<1>1. Points(T, flight') = Points(T, flight)
  BY PointsStay
<1>2. IsFiniteSet(T) /\ MostPoints \in Nat
  BY LaneAssumption, AllowanceAssumption, FS_Subset
<1>3. Cardinality(Points(T, flight)) \in Nat
  BY <1>2, PointsAreBounded
<1>4. Counted \in Nat /\ Counted' \in Nat /\ unheard * MostPoints \in Nat /\ used \in Nat
  <2>1. \A k, i \in Nat : k * i \in Nat
    OBVIOUS
  <2> QED BY <1>2, <2>1, CountedIsNatural, CountedIsNaturalNext DEF AllowanceTyped
<1>5. used' <= Cardinality(Points(T, flight')) + Counted' + unheard' * MostPoints
  BY <1>1, <1>3, <1>4
<1> QED BY <1>5 DEF AllIsAccounted

LEMMA SendAccounts ==
  ASSUME AllowanceTyped, AllowanceTyped', AllIsAccounted,
         NEW q \in Request, NEW mutation \in BOOLEAN, A!Sends(q, mutation)
  PROVE  AllIsAccounted'
<1> SUFFICES ASSUME ~misled', ends' > 0 PROVE AllIsAccounted'
  BY DEF AllIsAccounted
<1>1. /\ flight[q] = None /\ UNCHANGED <<ends, used, unheard, misled>>
      /\ \A r \in Request \ {q} : flight'[r] = flight[r]
      /\ charged' = A!SpentNow /\ resetAt' = A!ResetNow
  BY DEF A!Sends, A!github, AllowanceTyped
<1>2. PICK T \in SUBSET Request :
        /\ \A r \in T : OfThisWindow(r)
        /\ used <= Cardinality(Points(T, flight)) + Counted + unheard * MostPoints
  BY <1>1 DEF AllIsAccounted
<1>3. \A r \in T : OfThisWindow(r)' /\ flight'[r].cost = flight[r].cost
  BY <1>1, <1>2 DEF OfThisWindow
<1>4. Counted' = Counted
  BY <1>1 DEF Counted, A!Live, A!SpentNow, A!ResetNow, A!RollDue, AllowanceTyped
<1>5. Counted \in Nat
  BY CountedIsNatural
<1> QED BY <1>1, <1>2, <1>3, <1>4, <1>5, AccountKept

LEMMA PerformAccounts ==
  ASSUME AllowanceTyped, AllowanceTyped', AllIsAccounted, NEW q \in Request,
         NEW c \in 0..MostPoints, NEW e \in 0..Slack \cup Foreign, A!Performs(q, c, e)
  PROVE  AllIsAccounted'
<1> SUFFICES ASSUME ~misled', ends' > 0 PROVE AllIsAccounted'
  BY DEF AllIsAccounted
<1>1. /\ ends' = (IF ends = 0 THEN Window ELSE ends)
      /\ used' = (IF ends = 0 THEN 0 ELSE used) + c
      /\ unheard' = IF ends = 0 THEN 0 ELSE unheard
      /\ flight' = [flight EXCEPT ![q] = [step |-> "answered", mutation |-> flight[q].mutation,
                                          cost |-> c, reset |-> ends' + e, own |-> e = 0]]
      /\ flight[q].step = "sent"
      /\ UNCHANGED <<charged, resetAt, misled>>
  BY DEF A!Performs, A!ledger, A!Is
<1>2. /\ flight'[q].cost = c /\ flight'[q].step = "answered" /\ flight'[q].reset = ends' + e
      /\ \A r \in Request \ {q} : flight'[r] = flight[r]
      /\ MostPoints \in Nat /\ c \in Nat /\ ends' \in Nat /\ e \in Nat
  BY <1>1, AllowanceAssumption DEF AllowanceTyped
<1>3. flight'[q] # None
  <2>1. [step |-> "answered", mutation |-> flight[q].mutation, cost |-> c, reset |-> ends' + e,
         own |-> e = 0] \in A!Answered
    <3>1. flight[q].mutation \in BOOLEAN
      BY DEF A!Performs, A!Is, A!Sent, A!Answered, AllowanceTyped
    <3>2. (e = 0) \in BOOLEAN
      OBVIOUS
    <3>3. ends' + e \in Nat
      <4>1. \A k, j \in Nat : k + j \in Nat
        OBVIOUS
      <4> QED BY <1>2, <4>1
    <3> QED BY <3>1, <3>2, <3>3, AnswersAreAnswers
  <2>2. flight'[q] \in A!Answered
    BY <1>1, <2>1 DEF AllowanceTyped
  <2> QED BY <2>2, LaneAssumption
<1>4. OfThisWindow(q)'
  BY <1>2, <1>3 DEF OfThisWindow
<1>5. Counted' = Counted /\ Counted \in Nat
  BY <1>1, CountedIsNatural DEF Counted, A!Live
<1>6. unheard * MostPoints \in Nat /\ 0 * MostPoints = 0
  <2>1. \A k, i \in Nat : k * i \in Nat /\ 0 * i = 0
    OBVIOUS
  <2> QED BY <1>2, <2>1 DEF AllowanceTyped
<1>7. CASE ends = 0
  <2>1. Cardinality(Points({} \cup {q}, flight')) = Cardinality(Points({}, flight')) + c
    BY <1>2, PointsAdd, FS_EmptySet
  <2>2. Cardinality(Points({}, flight')) \in Nat
    BY <1>2, PointsAreBounded, FS_EmptySet
  <2>3. {} \cup {q} = {q}
    OBVIOUS
  <2>4. used' <= Cardinality(Points({q}, flight')) + Counted' + unheard' * MostPoints
    <3>1. used' = c /\ unheard' * MostPoints = 0
      BY <1>1, <1>2, <1>6, <1>7
    <3>2. Cardinality(Points({q}, flight')) = Cardinality(Points({}, flight')) + c
      BY <2>1, <2>3
    <3> QED BY <1>2, <1>5, <2>2, <3>1, <3>2
  <2> QED BY <1>4, <2>4 DEF AllIsAccounted
<1>8. CASE ends # 0
  <2>1. PICK T \in SUBSET Request :
          /\ \A r \in T : OfThisWindow(r)
          /\ used <= Cardinality(Points(T, flight)) + Counted + unheard * MostPoints
    BY <1>1, <1>8 DEF AllIsAccounted, AllowanceTyped
  <2>2. q \notin T /\ IsFiniteSet(T)
    BY <1>1, <2>1, RequestsOfWindow DEF OfThisWindow
  <2>3. \A r \in T \cup {q} : OfThisWindow(r)'
    BY <1>1, <1>2, <1>4, <1>8, <2>1, <2>2 DEF OfThisWindow
  <2>4. Points(T, flight') = Points(T, flight)
    <3>1. \A r \in T : flight'[r].cost = flight[r].cost
      BY <1>2, <2>2
    <3> QED BY <3>1, PointsStay
  <2>5. Cardinality(Points(T \cup {q}, flight')) = Cardinality(Points(T, flight)) + c
    BY <1>2, <2>2, <2>4, PointsAdd
  <2>6. Cardinality(Points(T, flight)) \in Nat
    BY <1>2, <2>2, PointsAreBounded
  <2>7. used' = used + c /\ unheard' = unheard /\ used \in Nat
    BY <1>1, <1>8 DEF AllowanceTyped
  <2>8. used' <= Cardinality(Points(T \cup {q}, flight')) + Counted' + unheard' * MostPoints
    BY <1>2, <1>5, <1>6, <2>1, <2>5, <2>6, <2>7
  <2>9. T \cup {q} \in SUBSET Request
    BY <2>1
  <2> QED BY <2>3, <2>8, <2>9 DEF AllIsAccounted
<1> QED BY <1>7, <1>8

LEMMA ChargeAccounts ==
  ASSUME AllowanceTyped, AllowanceTyped', AllIsAccounted, NEW q \in Request, A!Charges(q)
  PROVE  AllIsAccounted'
<1> SUFFICES ASSUME ~misled', ends' > 0 PROVE AllIsAccounted'
  BY DEF AllIsAccounted
<1> DEFINE c == flight[q].cost
<1>1. /\ A!Is(q, "answered") /\ UNCHANGED <<ends, used, unheard>> /\ ~misled
      /\ charged' = (IF A!OpensWindow(flight[q].reset) THEN 0 ELSE charged) + c
      /\ resetAt' = IF A!OpensWindow(flight[q].reset) \/ A!MovesEnd(flight[q].reset)
                    THEN flight[q].reset ELSE resetAt
      /\ \A r \in Request \ {q} : flight'[r] = flight[r]
  BY DEF A!Charges, A!github, AllowanceTyped
<1>2. c \in 0..MostPoints /\ c \in Nat /\ flight[q].reset \in Nat
  BY <1>1, OutIsTyped
<1>3. charged \in Nat /\ resetAt \in Int \cup {None} /\ MostPoints \in Nat /\ Slack \in Nat
  BY AllowanceAssumption DEF AllowanceTyped
<1>4. Counted \in Nat /\ Counted' \in Nat
  BY CountedIsNatural, CountedIsNaturalNext
<1>5. Counted' >= Counted
  <2>1. CASE A!Live
    <3>1. ~A!OpensWindow(flight[q].reset)
      BY <1>2, <1>3, <2>1 DEF A!Live, A!OpensWindow
    <3>2. A!Live'
      BY <1>1, <1>2, <2>1, <3>1, NoneAssumption DEF A!Live, A!MovesEnd
    <3> QED BY <1>1, <1>2, <1>3, <2>1, <3>1, <3>2 DEF Counted
  <2>2. CASE ~A!Live
    BY <1>4, <2>2 DEF Counted
  <2> QED BY <2>1, <2>2
<1>6. flight[q].reset > 0 => Counted' >= Counted + c
  <2>1. SUFFICES ASSUME flight[q].reset > 0 PROVE Counted' >= Counted + c
    OBVIOUS
  <2>2. CASE A!Live
    <3>1. ~A!OpensWindow(flight[q].reset)
      BY <1>2, <1>3, <2>2 DEF A!Live, A!OpensWindow
    <3>2. A!Live'
      BY <1>1, <1>2, <2>2, <3>1, NoneAssumption DEF A!Live, A!MovesEnd
    <3> QED BY <1>1, <1>2, <1>3, <2>2, <3>1, <3>2 DEF Counted
  <2>3. CASE ~A!Live
    <3>1. A!OpensWindow(flight[q].reset) \/ A!MovesEnd(flight[q].reset)
      BY <1>2, <1>3, <2>1, <2>3 DEF A!Live, A!OpensWindow, A!MovesEnd
    <3>2. A!Live'
      <4>1. resetAt' = flight[q].reset /\ resetAt' # None
        BY <1>1, <1>2, <3>1, NoneAssumption
      <4> QED BY <2>1, <4>1 DEF A!Live
    <3>3. charged' >= c
      BY <1>1, <1>2, <1>3
    <3> QED BY <1>2, <2>3, <3>2, <3>3 DEF Counted
  <2> QED BY <2>2, <2>3
<1>7. PICK T \in SUBSET Request :
        /\ \A r \in T : OfThisWindow(r)
        /\ used <= Cardinality(Points(T, flight)) + Counted + unheard * MostPoints
  BY <1>1 DEF AllIsAccounted
<1>8. CASE q \notin T
  <2>1. \A r \in T : OfThisWindow(r)' /\ flight'[r].cost = flight[r].cost
    BY <1>1, <1>7, <1>8 DEF OfThisWindow
  <2> QED BY <1>1, <1>5, <1>7, <2>1, AccountKept
<1>9. CASE q \in T
  <2> DEFINE rest == T \ {q}
  <2>1. rest \in SUBSET Request /\ IsFiniteSet(rest) /\ q \notin rest /\ rest \cup {q} = T
    BY <1>7, <1>9, LaneAssumption, FS_Subset
  <2> HIDE DEF rest
  <2>2. \A r \in rest : OfThisWindow(r)' /\ flight'[r].cost = flight[r].cost
    BY <1>1, <1>7, <2>1 DEF OfThisWindow
  <2>3. Points(rest, flight') = Points(rest, flight)
    BY <2>2, PointsStay
  <2>4. Cardinality(Points(T, flight)) = Cardinality(Points(rest, flight)) + c
    BY <1>2, <1>3, <2>1, PointsAdd
  <2>5. Cardinality(Points(rest, flight)) \in Nat
    BY <1>3, <2>1, PointsAreBounded
  <2>6. flight[q].reset > 0
    BY <1>1, <1>2, <1>7, <1>9 DEF OfThisWindow, AllowanceTyped
  <2>7. unheard * MostPoints \in Nat /\ used \in Nat
    <3>1. \A k, i \in Nat : k * i \in Nat
      OBVIOUS
    <3> QED BY <1>3, <3>1 DEF AllowanceTyped
  <2>8. used' <= Cardinality(Points(rest, flight')) + Counted' + unheard' * MostPoints
    <3>1. Counted' >= Counted + c
      BY <1>6, <2>6
    <3> HIDE DEF c
    <3> QED BY <1>1, <1>2, <1>4, <1>7, <2>3, <2>4, <2>5, <2>7, <3>1
  <2> QED BY <2>1, <2>2, <2>8 DEF AllIsAccounted
<1> QED BY <1>8, <1>9

LEMMA LossAccounts ==
  ASSUME AllowanceTyped, AllowanceTyped', AllIsAccounted, NEW q \in Request, A!IsLost(q)
  PROVE  AllIsAccounted'
<1> SUFFICES ASSUME ~misled', ends' > 0 PROVE AllIsAccounted'
  BY DEF AllIsAccounted
<1>1. /\ UNCHANGED <<ends, used, resetAt, charged, misled>>
      /\ unheard' = IF A!Is(q, "answered") THEN unheard + 1 ELSE unheard
      /\ \A r \in Request \ {q} : flight'[r] = flight[r]
  BY DEF A!IsLost, A!ledger, AllowanceTyped
<1>2. Counted' = Counted /\ Counted \in Nat
  BY <1>1, CountedIsNatural DEF Counted, A!Live
<1>3. MostPoints \in Nat /\ unheard \in Nat /\ used \in Nat /\ unheard * MostPoints \in Nat
      /\ (unheard + 1) * MostPoints = unheard * MostPoints + MostPoints
  <2>1. \A k, i \in Nat : k * i \in Nat /\ (k + 1) * i = k * i + i
    OBVIOUS
  <2> QED BY <2>1, AllowanceAssumption DEF AllowanceTyped
<1>4. PICK T \in SUBSET Request :
        /\ \A r \in T : OfThisWindow(r)
        /\ used <= Cardinality(Points(T, flight)) + Counted + unheard * MostPoints
  BY <1>1 DEF AllIsAccounted
<1> DEFINE rest == T \ {q}
<1>5. rest \in SUBSET Request /\ IsFiniteSet(rest) /\ q \notin rest /\ IsFiniteSet(T)
  BY <1>4, LaneAssumption, FS_Subset
<1>6. \A r \in rest : OfThisWindow(r)' /\ flight'[r].cost = flight[r].cost
  BY <1>1, <1>4 DEF OfThisWindow
<1>7. Points(rest, flight') = Points(rest, flight)
  BY <1>6, PointsStay
<1>8. Cardinality(Points(rest, flight)) \in Nat /\ Cardinality(Points(T, flight)) \in Nat
  BY <1>3, <1>5, PointsAreBounded
<1>9. used' <= Cardinality(Points(rest, flight')) + Counted' + unheard' * MostPoints
  <2>1. CASE q \notin T
    <3>1. rest = T
      BY <2>1
    <3>2. unheard' * MostPoints >= unheard * MostPoints /\ unheard' * MostPoints \in Nat
      BY <1>1, <1>3
    <3> HIDE DEF rest
    <3> QED BY <1>1, <1>2, <1>3, <1>4, <1>7, <1>8, <3>1, <3>2
  <2>2. CASE q \in T
    <3>1. flight[q].cost \in 0..MostPoints /\ flight[q].cost \in Nat /\ A!Is(q, "answered")
      BY <1>4, <2>2, RequestsOfWindow, OutIsTyped
    <3>2. rest \cup {q} = T
      BY <2>2
    <3> HIDE DEF rest
    <3>3. Cardinality(Points(T, flight)) = Cardinality(Points(rest, flight)) + flight[q].cost
      <4>1. ASSUME NEW c \in 0..MostPoints, flight[q].cost = c
            PROVE  Cardinality(Points(rest \cup {q}, flight)) = Cardinality(Points(rest, flight)) + c
        BY <1>3, <1>5, <4>1, PointsAdd
      <4> QED BY <3>1, <3>2, <4>1
    <3>4. unheard' * MostPoints = unheard * MostPoints + MostPoints
      BY <1>1, <1>3, <3>1
    <3> QED BY <1>1, <1>2, <1>3, <1>4, <1>7, <1>8, <3>1, <3>3, <3>4
  <2> QED BY <2>1, <2>2
<1> QED BY <1>5, <1>6, <1>9 DEF AllIsAccounted

LEMMA TickAccounts ==
  ASSUME AllowanceTyped, AllowanceTyped', EndsAreTrue, AllIsAccounted, A!Tick
  PROVE  AllIsAccounted'
<1> SUFFICES ASSUME ~misled', ends' > 0 PROVE AllIsAccounted'
  BY DEF AllIsAccounted
<1>1. /\ UNCHANGED <<used, unheard, charged, misled>> /\ ends' = A!Passed(ends) /\ ends \in Nat
      /\ resetAt' = IF resetAt = None \/ resetAt = -Slack THEN resetAt ELSE resetAt - 1
  BY DEF A!Tick, AllowanceTyped
<1>2. ends > 0 /\ ends' = ends - 1
  BY <1>1 DEF A!Passed
<1>3. Counted' >= Counted
  <2>1. CASE A!Live
    <3>1. resetAt = ends
      BY <1>1, <2>1 DEF EndsAreTrue, A!Live
    <3>2. resetAt \in Nat /\ resetAt # None /\ resetAt > 0 /\ Slack \in Nat
      BY <1>1, <1>2, <2>1, <3>1, AllowanceAssumption DEF A!Live
    <3>3. resetAt' = resetAt - 1
      BY <1>1, <3>2
    <3>4. resetAt' > 0 /\ resetAt' # None
      BY <1>2, <3>1, <3>2, <3>3, NoneAssumption
    <3>5. Counted' = charged /\ Counted = charged
      BY <1>1, <2>1, <3>4 DEF Counted, A!Live
    <3> QED BY <3>5 DEF AllowanceTyped
  <2>2. CASE ~A!Live
    BY <2>2, CountedIsNaturalNext DEF Counted
  <2> QED BY <2>1, <2>2
<1>4. PICK T \in SUBSET Request :
        /\ \A r \in T : OfThisWindow(r)
        /\ used <= Cardinality(Points(T, flight)) + Counted + unheard * MostPoints
  BY <1>1, <1>2 DEF AllIsAccounted
<1>5. ASSUME NEW r \in T PROVE OfThisWindow(r)' /\ flight'[r].cost = flight[r].cost
  <2>1. flight[r] \in A!Answered /\ A!Is(r, "answered") /\ flight[r].reset >= ends
    BY <1>4, RequestsOfWindow DEF OfThisWindow
  <2>2. flight'[r] = [flight[r] EXCEPT !.reset = A!Passed(@)]
    BY <2>1 DEF A!Tick
  <2>3. /\ flight'[r].cost = flight[r].cost /\ flight'[r].step = "answered"
        /\ flight'[r].reset = A!Passed(flight[r].reset) /\ flight[r].reset \in Nat
    BY <2>1, <2>2 DEF A!Answered
  <2>4. flight'[r] # None
    <3>1. flight'[r] \in A!Answered
      BY <2>1, <2>2 DEF A!Answered, A!Passed
    <3> QED BY <3>1, LaneAssumption
  <2>5. flight'[r].reset >= ends'
    BY <1>1, <1>2, <2>1, <2>3 DEF A!Passed
  <2> QED BY <2>3, <2>4, <2>5 DEF OfThisWindow
<1> QED BY <1>1, <1>3, <1>4, <1>5, AccountKept

LEMMA AccountGoesOn ==
  ASSUME AllowanceTyped, AllowanceTyped', EndsAreTrue, AllIsAccounted, A!Next
  PROVE  AllIsAccounted'
<1>1. CASE A!ArmMutations
  BY <1>1 DEF A!ArmMutations, A!github, A!ledger, AllIsAccounted, OfThisWindow, Counted, A!Live
<1> QED BY <1>1, SendAccounts, PerformAccounts, ChargeAccounts, LossAccounts, TickAccounts DEF A!Next

----------------------------------------------------------------------------
LEMMA UseFollows ==
  ASSUME AllowanceTyped, OutIsWithin, AllIsAccounted, ends > 0
  PROVE  UseIsBounded
<1> SUFFICES ASSUME ~misled PROVE used <= Most + unheard * MostPoints
  BY DEF UseIsBounded
<1>1. PICK T \in SUBSET Request :
        /\ \A r \in T : OfThisWindow(r)
        /\ used <= Cardinality(Points(T, flight)) + Counted + unheard * MostPoints
  BY DEF AllIsAccounted
<1>2. MostPoints \in Nat /\ charged \in Nat /\ unheard \in Nat /\ used \in Nat /\ Most \in Int
  BY AllowanceAssumption, CapsAreNatural DEF AllowanceTyped
<1>3. IsFiniteSet(T) /\ T \subseteq Flying
  BY <1>1, RequestsOfWindow
<1>4. /\ Cardinality(Points(T, flight)) \in Nat /\ Cardinality(T) \in Nat
      /\ Cardinality(Points(T, flight)) <= Cardinality(T) * MostPoints
  BY <1>2, <1>3, PointsAreBounded
<1>5. Cardinality(T) <= Cardinality(Flying) /\ Cardinality(Flying) \in Nat
  BY <1>3, FlyingIsFinite, FS_Subset
<1>6. /\ Cardinality(T) * MostPoints <= Cardinality(Flying) * MostPoints
      /\ Cardinality(T) * MostPoints \in Nat /\ Cardinality(Flying) * MostPoints \in Nat
      /\ unheard * MostPoints \in Nat
  <2>1. \A k, j, i \in Nat : k <= j => k * i <= j * i /\ k * i \in Nat
    <3> TAKE k, j, i \in Nat
    <3> HAVE k <= j
    <3>1. j * i = k * i + (j - k) * i /\ (j - k) * i \in Nat /\ k * i \in Nat
      OBVIOUS
    <3> QED BY <3>1
  <2> QED BY <1>2, <1>4, <1>5, <2>1
<1>7. Counted \in Nat /\ Counted <= charged
  BY CountedIsNatural
<1>8. charged + Cardinality(Flying) * MostPoints <= Most
  BY DEF OutIsWithin
<1> QED BY <1>1, <1>2, <1>4, <1>6, <1>7, <1>8

LEMMA UseFollowsNow ==
  AllowanceTyped /\ OutIsWithin /\ AllIsAccounted /\ ends > 0 => UseIsBounded
BY UseFollows

LEMMA UseFollowsNext ==
  AllowanceTyped' /\ OutIsWithin' /\ AllIsAccounted' /\ (ends > 0)' => UseIsBounded'
BY UseFollowsNow, PTL

LEMMA AllowanceGoesOn ==
  ASSUME AllowanceOK, A!Next
  PROVE  AllowanceOK'
<1>1. AllowanceTyped' /\ OutIsWithin' /\ EndsAreTrue' /\ AllIsAccounted'
  BY TypesGoOn, OutGoesOn, EndsGoOn, AccountGoesOn DEF AllowanceOK
<1>2. UseIsBounded'
  <2>1. CASE ends' > 0
    BY <1>1, <2>1, UseFollowsNext
  <2>2. CASE ~(ends' > 0)
    <3>1. used' = used /\ unheard' \in {unheard, unheard + 1} /\ (misled => misled')
      <4>1. ASSUME NEW q \in Request, NEW c \in 0..MostPoints, NEW e \in 0..Slack \cup Foreign,
                   A!Performs(q, c, e)
            PROVE  FALSE
        <5>1. ends' = IF ends = 0 THEN Window ELSE ends
          BY <4>1 DEF A!Performs
        <5> QED BY <2>2, <5>1, AllowanceAssumption DEF AllowanceOK, AllowanceTyped
      <4>2. ASSUME NEW q \in Request, NEW mutation \in BOOLEAN, A!Sends(q, mutation)
            PROVE  used' = used /\ unheard' = unheard /\ misled' = misled
        BY <4>2 DEF A!Sends, A!github
      <4>3. ASSUME NEW q \in Request, A!Charges(q)
            PROVE  used' = used /\ unheard' = unheard /\ (misled => misled')
        BY <4>3 DEF A!Charges, A!github
      <4>4. ASSUME NEW q \in Request, A!IsLost(q)
            PROVE  used' = used /\ unheard' \in {unheard, unheard + 1} /\ misled' = misled
        BY <4>4 DEF A!IsLost
      <4>5. CASE A!ArmMutations
        BY <4>5 DEF A!ArmMutations, A!github
      <4>6. CASE A!Tick
        BY <4>6 DEF A!Tick
      <4> QED BY <4>1, <4>2, <4>3, <4>4, <4>5, <4>6 DEF A!Next
    <3>2. unheard * MostPoints \in Nat /\ (unheard + 1) * MostPoints = unheard * MostPoints + MostPoints
      <4>1. \A k, i \in Nat : k * i \in Nat /\ (k + 1) * i = k * i + i
        OBVIOUS
      <4> QED BY <4>1, AllowanceAssumption DEF AllowanceOK, AllowanceTyped
    <3>3. MostPoints \in Nat /\ used \in Nat /\ Most \in Int
      BY AllowanceAssumption, CapsAreNatural DEF AllowanceOK, AllowanceTyped
    <3>4. unheard' * MostPoints \in Nat /\ unheard * MostPoints <= unheard' * MostPoints
      BY <3>1, <3>2, <3>3
    <3>5. ~misled' => used' <= Most + unheard' * MostPoints
      BY <3>1, <3>2, <3>3, <3>4 DEF AllowanceOK, UseIsBounded
    <3> QED BY <3>5 DEF UseIsBounded, Most, A!CapUnder
  <2> QED BY <2>1, <2>2
<1> QED BY <1>1, <1>2 DEF AllowanceOK

LEMMA AllowanceHolds == AllowanceOK => A!LaneStaysWithinShare
<1> SUFFICES ASSUME AllowanceOK, ~misled
             PROVE  used <= A!CapUnder(Limit) + A!OverShoot - 1 + unheard * MostPoints
  BY DEF A!LaneStaysWithinShare
<1>1. used <= A!CapUnder(Limit) - 1 + Cardinality(Request) * MostPoints + unheard * MostPoints
  BY DEF AllowanceOK, UseIsBounded, Most
<1>2. A!OverShoot = Cardinality(Request) * MostPoints
  <2>1. A!Cardinality(Request) = Cardinality(Request)
    BY DEF A!Cardinality, Cardinality
  <2> QED BY <2>1 DEF A!OverShoot
<1>3. /\ A!CapUnder(Limit) \in Nat /\ Cardinality(Request) * MostPoints \in Nat
      /\ unheard * MostPoints \in Nat /\ used \in Nat
  <2>1. \A k, i \in Nat : k * i \in Nat
    OBVIOUS
  <2> QED BY <2>1, CapsAreNatural, AllowanceAssumption DEF AllowanceOK, AllowanceTyped
<1> QED BY <1>1, <1>2, <1>3

AllowanceStays == part = "allowance" => AllowanceOK

\* For any number of requests out at once, answered in any order across the ends of GitHub's
\* windows, drifting, late, lost or of another pool: a lane that no answer misled uses no more
\* of one window than its share and what it had out when it reached it (allowance.ts, http.ts).
THEOREM LaneAlwaysStaysWithinShare == Spec => []LaneStaysWithinShare
<1>1. Init => AllowanceStays
  BY AllowanceStarts DEF Init, AllowanceStays
<1>2. AllowanceStays /\ [Next]_vars => AllowanceStays'
  <2>1. ASSUME AllowanceStays, Next PROVE AllowanceStays'
    BY <2>1, AllowanceGoesOn DEF AllowanceStays, Next
  <2>2. ASSUME AllowanceStays, UNCHANGED vars PROVE AllowanceStays'
    <3>1. UNCHANGED <<ends, used, flight, limit, resetAt, charged, written, unheard, misled>>
          /\ UNCHANGED part
      BY <2>2 DEF vars, allowance
    <3>2. AllowanceOK => AllowanceOK'
      BY <3>1 DEF AllowanceOK, AllowanceTyped, OutIsWithin, EndsAreTrue, AllIsAccounted,
                  UseIsBounded, Flying, Most, A!CapUnder, OfThisWindow, Counted, A!Live
    <3> QED BY <2>2, <3>1, <3>2 DEF AllowanceStays
  <2> QED BY <2>1, <2>2
<1>3. AllowanceStays => LaneStaysWithinShare
  BY AllowanceHolds DEF AllowanceStays, LaneStaysWithinShare
<1> QED BY <1>1, <1>2, <1>3, PTL DEF Spec

-----------------------------------------------------------------------------
(* A dashboard and the checks it reports.                                  *)

AllChecks == {"commits", "mergeConflicts", "linkedIssues", "assignedIssues"}
RowEnds == {"pass", "fail", "undetermined"}
PassesOver ==
  [at : {"idle", "reading", "judging", "gate", "budget", "look", "again", "create", "update", "label", "done"},
   began : Nat, draft : BOOLEAN, from : D!Position, rows : Seq(RowEnds), to : D!Position \cup {Nobody},
   found : Nat \cup {Nobody}, wasTrue : SUBSET AllChecks, quiet : BOOLEAN]
CommentsOf == [id : Nat, body : Seq(RowEnds \cup {"edited"})]

BoardTyped ==
  /\ enabled \in SUBSET AllChecks /\ enabled # {} /\ truth \in [enabled -> BOOLEAN]
  /\ ready \in BOOLEAN /\ label \in D!Position
  /\ human \in Nat /\ doings \in Nat /\ human <= doings
  /\ comments \in Seq(CommentsOf) /\ posted \in Nat /\ others \in 0..CommentCap /\ runs \in Nat
  /\ blind \in BOOLEAN
  /\ pass \in [Lane -> PassesOver]

IsTrueNow == {c \in enabled : truth[c]}

\* What an evaluation was answered, and what it asks for, was so at some instant of it.
EvaluationOK(l) ==
  LET p == pass[l] IN
  /\ p.wasTrue \subseteq enabled /\ (p.at # "idle" => IsTrueNow \subseteq p.wasTrue)
  /\ Len(p.rows) <= Len(D!Checks)
  /\ p.at = "reading" => Len(p.rows) < Len(D!Checks)
  /\ p.at \in {"judging", "gate", "budget", "look", "again", "create", "update", "label"}
       => Len(p.rows) = Len(D!Checks)
  /\ p.at \in {"idle", "reading", "judging"} => p.to = Nobody
  /\ \A i \in 1..Len(p.rows) : p.rows[i] = "pass" => D!Checks[i] \in p.wasTrue
  /\ p.to = "needsReview" => p.wasTrue = enabled /\ ~p.draft /\ p.from # "readyToMerge"

\* An evaluation nothing disturbs has the pull request as its record has it; behind each
\* step of it stands what that step found.
RowsAreTrue(l) == \A i \in 1..Len(pass[l].rows) : pass[l].rows[i] = D!Answered(D!Checks[i])
UndisturbedOK(l) ==
  LET p == pass[l] IN
  p.quiet /\ p.at # "idle" =>
    /\ \A k \in Lane \ {l} : pass[k].at \in {"idle", "done"}
    /\ ready = p.draft /\ human <= p.began /\ RowsAreTrue(l)
    /\ p.at # "done" => label = p.from
    /\ p.at \in {"gate", "budget", "look", "again", "create", "update", "label"} => p.to = D!Target(p)
    /\ p.at \in {"again", "create"} => ~D!Stands
    /\ p.at = "update" => D!Stands /\ Head(comments).id = p.found
    /\ p.at \in {"label", "done"} => IF D!Stands THEN Head(comments).body = p.rows ELSE D!Spent
    /\ p.at = "done" =>
         /\ Len(p.rows) = Len(D!Checks)
         /\ "fail" \in D!Outcomes(p.rows) => label = "needsRevision"
         /\ D!Outcomes(p.rows) = {"pass"} /\ ~p.draft /\ p.from # "readyToMerge" => label = "needsReview"

\* Whoever is about to create saw no comment, so there are no more of them than lanes.
Creating == {l \in Lane : pass[l].at = "create"}
CreationsOK ==
  /\ Len(comments) + Cardinality(Creating) <= Cardinality(Lane)
  /\ ~blind /\ others = CommentCap =>
       /\ comments = <<>>
       /\ \A l \in Lane : pass[l].at \notin {"look", "again", "create", "update"}

BoardOK ==
  /\ BoardTyped /\ CreationsOK
  /\ \A l \in Lane : EvaluationOK(l) /\ UndisturbedOK(l)
----------------------------------------------------------------------------
\* A list of checks with one more added where it is on.
LEMMA OneMoreCheck ==
  ASSUME NEW T, NEW s \in Seq(T), NEW c, NEW m,
         m = IF c \in T THEN <<c>> ELSE <<>>
  PROVE  /\ s \o m \in Seq(T)
         /\ \A i \in 1..Len(s) : i \in 1..Len(s \o m) /\ (s \o m)[i] = s[i]
         /\ c \in T => \E i \in 1..Len(s \o m) : (s \o m)[i] = c
<1>1. CASE c \in T
  <2>1. m = <<c>> /\ m \in Seq(T) /\ Len(m) = 1 /\ m[1] = c
    BY <1>1
  <2>2. s \o m \in Seq(T) /\ Len(s \o m) = Len(s) + 1 /\ Len(s) \in Nat
    BY <2>1, ConcatProperties
  <2>3. \A i \in 1..Len(s) : (s \o m)[i] = s[i]
    BY <2>1, ConcatProperties
  <2>4. (s \o m)[Len(s) + 1] = c
    BY <2>1, <2>2
  <2> QED BY <2>2, <2>3, <2>4
<1>2. CASE c \notin T
  <2>1. s \o m = s
    BY <1>2
  <2> QED BY <1>2, <2>1
<1> QED BY <1>1, <1>2

LEMMA ChecksCover ==
  ASSUME enabled \in SUBSET AllChecks, enabled # {}
  PROVE  /\ D!Checks \in Seq(enabled) /\ Len(D!Checks) \in Nat /\ Len(D!Checks) >= 1
         /\ \A c \in enabled : \E i \in 1..Len(D!Checks) : D!Checks[i] = c
<1> DEFINE m(c) == IF c \in enabled THEN <<c>> ELSE <<>>
           s1 == m("commits")
           s2 == s1 \o m("mergeConflicts")
           s3 == s2 \o m("linkedIssues")
           s4 == s3 \o m("assignedIssues")
<1>1. D!Checks = s4
  BY DEF D!Checks, D!IfOn
<1>2. s1 \in Seq(enabled) /\ ("commits" \in enabled => \E i \in 1..Len(s1) : s1[i] = "commits")
  <2>1. CASE "commits" \in enabled
    <3>1. s1 = <<"commits">>
      BY <2>1
    <3> QED BY <2>1, <3>1
  <2>2. CASE "commits" \notin enabled
    BY <2>2
  <2> QED BY <2>1, <2>2
<1> HIDE DEF s1
<1>3. /\ s2 \in Seq(enabled)
      /\ \A i \in 1..Len(s1) : i \in 1..Len(s2) /\ s2[i] = s1[i]
      /\ "mergeConflicts" \in enabled => \E i \in 1..Len(s2) : s2[i] = "mergeConflicts"
  BY <1>2, OneMoreCheck
<1> HIDE DEF s2
<1>4. /\ s3 \in Seq(enabled)
      /\ \A i \in 1..Len(s2) : i \in 1..Len(s3) /\ s3[i] = s2[i]
      /\ "linkedIssues" \in enabled => \E i \in 1..Len(s3) : s3[i] = "linkedIssues"
  BY <1>3, OneMoreCheck
<1> HIDE DEF s3
<1>5. /\ s4 \in Seq(enabled)
      /\ \A i \in 1..Len(s3) : i \in 1..Len(s4) /\ s4[i] = s3[i]
      /\ "assignedIssues" \in enabled => \E i \in 1..Len(s4) : s4[i] = "assignedIssues"
  BY <1>4, OneMoreCheck
<1> HIDE DEF s4
<1>6. \A c \in enabled : \E i \in 1..Len(s4) : s4[i] = c
  <2>1. \A i \in 1..Len(s1) : i \in 1..Len(s4) /\ s4[i] = s1[i]
    BY <1>3, <1>4, <1>5
  <2>2. \A i \in 1..Len(s2) : i \in 1..Len(s4) /\ s4[i] = s2[i]
    BY <1>4, <1>5
  <2> TAKE c \in enabled
  <2>3. c \in AllChecks
    OBVIOUS
  <2>4. CASE c = "commits"
    BY <1>2, <2>1, <2>4
  <2>5. CASE c = "mergeConflicts"
    BY <1>3, <2>2, <2>5
  <2>6. CASE c = "linkedIssues"
    BY <1>4, <1>5, <2>6
  <2>7. CASE c = "assignedIssues"
    BY <1>5, <2>7
  <2> QED BY <2>3, <2>4, <2>5, <2>6, <2>7 DEF AllChecks
<1>7. Len(s4) \in Nat /\ Len(s4) >= 1
  <2>1. PICK c \in enabled : TRUE
    OBVIOUS
  <2>2. PICK i \in 1..Len(s4) : s4[i] = c
    BY <1>6, <2>1
  <2> QED BY <1>5, <2>2
<1> QED BY <1>1, <1>5, <1>6, <1>7

LEMMA EdgesAreDrawn ==
  /\ D!HasEdge("noPosition", "needsRevision") /\ D!HasEdge("needsReview", "needsRevision")
  /\ D!HasEdge("readyToMerge", "needsRevision")
  /\ D!HasEdge("noPosition", "needsReview") /\ D!HasEdge("needsRevision", "needsReview")
<1> DEFINE a == D!Edge("noPosition", "needsRevision", {"checksFailed"})
           b == D!Edge("needsReview", "needsRevision", {"checksFailed", "reviewRequestedChanges"})
           c == D!Edge("readyToMerge", "needsRevision", {"checksFailed"})
           d == D!Edge("noPosition", "needsReview", {"checksPassed"})
           e == D!Edge("needsRevision", "needsReview", {"revisionResolved"})
<1>1. {a, b, c, d, e} \subseteq D!PrEdges
  BY DEF D!PrEdges, D!NoPosition
<1>2. /\ a.from = "noPosition" /\ a.to = "needsRevision" /\ b.from = "needsReview" /\ b.to = "needsRevision"
      /\ c.from = "readyToMerge" /\ c.to = "needsRevision" /\ d.from = "noPosition" /\ d.to = "needsReview"
      /\ e.from = "needsRevision" /\ e.to = "needsReview"
  BY DEF D!Edge
<1> HIDE DEF a, b, c, d, e
<1> QED BY <1>1, <1>2 DEF D!HasEdge

\* Where the verdict asks for a position and the map draws no edge to it, it is already held.
LEMMA TargetsAreDrawn ==
  ASSUME NEW p \in PassesOver
  PROVE  /\ D!Target(p) \in {Nobody, "needsReview", "needsRevision"}
         /\ D!Target(p) = "needsReview" =>
              D!Outcomes(p.rows) = {"pass"} /\ ~p.draft /\ p.from # "readyToMerge"
         /\ "fail" \in D!Outcomes(p.rows) =>
              D!Target(p) = "needsRevision" \/ (p.from = "needsRevision" /\ D!Target(p) = Nobody)
         /\ D!Outcomes(p.rows) = {"pass"} /\ ~p.draft /\ p.from # "readyToMerge" =>
              D!Target(p) = "needsReview" \/ (p.from = "needsReview" /\ D!Target(p) = Nobody)
<1> DEFINE to == D!PositionFor(p.rows, p.draft, p.from)
<1>1. p.from \in {"noPosition", "needsReview", "needsRevision", "readyToMerge"}
  BY DEF PassesOver, D!Position, D!PrMeanings, D!NoPosition
<1>2. Nobody \notin {"needsReview", "needsRevision", "readyToMerge", "noPosition"}
  BY DashboardAssumption
<1>3. D!Target(p) = IF to # Nobody /\ D!HasEdge(p.from, to) THEN to ELSE Nobody
  BY DEF D!Target
<1>4. CASE "fail" \in D!Outcomes(p.rows)
  <2>1. to = "needsRevision"
    BY <1>4 DEF D!PositionFor
  <2>2. p.from \in {"noPosition", "needsReview", "readyToMerge"} => D!HasEdge(p.from, "needsRevision")
    BY EdgesAreDrawn
  <2>3. D!Outcomes(p.rows) # {"pass"}
    BY <1>4
  <2>4. D!HasEdge("needsRevision", "needsRevision") = FALSE
    BY DEF D!HasEdge, D!PrEdges, D!Edge, D!NoPosition, D!PrMeanings
  <2> QED BY <1>1, <1>2, <1>3, <1>4, <2>1, <2>2, <2>3, <2>4
<1>5. CASE "fail" \notin D!Outcomes(p.rows) /\ D!Outcomes(p.rows) = {"pass"} /\ ~p.draft
           /\ p.from \in {D!NoPosition, "needsRevision"}
  <2>1. to = "needsReview"
    BY <1>5 DEF D!PositionFor
  <2>2. D!HasEdge(p.from, "needsReview")
    BY <1>5, EdgesAreDrawn DEF D!NoPosition
  <2> QED BY <1>2, <1>3, <1>5, <2>1, <2>2 DEF D!NoPosition
<1>6. CASE "fail" \notin D!Outcomes(p.rows)
           /\ ~(D!Outcomes(p.rows) = {"pass"} /\ ~p.draft /\ p.from \in {D!NoPosition, "needsRevision"})
  <2>1. to = Nobody
    BY <1>6 DEF D!PositionFor
  <2> QED BY <1>1, <1>2, <1>3, <1>6, <2>1 DEF D!NoPosition
<1> QED BY <1>4, <1>5, <1>6

----------------------------------------------------------------------------
LEMMA BoardStarts == D!DashboardInit => BoardOK
<1> SUFFICES ASSUME D!DashboardInit PROVE BoardOK
  OBVIOUS
<1> USE DashboardAssumption
<1>1. D!Resting \in PassesOver
  BY DEF D!Resting, PassesOver, D!Position, D!NoPosition
<1>2. BoardTyped
  <2>1. enabled \in SUBSET AllChecks /\ enabled # {} /\ truth \in [enabled -> BOOLEAN]
    BY DEF D!DashboardInit, AllChecks, D!Check
  <2>2. comments \in Seq(CommentsOf)
    BY DEF D!DashboardInit
  <2>3. pass \in [Lane -> PassesOver]
    BY <1>1 DEF D!DashboardInit
  <2>4. /\ ready = FALSE /\ label \in D!Position /\ human = 0 /\ doings = 0
        /\ posted = 0 /\ others \in 0..CommentCap /\ runs = 0 /\ blind = FALSE
    BY DEF D!DashboardInit
  <2>5. ready \in BOOLEAN
    BY <2>4
  <2>6. blind \in BOOLEAN
    BY <2>4
  <2>7. human \in Nat /\ doings \in Nat /\ human <= doings /\ posted \in Nat /\ runs \in Nat
    BY <2>4
  <2> QED BY <2>1, <2>2, <2>3, <2>4, <2>5, <2>6, <2>7 DEF BoardTyped
<1>3. CreationsOK
  <2>1. Creating = {}
    BY DEF D!DashboardInit, D!Resting, Creating
  <2>2. Cardinality(Creating) = 0 /\ Cardinality(Lane) \in Nat
    BY <2>1, FS_EmptySet, FS_CardinalityType
  <2> QED BY <2>2 DEF D!DashboardInit, D!Resting, CreationsOK
<1>4. ASSUME NEW l \in Lane PROVE EvaluationOK(l) /\ UndisturbedOK(l)
  <2>1. /\ pass[l].at = "idle" /\ pass[l].rows = <<>> /\ pass[l].to = Nobody
        /\ pass[l].wasTrue = {} /\ pass[l].quiet = FALSE
    BY DEF D!DashboardInit, D!Resting
  <2>2. Len(D!Checks) \in Nat
    BY <1>2, ChecksCover DEF BoardTyped
  <2>3. EvaluationOK(l)
    <3> SUFFICES /\ Len(pass[l].rows) <= Len(D!Checks)
                 /\ \A i \in 1..Len(pass[l].rows) : pass[l].rows[i] = "pass" => D!Checks[i] \in pass[l].wasTrue
      BY <2>1 DEF EvaluationOK
    <3>1. Len(pass[l].rows) = 0
      BY <2>1
    <3> QED BY <2>2, <3>1
  <2>4. UndisturbedOK(l)
    BY <2>1 DEF UndisturbedOK
  <2> QED BY <2>3, <2>4
<1> QED BY <1>2, <1>3, <1>4 DEF BoardOK

----------------------------------------------------------------------------
LEMMA ChecksStay == enabled' = enabled => D!Checks' = D!Checks
BY DEF D!Checks, D!IfOn

LEMMA CreatorsAreFinite ==
  /\ IsFiniteSet(Creating) /\ Cardinality(Creating) \in Nat /\ Cardinality(Lane) \in Nat
  /\ IsFiniteSet(Creating') /\ Cardinality(Creating') \in Nat
  /\ Cardinality(Creating') <= Cardinality(Lane)
  /\ Creating' \subseteq Creating => Cardinality(Creating') <= Cardinality(Creating)
<1>1. Creating \subseteq Lane /\ Creating' \subseteq Lane /\ IsFiniteSet(Lane)
  BY DashboardAssumption DEF Creating
<1>2. IsFiniteSet(Creating) /\ IsFiniteSet(Creating')
  BY <1>1, FS_Subset
<1> QED BY <1>1, <1>2, FS_Subset, FS_CardinalityType

\* A step that adds no comment and no creator keeps them few.
LEMMA CreationsStay ==
  ASSUME BoardTyped, BoardTyped', CreationsOK, Creating' \subseteq Creating, others' = others,
         Len(comments') <= Len(comments), comments = <<>> => comments' = <<>>,
         ~blind' /\ others = CommentCap =>
           \A k \in Lane : pass'[k].at \in {"look", "again", "create", "update"}
             => pass[k].at \in {"look", "again", "create", "update"},
         blind => blind'
  PROVE  CreationsOK'
<1>1. Len(comments') + Cardinality(Creating') <= Cardinality(Lane)
  <2>1. Len(comments) \in Nat /\ Len(comments') \in Nat
    BY DEF BoardTyped
  <2>2. Cardinality(Creating') <= Cardinality(Creating) /\ Cardinality(Creating') \in Nat
        /\ Cardinality(Creating) \in Nat /\ Cardinality(Lane) \in Nat
    BY CreatorsAreFinite
  <2> QED BY <2>1, <2>2 DEF CreationsOK
<1>2. ~blind' /\ others' = CommentCap =>
        /\ comments' = <<>>
        /\ \A k \in Lane : pass'[k].at \notin {"look", "again", "create", "update"}
  BY DEF CreationsOK
<1> QED BY <1>1, <1>2 DEF CreationsOK

\* Whatever people do disturbs every evaluation, and shows it what is true now.
LEMMA PeopleKeepBoard ==
  ASSUME BoardOK, D!Does, truth' \in [enabled -> BOOLEAN], ready' \in BOOLEAN, label' \in D!Position,
         human' \in human..(doings + 1), comments' \in Seq(CommentsOf),
         Len(comments') <= Len(comments), comments = <<>> => comments' = <<>>
  PROVE  BoardOK'
<1> USE DEF BoardOK
<1>0. doings' = doings + 1 /\ UNCHANGED <<enabled, others, posted, runs, blind>>
  BY DEF D!Does
<1>1. pass' = [l \in Lane |-> [pass[l] EXCEPT !.quiet = FALSE,
                                    !.wasTrue = @ \cup {c \in enabled : truth'[c]}]]
  BY DEF D!Does, D!Check
<1>2. ASSUME NEW l \in Lane
      PROVE  /\ pass'[l] \in PassesOver
             /\ pass'[l].at = pass[l].at /\ pass'[l].began = pass[l].began /\ pass'[l].draft = pass[l].draft
             /\ pass'[l].from = pass[l].from /\ pass'[l].rows = pass[l].rows /\ pass'[l].to = pass[l].to
             /\ pass'[l].quiet = FALSE
             /\ pass'[l].wasTrue = pass[l].wasTrue \cup {c \in enabled : truth'[c]}
  <2>1. pass[l] \in PassesOver
    BY DEF BoardTyped
  <2>2. pass'[l] = [pass[l] EXCEPT !.quiet = FALSE, !.wasTrue = @ \cup {c \in enabled : truth'[c]}]
    BY <1>1
  <2>3. enabled \subseteq AllChecks
    BY DEF BoardTyped
  <2> QED BY <2>1, <2>2, <2>3 DEF PassesOver
<1>3. BoardTyped'
  <2>1. pass' \in [Lane -> PassesOver]
    BY <1>1, <1>2
  <2>2. human' \in Nat /\ doings' \in Nat /\ human' <= doings'
    BY <1>0 DEF BoardTyped
  <2> QED BY <1>0, <2>1, <2>2 DEF BoardTyped
<1>4. CreationsOK'
  <2>1. Creating' \subseteq Creating
    BY <1>2 DEF Creating
  <2> QED BY <1>0, <1>2, <1>3, <2>1, CreationsStay
<1>5. ASSUME NEW l \in Lane PROVE EvaluationOK(l)' /\ UndisturbedOK(l)'
  <2>1. D!Checks' = D!Checks
    BY <1>0, ChecksStay
  <2>2. IsTrueNow' \subseteq pass'[l].wasTrue /\ pass'[l].wasTrue \subseteq enabled'
        /\ pass[l].wasTrue \subseteq pass'[l].wasTrue /\ enabled' = enabled
    <3>1. IsTrueNow' = {c \in enabled : truth'[c]}
      BY <1>0 DEF IsTrueNow
    <3>2. pass[l].wasTrue \subseteq enabled
      BY DEF EvaluationOK
    <3> QED BY <1>0, <1>2, <3>1, <3>2
  <2>3. EvaluationOK(l)'
    BY <1>2, <2>1, <2>2 DEF EvaluationOK
  <2> QED BY <1>2, <2>3 DEF UndisturbedOK
<1> QED BY <1>3, <1>4, <1>5

LEMMA RemovedIsShorter ==
  ASSUME comments \in Seq(CommentsOf), NEW i \in DOMAIN comments
  PROVE  /\ SubSeq(comments, 1, i - 1) \o SubSeq(comments, i + 1, Len(comments)) \in Seq(CommentsOf)
         /\ Len(SubSeq(comments, 1, i - 1) \o SubSeq(comments, i + 1, Len(comments))) <= Len(comments)
         /\ comments # <<>>
<1>1. i \in 1..Len(comments) /\ Len(comments) \in Nat /\ i \in Nat
  OBVIOUS
<1>2. SubSeq(comments, 1, i - 1) \in Seq(CommentsOf) /\ Len(SubSeq(comments, 1, i - 1)) = i - 1
  BY <1>1
<1>3. SubSeq(comments, i + 1, Len(comments)) \in Seq(CommentsOf)
      /\ Len(SubSeq(comments, i + 1, Len(comments))) = Len(comments) - i
  BY <1>1
<1> QED BY <1>1, <1>2, <1>3

LEMMA PeopleGoOn ==
  ASSUME BoardOK,
         \/ \E c \in D!Check : D!Turns(c)
         \/ D!TurnsDraft \/ \E position \in D!Position : D!Relabels(position)
         \/ \E i \in DOMAIN comments : D!EditsComment(i) \/ D!DeletesComment(i)
  PROVE  BoardOK'
<1>0. /\ truth \in [enabled -> BOOLEAN] /\ ready \in BOOLEAN /\ label \in D!Position
      /\ comments \in Seq(CommentsOf) /\ Len(comments) \in Nat
      /\ human \in Nat /\ doings \in Nat /\ human <= doings
  BY DEF BoardOK, BoardTyped
<1>1. ASSUME NEW c \in D!Check, D!Turns(c) PROVE BoardOK'
  <2>1. truth' \in [enabled -> BOOLEAN]
    BY <1>0, <1>1 DEF D!Turns, D!Check
  <2>2. human' \in human..(doings + 1)
    BY <1>0, <1>1 DEF D!Turns, D!Dates
  <2> QED BY <1>0, <1>1, <2>1, <2>2, PeopleKeepBoard DEF D!Turns
<1>2. CASE D!TurnsDraft
  BY <1>0, <1>2, PeopleKeepBoard DEF D!TurnsDraft
<1>3. ASSUME NEW position \in D!Position, D!Relabels(position) PROVE BoardOK'
  BY <1>0, <1>3, PeopleKeepBoard DEF D!Relabels
<1>4. ASSUME NEW i \in DOMAIN comments, D!EditsComment(i) PROVE BoardOK'
  <2>1. D!Edited \in Seq(RowEnds \cup {"edited"})
    BY DEF D!Edited
  <2>2. comments' = [comments EXCEPT ![i].body = D!Edited]
    BY <1>4 DEF D!EditsComment
  <2>3. /\ comments' \in Seq(CommentsOf) /\ Len(comments') = Len(comments)
        /\ comments = <<>> => comments' = <<>>
    <3>1. comments[i] \in CommentsOf
      BY <1>0
    <3>2. [comments[i] EXCEPT !.body = D!Edited] \in CommentsOf
      BY <2>1, <3>1 DEF CommentsOf
    <3>3. comments # <<>>
      BY <1>0
    <3> QED BY <1>0, <2>2, <3>2, <3>3
  <2> QED BY <1>0, <1>4, <2>3, PeopleKeepBoard DEF D!EditsComment
<1>5. ASSUME NEW i \in DOMAIN comments, D!DeletesComment(i) PROVE BoardOK'
  <2>1. /\ comments' \in Seq(CommentsOf) /\ Len(comments') <= Len(comments) /\ comments # <<>>
    BY <1>0, <1>5, RemovedIsShorter DEF D!DeletesComment
  <2> QED BY <1>0, <1>5, <2>1, PeopleKeepBoard DEF D!DeletesComment
<1> QED BY <1>1, <1>2, <1>3, <1>4, <1>5

----------------------------------------------------------------------------
LEMMA BegunIsSound ==
  ASSUME BoardOK, NEW l \in Lane, D!Begins(l)
  PROVE  BoardOK'
<1> USE DEF BoardOK
<1> DEFINE fresh == [D!Resting EXCEPT !.at = "reading", !.began = doings, !.draft = ready, !.from = label,
                       !.wasTrue = {c \in enabled : truth[c]}, !.quiet = D!Alone(l)]
<1>1. /\ pass[l].at \in {"idle", "done"} /\ runs' = runs + Len(D!Checks)
      /\ UNCHANGED <<enabled, truth, ready, label, human, doings, comments, others, posted, blind>>
  BY DEF D!Begins, D!gitHub
<1>2. pass' = [k \in Lane |-> IF k = l THEN fresh ELSE [pass[k] EXCEPT !.quiet = FALSE]]
  BY DEF D!Begins, D!Check
<1>3. /\ enabled \in SUBSET AllChecks /\ enabled # {} /\ label \in D!Position /\ ready \in BOOLEAN
      /\ human \in Nat /\ doings \in Nat /\ human <= doings /\ runs \in Nat
  BY DEF BoardTyped
<1>4. /\ pass'[l] \in PassesOver
      /\ pass'[l].at = "reading" /\ pass'[l].began = doings /\ pass'[l].draft = ready
      /\ pass'[l].from = label /\ pass'[l].rows = <<>> /\ pass'[l].to = Nobody
      /\ pass'[l].wasTrue = {c \in enabled : truth[c]} /\ pass'[l].quiet = D!Alone(l)
  <2>1. pass'[l] = [at |-> "reading", began |-> doings, draft |-> ready, from |-> label, rows |-> <<>>,
                    to |-> Nobody, found |-> Nobody, wasTrue |-> {c \in enabled : truth[c]}, quiet |-> D!Alone(l)]
    BY <1>2 DEF D!Resting
  <2>2. {c \in enabled : truth[c]} \in SUBSET AllChecks /\ D!Alone(l) \in BOOLEAN /\ <<>> \in Seq(RowEnds)
    BY <1>3 DEF D!Alone
  <2> HIDE DEF fresh
  <2>3. pass'[l] \in PassesOver
    BY <1>3, <2>1, <2>2 DEF PassesOver
  <2> QED BY <2>1, <2>3
<1> HIDE DEF fresh
<1>5. ASSUME NEW k \in Lane \ {l}
      PROVE  /\ pass'[k] \in PassesOver
             /\ pass'[k].at = pass[k].at /\ pass'[k].began = pass[k].began /\ pass'[k].draft = pass[k].draft
             /\ pass'[k].from = pass[k].from /\ pass'[k].rows = pass[k].rows /\ pass'[k].to = pass[k].to
             /\ pass'[k].quiet = FALSE /\ pass'[k].wasTrue = pass[k].wasTrue
  <2>1. pass[k] \in PassesOver
    BY DEF BoardTyped
  <2>2. pass'[k] = [pass[k] EXCEPT !.quiet = FALSE]
    BY <1>2
  <2> QED BY <2>1, <2>2 DEF PassesOver
<1>6. D!Checks' = D!Checks /\ Len(D!Checks) \in Nat /\ Len(D!Checks) >= 1
  BY <1>1, <1>3, ChecksStay, ChecksCover
<1>7. BoardTyped'
  <2>1. \A k \in Lane : pass'[k] \in PassesOver
    BY <1>4, <1>5
  <2>2. pass' \in [Lane -> PassesOver]
    BY <1>2, <2>1
  <2>3. runs' \in Nat
    BY <1>1, <1>3, <1>6
  <2> QED BY <1>1, <2>2, <2>3 DEF BoardTyped
<1>8. CreationsOK'
  <2>1. \A k \in Lane : pass'[k].at \in {"look", "again", "create", "update"} => pass[k].at = pass'[k].at
    BY <1>4, <1>5
  <2>2. Creating' \subseteq Creating
    BY <2>1 DEF Creating
  <2>3. comments' = comments /\ others' = others /\ blind' = blind /\ Len(comments) \in Nat
    BY <1>1 DEF BoardTyped
  <2> QED BY <1>7, <2>1, <2>2, <2>3, CreationsStay
<1>9. ASSUME NEW k \in Lane PROVE EvaluationOK(k)' /\ UndisturbedOK(k)'
  <2>1. IsTrueNow' = IsTrueNow /\ enabled' = enabled
    BY <1>1 DEF IsTrueNow
  <2>2. CASE k = l
    <3>1. Len(pass'[l].rows) = 0
      BY <1>4
    <3>2. EvaluationOK(l)'
      <4>1. pass'[l].wasTrue \subseteq enabled' /\ IsTrueNow' \subseteq pass'[l].wasTrue
        BY <1>4, <2>1 DEF IsTrueNow
      <4>2. pass'[l].to # "needsReview"
        BY <1>4, DashboardAssumption
      <4> QED BY <1>4, <1>6, <3>1, <4>1, <4>2 DEF EvaluationOK
    <3>3. UndisturbedOK(l)'
      <4> SUFFICES ASSUME pass'[l].quiet PROVE UndisturbedOK(l)'
        BY DEF UndisturbedOK
      <4>1. \A j \in Lane \ {l} : pass'[j].at \in {"idle", "done"}
        BY <1>4, <1>5 DEF D!Alone
      <4>2. ready' = pass'[l].draft /\ human' <= pass'[l].began /\ label' = pass'[l].from
        BY <1>1, <1>3, <1>4
      <4>3. RowsAreTrue(l)'
        BY <3>1 DEF RowsAreTrue
      <4> QED BY <1>4, <4>1, <4>2, <4>3 DEF UndisturbedOK
    <3> QED BY <2>2, <3>2, <3>3
  <2>3. CASE k # l
    <3>1. EvaluationOK(k)
      OBVIOUS
    <3>2. EvaluationOK(k)'
      BY <1>5, <1>6, <2>1, <2>3, <3>1 DEF EvaluationOK
    <3> QED BY <1>5, <2>3, <3>2 DEF UndisturbedOK
  <2> QED BY <2>2, <2>3
<1> QED BY <1>7, <1>8, <1>9

----------------------------------------------------------------------------
\* A step of one evaluation: it had the board to itself, or is not one that counts.
LaneSteps(l) ==
  /\ pass[l].at \notin {"idle", "done"}
  /\ pass' = [pass EXCEPT ![l] = pass'[l]] /\ pass'[l] \in PassesOver
  /\ UNCHANGED <<enabled, truth, ready, human, doings, others, runs>>

LEMMA LaneGoesOn ==
  ASSUME BoardOK, NEW l \in Lane, LaneSteps(l), BoardTyped', CreationsOK',
         EvaluationOK(l)', UndisturbedOK(l)'
  PROVE  BoardOK'
<1> USE DEF BoardOK
<1>1. ASSUME NEW k \in Lane, k # l PROVE EvaluationOK(k)' /\ UndisturbedOK(k)'
  <2>1. pass'[k] = pass[k]
    BY <1>1 DEF LaneSteps, BoardTyped
  <2>2. D!Checks' = D!Checks /\ IsTrueNow' = IsTrueNow /\ enabled' = enabled
    BY ChecksStay DEF LaneSteps, IsTrueNow
  <2>3. EvaluationOK(k) /\ UndisturbedOK(k)
    OBVIOUS
  <2>4. EvaluationOK(k)'
    BY <2>1, <2>2, <2>3 DEF EvaluationOK
  <2>5. ~(pass[k].quiet /\ pass[k].at # "idle")
    BY <1>1, <2>3 DEF UndisturbedOK, LaneSteps
  <2> QED BY <2>1, <2>4, <2>5 DEF UndisturbedOK
<1> QED BY <1>1

\* What a step leaves of the evaluation it takes on.
Keeps(l) ==
  LET p == pass[l]
      q == pass'[l]
  IN /\ q.began = p.began /\ q.draft = p.draft /\ q.from = p.from /\ q.wasTrue = p.wasTrue
     /\ q.quiet => p.quiet

\* A step that reports no row, writes no comment and begins none.
LEMMA PlainStep ==
  ASSUME BoardOK, NEW l \in Lane, LaneSteps(l), Keeps(l), UNCHANGED <<comments, posted>>,
         label' \in D!Position, blind' \in BOOLEAN, blind => blind',
         ~blind' /\ others = CommentCap =>
           (pass'[l].at \in {"look", "again", "create", "update"} =>
              pass[l].at \in {"look", "again", "create", "update"}),
         pass'[l].at = "create" => pass[l].at = "create",
         EvaluationOK(l)', UndisturbedOK(l)'
  PROVE  BoardOK'
<1>1. BoardTyped'
  <2>1. BoardTyped /\ pass' \in [Lane -> PassesOver]
    BY DEF BoardOK, BoardTyped, LaneSteps
  <2> QED BY <2>1 DEF BoardTyped, LaneSteps
<1>2. CreationsOK'
  <2>1. \A k \in Lane \ {l} : pass'[k] = pass[k]
    BY DEF BoardOK, BoardTyped, LaneSteps
  <2>2. Creating' \subseteq Creating
    BY <2>1 DEF Creating
  <2>3. Len(comments) \in Nat /\ comments' = comments /\ others' = others
    BY DEF BoardOK, BoardTyped, LaneSteps
  <2>4. BoardTyped /\ CreationsOK
    BY DEF BoardOK
  <2> QED BY <1>1, <2>1, <2>2, <2>3, <2>4, CreationsStay
<1> QED BY <1>1, <1>2, LaneGoesOn

\* What such a step keeps of the evaluation but for the conditions of its own.
LEMMA PlainKeeps ==
  ASSUME BoardOK, NEW l \in Lane, LaneSteps(l), Keeps(l), pass'[l].rows = pass[l].rows,
         Len(pass[l].rows) = Len(D!Checks), pass'[l].at \notin {"idle", "reading"},
         pass'[l].at = "judging" => pass'[l].to = Nobody,
         pass'[l].to = "needsReview" => pass[l].wasTrue = enabled /\ ~pass[l].draft /\ pass[l].from # "readyToMerge"
  PROVE  /\ EvaluationOK(l)'
         /\ pass'[l].quiet =>
              /\ pass[l].quiet
              /\ \A k \in Lane \ {l} : pass'[k].at \in {"idle", "done"}
              /\ ready' = pass'[l].draft /\ human' <= pass'[l].began /\ RowsAreTrue(l)'
              /\ label = pass'[l].from
<1>1. EvaluationOK(l) /\ UndisturbedOK(l) /\ BoardTyped
  BY DEF BoardOK
<1>2. /\ D!Checks' = D!Checks /\ IsTrueNow' = IsTrueNow /\ enabled' = enabled /\ truth' = truth
      /\ Len(D!Checks) \in Nat
  BY <1>1, ChecksStay, ChecksCover DEF LaneSteps, IsTrueNow, BoardTyped
<1>3. EvaluationOK(l)'
  BY <1>1, <1>2 DEF EvaluationOK, Keeps, LaneSteps
<1>4. ASSUME pass'[l].quiet
      PROVE  /\ pass[l].quiet
             /\ \A k \in Lane \ {l} : pass'[k].at \in {"idle", "done"}
             /\ ready' = pass'[l].draft /\ human' <= pass'[l].began /\ RowsAreTrue(l)'
             /\ label = pass'[l].from
  <2>1. pass[l].quiet /\ pass[l].at \notin {"idle", "done"}
    BY <1>4 DEF Keeps, LaneSteps
  <2>2. \A k \in Lane \ {l} : pass'[k] = pass[k]
    BY <1>1 DEF LaneSteps, BoardTyped
  <2>3. \A c : D!Answered(c)' = D!Answered(c)
    BY <1>2 DEF D!Answered
  <2>4. RowsAreTrue(l) => RowsAreTrue(l)'
    BY <1>2, <2>3 DEF RowsAreTrue
  <2> QED BY <1>1, <2>1, <2>2, <2>4 DEF UndisturbedOK, Keeps, LaneSteps
<1> QED BY <1>3, <1>4

----------------------------------------------------------------------------
LEMMA Entered ==
  ASSUME BoardOK, NEW l \in Lane, NEW q \in PassesOver, D!Enter(l, q)
  PROVE  pass'[l] = q /\ pass' = [pass EXCEPT ![l] = pass'[l]]
<1>1. pass \in [Lane -> PassesOver] /\ pass' = [pass EXCEPT ![l] = q]
  BY DEF D!Enter, BoardOK, BoardTyped
<1> QED BY <1>1

\* What holds of any evaluation a step finds.
LEMMA Found ==
  ASSUME BoardOK, NEW l \in Lane
  PROVE  /\ pass[l] \in PassesOver /\ EvaluationOK(l) /\ UndisturbedOK(l)
         /\ enabled \in SUBSET AllChecks /\ enabled # {} /\ truth \in [enabled -> BOOLEAN]
         /\ label \in D!Position /\ blind \in BOOLEAN /\ comments \in Seq(CommentsOf)
         /\ D!Checks \in Seq(enabled) /\ Len(D!Checks) \in Nat /\ Len(D!Checks) >= 1
BY ChecksCover DEF BoardOK, BoardTyped

\* Where every row is a pass, every check was.
LEMMA AllPassed ==
  ASSUME BoardOK, NEW l \in Lane, Len(pass[l].rows) = Len(D!Checks), D!Outcomes(pass[l].rows) = {"pass"}
  PROVE  pass[l].wasTrue = enabled
<1>1. /\ pass[l].rows \in Seq(RowEnds) /\ pass[l].wasTrue \subseteq enabled
      /\ \A i \in 1..Len(pass[l].rows) : pass[l].rows[i] = "pass" => D!Checks[i] \in pass[l].wasTrue
  BY Found DEF EvaluationOK, PassesOver
<1>2. \A i \in 1..Len(pass[l].rows) : pass[l].rows[i] = "pass"
  <2>1. DOMAIN pass[l].rows = 1..Len(pass[l].rows)
    BY <1>1
  <2>2. \A i \in DOMAIN pass[l].rows : pass[l].rows[i] \in {"pass"}
    BY DEF D!Outcomes
  <2> QED BY <2>1, <2>2
<1>3. \A c \in enabled : \E i \in 1..Len(D!Checks) : D!Checks[i] = c
  BY ChecksCover, Found
<1> QED BY <1>1, <1>2, <1>3

\* A report that is true, or none, of the check whose turn it is.
LEMMA ReportGoesOn ==
  ASSUME BoardOK, NEW l \in Lane, NEW c, D!Asks(l, c), NEW told \in {D!Answered(c), "undetermined"},
         D!Reports(l, told), D!Rest, UNCHANGED <<comments, posted, blind>>
  PROVE  BoardOK'
<1> DEFINE p == pass[l]
           q == pass'[l]
<1>1. /\ p \in PassesOver /\ p.rows \in Seq(RowEnds) /\ Len(p.rows) \in Nat
      /\ p.at = "reading" /\ D!Checks[Len(p.rows) + 1] = c
  BY Found DEF D!Asks, PassesOver
<1>2. EvaluationOK(l) /\ UndisturbedOK(l)
  BY Found
<1>3. Len(p.rows) < Len(D!Checks) /\ D!Checks \in Seq(enabled) /\ Len(D!Checks) \in Nat /\ c \in enabled
  <2>1. Len(p.rows) < Len(D!Checks)
    BY <1>1, <1>2 DEF EvaluationOK
  <2>2. D!Checks \in Seq(enabled) /\ Len(D!Checks) \in Nat
    BY Found
  <2>3. Len(p.rows) + 1 \in 1..Len(D!Checks)
    BY <1>1, <2>1, <2>2
  <2> QED BY <1>1, <2>1, <2>2, <2>3
<1>4. UNCHANGED <<enabled, truth, ready, label, human, doings, comments, others, posted, runs, blind>>
  BY DEF D!Rest, D!gitHub
<1>5. told \in RowEnds
  BY DEF D!Answered, RowEnds
<1>6. /\ Append(p.rows, told) \in Seq(RowEnds) /\ Len(Append(p.rows, told)) = Len(p.rows) + 1
      /\ \A i \in 1..Len(p.rows) : Append(p.rows, told)[i] = p.rows[i]
      /\ Append(p.rows, told)[Len(p.rows) + 1] = told
  BY <1>1, <1>5
<1>7. LaneSteps(l) /\ Keeps(l) /\ q.rows = Append(p.rows, told) /\ q.to = p.to
      /\ (q.quiet => told # "undetermined")
      /\ q.at = (IF Len(p.rows) + 1 = Len(D!Checks) THEN "judging" ELSE "reading")
  <2> DEFINE to == [p EXCEPT !.rows = Append(@, told), !.quiet = @ /\ told # D!Unanswered,
                      !.at = IF Len(p.rows) + 1 = Len(D!Checks) THEN "judging" ELSE @]
  <2>1. D!Enter(l, to)
    BY DEF D!Reports
  <2>2. /\ to \in PassesOver
        /\ to.began = p.began /\ to.draft = p.draft /\ to.from = p.from /\ to.wasTrue = p.wasTrue
        /\ to.rows = Append(p.rows, told) /\ to.to = p.to /\ to.quiet = (p.quiet /\ told # "undetermined")
        /\ to.at = IF Len(p.rows) + 1 = Len(D!Checks) THEN "judging" ELSE "reading"
    BY <1>1, <1>6 DEF PassesOver, D!Unanswered
  <2> HIDE DEF to
  <2>3. q = to /\ pass' = [pass EXCEPT ![l] = pass'[l]]
    BY <2>1, <2>2, Entered
  <2>4. LaneSteps(l)
    BY <1>1, <1>4, <2>2, <2>3 DEF LaneSteps
  <2>5. Keeps(l)
    BY <2>2, <2>3 DEF Keeps
  <2> QED BY <2>2, <2>3, <2>4, <2>5
<1> HIDE DEF q
<1>8. D!Checks' = D!Checks /\ IsTrueNow' = IsTrueNow /\ \A d : D!Answered(d)' = D!Answered(d)
  BY <1>4, ChecksStay DEF IsTrueNow, D!Answered
<1>9. \A i \in 1..Len(q.rows) : i \in 1..Len(p.rows) \/ (i = Len(p.rows) + 1 /\ q.rows[i] = told /\ D!Checks[i] = c)
  BY <1>1, <1>6, <1>7
<1>10. EvaluationOK(l)'
  <2>1. told = "pass" => c \in p.wasTrue
    <3>1. ASSUME told = "pass" PROVE truth[c]
      BY <3>1 DEF D!Answered
    <3>2. IsTrueNow \subseteq p.wasTrue
      BY <1>1, <1>2 DEF EvaluationOK
    <3> QED BY <1>3, <3>1, <3>2 DEF IsTrueNow
  <2>2. \A i \in 1..Len(q.rows) : q.rows[i] = "pass" => D!Checks[i] \in p.wasTrue
    BY <1>2, <1>6, <1>7, <1>9, <2>1 DEF EvaluationOK
  <2>3. Len(q.rows) = Len(p.rows) + 1
    BY <1>6, <1>7
  <2>4. q.to = Nobody /\ Nobody # "needsReview"
    BY <1>1, <1>2, <1>7, DashboardAssumption DEF EvaluationOK
  <2>5. p.wasTrue \subseteq enabled /\ IsTrueNow \subseteq p.wasTrue
    BY <1>1, <1>2 DEF EvaluationOK
  <2> QED BY <1>1, <1>3, <1>4, <1>7, <1>8, <2>2, <2>3, <2>4, <2>5 DEF EvaluationOK, Keeps, q
<1>11. UndisturbedOK(l)'
  <2> SUFFICES ASSUME q.quiet PROVE UndisturbedOK(l)'
    BY DEF UndisturbedOK, q
  <2>1. /\ \A k \in Lane \ {l} : pass[k].at \in {"idle", "done"}
        /\ ready = p.draft /\ human <= p.began /\ RowsAreTrue(l) /\ label = p.from
    BY <1>1, <1>2, <1>7 DEF UndisturbedOK, Keeps, q
  <2>2. \A k \in Lane \ {l} : pass'[k] = pass[k]
    BY <1>7 DEF LaneSteps, BoardOK, BoardTyped
  <2>3. told = D!Answered(c)
    BY <1>7
  <2>4. \A i \in 1..Len(q.rows) : q.rows[i] = D!Answered(D!Checks[i])
    BY <1>6, <1>7, <1>9, <2>1, <2>3 DEF RowsAreTrue
  <2>5. RowsAreTrue(l)'
    BY <1>8, <2>4 DEF RowsAreTrue, q
  <2>6. q.at \in {"reading", "judging"}
    BY <1>7
  <2> QED BY <1>4, <1>7, <2>1, <2>2, <2>5, <2>6 DEF UndisturbedOK, Keeps, q
<1>12. q.at \notin {"look", "again", "create", "update"}
  BY <1>7
<1> QED BY <1>4, <1>7, <1>10, <1>11, <1>12, Found, PlainStep DEF q

LEMMA ReadsGoOn ==
  ASSUME BoardOK, NEW l \in Lane,
         D!ReadsCommits(l) \/ D!ReadsMergeable(l) \/ D!ReadsLinks(l) \/ D!ReadsAssignees(l) \/ D!CannotAsk(l)
  PROVE  BoardOK'
<1>1. ASSUME NEW c, D!Reads(l, c) PROVE BoardOK'
  <2>1. PICK ok \in BOOLEAN : D!Reports(l, IF ok THEN D!Answered(c) ELSE D!Unanswered)
    BY <1>1 DEF D!Reads
  <2>2. (IF ok THEN D!Answered(c) ELSE D!Unanswered) \in {D!Answered(c), "undetermined"}
    BY DEF D!Unanswered
  <2> QED BY <1>1, <2>1, <2>2, ReportGoesOn DEF D!Reads
<1>2. CASE D!CannotAsk(l)
  BY <1>2, ReportGoesOn DEF D!CannotAsk
<1> QED BY <1>1, <1>2 DEF D!ReadsCommits, D!ReadsMergeable, D!ReadsLinks, D!ReadsAssignees

----------------------------------------------------------------------------
\* An evaluation past its rows takes a plain step.
LEMMA StepGoesOn ==
  ASSUME BoardOK, NEW l \in Lane, NEW q \in PassesOver, D!Enter(l, q),
         UNCHANGED <<enabled, truth, ready, human, doings, others, runs>>,
         pass[l].at \in {"judging", "gate", "budget", "look", "again", "create", "update", "label"},
         q.began = pass[l].began, q.draft = pass[l].draft, q.from = pass[l].from, q.wasTrue = pass[l].wasTrue,
         q.rows = pass[l].rows, q.quiet => pass[l].quiet,
         q.at \in {"gate", "budget", "look", "again", "create", "update", "label", "done"},
         q.to = pass[l].to \/ (q.to = D!Target(pass[l]))
  PROVE  /\ LaneSteps(l) /\ Keeps(l) /\ pass'[l] = q
         /\ D!Target(q) = D!Target(pass[l])
         /\ EvaluationOK(l)'
         /\ q.quiet =>
              /\ pass[l].quiet
              /\ \A k \in Lane \ {l} : pass'[k].at \in {"idle", "done"}
              /\ ready' = q.draft /\ human' <= q.began /\ RowsAreTrue(l)'
              /\ label = q.from
<1>1. pass'[l] = q /\ pass' = [pass EXCEPT ![l] = pass'[l]]
  BY Entered
<1>2. LaneSteps(l) /\ Keeps(l)
  BY <1>1 DEF LaneSteps, Keeps
<1>3. D!Target(q) = D!Target(pass[l])
  BY DEF D!Target
<1>4. Len(pass[l].rows) = Len(D!Checks) /\ pass[l] \in PassesOver
  BY Found DEF EvaluationOK
<1>5. q.to = "needsReview" => pass[l].wasTrue = enabled /\ ~pass[l].draft /\ pass[l].from # "readyToMerge"
  <2>1. CASE q.to = pass[l].to
    BY <2>1, Found DEF EvaluationOK
  <2>2. CASE q.to = D!Target(pass[l])
    BY <1>4, <2>2, TargetsAreDrawn, AllPassed
  <2> QED BY <2>1, <2>2
<1> QED BY <1>1, <1>2, <1>3, <1>4, <1>5, PlainKeeps

LEMMA JudgedIsSound ==
  ASSUME BoardOK, NEW l \in Lane, D!Judges(l)
  PROVE  BoardOK'
<1> DEFINE p == pass[l]
           q == IF D!Outcomes(p.rows) = {"undetermined"} \/ human > p.began THEN [p EXCEPT !.at = "done"]
                ELSE [p EXCEPT !.at = "gate", !.to = D!Target(p)]
<1>1. /\ p.at = "judging" /\ D!Enter(l, q)
      /\ UNCHANGED <<enabled, truth, ready, label, human, doings, comments, others, posted, runs, blind>>
  BY DEF D!Judges, D!Rest, D!gitHub
<1>2. p \in PassesOver /\ D!Target(p) \in D!Position \cup {Nobody}
  BY Found, TargetsAreDrawn DEF D!Position, D!PrMeanings
<1>3. /\ q \in PassesOver /\ q.began = p.began /\ q.draft = p.draft /\ q.from = p.from /\ q.wasTrue = p.wasTrue
      /\ q.rows = p.rows /\ q.quiet = p.quiet /\ q.at \in {"gate", "done"}
      /\ q.at = "done" => q.to = p.to /\ (D!Outcomes(p.rows) = {"undetermined"} \/ human > p.began)
      /\ q.at = "gate" => q.to = D!Target(p)
  BY <1>2 DEF PassesOver
<1> HIDE DEF q
<1>4. /\ LaneSteps(l) /\ Keeps(l) /\ pass'[l] = q /\ EvaluationOK(l)' /\ D!Target(q) = D!Target(p)
      /\ q.quiet =>
           /\ p.quiet /\ \A k \in Lane \ {l} : pass'[k].at \in {"idle", "done"}
           /\ ready' = q.draft /\ human' <= q.began /\ RowsAreTrue(l)' /\ label = q.from
  BY <1>1, <1>3, StepGoesOn
<1>5. q.at = "done" => ~p.quiet
  <2> SUFFICES ASSUME q.at = "done", p.quiet PROVE FALSE
    OBVIOUS
  <2>1. /\ p.began \in Nat /\ human \in Nat /\ human <= p.began /\ RowsAreTrue(l)
        /\ Len(p.rows) = Len(D!Checks) /\ p.rows \in Seq(RowEnds)
    BY <1>1, <1>2, Found DEF UndisturbedOK, EvaluationOK, PassesOver, BoardOK, BoardTyped
  <2>2. D!Outcomes(p.rows) = {"undetermined"}
    BY <1>3, <2>1
  <2>3. 1 \in 1..Len(p.rows) /\ 1 \in DOMAIN p.rows
    BY <2>1, Found
  <2>4. p.rows[1] = "undetermined"
    BY <2>2, <2>3 DEF D!Outcomes
  <2>5. p.rows[1] \in {"pass", "fail"}
    BY <2>1, <2>3 DEF RowsAreTrue, D!Answered
  <2> QED BY <2>4, <2>5
<1>6. UndisturbedOK(l)'
  <2> SUFFICES ASSUME q.quiet PROVE UndisturbedOK(l)'
    BY <1>4 DEF UndisturbedOK
  <2>1. q.at = "gate"
    BY <1>3, <1>5
  <2>2. q.to = D!Target(q)
    BY <1>3, <1>4, <2>1
  <2> QED BY <1>1, <1>4, <2>1, <2>2 DEF UndisturbedOK
<1> QED BY <1>1, <1>3, <1>4, <1>6, Found, PlainStep

LEMMA GatedIsSound ==
  ASSUME BoardOK, NEW l \in Lane, D!GatesComment(l)
  PROVE  BoardOK'
<1> DEFINE p == pass[l]
           q == [p EXCEPT !.at = IF D!Permits(p) THEN "budget" ELSE "label"]
<1>1. /\ p.at = "gate" /\ D!Enter(l, q)
      /\ UNCHANGED <<enabled, truth, ready, label, human, doings, comments, others, posted, runs, blind>>
  BY DEF D!GatesComment, D!Rest, D!gitHub
<1>2. p \in PassesOver /\ UndisturbedOK(l)
  BY Found
<1>3. /\ q \in PassesOver /\ q.began = p.began /\ q.draft = p.draft /\ q.from = p.from /\ q.wasTrue = p.wasTrue
      /\ q.rows = p.rows /\ q.quiet = p.quiet /\ q.to = p.to
      /\ q.at = IF D!Permits(p) THEN "budget" ELSE "label"
  BY <1>2 DEF PassesOver
<1> HIDE DEF q
<1>4. /\ LaneSteps(l) /\ Keeps(l) /\ pass'[l] = q /\ EvaluationOK(l)' /\ D!Target(q) = D!Target(p)
      /\ q.quiet =>
           /\ p.quiet /\ \A k \in Lane \ {l} : pass'[k].at \in {"idle", "done"}
           /\ ready' = q.draft /\ human' <= q.began /\ RowsAreTrue(l)' /\ label = q.from
  BY <1>1, <1>3, StepGoesOn
<1>5. UndisturbedOK(l)'
  <2> SUFFICES ASSUME q.quiet PROVE UndisturbedOK(l)'
    BY <1>4 DEF UndisturbedOK
  <2>1. p.to = D!Target(p) /\ human <= p.began /\ label = p.from
    BY <1>1, <1>2, <1>4 DEF UndisturbedOK
  <2>2. q.at = "budget"
    BY <1>3, <2>1 DEF D!Permits
  <2> QED BY <1>1, <1>3, <1>4, <2>1, <2>2 DEF UndisturbedOK
<1> QED BY <1>1, <1>3, <1>4, <1>5, Found, PlainStep

LEMMA HeldIsSound ==
  ASSUME BoardOK, NEW l \in Lane, D!Holds(l)
  PROVE  BoardOK'
<1> DEFINE p == pass[l]
           told == [p EXCEPT !.at = IF ~D!Stands /\ D!Spent THEN "label" ELSE "look"]
           untold == [p EXCEPT !.at = "look", !.quiet = FALSE]
<1>1. /\ p.at = "budget"
      /\ \/ D!Enter(l, told) /\ blind' = blind
         \/ D!Enter(l, untold) /\ blind' = TRUE
      /\ UNCHANGED <<enabled, truth, ready, label, human, doings, comments, others, posted, runs>>
  BY DEF D!Holds, D!Rest, D!gitHub
<1>2. p \in PassesOver /\ UndisturbedOK(l)
  BY Found
<1>3. /\ told \in PassesOver /\ told.began = p.began /\ told.draft = p.draft /\ told.from = p.from
      /\ told.wasTrue = p.wasTrue /\ told.rows = p.rows /\ told.quiet = p.quiet /\ told.to = p.to
      /\ told.at = (IF ~D!Stands /\ D!Spent THEN "label" ELSE "look")
  BY <1>2 DEF PassesOver
<1>4. /\ untold \in PassesOver /\ untold.began = p.began /\ untold.draft = p.draft /\ untold.from = p.from
      /\ untold.wasTrue = p.wasTrue /\ untold.rows = p.rows /\ untold.quiet = FALSE /\ untold.to = p.to
      /\ untold.at = "look"
  BY <1>2 DEF PassesOver
<1> HIDE DEF told, untold
<1>5. CASE D!Enter(l, untold) /\ blind' = TRUE
  <2>1. LaneSteps(l) /\ Keeps(l) /\ pass'[l] = untold /\ EvaluationOK(l)'
    BY <1>1, <1>4, <1>5, StepGoesOn
  <2>2. UndisturbedOK(l)'
    BY <1>4, <2>1 DEF UndisturbedOK
  <2> QED BY <1>1, <1>4, <1>5, <2>1, <2>2, Found, PlainStep
<1>6. CASE D!Enter(l, told) /\ blind' = blind
  <2>1. /\ LaneSteps(l) /\ Keeps(l) /\ pass'[l] = told /\ EvaluationOK(l)' /\ D!Target(told) = D!Target(p)
        /\ told.quiet =>
             /\ p.quiet /\ \A k \in Lane \ {l} : pass'[k].at \in {"idle", "done"}
             /\ ready' = told.draft /\ human' <= told.began /\ RowsAreTrue(l)' /\ label = told.from
    BY <1>1, <1>3, <1>6, StepGoesOn
  <2>2. UndisturbedOK(l)'
    <3> SUFFICES ASSUME told.quiet PROVE UndisturbedOK(l)'
      BY <2>1 DEF UndisturbedOK
    <3>1. p.to = D!Target(p)
      BY <1>1, <1>2, <2>1 DEF UndisturbedOK
    <3>2. told.to = D!Target(told)
      BY <1>3, <2>1, <3>1
    <3>3. told.at = "label" => ~D!Stands' /\ D!Spent'
      BY <1>1, <1>3 DEF D!Stands, D!Spent, D!Created
    <3> QED BY <1>1, <1>3, <2>1, <3>2, <3>3 DEF UndisturbedOK
  <2>3. ~blind' /\ others = CommentCap => told.at = "label"
    <3> SUFFICES ASSUME ~blind', others = CommentCap PROVE told.at = "label"
      OBVIOUS
    <3>1. comments = <<>>
      BY <1>6 DEF BoardOK, CreationsOK
    <3>2. ~D!Stands /\ D!Spent
      BY <3>1, DashboardAssumption DEF D!Stands, D!Spent, D!Created
    <3> QED BY <1>3, <3>2
  <2> QED BY <1>1, <1>3, <1>6, <2>1, <2>2, <2>3, Found, PlainStep
<1> QED BY <1>1, <1>5, <1>6

----------------------------------------------------------------------------
LEMMA LookedIsSound ==
  ASSUME BoardOK, NEW l \in Lane, D!Looks(l)
  PROVE  BoardOK'
<1> DEFINE p == pass[l]
           q == CASE ~D!Stands -> [p EXCEPT !.at = "again"]
                  [] D!Stands /\ D!Says(Head(comments), p.rows) -> [p EXCEPT !.at = "label"]
                  [] OTHER -> [p EXCEPT !.at = "update", !.found = Head(comments).id]
<1>1. /\ p.at = "look" /\ D!Enter(l, q)
      /\ UNCHANGED <<enabled, truth, ready, label, human, doings, comments, others, posted, runs, blind>>
  BY DEF D!Looks, D!Rest, D!gitHub
<1>2. p \in PassesOver /\ UndisturbedOK(l)
  BY Found
<1>3. comments # <<>> => Head(comments).id \in Nat
  <2> SUFFICES ASSUME comments # <<>> PROVE Head(comments).id \in Nat
    OBVIOUS
  <2>1. Head(comments) \in CommentsOf
    BY Found
  <2> QED BY <2>1 DEF CommentsOf
<1>4. /\ q \in PassesOver /\ q.began = p.began /\ q.draft = p.draft /\ q.from = p.from /\ q.wasTrue = p.wasTrue
      /\ q.rows = p.rows /\ q.quiet = p.quiet /\ q.to = p.to
      /\ \/ q.at = "again" /\ ~D!Stands
         \/ q.at = "label" /\ D!Stands /\ Head(comments).body = p.rows
         \/ q.at = "update" /\ D!Stands /\ q.found = Head(comments).id
  <2>1. CASE ~D!Stands
    <3>1. q = [p EXCEPT !.at = "again"]
      BY <2>1
    <3> QED BY <1>2, <2>1, <3>1 DEF PassesOver
  <2>2. CASE D!Stands /\ D!Says(Head(comments), p.rows)
    <3>1. q = [p EXCEPT !.at = "label"]
      BY <2>2
    <3> QED BY <1>2, <2>2, <3>1 DEF PassesOver, D!Says
  <2>3. CASE D!Stands /\ ~D!Says(Head(comments), p.rows)
    <3>1. q = [p EXCEPT !.at = "update", !.found = Head(comments).id]
      BY <2>3
    <3>2. Head(comments).id \in Nat
      BY <1>3, <2>3 DEF D!Stands
    <3> QED BY <1>2, <2>3, <3>1, <3>2 DEF PassesOver
  <2> QED BY <2>1, <2>2, <2>3
<1> HIDE DEF q
<1>5. /\ LaneSteps(l) /\ Keeps(l) /\ pass'[l] = q /\ EvaluationOK(l)' /\ D!Target(q) = D!Target(p)
      /\ q.quiet =>
           /\ p.quiet /\ \A k \in Lane \ {l} : pass'[k].at \in {"idle", "done"}
           /\ ready' = q.draft /\ human' <= q.began /\ RowsAreTrue(l)' /\ label = q.from
  BY <1>1, <1>4, StepGoesOn
<1>6. UndisturbedOK(l)'
  <2> SUFFICES ASSUME q.quiet PROVE UndisturbedOK(l)'
    BY <1>5 DEF UndisturbedOK
  <2>1. p.to = D!Target(p)
    BY <1>1, <1>2, <1>5 DEF UndisturbedOK
  <2>2. q.to = D!Target(q) /\ q.rows = p.rows /\ (D!Stands' <=> D!Stands) /\ comments' = comments
    BY <1>1, <1>4, <1>5, <2>1 DEF D!Stands
  <2> QED BY <1>1, <1>4, <1>5, <2>2 DEF UndisturbedOK
<1> QED BY <1>1, <1>4, <1>5, <1>6, Found, PlainStep

LEMMA LookedAgainIsSound ==
  ASSUME BoardOK, NEW l \in Lane, D!LooksAgain(l)
  PROVE  BoardOK'
<1> DEFINE p == pass[l]
           q == [p EXCEPT !.at = IF D!Stands THEN "label" ELSE "create"]
<1>1. /\ p.at = "again" /\ D!Enter(l, q)
      /\ UNCHANGED <<enabled, truth, ready, label, human, doings, comments, others, posted, runs, blind>>
  BY DEF D!LooksAgain, D!Rest, D!gitHub
<1>2. p \in PassesOver /\ UndisturbedOK(l)
  BY Found
<1>3. /\ q \in PassesOver /\ q.began = p.began /\ q.draft = p.draft /\ q.from = p.from /\ q.wasTrue = p.wasTrue
      /\ q.rows = p.rows /\ q.quiet = p.quiet /\ q.to = p.to
      /\ q.at = IF D!Stands THEN "label" ELSE "create"
  BY <1>2 DEF PassesOver
<1> HIDE DEF q
<1>4. /\ LaneSteps(l) /\ Keeps(l) /\ pass'[l] = q /\ EvaluationOK(l)' /\ D!Target(q) = D!Target(p)
      /\ q.quiet =>
           /\ p.quiet /\ \A k \in Lane \ {l} : pass'[k].at \in {"idle", "done"}
           /\ ready' = q.draft /\ human' <= q.began /\ RowsAreTrue(l)' /\ label = q.from
  BY <1>1, <1>3, StepGoesOn
<1>5. UndisturbedOK(l)'
  <2> SUFFICES ASSUME q.quiet PROVE UndisturbedOK(l)'
    BY <1>4 DEF UndisturbedOK
  <2>1. p.to = D!Target(p) /\ ~D!Stands
    BY <1>1, <1>2, <1>4 DEF UndisturbedOK
  <2>2. q.to = D!Target(q) /\ ~D!Stands' /\ q.at = "create"
    BY <1>1, <1>3, <1>4, <2>1 DEF D!Stands
  <2> QED BY <1>1, <1>4, <2>2 DEF UndisturbedOK
<1>6. CASE D!Stands
  <2>1. q.at = "label"
    BY <1>3, <1>6
  <2> QED BY <1>1, <1>4, <1>5, <2>1, Found, PlainStep
<1>7. CASE ~D!Stands
  <2>1. BoardTyped'
    BY <1>1, <1>4 DEF LaneSteps, BoardOK, BoardTyped
  <2>2. Len(comments') = 0
    BY <1>1, <1>7 DEF D!Stands
  <2>3. Cardinality(Creating') <= Cardinality(Lane) /\ Cardinality(Creating') \in Nat
    BY CreatorsAreFinite
  <2>4. ~blind' => others' # CommentCap
    BY <1>1 DEF BoardOK, CreationsOK
  <2>5. CreationsOK'
    BY <2>2, <2>3, <2>4 DEF CreationsOK
  <2> QED BY <1>4, <1>5, <2>1, <2>5, LaneGoesOn
<1> QED BY <1>6, <1>7

LEMMA CreatedIsSound ==
  ASSUME BoardOK, NEW l \in Lane, D!Creates(l)
  PROVE  BoardOK'
<1> DEFINE p == pass[l]
           q == [p EXCEPT !.at = "label"]
           new == [id |-> posted + 1, body |-> p.rows]
<1>1. /\ p.at = "create" /\ D!Enter(l, q) /\ comments' = Append(comments, new) /\ posted' = posted + 1
      /\ UNCHANGED <<enabled, truth, ready, label, human, doings, others, runs, blind>>
  BY DEF D!Creates, D!Rest, D!gitHub
<1>2. p \in PassesOver /\ UndisturbedOK(l) /\ comments \in Seq(CommentsOf) /\ Len(comments) \in Nat
  BY Found
<1>3. /\ q \in PassesOver /\ q.began = p.began /\ q.draft = p.draft /\ q.from = p.from /\ q.wasTrue = p.wasTrue
      /\ q.rows = p.rows /\ q.quiet = p.quiet /\ q.to = p.to /\ q.at = "label"
  BY <1>2 DEF PassesOver
<1>4. new \in CommentsOf /\ new.body = p.rows /\ posted \in Nat
  <2>1. p.rows \in Seq(RowEnds) /\ posted \in Nat
    BY <1>2 DEF PassesOver, BoardOK, BoardTyped
  <2>2. p.rows \in Seq(RowEnds \cup {"edited"})
    BY <2>1
  <2> QED BY <2>1, <2>2 DEF CommentsOf
<1> HIDE DEF q, new
<1>5. comments' \in Seq(CommentsOf) /\ Len(comments') = Len(comments) + 1
      /\ (comments = <<>> => Head(comments') = new) /\ comments' # <<>>
  BY <1>1, <1>2, <1>4
<1>6. /\ LaneSteps(l) /\ Keeps(l) /\ pass'[l] = q /\ EvaluationOK(l)' /\ D!Target(q) = D!Target(p)
      /\ q.quiet =>
           /\ p.quiet /\ \A k \in Lane \ {l} : pass'[k].at \in {"idle", "done"}
           /\ ready' = q.draft /\ human' <= q.began /\ RowsAreTrue(l)' /\ label = q.from
  BY <1>1, <1>3, StepGoesOn
<1>7. BoardTyped'
  BY <1>1, <1>4, <1>5, <1>6 DEF LaneSteps, BoardOK, BoardTyped
<1>8. CreationsOK'
  <2>1. \A k \in Lane \ {l} : pass'[k] = pass[k]
    BY <1>6 DEF LaneSteps, BoardOK, BoardTyped
  <2>2. Creating' = Creating \ {l} /\ l \in Creating
    BY <1>1, <1>3, <1>6, <2>1 DEF Creating
  <2>3. Cardinality(Creating') = Cardinality(Creating) - 1
    BY <2>2, CreatorsAreFinite, FS_RemoveElement
  <2>4. Len(comments) + Cardinality(Creating) <= Cardinality(Lane)
    BY DEF BoardOK, CreationsOK
  <2>5. Len(comments') + Cardinality(Creating') <= Cardinality(Lane)
    BY <1>2, <1>5, <2>3, <2>4, CreatorsAreFinite
  <2>6. ~blind' => others' # CommentCap
    BY <1>1 DEF BoardOK, CreationsOK
  <2> QED BY <2>5, <2>6 DEF CreationsOK
<1>9. UndisturbedOK(l)'
  <2> SUFFICES ASSUME q.quiet PROVE UndisturbedOK(l)'
    BY <1>6 DEF UndisturbedOK
  <2>1. p.to = D!Target(p) /\ comments = <<>>
    BY <1>1, <1>2, <1>6 DEF UndisturbedOK, D!Stands
  <2>2. q.to = D!Target(q) /\ D!Stands' /\ Head(comments').body = q.rows
    BY <1>3, <1>4, <1>5, <1>6, <2>1 DEF D!Stands
  <2> QED BY <1>1, <1>3, <1>6, <2>2 DEF UndisturbedOK
<1> QED BY <1>6, <1>7, <1>8, <1>9, LaneGoesOn

LEMMA UpdatedIsSound ==
  ASSUME BoardOK, NEW l \in Lane, D!Updates(l)
  PROVE  BoardOK'
<1> DEFINE p == pass[l]
           q == [p EXCEPT !.at = "label"]
           new(i) == IF comments[i].id = p.found THEN [comments[i] EXCEPT !.body = p.rows] ELSE comments[i]
<1>1. /\ p.at = "update" /\ D!Enter(l, q) /\ comments' = [i \in DOMAIN comments |-> new(i)]
      /\ UNCHANGED <<enabled, truth, ready, label, human, doings, others, posted, runs, blind>>
  BY DEF D!Updates, D!Rest, D!gitHub
<1>2. /\ p \in PassesOver /\ UndisturbedOK(l) /\ comments \in Seq(CommentsOf) /\ Len(comments) \in Nat
      /\ DOMAIN comments = 1..Len(comments)
  BY Found
<1>3. /\ q \in PassesOver /\ q.began = p.began /\ q.draft = p.draft /\ q.from = p.from /\ q.wasTrue = p.wasTrue
      /\ q.rows = p.rows /\ q.quiet = p.quiet /\ q.to = p.to /\ q.at = "label"
  BY <1>2 DEF PassesOver
<1>4. \A i \in 1..Len(comments) :
        new(i) \in CommentsOf /\ (comments[i].id = p.found => new(i).body = p.rows)
  <2>1. p.rows \in Seq(RowEnds)
    BY <1>2 DEF PassesOver
  <2>2. p.rows \in Seq(RowEnds \cup {"edited"})
    BY <2>1
  <2>3. \A i \in 1..Len(comments) : comments[i] \in CommentsOf
    BY <1>2
  <2> QED BY <2>2, <2>3 DEF CommentsOf
<1> HIDE DEF q, new
<1>5. /\ comments' \in Seq(CommentsOf) /\ Len(comments') = Len(comments)
      /\ comments # <<>> => Head(comments') = new(1) /\ comments' # <<>> /\ Head(comments) = comments[1]
                            /\ 1 \in 1..Len(comments)
      /\ comments = <<>> => comments' = <<>>
  BY <1>1, <1>2, <1>4
<1>6. /\ LaneSteps(l) /\ Keeps(l) /\ pass'[l] = q /\ EvaluationOK(l)' /\ D!Target(q) = D!Target(p)
      /\ q.quiet =>
           /\ p.quiet /\ \A k \in Lane \ {l} : pass'[k].at \in {"idle", "done"}
           /\ ready' = q.draft /\ human' <= q.began /\ RowsAreTrue(l)' /\ label = q.from
  BY <1>1, <1>3, StepGoesOn
<1>7. BoardTyped'
  BY <1>1, <1>5, <1>6 DEF LaneSteps, BoardOK, BoardTyped
<1>8. CreationsOK'
  <2>1. \A k \in Lane \ {l} : pass'[k] = pass[k]
    BY <1>6 DEF LaneSteps, BoardOK, BoardTyped
  <2>2. Creating' \subseteq Creating
    BY <1>3, <1>6, <2>1 DEF Creating
  <2>3. \A k \in Lane : pass'[k].at \in {"look", "again", "create", "update"} => pass[k].at = pass'[k].at
    BY <1>3, <1>6, <2>1
  <2>4. Len(comments') <= Len(comments)
    BY <1>2, <1>5
  <2> QED BY <1>1, <1>5, <1>7, <2>2, <2>3, <2>4, CreationsStay DEF BoardOK
<1>9. UndisturbedOK(l)'
  <2> SUFFICES ASSUME q.quiet PROVE UndisturbedOK(l)'
    BY <1>6 DEF UndisturbedOK
  <2>1. p.to = D!Target(p) /\ comments # <<>> /\ Head(comments).id = p.found
    BY <1>1, <1>2, <1>6 DEF UndisturbedOK, D!Stands
  <2>2. new(1).body = p.rows
    BY <1>4, <1>5, <2>1
  <2>3. q.to = D!Target(q) /\ D!Stands' /\ Head(comments').body = q.rows
    BY <1>3, <1>5, <1>6, <2>1, <2>2 DEF D!Stands
  <2> QED BY <1>1, <1>3, <1>6, <2>3 DEF UndisturbedOK
<1> QED BY <1>6, <1>7, <1>8, <1>9, LaneGoesOn

LEMMA FailedIsSound ==
  ASSUME BoardOK, NEW l \in Lane, D!CommentFails(l) \/ D!LabelFails(l)
  PROVE  BoardOK'
<1> DEFINE p == pass[l]
<1>1. p \in PassesOver
  BY Found
<1>2. ASSUME NEW after \in {"label", "done"}, D!Enter(l, [p EXCEPT !.at = after, !.quiet = FALSE]),
             p.at \in {"gate", "look", "again", "create", "update", "label"},
             UNCHANGED <<enabled, truth, ready, label, human, doings, comments, others, posted, runs, blind>>
      PROVE  BoardOK'
  <2> DEFINE q == [p EXCEPT !.at = after, !.quiet = FALSE]
  <2>1. /\ q \in PassesOver /\ q.began = p.began /\ q.draft = p.draft /\ q.from = p.from /\ q.wasTrue = p.wasTrue
        /\ q.rows = p.rows /\ q.quiet = FALSE /\ q.to = p.to /\ q.at = after
    BY <1>1 DEF PassesOver
  <2>2. D!Enter(l, q)
    BY <1>2
  <2> HIDE DEF q
  <2>3. LaneSteps(l) /\ Keeps(l) /\ pass'[l] = q /\ EvaluationOK(l)'
    BY <1>2, <2>1, <2>2, StepGoesOn
  <2>4. UndisturbedOK(l)'
    BY <2>1, <2>3 DEF UndisturbedOK
  <2> QED BY <1>2, <2>1, <2>3, <2>4, Found, PlainStep
<1>3. CASE D!CommentFails(l)
  BY <1>2, <1>3 DEF D!CommentFails, D!Rest, D!gitHub
<1>4. CASE D!LabelFails(l)
  BY <1>2, <1>4 DEF D!LabelFails, D!Rest, D!gitHub
<1> QED BY <1>3, <1>4

\* What an undisturbed evaluation leaves: the label its verdict asks for, or already had.
LEMMA MovedIsSound ==
  ASSUME BoardOK, NEW l \in Lane, D!MovesLabel(l)
  PROVE  BoardOK'
<1> DEFINE p == pass[l]
           q == [p EXCEPT !.at = "done"]
<1>1. /\ p.at = "label" /\ D!Enter(l, q)
      /\ label' = IF p.to # Nobody /\ D!Permits(p) THEN p.to ELSE label
      /\ UNCHANGED <<enabled, truth, ready, human, doings, comments, others, posted, runs, blind>>
  BY DEF D!MovesLabel
<1>2. p \in PassesOver /\ UndisturbedOK(l) /\ label \in D!Position
  BY Found
<1>3. /\ q \in PassesOver /\ q.began = p.began /\ q.draft = p.draft /\ q.from = p.from /\ q.wasTrue = p.wasTrue
      /\ q.rows = p.rows /\ q.quiet = p.quiet /\ q.to = p.to /\ q.at = "done"
  BY <1>2 DEF PassesOver
<1>4. label' \in D!Position
  BY <1>1, <1>2 DEF PassesOver
<1> HIDE DEF q
<1>5. /\ LaneSteps(l) /\ Keeps(l) /\ pass'[l] = q /\ EvaluationOK(l)' /\ D!Target(q) = D!Target(p)
      /\ q.quiet =>
           /\ p.quiet /\ \A k \in Lane \ {l} : pass'[k].at \in {"idle", "done"}
           /\ ready' = q.draft /\ human' <= q.began /\ RowsAreTrue(l)' /\ label = q.from
  BY <1>1, <1>3, StepGoesOn
<1>6. UndisturbedOK(l)'
  <2> SUFFICES ASSUME q.quiet PROVE UndisturbedOK(l)'
    BY <1>5 DEF UndisturbedOK
  <2>1. /\ p.to = D!Target(p) /\ human <= p.began /\ label = p.from
        /\ IF D!Stands THEN Head(comments).body = p.rows ELSE D!Spent
    BY <1>1, <1>2, <1>5 DEF UndisturbedOK
  <2>2. IF D!Stands' THEN Head(comments').body = q.rows ELSE D!Spent'
    BY <1>1, <1>3, <2>1 DEF D!Stands, D!Spent, D!Created
  <2>3. label' = IF p.to # Nobody THEN p.to ELSE p.from
    BY <1>1, <2>1 DEF D!Permits
  <2>4. Nobody \notin {"needsReview", "needsRevision"}
    BY DashboardAssumption
  <2>5. /\ "fail" \in D!Outcomes(p.rows) => label' = "needsRevision"
        /\ D!Outcomes(p.rows) = {"pass"} /\ ~p.draft /\ p.from # "readyToMerge" => label' = "needsReview"
    BY <1>2, <2>1, <2>3, <2>4, TargetsAreDrawn
  <2>6. Len(q.rows) = Len(D!Checks) /\ D!Checks' = D!Checks
    BY <1>1, <1>3, Found, ChecksStay DEF EvaluationOK
  <2> QED BY <1>1, <1>3, <1>5, <2>2, <2>5, <2>6 DEF UndisturbedOK
<1>7. pass'[l].at = "done"
  BY <1>3, <1>5
<1> QED BY <1>1, <1>4, <1>5, <1>6, <1>7, Found, PlainStep

----------------------------------------------------------------------------
LEMMA BoardGoesOn == BoardOK /\ D!DashboardNext => BoardOK'
<1> SUFFICES ASSUME BoardOK, D!DashboardNext PROVE BoardOK'
  OBVIOUS
<1>1. CASE \/ \E c \in D!Check : D!Turns(c)
           \/ D!TurnsDraft \/ \E position \in D!Position : D!Relabels(position)
           \/ \E i \in DOMAIN comments : D!EditsComment(i) \/ D!DeletesComment(i)
  BY <1>1, PeopleGoOn
<1>2. ASSUME NEW l \in Lane, D!Begins(l) PROVE BoardOK'
  BY <1>2, BegunIsSound
<1>3. ASSUME NEW l \in Lane,
             D!ReadsCommits(l) \/ D!ReadsMergeable(l) \/ D!ReadsLinks(l) \/ D!ReadsAssignees(l) \/ D!CannotAsk(l)
      PROVE  BoardOK'
  BY <1>3, ReadsGoOn
<1>4. ASSUME NEW l \in Lane, D!Judges(l) \/ D!GatesComment(l) \/ D!Holds(l) PROVE BoardOK'
  BY <1>4, JudgedIsSound, GatedIsSound, HeldIsSound
<1>5. ASSUME NEW l \in Lane, D!Looks(l) \/ D!LooksAgain(l) \/ D!Creates(l) \/ D!Updates(l) PROVE BoardOK'
  BY <1>5, LookedIsSound, LookedAgainIsSound, CreatedIsSound, UpdatedIsSound
<1>6. ASSUME NEW l \in Lane, D!CommentFails(l) \/ D!LabelFails(l) \/ D!MovesLabel(l) PROVE BoardOK'
  BY <1>6, FailedIsSound, MovedIsSound
<1> QED BY <1>1, <1>2, <1>3, <1>4, <1>5, <1>6 DEF D!DashboardNext

LEMMA BoardSpeaksTrue == BoardOK => D!DashboardSpeaksTrue
<1> SUFFICES ASSUME BoardOK PROVE D!DashboardSpeaksTrue
  OBVIOUS
<1>1. D!ReviewIsEarned
  BY Found DEF EvaluationOK, D!ReviewIsEarned, D!Check
<1>2. D!RecheckTellsTruth
  <2> SUFFICES ASSUME NEW l \in Lane, pass[l].at = "done", pass[l].quiet
               PROVE  LET rows == [n \in 1..Len(D!Checks) |-> D!Answered(D!Checks[n])]
                      IN human <= pass[l].began =>
                           /\ IF D!Stands THEN Head(comments).body = rows ELSE D!Spent
                           /\ "fail" \in D!Outcomes(rows) => label = "needsRevision"
                           /\ D!Outcomes(rows) = {"pass"} /\ ~ready /\ pass[l].from # "readyToMerge"
                                => label = "needsReview"
    BY DEF D!RecheckTellsTruth
  <2> DEFINE rows == [n \in 1..Len(D!Checks) |-> D!Answered(D!Checks[n])]
  <2>1. UndisturbedOK(l) /\ pass[l].rows \in Seq(RowEnds) /\ Len(D!Checks) \in Nat
    BY Found DEF PassesOver
  <2>2. /\ ready = pass[l].draft /\ RowsAreTrue(l) /\ Len(pass[l].rows) = Len(D!Checks)
        /\ IF D!Stands THEN Head(comments).body = pass[l].rows ELSE D!Spent
        /\ "fail" \in D!Outcomes(pass[l].rows) => label = "needsRevision"
        /\ D!Outcomes(pass[l].rows) = {"pass"} /\ ~pass[l].draft /\ pass[l].from # "readyToMerge"
             => label = "needsReview"
    BY <2>1 DEF UndisturbedOK
  <2>3. pass[l].rows = rows
    <3>1. pass[l].rows = [n \in 1..Len(pass[l].rows) |-> pass[l].rows[n]]
      BY <2>1
    <3>2. \A n \in 1..Len(D!Checks) : pass[l].rows[n] = D!Answered(D!Checks[n])
      BY <2>2 DEF RowsAreTrue
    <3> QED BY <2>2, <3>1, <3>2
  <2> QED BY <2>2, <2>3
<1>3. D!CreationsStayBudgeted
  <2> SUFFICES ASSUME ~blind PROVE others + Len(comments) < CommentCap + D!Cardinality(Lane)
    BY DEF D!CreationsStayBudgeted, D!Created
  <2>1. D!Cardinality(Lane) = Cardinality(Lane)
    BY DEF D!Cardinality, Cardinality
  <2>2. others \in 0..CommentCap /\ CommentCap \in Nat /\ Len(comments) \in Nat
    BY Found, DashboardAssumption DEF BoardOK, BoardTyped
  <2>3. Len(comments) <= Cardinality(Lane) /\ Cardinality(Lane) \in Nat
    <3>1. Len(comments) + Cardinality(Creating) <= Cardinality(Lane)
      BY DEF BoardOK, CreationsOK
    <3> QED BY <2>2, <3>1, CreatorsAreFinite
  <2>4. Cardinality(Lane) # 0
    BY DashboardAssumption, FS_EmptySet
  <2>5. others = CommentCap => Len(comments) = 0
    BY DEF BoardOK, CreationsOK
  <2> QED BY <2>1, <2>2, <2>3, <2>4, <2>5
<1> QED BY <1>1, <1>2, <1>3 DEF D!DashboardSpeaksTrue

BoardStays == part = "dashboard" => BoardOK

\* With any number of evaluations at one dashboard, in any order among the pushes, the edits
\* and the label changes of people: review is asked only of checks that all passed, an
\* undisturbed recheck leaves the comment and the position true, and creations stay within
\* the day's budget (prDashboard, postManagedComment.ts, readback.ts).
THEOREM DashboardAlwaysSpeaksTrue == Spec => []DashboardSpeaksTrue
<1>1. Init => BoardStays
  BY BoardStarts DEF Init, BoardStays
<1>2. BoardStays /\ [Next]_vars => BoardStays'
  <2>1. ASSUME BoardStays, Next PROVE BoardStays'
    BY <2>1, BoardGoesOn DEF BoardStays, Next
  <2>2. ASSUME BoardStays, UNCHANGED vars PROVE BoardStays'
    <3>1. UNCHANGED <<enabled, truth, ready, label, human, doings, comments, others, posted, runs, pass, blind>>
          /\ UNCHANGED part
      BY <2>2 DEF vars, dashboard
    <3>2. BoardTyped => BoardTyped'
      BY <3>1 DEF BoardTyped
    <3>3. CreationsOK => CreationsOK'
      BY <3>1 DEF CreationsOK, Creating
    <3>4. D!Checks' = D!Checks /\ IsTrueNow' = IsTrueNow /\ \A c : D!Answered(c)' = D!Answered(c)
      BY <3>1, ChecksStay DEF IsTrueNow, D!Answered
    <3>5. \A l \in Lane : EvaluationOK(l) => EvaluationOK(l)'
      BY <3>1, <3>4 DEF EvaluationOK
    <3>6. \A l \in Lane : RowsAreTrue(l) <=> RowsAreTrue(l)'
      BY <3>1, <3>4 DEF RowsAreTrue
    <3>7. \A l \in Lane : UndisturbedOK(l) => UndisturbedOK(l)'
      BY <3>1, <3>4, <3>6 DEF UndisturbedOK, D!Stands, D!Spent, D!Created
    <3>8. BoardOK => BoardOK'
      BY <3>2, <3>3, <3>5, <3>7 DEF BoardOK
    <3> QED BY <2>2, <3>1, <3>8 DEF BoardStays
  <2> QED BY <2>1, <2>2
<1>3. BoardStays => DashboardSpeaksTrue
  BY BoardSpeaksTrue DEF BoardStays, DashboardSpeaksTrue
<1> QED BY <1>1, <1>2, <1>3, PTL DEF Spec

-----------------------------------------------------------------------------
(* The contract between declarations, producers and the sweep's store.     *)

\* What the boot's judgement leaves of a fleet: every need of what wakes it is read there.
ContractOK ==
  /\ on \subseteq Author /\ unserved = {}
  /\ fleet # None => \A c \in Author :
       /\ fleet[c].triggers \subseteq C!WEBHOOK_PRODUCERS \cup {"schedule"}
       /\ C!IsInCatalogue(fleet[c]) /\ C!AnsweredByProducers(fleet[c])

\* Whatever wakes a capability reads what it needs.
LEMMA NeedsAreRead ==
  ASSUME ContractOK, fleet # None, NEW producer, NEW kind \in C!FACT_KINDS, kind \in C!PRODUCER_KINDS[producer],
         NEW c \in C!Woken(producer, kind), NEW group \in fleet[c].needs[kind]
  PROVE  c \in Author /\ C!producerReads(producer, kind, group)
<1>1. c \in on /\ kind \in fleet[c].facts /\ \E trigger \in fleet[c].triggers : C!Waking(trigger) = producer
  BY DEF C!Woken
<1>2. C!AnsweredByProducers(fleet[c]) /\ c \in Author
  BY <1>1 DEF ContractOK
<1>3. PICK trigger \in fleet[c].triggers : C!Waking(trigger) = producer
  BY <1>1
<1>4. kind \in fleet[c].facts \cap C!PRODUCER_KINDS[C!Waking(trigger)]
  BY <1>1, <1>3
<1>5. C!producerReads(C!Waking(trigger), kind, group)
  BY <1>2, <1>4 DEF C!AnsweredByProducers
<1> QED BY <1>2, <1>3, <1>5

LEMMA BootAdmits ==
  ASSUME ContractOK, C!Boots
  PROVE  ContractOK'
<1>1. PICK d \in C!Declaration :
        LET ds == [c \in Author |-> C!declareCapability(IF c = Wide THEN d ELSE C!Plain)]
        IN C!Admitted(ds) /\ fleet' = ds
  BY DEF C!Boots
<1> DEFINE ds == [c \in Author |-> C!declareCapability(IF c = Wide THEN d ELSE C!Plain)]
<1>2. C!Admitted(ds) /\ fleet' = ds
  BY <1>1
<1>3. on' \subseteq Author /\ unserved' = {}
  BY DEF C!Boots, ContractOK
<1>4. ASSUME NEW c \in Author PROVE ds[c].triggers \subseteq C!WEBHOOK_PRODUCERS \cup {"schedule"}
  <2>1. d.triggers \subseteq C!WEBHOOK_PRODUCERS \cup {"schedule"}
    BY DEF C!Declaration
  <2>2. C!Plain.triggers \subseteq C!WEBHOOK_PRODUCERS \cup {"schedule"}
    BY DEF C!Plain
  <2>3. ds[c].triggers = (IF c = Wide THEN d ELSE C!Plain).triggers
    BY DEF C!declareCapability
  <2> QED BY <2>1, <2>2, <2>3
<1> HIDE DEF ds
<1>5. \A c \in Author : C!IsInCatalogue(ds[c]) /\ C!AnsweredByProducers(ds[c])
  BY <1>2 DEF C!Admitted
<1>6. \A e : C!IsInCatalogue(e)' = C!IsInCatalogue(e) /\ C!AnsweredByProducers(e)' = C!AnsweredByProducers(e)
  OBVIOUS
<1> QED BY <1>2, <1>3, <1>4, <1>5 DEF ContractOK

LEMMA DeliveryServes ==
  ASSUME ContractOK, C!Delivers
  PROVE  unserved' = {}
<1>1. fleet # None
  BY DEF C!Delivers
<1>2. PICK producer \in C!WEBHOOK_PRODUCERS : \E kind \in C!PRODUCER_KINDS[producer] :
        unserved' = {} \/ unserved' = C!PassedOver(producer, kind, C!UnreadIn(producer, kind), {})
  BY DEF C!Delivers
<1>3. PICK kind \in C!PRODUCER_KINDS[producer] :
        unserved' = {} \/ unserved' = C!PassedOver(producer, kind, C!UnreadIn(producer, kind), {})
  BY <1>2
<1>4. kind \in C!FACT_KINDS
  BY DEF C!PRODUCER_KINDS, C!FACT_KINDS, C!WEBHOOK_PRODUCERS
<1>5. ASSUME NEW c \in C!PassedOver(producer, kind, C!UnreadIn(producer, kind), {}) PROVE FALSE
  <2>1. c \in C!Woken(producer, kind)
    BY DEF C!PassedOver
  <2>2. PICK group \in fleet[c].needs[kind] \cap C!UnreadIn(producer, kind) : TRUE
    BY DEF C!PassedOver
  <2>3. C!producerReads(producer, kind, group)
    BY <1>1, <1>4, <2>1, <2>2, NeedsAreRead
  <2>4. ~C!producerReads(producer, kind, group)
    BY <2>2 DEF C!UnreadIn
  <2> QED BY <2>3, <2>4
<1> QED BY <1>3, <1>5

\* A firing: what it must know of an item is read now, read before and stored, or failed.
LEMMA FiringServes ==
  ASSUME ContractOK, C!Sweeps
  PROVE  unserved' = {}
<1>1. fleet # None
  BY DEF C!Sweeps
<1>2. PICK upheld \in SUBSET C!FACT_KINDS :
        LET reused == {kind \in upheld : C!Answers(stored[kind], kind)}
            sendsBatch == C!wantsLinks /\ "pullRequest" \notin reused
        IN \E failed :
             LET closes == IF "pullRequest" \in reused THEN stored["pullRequest"].closes
                           ELSE sendsBatch /\ failed # C!Batch
                 known == [kind \in C!FACT_KINDS |-> C!Record(kind, kind \in reused, failed, closes)]
             IN unserved' = UNION {C!PassedOver("sweep", kind, DOMAIN C!readBy[kind] \ known[kind], failed) :
                                     kind \in C!FACT_KINDS}
  BY Zenon DEF C!Sweeps
<1> DEFINE reused == {kind \in upheld : C!Answers(stored[kind], kind)}
           closesAfter(failed) == IF "pullRequest" \in reused THEN stored["pullRequest"].closes
                                  ELSE (C!wantsLinks /\ "pullRequest" \notin reused) /\ failed # C!Batch
           known(failed) == [kind \in C!FACT_KINDS |-> C!Record(kind, kind \in reused, failed, closesAfter(failed))]
<1>3. PICK failed :
        unserved' = UNION {C!PassedOver("sweep", kind, DOMAIN C!readBy[kind] \ known(failed)[kind], failed) :
                             kind \in C!FACT_KINDS}
  BY <1>2
<1> DEFINE closes == closesAfter(failed)
<1>4. /\ \A kind \in reused : kind \in C!FACT_KINDS /\ C!Answers(stored[kind], kind)
      /\ closes = IF "pullRequest" \in reused THEN stored["pullRequest"].closes
                  ELSE (C!wantsLinks /\ "pullRequest" \notin reused) /\ failed # C!Batch
      /\ unserved' = UNION {C!PassedOver("sweep", kind,
                               DOMAIN C!readBy[kind] \ C!Record(kind, kind \in reused, failed, closes), failed) :
                              kind \in C!FACT_KINDS}
  <2>1. \A kind \in reused : kind \in C!FACT_KINDS /\ C!Answers(stored[kind], kind)
    OBVIOUS
  <2>2. closes = IF "pullRequest" \in reused THEN stored["pullRequest"].closes
                 ELSE (C!wantsLinks /\ "pullRequest" \notin reused) /\ failed # C!Batch
    OBVIOUS
  <2>3. \A kind \in C!FACT_KINDS : known(failed)[kind] = C!Record(kind, kind \in reused, failed, closes)
    OBVIOUS
  <2> HIDE DEF reused, known, closes, closesAfter
  <2>4. unserved' = UNION {C!PassedOver("sweep", kind,
                              DOMAIN C!readBy[kind] \ C!Record(kind, kind \in reused, failed, closes), failed) :
                             kind \in C!FACT_KINDS}
    BY <1>3, <2>3
  <2> QED BY <2>1, <2>2, <2>4
<1> HIDE DEF reused, known, closes, closesAfter
<1>5. ASSUME NEW kind \in C!FACT_KINDS,
             NEW c \in C!PassedOver("sweep", kind,
                         DOMAIN C!readBy[kind] \ C!Record(kind, kind \in reused, failed, closes), failed)
      PROVE  FALSE
  <2>1. c \in C!Woken("sweep", kind)
    BY <1>5 DEF C!PassedOver
  <2>2. PICK group \in fleet[c].needs[kind] :
          /\ group \in DOMAIN C!readBy[kind] /\ group \notin C!Record(kind, kind \in reused, failed, closes)
          /\ <<kind, group>> \notin failed
    BY <1>5 DEF C!PassedOver
  <2>3. C!producerReads("sweep", kind, group) /\ c \in Author
    <3>1. kind \in C!PRODUCER_KINDS["sweep"]
      BY DEF C!PRODUCER_KINDS
    <3> QED BY <1>1, <2>1, <2>2, <3>1, NeedsAreRead
  <2>4. c \in on /\ kind \in fleet[c].facts /\ "schedule" \in fleet[c].triggers
    <3>1. PICK trigger \in fleet[c].triggers : C!Waking(trigger) = "sweep"
      BY <2>1 DEF C!Woken
    <3>2. trigger \in C!WEBHOOK_PRODUCERS \cup {"schedule"}
      BY <1>1, <2>3, <3>1 DEF ContractOK
    <3>3. trigger = "schedule"
      BY <3>1, <3>2 DEF C!Waking, C!WEBHOOK_PRODUCERS
    <3> QED BY <2>1, <3>1, <3>3 DEF C!Woken
  <2>5. group \in C!groupsNeeded(kind)
    BY <2>2, <2>3, <2>4 DEF C!groupsNeeded
  <2>6. C!Reads(kind, group)
    BY <2>3, <2>5 DEF C!Reads
  <2>7. group = "links" => closes \/ (kind \in reused /\ kind = "pullRequest")
    <3> SUFFICES ASSUME group = "links", ~(kind \in reused /\ kind = "pullRequest") PROVE closes
      OBVIOUS
    <3>1. CASE "pullRequest" \in reused
      <4>1. kind = "issue" /\ "links" \in C!groupsNeeded("issue")
        BY <2>5, <3>1 DEF C!FACT_KINDS
      <4>2. C!Answers(stored["pullRequest"], "pullRequest")
        BY <1>4, <3>1
      <4> QED BY <1>4, <3>1, <4>1, <4>2 DEF C!Answers
    <3>2. CASE "pullRequest" \notin reused
      <4>1. C!wantsLinks
        BY <2>6 DEF C!wantsLinks
      <4>2. failed # C!Batch
        BY <2>2 DEF C!Batch
      <4> QED BY <1>4, <3>2, <4>1, <4>2
    <3> QED BY <3>1, <3>2
  <2>8. CASE kind \in reused /\ group \in C!keptOn(kind)
    <3>1. C!snapshotAnswers(stored[kind], kind)
      BY <1>4, <2>8 DEF C!Answers
    <3>2. group \in stored[kind].read
      BY <2>5, <2>8, <3>1 DEF C!snapshotAnswers
    <3> QED BY <2>2, <2>8, <3>2 DEF C!Record
  <2>9. CASE ~(kind \in reused /\ group \in C!keptOn(kind))
    <3>1. group = "links" => closes
      BY <2>7, <2>9 DEF C!keptOn
    <3> QED BY <2>2, <2>6, <2>9, <3>1 DEF C!Record
  <2> QED BY <2>8, <2>9
<1> DEFINE over(kind) ==
             C!PassedOver("sweep", kind, DOMAIN C!readBy[kind] \ C!Record(kind, kind \in reused, failed, closes), failed)
<1>6. unserved' = UNION {over(kind) : kind \in C!FACT_KINDS}
  BY <1>4
<1>7. \A kind \in C!FACT_KINDS : over(kind) = {}
  BY <1>5
<1> HIDE DEF over
<1> QED BY <1>6, <1>7

ContractStays == part = "contract" => ContractOK

\* Of any fleet the boot admits, whichever capabilities a file enables and whatever a store
\* holds from another time or another build, none is passed over for a group that did not
\* fail: what a declaration asks for, every record its own trigger makes carries
\* (declaration.ts, producers.ts, sweep.ts, snapshots.ts).
THEOREM WokenAlwaysServed == Spec => [](part = "contract" => C!WokenIsServed)
<1>1. Init => ContractStays
  BY DEF Init, ContractStays, ContractOK, C!ContractInit
<1>2. ContractStays /\ [Next]_vars => ContractStays'
  <2>1. ASSUME ContractOK, C!ContractNext PROVE ContractOK'
    <3>1. CASE C!Boots
      BY <2>1, <3>1, BootAdmits
    <3>2. CASE C!Toggles
      BY <2>1, <3>2 DEF C!Toggles, ContractOK
    <3>3. CASE C!Delivers
      <4>1. UNCHANGED <<fleet, on>>
        BY <3>3 DEF C!Delivers
      <4> QED BY <2>1, <3>3, <4>1, DeliveryServes DEF ContractOK
    <3>4. CASE C!Sweeps
      <4>1. UNCHANGED <<fleet, on>>
        BY <3>4 DEF C!Sweeps
      <4> QED BY <2>1, <3>4, <4>1, FiringServes DEF ContractOK
    <3> QED BY <2>1, <3>1, <3>2, <3>3, <3>4 DEF C!ContractNext
  <2>2. ASSUME ContractStays, Next PROVE ContractStays'
    BY <2>1, <2>2 DEF ContractStays, Next
  <2>3. ASSUME ContractStays, UNCHANGED vars PROVE ContractStays'
    <3>1. UNCHANGED <<fleet, on, unserved, part>>
      BY <2>3 DEF vars, contract
    <3> QED BY <2>3, <3>1 DEF ContractStays, ContractOK
  <2> QED BY <2>2, <2>3
<1>3. ContractStays => (part = "contract" => C!WokenIsServed)
  BY DEF ContractStays, ContractOK, C!WokenIsServed
<1> QED BY <1>1, <1>2, <1>3, PTL DEF Spec

-----------------------------------------------------------------------------
WP == INSTANCE SweepProofs WITH Lag <- ReviewLag

\* The sweep proved about in SweepProofs is the sweep instantiated here: with everything it is
\* made of expanded, the two are one text.
LEMMA SameStart == W!Init => WP!Init
BY DEF WP!Init, W!Init, WP!Undeclared, W!Undeclared, WP!OldItem, W!OldItem, WP!UpdCap, W!UpdCap,
       WP!Later, W!Later

LEMMA SameStep == W!Next => WP!Next
BY DEF WP!Next, W!Next, WP!Declare, W!Declare, WP!ClaimDue, W!ClaimDue, WP!Firing, W!Firing,
       WP!Failure, W!Failure, WP!People, W!People, WP!Propagate, W!Propagate, WP!Roll, W!Roll,
       WP!Tick, W!Tick, WP!Restart, W!Restart, WP!gitVars, W!gitVars, WP!firingVars,
       W!firingVars, WP!historyVars, W!historyVars, WP!Due, W!Due, WP!listVars, W!listVars,
       WP!walkVars, W!walkVars, WP!Defer, W!Defer, WP!Begin, W!Begin, WP!ReadConfig,
       W!ReadConfig, WP!ListItems, W!ListItems, WP!Reuse, W!Reuse, WP!ReadItem, W!ReadItem,
       WP!EndWalk, W!EndWalk, WP!Decide, W!Decide, WP!Finish, W!Finish, WP!ReadsNothing,
       W!ReadsNothing, WP!ListFails, W!ListFails, WP!DecideThrows, W!DecideThrows, WP!PassFails,
       W!PassFails, WP!Crash, W!Crash, WP!Touch, W!Touch, WP!Review, W!Review, WP!Close,
       W!Close, WP!Open, W!Open, WP!Reviewed, W!Reviewed, WP!rowVars, W!rowVars, WP!AgedItem,
       W!AgedItem, WP!AgedSnap, W!AgedSnap, WP!Older, W!Older, WP!UpdCap, W!UpdCap, WP!Turn,
       W!Turn, WP!Exhausted, W!Exhausted, WP!TurnedAway, W!TurnedAway, WP!GoOn, W!GoOn,
       WP!Charged, W!Charged, WP!OpenItems, W!OpenItems, WP!StillStands, W!StillStands,
       WP!ReadsStalled, W!ReadsStalled, WP!First, W!First, WP!ToRead, W!ToRead, WP!Kept, W!Kept,
       WP!Stored, W!Stored, WP!ResumeAfter, W!ResumeAfter, WP!Armed, W!Armed, WP!Ran, W!Ran,
       WP!Fault, W!Fault, WP!NothingRead, W!NothingRead, WP!Forget, W!Forget, WP!Overtaken,
       W!Overtaken, WP!ClosedItem, W!ClosedItem, WP!OldItem, W!OldItem, WP!Least, W!Least,
       WP!Later, W!Later, WP!Eligible, W!Eligible, WP!Highest, W!Highest, WP!StartedLast,
       W!StartedLast, WP!Listed, W!Listed

LEMMA SameReuse == WP!ReuseStep => W!ReuseStep
BY DEF WP!ReuseStep, W!ReuseStep, WP!Lists, W!Lists

LEMMA SweepStays ==
  /\ UNCHANGED sweeping => UNCHANGED WP!vars
  /\ UNCHANGED WP!vars => UNCHANGED sweeping
BY DEF sweeping, WP!vars, WP!rowVars, WP!gitVars, WP!firingVars, WP!historyVars, WP!listVars, WP!walkVars

\* The sweep instantiated here decides from no stored read that the open-item list shows to be
\* older than its item, for any repositories, items and budgets (sweep.ts, snapshots.ts).
THEOREM SweepAlwaysHeedsTheList == Spec => ReuseHeedsTheList
<1>1. WP!Spec => WP!ReuseHeedsTheList
  BY SweepAssumption, NoneAssumption, WP!StoredReadsHeedTheList
<1>2. Init /\ part = "sweep" => WP!Init
  BY SameStart DEF Init
<1>3. part = "sweep" /\ [Next]_vars => (part = "sweep")' /\ [WP!Next]_(WP!vars)
  <2>1. CASE Next
    BY <2>1, SameStep DEF Next
  <2>2. CASE UNCHANGED vars
    BY <2>2, SweepStays DEF vars
  <2> QED BY <2>1, <2>2
<1>4. ~(part = "sweep") /\ [Next]_vars => ~(part = "sweep")'
  BY DEF Next, vars
<1>5. [WP!ReuseStep]_(WP!vars) => [part = "sweep" => W!ReuseStep]_sweeping
  BY SameReuse, SweepStays
<1>6. ~(part = "sweep") => [part = "sweep" => W!ReuseStep]_sweeping
  OBVIOUS
<1> QED BY <1>1, <1>2, <1>3, <1>4, <1>5, <1>6, PTL DEF Spec, ReuseHeedsTheList, WP!Spec, WP!ReuseHeedsTheList
=============================================================================
