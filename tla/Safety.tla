------------------------------- MODULE Safety -------------------------------
(***************************************************************************)
(* The safety ladder (core/safety): what one write meets, in the order the *)
(* verdicts are named.  A verdict is "apply" or the code that objects.     *)
(* Instants are ticks of our clock; GitHub dates a change to the second.   *)
(***************************************************************************)
EXTENDS Workflow, Integers, Sequences

CONSTANTS
  None,        \* no instant, no warning
  PerSecond,   \* ticks of a second
  MinGrace,    \* MIN_GRACE_HOURS, in ticks
  Unknown,     \* an ordering nobody could establish
  Invalid      \* a date that is no date

ASSUME SafetyAssumption == PerSecond \in Nat \ {0} /\ MinGrace \in Nat \ {0}

SecondOf(tick) == tick \div PerSecond

Modes == <<"disabled", "observe", "dry-run", "active">>
Rank(mode) == CHOOSE i \in 1..4 : Modes[i] = mode
IsAbove(mode, ceiling) == Rank(mode) > Rank(ceiling)

\* effectiveMode: a stated mode above the file's never wins.  Mutant: the file's alone.
FilesMode(config, capability) == config.mode
EffectiveMode(config, capability) ==
  LET stated == config.stated[capability]
  IN IF stated = None THEN config.mode
     ELSE IF IsAbove(stated, config.mode) THEN config.mode
     ELSE stated

AnyCapabilityActive(config) ==
  \E capability \in config.enabled : EffectiveMode(config, capability) = "active"

LoweredMode(mode, ceiling) == IF IsAbove(mode, ceiling) THEN ceiling ELSE mode

LoweredTo(config, ceiling) ==
  [config EXCEPT !.mode = LoweredMode(@, ceiling),
                 !.stated = [c \in DOMAIN @ |-> IF @[c] = None THEN None
                                                ELSE LoweredMode(@[c], ceiling)]]

Classes == {"observation", "humanFacingOutput", "reversibleStateChange",
            "clockTriggeredDestructive", "immediatePreventive"}

\* The App's own evidence of the newest human change, against what the write was
\* decided from.  Ties go to the human, by the second GitHub dates with.
\* Mutant: the dated second is compared with the instant itself.
NewerHumanChangeRaw(human, since) == human \in Int /\ SecondOf(human) * PerSecond >= since
NewerHumanChange(human, since) == human \in Int /\ SecondOf(human) >= SecondOf(since)

\* What the item-independent rules read, and what all of them read: a write is
\* [capability, class, config, missing, kill], with the item's [world, human, since].
StandingRules(w) ==
  LET mode == EffectiveMode(w.config, w.capability)
  IN [observation |-> w.class = "observation",
      capabilityDisabled |-> w.capability \notin w.config.enabled,
      permissionMissing |-> w.missing # {},
      modeDisabled |-> mode = "disabled",
      modeRecordsOnly |-> mode \in {"observe", "dry-run"}]

ItemRules(w) ==
  [itemClosed |-> w.world.closure # Open,
   itemBlocked |-> "blocked" \in w.world.meanings,
   humanOrderingUnknown |-> w.human = Unknown,
   invalidTimestamp |-> w.since = Invalid \/ w.human = Invalid,
   newerHumanChange |-> w.since # Invalid /\ NewerHumanChange(w.human, w.since)]

\* GENERAL_RULES, in its order.
Order == <<"observation", "capabilityDisabled", "permissionMissing", "itemClosed", "itemBlocked",
           "humanOrderingUnknown", "invalidTimestamp", "newerHumanChange", "modeDisabled",
           "modeRecordsOnly">>

FirstOf(order, objects) ==
  LET objecting == {i \in 1..Len(order) : order[i] \in DOMAIN objects /\ objects[order[i]]}
  IN IF objecting = {} THEN "apply"
     ELSE order[CHOOSE i \in objecting : \A j \in objecting : i <= j]

GeneralVerdict(w) ==
  LET standing == StandingRules(w)
      item == ItemRules(w)
  IN FirstOf(Order, [code \in DOMAIN standing \cup DOMAIN item |->
                       IF code \in DOMAIN standing THEN standing[code] ELSE item[code]])

\* evaluateStandingRules
StandingVerdict(w) ==
  IF w.kill THEN "killSwitch" ELSE FirstOf(Order, StandingRules(w))

\* evaluatePreflight
Preflight(w) ==
  IF w.kill THEN "killSwitch" ELSE IF ~w.world.holds THEN "preconditionStale" ELSE "apply"

\* evaluateWrite
WriteVerdict(w) ==
  CASE Preflight(w) # "apply" -> Preflight(w)
    [] Preflight(w) = "apply" /\ w.class = "clockTriggeredDestructive" -> "wrongEntryPoint"
    [] Preflight(w) = "apply" /\ w.class = "immediatePreventive" -> "preventiveGateUnavailable"
    [] OTHER -> GeneralVerdict(w)

(* A warning is [act, warned, hours, earliest]; the act names the capability,*)
(* the item, the change, its cause and the instant the cause was observed.   *)

ActivitySinceWarning(activity, warning) ==
  activity # None /\ SecondOf(activity) >= SecondOf(warning.warned)

\* warningMatchesRequest.  Mutant: whoever it is about.
MatchesOccasion(warning, act) == [warning.act EXCEPT !.change = act.change] = act
WarningMatches(warning, act) == warning.act = act

\* Mutant: a deadline exactly at the end of the grace is no full grace.
PlanIsInvalidAtEnd(warning) ==
  \/ warning.warned < warning.act.observed
  \/ warning.earliest <= warning.warned + warning.hours
PlanIsInvalid(warning) ==
  \/ warning.warned < warning.act.observed
  \/ warning.earliest < warning.warned + warning.hours

\* evaluateDestructive
DestructiveVerdict(w, act, warning, activity, now) ==
  LET objects ==
        [wrongActionClass |-> w.class # "clockTriggeredDestructive",
         noWarning |-> warning = None,
         warningRequestMismatch |-> warning # None /\ ~WarningMatches(warning, act),
         invalidDestructivePlan |-> warning # None /\ PlanIsInvalid(warning),
         graceBelowFloor |-> warning # None /\ warning.hours < MinGrace,
         graceRunning |-> warning # None /\ now < warning.earliest,
         activityCancelled |-> warning # None /\ ActivitySinceWarning(activity, warning)]
      gate == FirstOf(<<"wrongActionClass", "noWarning", "warningRequestMismatch",
                        "graceBelowFloor", "invalidDestructivePlan", "graceRunning",
                        "activityCancelled">>, objects)
  IN IF Preflight(w) # "apply" THEN Preflight(w)
     ELSE IF gate # "apply" THEN gate
     ELSE GeneralVerdict(w)
=============================================================================
