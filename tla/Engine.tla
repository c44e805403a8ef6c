------------------------------ MODULE Engine ------------------------------
(***************************************************************************)
(* One record put to every capability in turn (core/engine/decide.ts and   *)
(* invoke.ts): who is asked, the handle a capability is given, what comes  *)
(* back of it, and the gates each intent passes before anything is         *)
(* applied and written down (shell/decide).  A capability's body is        *)
(* whatever its declaration type allows; nothing it does reaches another.  *)
(***************************************************************************)
EXTENDS Naturals, Sequences, FiniteSets, Functions

CONSTANTS
  Capable,      \* the shipped capabilities
  Nil,          \* nothing asked yet
  MaxAsks, MaxIntents    \* bounds on one evaluation

VARIABLES
  fact,       \* the record: [closed, unread], unread when its producer left a group out
  declared,   \* per capability: [closed, needs], the closed records and the groups it reads
  mode,       \* per capability: "off", "dry-run" or "active"
  warned,     \* capabilities whose graced act has its warning recorded
  ordering,   \* the memoised answer about people's changes
  turn,       \* [n, at]: the capability in hand and where it stands
  handle,     \* its EngineHandle: [asked, skipped]
  intents,    \* what it means to return, then what is left to gate
  approved,   \* the effects of every capability so far, in order
  outcomes,   \* what came of applying each
  stopped,    \* history: capabilities the platform stopped, or that failed
  earned      \* history: sound intents that came back clean and met no failed lookup

engineVars == <<fact, declared, mode, warned, ordering, turn, handle, intents, approved, outcomes,
                stopped, earned>>

Order == CHOOSE order \in [1..Cardinality(Capable) -> Capable] : IsInjective(order)
InHand == Order[turn.n]
Fresh == [asked |-> 0, skipped |-> FALSE]

\* An intent: graced or not, and what is wrong with it.
Flaws == {"none", "foreign", "otherItem"}

EngineInit ==
  /\ fact \in [closed : BOOLEAN, unread : BOOLEAN]
  /\ declared \in [Capable -> [closed : BOOLEAN, needs : BOOLEAN]]
  \* a declaration no such record can tell apart from another is not started twice
  /\ \A c \in Capable : (declared[c].closed => fact.closed) /\ (declared[c].needs => fact.unread)
  /\ mode \in [Capable -> {"off", "dry-run", "active"}]
  /\ warned \in SUBSET Capable
  /\ ordering = Nil /\ turn = [n |-> 1, at |-> "choosing"] /\ handle = Fresh
  /\ intents = <<>> /\ approved = <<>> /\ outcomes = <<>>
  /\ stopped = {} /\ earned = {}

----------------------------------------------------------------------------
Given == UNCHANGED <<fact, declared, mode, warned>>
Goes(at) == turn' = [turn EXCEPT !.at = at]
Passes ==
  turn' = IF turn.n < Len(Order) THEN [n |-> turn.n + 1, at |-> "choosing"] ELSE [turn EXCEPT !.at = "applying"]

\* factGroupUnread, and a closed record.
LacksFacts(c) == declared[c].needs /\ fact.unread
HasLeft(c) == fact.closed /\ ~declared[c].closed

PassesOver ==
  /\ turn.at = "choosing"
  /\ mode[InHand] = "off" \/ LacksFacts(InHand) \/ HasLeft(InHand)
  /\ Passes
  /\ Given /\ UNCHANGED <<ordering, handle, intents, approved, outcomes, stopped, earned>>

Evaluates ==
  /\ turn.at = "choosing" /\ mode[InHand] # "off" /\ ~LacksFacts(InHand) /\ ~HasLeft(InHand)
  /\ Goes("evaluating") /\ handle' = Fresh /\ intents' = <<>>
  /\ Given /\ UNCHANGED <<ordering, approved, outcomes, stopped, earned>>

----------------------------------------------------------------------------
(* The handle.                                                             *)

\* resolve: an undeclared name, a source that threw and one that could not tell are no answer.
Resolved == [handle EXCEPT !.asked = @ + 1]
Answers(answer) == answer = "value"

\* stop: the signal ends the evaluation, unless the capability catches it and goes on.
StopsWith(h) ==
  /\ handle' = [h EXCEPT !.skipped = TRUE]
  /\ stopped' = stopped \cup {InHand}
  /\ \/ intents' = <<>> /\ Goes("returned")
     \/ UNCHANGED <<intents, turn>>

GoesOnWith(h) == handle' = h /\ UNCHANGED <<stopped, intents, turn>>

\* platform.ask, and platform.resolve, which leaves an unanswered question to the capability.
AsksPlatform ==
  /\ turn.at = "evaluating" /\ handle.asked < MaxAsks
  /\ \E answer \in {"value", "unavailable", "threw", "undeclared"} :
       \/ GoesOnWith(Resolved)
       \/ ~Answers(answer) /\ StopsWith(Resolved)
  /\ Given /\ UNCHANGED <<ordering, approved, outcomes, earned>>

\* platform.intent: no edge to move along stops as well.
MakesIntent ==
  /\ turn.at = "evaluating" /\ Len(intents) < MaxIntents
  /\ \/ /\ \E flaw \in Flaws, graced \in BOOLEAN :
             intents' = Append(intents, [by |-> InHand, n |-> Len(intents) + 1, flaw |-> flaw, graced |-> graced])
        /\ UNCHANGED <<handle, stopped, turn>>
     \/ StopsWith(handle)
  /\ Given /\ UNCHANGED <<ordering, approved, outcomes, earned>>

\* intentsFrom: a throw or no array is a defect, and nothing of it is kept.
Returns ==
  /\ turn.at = "evaluating"
  /\ \/ Goes("returned") /\ UNCHANGED <<intents, stopped>>
     \/ /\ Goes("returned") /\ intents' = <<>>
        /\ stopped' = stopped \cup {InHand}
  /\ Given /\ UNCHANGED <<ordering, handle, approved, outcomes, earned>>

\* Mutant: what was made before the stop is kept.
KeptThoughSkipped == TRUE
IsKept == ~handle.skipped

Concludes ==
  /\ turn.at = "returned"
  /\ IF IsKept /\ intents # <<>> THEN Goes("gating") ELSE Passes
  /\ earned' = earned \cup (IF InHand \in stopped THEN {}
                            ELSE {intents[i] : i \in {j \in 1..Len(intents) : intents[j].flaw = "none"}})
  /\ Given /\ UNCHANGED <<ordering, handle, intents, approved, outcomes, stopped>>

----------------------------------------------------------------------------
(* gateIntent.                                                             *)

Intent == Head(intents)
NextIntent ==
  /\ intents' = Tail(intents)
  /\ IF Len(intents) = 1 THEN Passes ELSE UNCHANGED turn

\* screenIntent: attribution, operation, key, grace terms and the map.
Screened(intent) == intent.flaw \in {"none", "otherItem"}
NamesTheRecord(intent) == intent.flaw # "otherItem"

Refuses ==
  /\ turn.at = "gating"
  /\ ~Screened(Intent) \/ ~NamesTheRecord(Intent)
  /\ NextIntent
  /\ Given /\ UNCHANGED <<ordering, handle, approved, outcomes, stopped, earned>>

\* recordedWarning: none stands; a lookup that threw is neither.
Warns(answered) == Intent.by \notin warned /\ answered

Act == [by |-> InHand, n |-> Intent.n, act |-> IF Intent.graced THEN "graced" ELSE "plain", flaw |-> Intent.flaw]
Warning == [Act EXCEPT !.act = "warning"]

\* orderingFor, once for the decision, and "unknown" where the lookup threw; then the warning
\* of a graced act; then the verdict, which only an active block turns into an effect.
Judges ==
  /\ turn.at = "gating" /\ Screened(Intent) /\ NamesTheRecord(Intent)
  /\ \E found \in IF ordering = Nil THEN {"none", "newer", "unknown"} ELSE {ordering}, answered \in BOOLEAN :
       LET warns == Intent.graced /\ Warns(answered)
           silent == Intent.graced /\ ~answered /\ ~warns
           acts == mode[InHand] = "active" /\ found = "none"
       IN /\ ordering' = found
          /\ ~Intent.graced => answered
          /\ approved' = IF silent \/ ~acts THEN approved ELSE Append(approved, IF warns THEN Warning ELSE Act)
          /\ earned' = IF answered THEN earned ELSE earned \ {Intent}
  /\ NextIntent
  /\ Given /\ UNCHANGED <<handle, outcomes, stopped>>

\* createItemDecider: every approved effect in its order, whatever became of the one before.
Applies ==
  /\ turn.at = "applying"
  /\ IF Len(outcomes) = Len(approved) THEN Goes("written") /\ UNCHANGED outcomes
     ELSE /\ \E end \in {"landed", "failed"} :
               outcomes' = Append(outcomes, [of |-> approved[Len(outcomes) + 1], end |-> end])
          /\ UNCHANGED turn
  /\ Given /\ UNCHANGED <<ordering, handle, intents, approved, stopped, earned>>

EngineNext ==
  \/ PassesOver \/ Evaluates \/ AsksPlatform \/ MakesIntent \/ Returns \/ Concludes
  \/ Refuses \/ Judges \/ Applies

EngineSpec == EngineInit /\ [][EngineNext]_engineVars

-----------------------------------------------------------------------------

\* What is approved is its own capability's, about the record's item, of one the platform
\* neither stopped nor saw fail, in an active block, under one answer about people's
\* changes; and a graced act is approved only on a recorded warning, its warning only
\* where a lookup found none.
OnlyTheSoundActs ==
  \A i \in 1..Len(approved) :
    LET effect == approved[i]
    IN /\ effect.by \notin stopped /\ effect.flaw = "none"
       /\ mode[effect.by] = "active" /\ ordering = "none"
       /\ ~LacksFacts(effect.by) /\ ~HasLeft(effect.by)
       /\ (effect.act = "graced") => effect.by \in warned
       /\ (effect.act = "warning") => effect.by \notin warned

\* Whatever another capability did, or failed to do, each sound intent that came back clean
\* is approved, where its block is active and nobody changed the item, and then tried.
NobodyIsSilenced ==
  turn.at = "written" =>
    /\ Len(outcomes) = Len(approved)
    /\ ordering = "none" =>
         \A intent \in earned : mode[intent.by] = "active" =>
           \E i \in 1..Len(approved) : approved[i].by = intent.by /\ approved[i].n = intent.n
=============================================================================
