------------------------------ MODULE Settings ------------------------------
(***************************************************************************)
(* A repository's sdk-automations.yml from the read to what a pass may do  *)
(* under it (core/config, core/capability/settings.ts, adapter/reads/      *)
(* config.ts, shell/decide/item.ts, shell/compose/action/run.ts).          *)
(* Maintainers edit the file between the passes, and between the two reads *)
(* of one; every error anywhere refuses the whole file (D38).  A spelling  *)
(* stands for its fold (labelKey), a clock is a whole number of hours.     *)
(***************************************************************************)
EXTENDS Safety, FiniteSets, FiniteSetsExt

CONSTANTS
  Absent,         \* no file at the default branch
  Garbled,        \* a value of the wrong shape
  Capability,     \* the capabilities admitted; "inactivity" has the clocks below
  RequiresWord,   \* those that declare they need the command mapped
  Hours,          \* clocks a maintainer writes
  RemindDefault, ReapDefault, MinReap, MaxClock,
  MaxEdits        \* bound: settings that differ from the starter file

VARIABLES
  file,       \* what the default branch holds
  visible,    \* the token sees the repository
  process,    \* "armed", "hosted" without a write path, "action" without arming
  reading,    \* a 404 waits for its corroboration
  decision    \* the last pass under this file: how it ended, what it may act for

settingsVars == <<file, visible, process, reading, decision>>

----------------------------------------------------------------------------
(* The document.                                                           *)

Labelled == {"ready", "blocked"}                   \* MAPPABLE_MEANINGS, default spelling their name
Skilled == {"beginner"}
Alerted == {"late"}
Spelling == Labelled \cup {"custom", "blank"}
Level == {"capability", "issues", "pullRequests", "draft"}
Acting == {"issues", "draft"}

Starter ==
  [flaw |-> FALSE,                                 \* syntax, a duplicate or unknown key, the version
   mode |-> "active",
   enabled |-> [c \in Capability |-> "true"],
   stated |-> [c \in Capability |-> None],
   spelled |-> [m \in Labelled \cup Skilled \cup Alerted |-> None],
   word |-> "/working",
   remind |-> [l \in Level |-> None],
   reap |-> [l \in Level |-> None],
   on |-> Level,                                   \* blocks with enabled: true
   act |-> Acting]                                 \* reap blocks with enabled: true

Differs(f, g) == Cardinality({x \in DOMAIN f : f[x] # g[x]})

Edits(f) ==
  LET plain == {"flaw", "mode", "word"}
      mapped == {"enabled", "stated", "spelled", "remind", "reap"}
  IN Cardinality({x \in plain : f[x] # Starter[x]})
       + MapThenSumSet(LAMBDA x : Differs(f[x], Starter[x]), mapped)
       + Cardinality(Level \ f.on) + Cardinality(Acting \ f.act)

\* readMode: silence is observe; a present mode must be one.
FileMode(f) == IF f.mode = None THEN "observe" ELSE f.mode

ModeOk(f) == f.mode # Garbled

\* readBlockMode, judged on a disabled block too.
BlockModeOk(f, c) ==
  f.stated[c] = None
    \/ (f.stated[c] \in {"observe", "dry-run", "active"} /\ ~IsAbove(f.stated[c], FileMode(f)))

\* labelsWithDefaults: a meaning the file does not spell keeps its default.
Carried(f) == Labelled \cup {m \in Skilled \cup Alerted : f.spelled[m] # None}
Merged(f) == [m \in Carried(f) |-> IF f.spelled[m] = None THEN m ELSE f.spelled[m]]

Families == <<Labelled, Skilled, Alerted>>

\* readMeaningFamily: within a family, the spellings the file states.
FamilyOk(f, family) ==
  LET stated == {m \in family : f.spelled[m] # None}
  IN \A m \in stated : f.spelled[m] # "blank"
                         /\ \A n \in stated \ {m} : f.spelled[n] # f.spelled[m]

DefaultsUnshadowed(f) ==
  \A m, n \in Labelled : f.spelled[m] # None /\ f.spelled[n] = None => f.spelled[m] # n

\* checkAgainstEarlier: skills against labels, alerts against both.
EarlierUntaken(f) ==
  \A i, j \in 1..3 : i < j =>
    \A m \in Families[i] \cap Carried(f), n \in Families[j] \cap Carried(f) : Merged(f)[m] # Merged(f)[n]

MappingsOk(f) ==
  /\ \A i \in 1..3 : FamilyOk(f, Families[i])
  /\ DefaultsUnshadowed(f)
  /\ EarlierUntaken(f)
  /\ f.word \in {None, "/working"}

----------------------------------------------------------------------------
(* The clocks of one block, resolved most-specific-first.                  *)

Outward(l) ==
  CASE l = "capability" -> <<l>>
    [] l \in {"issues", "pullRequests"} -> <<l, "capability">>
    [] OTHER -> <<l, "pullRequests", "capability">>

Default(clock) == IF clock = "remind" THEN RemindDefault ELSE ReapDefault

InRange(h) == IF h \in Nat /\ h <= MaxClock THEN h ELSE None

\* Mutant: the floor is read where the clock is, and the default where it is silent.
NamedHere(f, clock, levels) ==
  IF levels # <<>> /\ f[clock][levels[1]] # None THEN InRange(f[clock][levels[1]])
  ELSE Default(clock)

\* durationNamed: the nearest statement, in range or not; else the default, declared
\* by the capability's own level alone.
Named(f, clock, levels) ==
  LET stating == {i \in 1..Len(levels) : f[clock][levels[i]] # None}
  IN IF stating = {} THEN Default(clock)
     ELSE InRange(f[clock][levels[CHOOSE i \in stating : \A j \in stating : i <= j]])

\* duration: own value or the inherited one; None is a problem.
Resolved(f, clock, l) ==
  IF f[clock][l] # None THEN InRange(f[clock][l])
  ELSE Named(f, clock, Tail(Outward(l)))

FarEnough(f, l) ==
  LET after == Resolved(f, "reap", l)
      floor == Named(f, "remind", Outward(l))
  IN after >= MinReap /\ (floor = None \/ after >= floor + MinGrace)

\* block: nothing inside a block is read unless its consent is true.
ReadLevels(f) ==
  {l \in Level : \A i \in 1..Len(Outward(l)) : Outward(l)[i] \in f.on \cup {"capability"}}

Reaps(f, l) == l \in Acting \cap f.act

ClocksOk(f) ==
  \A l \in ReadLevels(f) :
    /\ Resolved(f, "remind", l) # None
    /\ l \notin Acting \/ Reaps(f, l) => Resolved(f, "reap", l) # None
    /\ Reaps(f, l) => FarEnough(f, l)

----------------------------------------------------------------------------
(* parseConfig: fail closed, whole file.                                   *)

CapabilitiesOk(f) ==
  /\ \A c \in Capability : f.enabled[c] # Garbled /\ BlockModeOk(f, c)
  /\ ClocksOk(f)

Enabled(f) == {c \in Capability : f.enabled[c] = "true"}

\* checkRequiredMappings
Unmet(f) == IF f.word = None THEN Enabled(f) \cap RequiresWord ELSE {}

Accepted(f) ==
  ~f.flaw /\ ModeOk(f) /\ CapabilitiesOk(f) /\ MappingsOk(f) /\ Unmet(f) = {}

ConfigOf(f) == [mode |-> FileMode(f), enabled |-> Enabled(f), stated |-> f.stated]

NoConfig == [mode |-> "observe", enabled |-> {}, stated |-> Starter.stated]

----------------------------------------------------------------------------
(* What a pass may do under it.                                            *)

\* deciderOver: the arming ceiling of an Action, on the file and every block together.
Ceilinged(config) ==
  IF process = "action" /\ AnyCapabilityActive(config) THEN LoweredTo(config, "dry-run") ELSE config

\* The ladder's standing part, of a write that lacks nothing else.
MayActFor(config) ==
  {c \in Capability :
     StandingVerdict([capability |-> c, class |-> "reversibleStateChange", config |-> config,
                      missing |-> {}, kill |-> FALSE]) = "apply"}

\* createItemDecider
Decided(config) ==
  LET used == Ceilinged(config)
  IN IF ~AnyCapabilityActive(used) THEN [end |-> "decided", for |-> {}]
     ELSE IF process # "armed" THEN [end |-> "modeUnsupported", for |-> {}]
     ELSE [end |-> "decided", for |-> MayActFor(used)]

Ended(end) == [end |-> end, for |-> {}]

SettingsInit ==
  /\ file \in {Absent, Starter} /\ visible = TRUE
  /\ process \in {"armed", "hosted", "action"}
  /\ reading = FALSE /\ decision = Ended("none")

\* The contents of the file, or GitHub's one answer for none and for not installed.
ReadsContents ==
  /\ ~reading
  /\ IF visible /\ file # Absent
     THEN /\ decision' = IF Accepted(file) THEN Decided(ConfigOf(file)) ELSE Ended("configRejected")
          /\ UNCHANGED reading
     ELSE reading' = TRUE /\ UNCHANGED decision
  /\ UNCHANGED <<file, visible, process>>

\* corroboratedAbsence: a bare 404 proves nothing; only a visible repository does.
Corroborates ==
  /\ reading
  /\ reading' = FALSE
  /\ decision' = IF visible THEN Decided(NoConfig) ELSE Ended("unavailable")
  /\ UNCHANGED <<file, visible, process>>

\* Any other failure is transient: the attempt is counted, nothing is decided.
ReadFails ==
  /\ reading' = FALSE /\ decision' = Ended("unavailable")
  /\ UNCHANGED <<file, visible, process>>

----------------------------------------------------------------------------
(* What maintainers do, at any moment.                                     *)

Becomes(f) ==
  /\ file' = f
  /\ decision' = Ended("none")
  /\ UNCHANGED <<visible, process, reading>>

Editable == IF file = Absent THEN FALSE ELSE Edits(file) < MaxEdits

CommitsFile == file = Absent /\ Becomes(Starter)
DeletesFile == file # Absent /\ Becomes(Absent)

EditsConsent ==
  /\ Editable
  /\ \/ Becomes([file EXCEPT !.flaw = ~@])
     \/ \E m \in {None, "disabled", "observe", "dry-run", "active", Garbled} : Becomes([file EXCEPT !.mode = m])
     \/ \E c \in Capability, e \in {"true", "false", Garbled} : Becomes([file EXCEPT !.enabled[c] = e])
     \/ \E c \in Capability, m \in {None, "observe", "dry-run", "active", Garbled} :
          Becomes([file EXCEPT !.stated[c] = m])

EditsMappings ==
  /\ Editable
  /\ \/ \E m \in DOMAIN file.spelled, s \in Spelling \cup {None} : Becomes([file EXCEPT !.spelled[m] = s])
     \/ \E w \in {None, "/working", "working"} : Becomes([file EXCEPT !.word = w])

Toggled(S, x) == IF x \in S THEN S \ {x} ELSE S \cup {x}

EditsClocks ==
  /\ Editable
  /\ \/ \E l \in Level, h \in Hours \cup {None, Garbled} :
          Becomes([file EXCEPT !.remind[l] = h]) \/ Becomes([file EXCEPT !.reap[l] = h])
     \/ \E l \in Level \ {"capability"} : Becomes([file EXCEPT !.on = Toggled(@, l)])
     \/ \E l \in Acting : Becomes([file EXCEPT !.act = Toggled(@, l)])

AccessChanges ==
  /\ visible' = ~visible
  /\ UNCHANGED <<file, process, reading, decision>>

SettingsNext ==
  \/ ReadsContents \/ Corroborates \/ ReadFails
  \/ CommitsFile \/ DeletesFile \/ EditsConsent \/ EditsMappings \/ EditsClocks \/ AccessChanges

SettingsSpec == SettingsInit /\ [][SettingsNext]_settingsVars

----------------------------------------------------------------------------
(* Properties.                                                             *)

\* In a file that is accepted one GitHub label carries one meaning, whichever families
\* spell it and whether the file states it or a default does (D34, D203): a label read
\* off an item never means two things.
OneMeaningPerLabel ==
  file # Absent /\ Accepted(file) =>
    \A m, n \in Carried(file) : m # n => Merged(file)[m] # Merged(file)[n]

\* Wherever an accepted file lets a ladder act, the clock it acts on and the clock it
\* reminds on, as the capability will hold them, leave the grace between them, wherever
\* each of the two was stated: the warning always has its hour.
GraceOutlastsReminder ==
  file # Absent /\ Accepted(file) =>
    \A l \in ReadLevels(file) : Reaps(file, l) =>
      Resolved(file, "reap", l) - Resolved(file, "remind", l) >= MinGrace

\* A pass acts for a capability only where everyone who could withhold it consented: the
\* process is armed, the file it read is accepted and says active, the block is enabled
\* and does not say less.  An Action without arming still decides, and acts for nothing.
ConsentStep ==
  decision' # decision =>
    /\ \A c \in decision'.for :
         /\ process = "armed" /\ file # Absent /\ Accepted(file)
         /\ file.mode = "active" /\ file.enabled[c] = "true" /\ file.stated[c] \in {None, "active"}
    /\ process = "action" => decision'.end # "modeUnsupported"

ActsByConsent == [][ConsentStep]_settingsVars
=============================================================================
