----------------------------- MODULE Contract -----------------------------
(***************************************************************************)
(* What a capability declares, who answers it, and what a stored read is   *)
(* still good for (core/capability: declaration.ts, producers.ts, groups;  *)
(* the sweep's reader; store/snapshots.ts).  A declaration is admitted at  *)
(* boot against a table of which producer reads which group; from then on  *)
(* a record that lacks a group a capability needs passes it over in        *)
(* silence, so table, reader and store have to agree.  One open issue and  *)
(* one open pull request, read by every firing; how long a stored read     *)
(* stands is Sweep's, here it is a free choice.                            *)
(***************************************************************************)
EXTENDS Naturals, FiniteSets

CONSTANTS
  Nil,       \* not booted; nothing stored; a list the author left out
  Foreign,   \* a stored row another build wrote
  Author,    \* the capabilities of the fleet
  Wide,      \* the one whose author writes anything; the others write Plain
  Askable    \* the groups a declaration may ask for

VARIABLES
  fleet,     \* per capability its declaration, filled: [triggers, facts, needs]
  on,        \* the capabilities this repository's file enables
  stored,    \* per kind the item's stored read: [groups, read, closes]
  unserved   \* history: capabilities the last wake passed over though nothing they need failed

contractVars == <<fleet, on, stored, unserved>>

----------------------------------------------------------------------------
(* The catalogue.                                                          *)

FACT_KINDS == {"issue", "pullRequest"}
WEBHOOK_PRODUCERS == {"issues", "issue_comment", "pull_request"}

PRODUCER_KINDS ==
  [issues |-> {"issue"}, issue_comment |-> {"issue"}, pull_request |-> {"pullRequest"}, sweep |-> FACT_KINDS]

\* Per kind, every group it carries and who reads it there.
readBy ==
  [issue |-> [locked |-> {"issues", "issue_comment", "sweep"},
              skills |-> {"issues", "issue_comment", "sweep"},
              assignees |-> {"sweep"}, links |-> {"sweep"}, command |-> {"issue_comment"}],
   pullRequest |-> [assignees |-> {"sweep"}, links |-> {"sweep"}, review |-> {"sweep"},
                    readiness |-> {"pull_request", "sweep"}]]

carriesFactGroup(kind, group) == group \in DOMAIN readBy[kind]
producerReads(producer, kind, group) == carriesFactGroup(kind, group) /\ producer \in readBy[kind][group]

keptOn(kind) == IF kind = "issue" THEN {"assignees"} ELSE {"assignees", "links", "review", "readiness"}

\* A payload without one of these refuses its delivery.
RefusedWithout == {"locked", "readiness"}

\* GROUP_READS: these ride on the open-item list and cost no request.
ListBorne == {"locked", "skills", "command"}

----------------------------------------------------------------------------
(* What an author may write, and what it is read as.                       *)

\* needs: one list for every declared kind, or a list per kind.
Needs ==
  {[listed |-> groups, perKind |-> Nil] : groups \in SUBSET Askable}
    \cup {[listed |-> Nil, perKind |-> groups] : groups \in [FACT_KINDS -> SUBSET Askable]}

Declaration ==
  [triggers : SUBSET (WEBHOOK_PRODUCERS \cup {"schedule"}),
   facts : {Nil} \cup {kinds : kinds \in SUBSET FACT_KINDS},
   needs : Needs]

\* A schedule capability that asks for an issue's links.
Plain == [triggers |-> {"schedule"}, facts |-> {"issue"}, needs |-> [listed |-> {"links"}, perKind |-> Nil]]

kindsImpliedBy(triggers) == UNION {PRODUCER_KINDS[event] : event \in triggers \ {"schedule"}}
KindsOf(d) == IF d.facts = Nil THEN kindsImpliedBy(d.triggers) ELSE d.facts

\* A listed group reaches every declared kind that carries it, or each one when none does.
needsPerKind(needs, kinds) ==
  LET Carriers(group) == {kind \in kinds : carriesFactGroup(kind, group)}
      Reaches(group) == IF Carriers(group) = {} THEN kinds ELSE Carriers(group)
  IN IF needs.perKind # Nil THEN needs.perKind
     ELSE [kind \in FACT_KINDS |-> {group \in needs.listed : kind \in Reaches(group)}]

declareCapability(d) ==
  [triggers |-> d.triggers, facts |-> KindsOf(d), needs |-> needsPerKind(d.needs, KindsOf(d))]

----------------------------------------------------------------------------
(* The boot's judgement.                                                   *)

\* validateDeclaration: something to wake it, something to be told, and labels exactly with
\* the intent that sets them.
IsSound(d, labels, setsLabels) ==
  d.triggers # {} /\ d.facts # {} /\ (setsLabels <=> labels # {})

\* checkAgainstCatalogue: a need is on a declared kind that carries the group.
IsInCatalogue(d) ==
  \A kind \in FACT_KINDS : \A group \in d.needs[kind] :
    kind \in d.facts /\ carriesFactGroup(kind, group)

Waking(trigger) == IF trigger = "schedule" THEN "sweep" ELSE trigger

\* checkAgainstProducers: whatever a trigger wakes it with has every need read.
AnsweredByProducers(d) ==
  \A trigger \in d.triggers : \A kind \in d.facts \cap PRODUCER_KINDS[Waking(trigger)] :
    \A group \in d.needs[kind] : producerReads(Waking(trigger), kind, group)

\* validateCapabilityDeclarations: every declaration, and one automatic writer per label.
Admitted(ds) == \A c \in Author : IsInCatalogue(ds[c]) /\ AnsweredByProducers(ds[c])
LabelsAdmitted(ds, labels, setsLabels) ==
  /\ \A c \in Author : IsSound(ds[c], labels[c], setsLabels[c])
  /\ \A c, o \in Author : c # o => labels[c] \cap labels[o] = {}

----------------------------------------------------------------------------
ContractInit == fleet = Nil /\ on = {} /\ stored = [kind \in FACT_KINDS |-> Nil] /\ unserved = {}

\* A shell whose whole fleet is admitted, over whatever file and store it finds; one that is
\* refused never runs.
Boots ==
  /\ fleet = Nil
  /\ \E d \in Declaration :
       LET ds == [c \in Author |-> declareCapability(IF c = Wide THEN d ELSE Plain)] IN
       /\ Admitted(ds)
       /\ \E labels \in [Author -> SUBSET {"needsReview"}], setsLabels \in [Author -> BOOLEAN] :
            LabelsAdmitted(ds, labels, setsLabels)
       /\ fleet' = ds
  /\ on' \in SUBSET Author
  /\ stored' \in [FACT_KINDS -> {Nil, Foreign}]
  /\ UNCHANGED unserved

\* A maintainer edits the file.
Toggles ==
  /\ fleet # Nil
  /\ \E c \in Author : on' = IF c \in on THEN on \ {c} ELSE on \cup {c}
  /\ unserved' = {}
  /\ UNCHANGED <<fleet, stored>>

\* decide: of those the record's kind concerns, the ones whose own trigger made it.
Woken(producer, kind) ==
  {c \in on : /\ kind \in fleet[c].facts
              /\ \E trigger \in fleet[c].triggers : Waking(trigger) = producer}

\* Passed over for a group that did not fail.
PassedOver(producer, kind, unread, failed) ==
  {c \in Woken(producer, kind) :
     \E group \in fleet[c].needs[kind] \cap unread : <<kind, group>> \notin failed}

----------------------------------------------------------------------------
(* A delivery.                                                             *)

\* deliveredGroups: what the producer reads is read off the payload, the rest is unread.
UnreadIn(producer, kind) == {group \in DOMAIN readBy[kind] : ~producerReads(producer, kind, group)}

Delivers ==
  /\ fleet # Nil
  /\ \E producer \in WEBHOOK_PRODUCERS : \E kind \in PRODUCER_KINDS[producer] :
       \E lacking \in SUBSET {group \in RefusedWithout : producerReads(producer, kind, group)} :
         unserved' = IF lacking # {} THEN {} ELSE PassedOver(producer, kind, UnreadIn(producer, kind), {})
  /\ UNCHANGED <<fleet, on, stored>>

----------------------------------------------------------------------------
(* A firing of the sweep.                                                  *)

\* groupsNeeded: what the enabled schedule capabilities need of the kind, of the sweep's row.
groupsNeeded(kind) ==
  {group \in DOMAIN readBy[kind] :
     /\ producerReads("sweep", kind, group)
     /\ \E c \in on : /\ "schedule" \in fleet[c].triggers /\ kind \in fleet[c].facts
                      /\ group \in fleet[c].needs[kind]}

\* needed: promised, and either free or asked for.
Reads(kind, group) ==
  producerReads("sweep", kind, group) /\ (group \in ListBorne \/ group \in groupsNeeded(kind))

wantsLinks == \E kind \in FACT_KINDS : Reads(kind, "links")

\* snapshotAnswers: the same groups, and each kept one read.
snapshotAnswers(row, kind) ==
  row.groups = groupsNeeded(kind) /\ groupsNeeded(kind) \cap keptOn(kind) \subseteq row.read

\* Mutant: a pull request answers for itself alone.
AnswersAlone(row, kind) == row \notin {Nil, Foreign} /\ snapshotAnswers(row, kind)
\* answers, of a row decodeSnapshot could read: a pull request also owes every issue its links.
Answers(row, kind) ==
  /\ row \notin {Nil, Foreign} /\ snapshotAnswers(row, kind)
  /\ kind = "pullRequest" /\ "links" \in groupsNeeded("issue") => row.closes

\* The requests a fresh read makes that can fail by themselves; an issue's links are the
\* pull requests' batch turned round.
OwnReads(kind) ==
  {group \in DOMAIN readBy[kind] :
     Reads(kind, group) /\ group \notin {"skills", "command"} /\ ~(kind = "issue" /\ group = "links")}

\* issueFacts, pullRequestFacts: a kept group from the stored read that stands, every other
\* one through its own request, and links only where the batch answered.
Record(kind, reused, failed, closes) ==
  LET fresh == {group \in DOMAIN readBy[kind] :
                  Reads(kind, group) /\ <<kind, group>> \notin failed /\ (group = "links" => closes)}
  IN IF reused THEN stored[kind].read \cup (fresh \ keptOn(kind)) ELSE fresh

storedOf(kind, record, closes) ==
  [groups |-> groupsNeeded(kind), read |-> record \cap keptOn(kind),
   closes |-> kind = "pullRequest" /\ closes]

\* readRecords: the batch first, then each item, and every fresh read stored as it came out.
\* At most one request of a firing fails; the batch takes the links of both kinds with it.
Batch == {<<kind, "links">> : kind \in FACT_KINDS}
Sweeps ==
  /\ fleet # Nil
  /\ \E standing \in SUBSET FACT_KINDS :
     LET reused == {kind \in standing : Answers(stored[kind], kind)}
         sendsBatch == wantsLinks /\ "pullRequest" \notin reused
         Fresh(kind) == OwnReads(kind) \ (IF kind \in reused THEN keptOn(kind) ELSE {})
         requests == UNION {{kind} \X Fresh(kind) : kind \in FACT_KINDS}
     IN
     \E failed \in {{}} \cup {{request} : request \in requests} \cup (IF sendsBatch THEN {Batch} ELSE {}) :
        LET closes == IF "pullRequest" \in reused THEN stored["pullRequest"].closes
                      ELSE sendsBatch /\ failed # Batch
            record == [kind \in FACT_KINDS |-> Record(kind, kind \in reused, failed, closes)]
        IN
        /\ stored' = [kind \in FACT_KINDS |->
                        IF kind \in reused THEN stored[kind] ELSE storedOf(kind, record[kind], closes)]
        /\ unserved' = UNION {PassedOver("sweep", kind, DOMAIN readBy[kind] \ record[kind], failed) :
                                kind \in FACT_KINDS}
  /\ UNCHANGED <<fleet, on>>

ContractNext == Boots \/ Toggles \/ Delivers \/ Sweeps

ContractSpec == ContractInit /\ [][ContractNext]_contractVars

----------------------------------------------------------------------------
\* A capability of an admitted fleet is passed over only for a read that failed: every
\* record its own trigger makes, whatever was enabled when the stored reads were taken,
\* carries the groups it needs (declaration.ts, producers.ts, sweep.ts, snapshots.ts).
WokenIsServed == unserved = {}
=============================================================================
