------------------------------ MODULE Handlers ------------------------------
(***************************************************************************)
(* The two capabilities that answer what people do at once: the triage     *)
(* queue (T!) and the claim commands (Claims).  They act on different      *)
(* items and are checked side by side: a behaviour is that of one of them. *)
(***************************************************************************)
EXTENDS Claims, TLC

VARIABLES
  capability,   \* "triageQueue" or "assignment"
  settings, author, locked, welcome, changes, silent, lockedThen

T == INSTANCE Triage

\* What stands for no welcome is no word.
ASSUME WordAssumption == None \notin [skills : SUBSET {"skill"}, from : Nat]

onlyTriage == <<settings, author, locked, welcome, changes, silent, lockedThen>>
onlyClaims == <<assignees, timeline, made, stale, disturbed>>
vars == <<capability, labels, now, inbox, pass, failures, onlyTriage, onlyClaims>>

Init ==
  \/ /\ capability = "triageQueue" /\ T!Init
     /\ assignees = None /\ timeline = None /\ made = None /\ stale = None /\ disturbed = None
  \/ /\ capability = "assignment" /\ ClaimsInit
     /\ settings = None /\ author = None /\ locked = None /\ welcome = None /\ changes = None
     /\ silent = None /\ lockedThen = None

Next ==
  /\ \/ capability = "triageQueue" /\ T!Next /\ UNCHANGED onlyClaims
     \/ capability = "assignment" /\ ClaimsNext /\ UNCHANGED onlyTriage
  /\ UNCHANGED capability

Spec == Init /\ [][Next]_vars

Symmetry == Permutations(Lane) \cup Permutations(Issue) \cup Permutations(Login)

----------------------------------------------------------------------------
\* The lock stands exactly while it should: never without the word that explains it, and
\* no longer once a person left the issue at `ready` (triageQueue, D217).
LockFollowsTriage == capability = "triageQueue" => T!TriagedIsUnlocked /\ T!LockIsExplained

\* A checklist drawn from an older payload never replaces a newer one (triageQueue).
NewerChecklistStays == [][capability = "triageQueue" => T!ChecklistStep]_vars

\* A claim gives way to whoever assigns or denies by hand until its gate has judged, and
\* to a machine's deny label until its gate has read.  It joins a holder, or passes the
\* cap, only behind another pass's call or a change no gate of its own can see (assignment).
ClaimsStayWithin == [][capability = "assignment" => ClaimWithin /\ ClaimAllowed]_vars

\* The last command stands, in whatever order the commands were delivered (assignment).
LastCommandStands == capability = "assignment" => ReleaseStands
=============================================================================
