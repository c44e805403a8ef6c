\* Ten parts of the program that share no state, each on its own instance.
SPECIFICATION Spec
CONSTANTS
  None = None
  Unknown = Unknown
  Unread = Unread
  Invalid = Invalid
  \* Allowance
  Request = {q1, q2}
  Limit = 3
  Assumed = 4
  Share = 5
  Denominator = 10
  MostPoints = 2
  WriteCalls = 1
  Window = 2
  Slack = 1
  Foreign = {2}
  MaxUnheard = 1
  \* EffectHistory
  PlanLength = 2
  MaxFacts = 5
  MaxBroken = 3
  MaxTime = 2
  Grace = 1
  \* Lifecycle
  Connection = {c1, c2}
  Recovery = {r1, r2}
  MaxQueue = 2
  \* Sweep: one item, all that people do to it, one fault
  Repo = {r1}
  Item = {1}
  Cadence = 1
  Settle = 1
  MaxAge = 3
  ReviewLag = 1
  Budget = 4
  ListCost = 1
  ItemCost = 2
  GateCost = 1
  WriteCap = 1
  Happens = {"touch", "review", "close", "open"}
  MaxFaults = 1
  \* Evidence
  PageSize = 1
  ReadCap = 2
  MaxPages = 2
  CreationLag = 1
  OwnWindow = 1
  MaxEntries = 3
  MaxNow = 1
  \* Reading
  Person = {a, b}
  Pull = {2, 3}
  ItemPage = 1
  ItemPages = 3
  MaxCommits = 3
  BatchSize = 2
  MaxChanges = 3
  \* Dashboard
  Nobody = Nobody
  Lane = {webhook, sweep}
  Enablings = {{"commits"}, {"mergeConflicts"}, {"linkedIssues", "assignedIssues"}}
  CommentCap = 1
  MaxReads = 2
  MaxDoings = 1
  \* Settings
  PerSecond = 1
  MinGrace = 1
  Absent = Absent
  Garbled = Garbled
  Capability = {"inactivity", "triageQueue"}
  RequiresWord = {"triageQueue"}
  Hours = {1, 3, 6}
  RemindDefault = 2
  ReapDefault = 4
  MinReap = 2
  MaxClock = 5
  MaxEdits = 2
  \* Engine, for the capabilities of Settings
  MaxAsks = 1
  MaxIntents = 1
  \* Contract
  Author = {mine, theirs}
  Wide = mine
  Askable = {"links", "readiness", "command"}
SYMMETRY Alike
INVARIANTS
  LaneStaysWithinShare
  FoldReadsHistory
  ProcessHoldsBack
  ReadsMissNothing
  DashboardSpeaksTrue
  AcceptedFileIsSound
PROPERTIES
  RetentionKeepsOpenAndPromised
  ReuseHeedsTheList
  ActsByConsent
CHECK_DEADLOCK FALSE
