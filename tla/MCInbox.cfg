\* Safety of the queue: two GUIDs, two bodies, two processes, one fault.
CONSTANTS
  Delivery = {d1, d2}
  Body = {b1, b2}
  Process = {p1, p2}
  Token = {t1, t2, t3}
  None = None
  MaxAttempts = 2
  RetryDelay <- Ladder
  RetryBase = 1
  RetryCeiling = 2
  StaleAge = 2
  Retention = 1
  AgeCap = 2
  MaxWindow = 1
  MaxFaults = 1
SPECIFICATION Spec
SYMMETRY Symmetry
INVARIANTS
  AckedIsDurable
  RecordBeforeDone
  EveryClaimCounts
PROPERTIES
  EndedByLastClaimant
  ImplementsPromise
