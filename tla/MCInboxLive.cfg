\* Liveness of the queue: two GUIDs, one process restarted in place.
CONSTANTS
  Delivery = {d1, d2}
  Body = {b1}
  Process = {p1}
  Token = {t1, t2}
  None = None
  MaxAttempts = 2
  RetryDelay <- Ladder
  RetryBase = 1
  RetryCeiling = 2
  StaleAge = 2
  Retention = 2
  AgeCap = 2
  MaxWindow = 1
  MaxFaults = 2
SPECIFICATION FairSpec
PROPERTIES
  KeepsPromise
