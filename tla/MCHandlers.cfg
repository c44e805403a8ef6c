\* One issue and its triage; two issues, two people and two passes of claims.
SPECIFICATION Spec
CONSTANTS
  None = None
  Unknown = Unknown
  Invalid = Invalid
  PerSecond = 1
  MinGrace = 1
  Lane = {k1, k2}
  Issue = {i1, i2}
  Login = {a, b}
  MaxOpen = 1
  Denies = {"awaitingTriage"}
  Ignores = {"needsReview"}
  MaxNow = 1
  MaxChanges = 3
  MaxFailures = 1
SYMMETRY Symmetry
INVARIANTS
  LockFollowsTriage
  LastCommandStands
PROPERTIES
  
  ClaimsStayWithin
CHECK_DEADLOCK FALSE
