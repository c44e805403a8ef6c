\* Two processes, one of them recovering, on one effect, and none outlives its lease.
CONSTANTS
  PlanLength = 2
  Applying = {a1, a2}
  Recovering = {r1}
  Worker = {w1, w2}
  WorkerOf <- TwoNames
  LooksFirst = {2}
  Comments = {2}
  Records = FALSE
  BudgetSpent = TRUE
  Overruns = FALSE
  Prompt = TRUE
  LeaseStale = 2
  AttemptCap = 2
  MaxTries = 2
  MaxRevision = 2
  MaxFaults = 1
  None = None
SPECIFICATION SpecCauses
INVARIANTS
  ImpossibleOnlyBlamed
  AtMostOnce
