\* An act and its notice, everything that can go wrong going wrong once.
CONSTANTS
  PlanLength = 2
  Applying = {a1}
  Recovering = {r1}
  Worker = {w1}
  WorkerOf <- OneName
  LooksFirst = {2}
  Comments = {2}
  Records = TRUE
  BudgetSpent = TRUE
  Overruns = TRUE
  Prompt = FALSE
  LeaseStale = 1
  AttemptCap = 2
  MaxTries = 2
  MaxRevision = 2
  MaxFaults = 1
  None = None
SPECIFICATION SpecCauses
INVARIANTS
  NoticeAfterAct
  LandedWasHeld
  TogetherOnlyOutlived
