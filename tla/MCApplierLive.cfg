\* Recovery alone, after a crash, a lost answer or a lease that was stolen.
CONSTANTS
  PlanLength = 1
  Applying = {a1}
  Recovering = {r1}
  Worker <- OwnWorkers
  WorkerOf <- OwnName
  LooksFirst = {1}
  Comments = {1}
  Records = TRUE
  BudgetSpent = FALSE
  Overruns = TRUE
  Prompt = FALSE
  LeaseStale = 1
  AttemptCap = 2
  MaxTries = 2
  MaxRevision = 2
  MaxFaults = 2
  None = None
SPECIFICATION FairSpec
PROPERTIES
  RecoveryCloses
