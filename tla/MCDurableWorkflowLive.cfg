\* Supervision of one run by two instances, one of which may crash; failures are
\* retryable and steps end within their lease.
CONSTANTS
  c1 = c1
  c2 = c2
  x = x
  y = y
  r1 = r1
  r2 = r2
  Call = {c1, c2}
  Instance = {c1, c2}
  InstanceOf <- OwnInstance
  Run = {r1}
  PlanRun = r1
  Output = {x}
  NoOutput = NoOutput
  NoClaim = NoClaim
  NoCheckpoint = NoCheckpoint
  Steps = 2
  Interval = 1
  TTL = 1
  Operation = {"start", "resume", "retry"}
  Failure = {"BudgetExceededError"}
  SharedDatabase = FALSE
  StepOutlivesLease = FALSE
  MaxSequence = 3
  MaxFaults = 1
  MaxCrashes = 1
SPECIFICATION FairSpec
PROPERTIES
  RunSettles
