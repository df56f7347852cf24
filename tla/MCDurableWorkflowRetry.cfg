\* One instance, no crash, three steps per checkpoint: a step that fails retryably
\* late in its batch and is then retried.
CONSTANTS
  c1 = c1
  c2 = c2
  x = x
  y = y
  r1 = r1
  r2 = r2
  Call = {c1}
  Instance = {c1}
  InstanceOf <- OwnInstance
  Run = {r1}
  PlanRun = r1
  Output = {x}
  NoOutput = NoOutput
  NoClaim = NoClaim
  NoCheckpoint = NoCheckpoint
  Steps = 3
  Interval = 3
  TTL = 1
  Operation = {"start", "retry"}
  Failure = {"BudgetExceededError"}
  SharedDatabase = FALSE
  StepOutlivesLease = FALSE
  MaxSequence = 3
  MaxFaults = 1
  MaxCrashes = 0
SPECIFICATION Spec
SYMMETRY Symmetry
INVARIANTS
  RetryNeverCorrupted
