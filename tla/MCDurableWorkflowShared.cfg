\* Two processes with one SQLite database: put looks up, writes and reloads in
\* separate statements.
CONSTANTS
  c1 = c1
  c2 = c2
  x = x
  y = y
  r1 = r1
  r2 = r2
  Call = {c1, c2}
  Instance = {c1, c2}
  InstanceOf <- OwnInstance
  Run = {r1}
  PlanRun = r1
  Output = {x}
  NoOutput = NoOutput
  NoClaim = NoClaim
  NoCheckpoint = NoCheckpoint
  Steps = 2
  Interval = 1
  TTL = 1
  Operation = {"start", "resume", "cancel"}
  Failure = {"BudgetExceededError"}
  SharedDatabase = TRUE
  StepOutlivesLease = TRUE
  MaxSequence = 3
  MaxFaults = 0
  MaxCrashes = 0
SPECIFICATION Spec
SYMMETRY Symmetry
INVARIANTS
  AcknowledgedIsKept
