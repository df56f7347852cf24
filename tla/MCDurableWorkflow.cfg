\* Two runner instances on one run of a two-step plan: every operation but
\* replay, every failure, one crash, steps that outlive their lease.
CONSTANTS
  c1 = c1
  c2 = c2
  x = x
  y = y
  r1 = r1
  r2 = r2
  Call = {c1, c2}
  Instance = {c1, c2}
  InstanceOf <- OwnInstance
  Run = {r1}
  PlanRun = r1
  Output = {x, y}
  NoOutput = NoOutput
  NoClaim = NoClaim
  NoCheckpoint = NoCheckpoint
  Steps = 2
  Interval = 1
  TTL = 1
  Operation = {"start", "resume", "retry", "cancel", "defer"}
  Failure = {"BudgetExceededError", "PolicyViolation", "CheckpointCorruption"}
  SharedDatabase = FALSE
  StepOutlivesLease = TRUE
  MaxSequence = 4
  MaxFaults = 1
  MaxCrashes = 1
SPECIFICATION Spec
SYMMETRY Symmetry
INVARIANTS
  AcknowledgedIsKept
  CheckpointMatchesClaims
  OneHistory
  EveryCheckpointInspects
PROPERTIES
  NoConcurrentDuplicate
