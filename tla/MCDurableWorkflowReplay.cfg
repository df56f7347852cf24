\* Two instances, a run and a replay of it whose id two replays may share; two
\* steps per checkpoint, which may fail but end within their lease.
CONSTANTS
  c1 = c1
  c2 = c2
  x = x
  y = y
  r1 = r1
  r2 = r2
  Call = {c1, c2}
  Instance = {c1, c2}
  InstanceOf <- OwnInstance
  Run = {r1, r2}
  PlanRun = r1
  Output = {x, y}
  NoOutput = NoOutput
  NoClaim = NoClaim
  NoCheckpoint = NoCheckpoint
  Steps = 2
  Interval = 2
  TTL = 1
  Operation = {"start", "replay"}
  Failure = {"PolicyViolation"}
  SharedDatabase = FALSE
  StepOutlivesLease = FALSE
  MaxSequence = 1
  MaxFaults = 1
  MaxCrashes = 0
SPECIFICATION Spec
SYMMETRY Symmetry
INVARIANTS
  AcknowledgedIsKept
