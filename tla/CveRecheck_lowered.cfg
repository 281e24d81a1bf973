SPECIFICATION AdvisoriesSpec
CONSTANTS
  Requests = {r1, r2}
  Bands = {"low"}
  Thresholds = {"", "high"}
  Policies <- Strict
  Persistent = TRUE
  TTL = 1
  Duration = 3
  Timeout = 1
  Lowering = TRUE
  None = None
  MaxTime = 2
  MaxFaults = 0
  MaxRestarts = 1
  Records = {}
SYMMETRY RequestSymmetry
CHECK_DEADLOCK FALSE
INVARIANTS
  DecidedByThreshold
