SPECIFICATION AdvisoriesSpec
CONSTANTS
  Requests = {r1, r2, r3}
  Bands = {"low"}
  Thresholds = {"", "high"}
  Policies <- Split
  Persistent = TRUE
  TTL = 1
  Duration = 3
  Timeout = 1
  Lowering = FALSE
  None = None
  MaxTime = 4
  MaxFaults = 1
  MaxRestarts = 1
  Records <- Revisable
SYMMETRY RequestSymmetry
CHECK_DEADLOCK FALSE
INVARIANTS
  DecidedByThreshold
  StalenessBound
  AdvisoryBites
  BandIsStandard
  CountsAgree
PROPERTIES
  WorseStaysBlocked
