SPECIFICATION Spec
CONSTANTS
  Requests = {r1, r2}
  bad = bad
  vulnerable = vulnerable
  clean = clean
  Artifacts = {bad, vulnerable, clean}
  Projects = {acme}
  Default = Default
  Global <- GlobalChain
  Overrides <- Lawful
  Allowlist <- DefaultAllowlist
  Recording = TRUE
  Flagged <- Findings
  MaxFaults = 1
  MaxWrites = 1
SYMMETRY RequestSymmetry
CHECK_DEADLOCK FALSE
INVARIANTS
  TypeOK
  DeniedFast
  OnlyCondemnedDenied
  PassedWasVetted
