SPECIFICATION Spec
CONSTANTS
  Requests = {r1, r2, r3}
  dflt = dflt
  acme = acme
  c1 = c1
  c2 = c2
  Projects = {dflt, acme}
  Default = dflt
  Instances = {c1, c2}
  CacheOf <- Uncached
  NoCache = NoCache
  AgeGated = {acme}
  Bytes = {b1, b2}
  None = None
  MaxTrouble = 1
SYMMETRY RequestSymmetry
INVARIANTS
  IInv
  ServedWasValidated
  DenialSticks
  DeniedByOwnScope
  
  SingleFaultHeals
  OneFetchPerInstance
PROPERTIES
  ImplementsGate
