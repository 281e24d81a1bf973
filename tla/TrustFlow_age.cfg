SPECIFICATION Spec
CONSTANTS
  Requests = {r1, r2}
  dflt = dflt
  acme = acme
  c1 = c1
  c2 = c2
  Projects = {dflt, acme}
  Default = dflt
  Instances = {c1, c2}
  CacheOf <- OwnCache
  NoCache = NoCache
  AgeGated = {acme}
  Bytes = {b1, b2}
  None = None
  MaxTrouble = 0
INVARIANTS
  AgeSelfResolves
