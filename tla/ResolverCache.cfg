SPECIFICATION Spec
CONSTANTS
  npm = npm
  pypi = pypi
  remoteNpm = remoteNpm
  Readers = {r1, r2}
  Admins = {m1, m2}
  Ops = {"create", "put", "delete"}
  Local <- TwoAdapters
  Remote = {remoteNpm}
  None = None
  MaxCommits = 2
  MaxFaults = 2
SYMMETRY ReaderSymmetry
CHECK_DEADLOCK FALSE
INVARIANTS
  StaleHasCause
  TypeOK
  OnlyCreatedCached
  OneResolvedPerEpoch
