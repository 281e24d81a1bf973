SPECIFICATION Spec
CONSTANTS
  npm = npm
  pypi = pypi
  remoteNpm = remoteNpm
  Readers = {r1, r2}
  Admins = {m1, m2}
  Ops = {"create", "put", "delete"}
  Local <- OneAdapter
  Remote = {}
  None = None
  MaxCommits = 2
  MaxFaults = 0
CHECK_DEADLOCK FALSE
INVARIANTS
  FreshAfterAck
