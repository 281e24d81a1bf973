SPECIFICATION FairSpec
CONSTANTS
  Callers = {h1, h2}
  Closers = {s1, s2}
  ConfiguredBatch = 2
  DefaultBatch = 2
  MinCapacity = 3
  MaxBatchRows = 1
  MaxRecords = 5
  MaxFailures = 1
  MaxSummaries = 1
  MaxFlushes = 1
CHECK_DEADLOCK FALSE
INVARIANTS
  TypeOK
  Conservation
  NoSilentLoss
  DrainedAtExit
  DropsAddUp
PROPERTIES
  ImplementsLedger
  ShutdownDrains
  EveryRecordSettles
