SPECIFICATION LifeFairSpec
CONSTANTS
  Callers = {h1, h2, h3}
  DrainCall = drain
  DeferredCall = deferred
  Closers = {drain, deferred}
  ConfiguredBatch = 2
  DefaultBatch = 2
  MinCapacity = 3
  MaxBatchRows = 500
  MaxRecords = 3
  MaxFailures = 3
  MaxSummaries = 0
  MaxFlushes = 0
CHECK_DEADLOCK FALSE
PROPERTIES
  SignalEnds
INVARIANTS
  FlushBeforeClose
