SPECIFICATION Spec
CONSTANTS
  Workers = {w1, w2}
  Jobs = {j1, j2}
  Keys = {k1}
  NoKey = NoKey
  NoJob = NoJob
  MaxAttempts = 2
  BatchSize = 2
  MaxDowns = 2
  LongHandlers = FALSE
SYMMETRY WorkerSymmetry
INVARIANTS OneRunner
PROPERTIES PoolPromise
