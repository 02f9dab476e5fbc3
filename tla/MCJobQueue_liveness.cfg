SPECIFICATION FairSpec
CONSTANTS
  Workers = {w1, w2}
  Jobs = {j1, j2}
  Keys = {k1}
  NoKey = NoKey
  NoJob = NoJob
  MaxAttempts = 2
  BatchSize = 1
  MaxDowns = 0
  LongHandlers = TRUE
PROPERTIES EveryJobSettles
