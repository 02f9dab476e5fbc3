SPECIFICATION FairSpec
CONSTANTS
  Messages = {m1}
  Handlers = {h1, h2}
  MaxCopies = 2
  MaxCallbacks = 3
  MaxCrashes = 1
  InFlight = {n1, n2}
  MaxAddresses = 2
  MaxFlips = 2
CHECK_DEADLOCK FALSE
INVARIANTS SentAndCountedOnce
PROPERTIES ProgressClimbs EveryMessageLeaves DeadAddressIsLearned
