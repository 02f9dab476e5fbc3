SPECIFICATION SendingSpec
CONSTANTS
  Senders = {s1, s2}
  Included = 1
  OverdraftLimit = 1
  Months = 2
  MaxGrants = 1
  MaxSends = 3
  MaxCrashes = 1
  Calls = {s1, s2}
  Allowance = 1
  MaxChanges = 1
  Requests = {s1, s2}
  Wordings = {1, 2}
  MaxAsks = 3
  MaxEdits = 1
  MaxMoves = 2
  MaxFaults = 1
SYMMETRY SenderSymmetry
CHECK_DEADLOCK FALSE
INVARIANTS WithinTheMeter BooksAgree
INVARIANTS PaidIffQueued AllowedAtSomeMoment ValuesInMetasOrder
