SPECIFICATION Spec
CONSTANTS
  m1 = m1
  m2 = m2
  s1 = s1
  s2 = s2
  Messages = {m1, m2, m3}
  Stops = {m3}
  Nothing = Nothing
  Handlers = {h1, h2}
  Slots = {s1, s2}
  Parked = Parked
  Ceilings = {1, 3}
  MaxDeliveries = 3
  MaxFaults = 1
  MaxTrouble = 1
  Requests = {h1, h2}
  Links = {v1, v2}
  Strangers = {v2}
  Processes = {p1, p2}
  MaxWritten = 3
  MaxQuestions = 3
  Numbers = {1, 2}
  Limit = 2
  MaxAsks = 4
SYMMETRY AnySymmetry
CHECK_DEADLOCK FALSE
INVARIANTS AnsweredOnce YesBooksTheOffer PromiseIsFlagged
INVARIANTS RatingIsFollowedUp SuggestionsStay BookIsInOrder
