SPECIFICATION Spec
CONSTANTS
  i1 = i1
  i2 = i2
  a1 = a1
  Nobody = Nobody
  Nothing = Nothing
  Workers = {w1, w2}
  MaxDeaths = 1
  MaxStops = 2
  Events = {i1, i2}
  NoReference = NoReference
  Lead = Lead
  Subjects <- OneSubject
  MaxRuns = 2
  Plans <- TwoPlans
  StepTries = 1
  MaxTouches = 1
  Pictures = {g1}
  MaxPolls = 2
  SubmitTries = 1
  MaxHours = 1
  DayPictures = {i1, i2, i3}
  Callers = {w1, w2}
  Limits = {1, 2}
SYMMETRY AnySymmetry
CHECK_DEADLOCK FALSE
INVARIANTS StepsInTurn NoRunIsStranded PaidOnce NoPictureIsStranded OvershootIsTheCrowd
