SPECIFICATION Spec
CONSTANTS
  Runners = {r1}
  Members = {m1, m2}
  Callers = {a1}
  MaxAttempts = 2
  MaxCalls = 2
  MaxCrashes = 0
  SlowFanOut = FALSE
  Customers = {c1, c2}
  dueSoon = dueSoon
  atRisk = atRisk
  Journeys = {dueSoon, atRisk}
  Wants <- ShippedStages
  Earned <- Everybody
  MaxPerRun = 1
  MaxHeld = 2
  Top = 3
  MaxVisits = 1
  MaxRollups = 1
  MaxFaults = 1
CHECK_DEADLOCK FALSE
INVARIANTS JourneyGetsItsCrossings
