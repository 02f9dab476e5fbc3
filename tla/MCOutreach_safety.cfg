SPECIFICATION FairSpec
CONSTANTS
  Runners = {r1, r2}
  Members = {m1, m2}
  Callers = {a1, a2}
  MaxAttempts = 2
  MaxCalls = 2
  MaxCrashes = 1
  SlowFanOut = FALSE
  Customers = {c1}
  dueSoon = dueSoon
  atRisk = atRisk
  Journeys = {dueSoon}
  Wants <- LastTwo
  Earned <- Everybody
  MaxPerRun = 1
  MaxHeld = 2
  Top = 3
  MaxVisits = 1
  MaxRollups = 1
  MaxFaults = 1
CHECK_DEADLOCK FALSE
INVARIANTS EverybodyOnce ChasedPerCrossing
PROPERTIES StartedFinishes StagesCatchUp
