SPECIFICATION Spec
CONSTANTS
  Members = {m1, m2}
  Callers = {a1}
  Runners = {r1}
  MaxAttempts = 5
  MaxCalls = 3
  MaxCrashes = 0
  SlowFanOut = FALSE
CHECK_DEADLOCK FALSE
PROPERTIES LaunchedIsQueued
