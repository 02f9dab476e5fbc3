SPECIFICATION DiarySpec
CONSTANTS
  Appts = {a1, a2, a3}
  Desks = {d1}
  s1 = s1
  s2 = s2
  r1 = r1
  Menu <- DayMenu
  Forcing = {TRUE, FALSE}
  Nobody = Nobody
  NoRoom = NoRoom
  Capacity = 2
  Buffer = 1
  Horizon = 2
  MaxCalls = 3
  MaxCrashes = 1
  Staff = {s1, s2}
  Windows <- TwoWindows
  Shifts <- ShiftsOf
  TimeOff <- AwayOf
  Midnight = 7
  Caps = {1, 2}
  Wanted <- WantedServices
  MaxBooked = 2
  MaxNow = 1
CHECK_DEADLOCK FALSE
INVARIANTS CheckedNeverClash ReminderMatches ComingIsReminded OfferedIsBookable
PROPERTIES OverdueIsMarked
