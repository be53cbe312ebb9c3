SPECIFICATION Spec
CONSTANTS
  s1 = s1
  s2 = s2
  NULL = NULL
  DayLength = 24
  WeekLength = 7
  MaxIntervalIters = 1
  MaxWeeklyDaysOut = 7
  Servers = {h1, h2}
  Schedules = {s1}
  Recurrences <- AheadRecurrences
  Unpayable = {}
  Instants <- Hours
  MaxCatchupAdvances = 1
  MaxEdits = 3
  MaxFailures = 1
INVARIANT OnChosenDay
