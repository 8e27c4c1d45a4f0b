CONSTANTS
  Schedules <- MCSchedules
  Hour = 2
  Day = 3
  Week = 4
  Months <- MCMonths
  YearDays = 6
  Spring = 14
  Autumn = 32
  MaxTime = 66
SPECIFICATION Spec
INVARIANT NextIsFirst
PROPERTY MarkedIsAhead
CHECK_DEADLOCK FALSE
