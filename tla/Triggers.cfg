SPECIFICATION Spec
CONSTANTS
  NULL = NULL
  DayLength = 4
  WeekLength = 3
  MonthLengths <- MonthsOfUnequalLength
  Triggers <- AllTriggers
  LastAfter = 22
INVARIANTS CalendarRunIsEarliest IntervalRunIsEarliest
PROPERTIES DailyOncePerDay
CHECK_DEADLOCK FALSE
