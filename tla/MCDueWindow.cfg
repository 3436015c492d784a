\* Any phase of the ticks, late ones, failed deliveries, daylight saving, two
\* changes of the settings.
SPECIFICATION Spec
CONSTANTS
  DayLength = 8
  WeekLength = 2
  Window = 2
  Zones <- SomeZones
  SendTimes <- SomeTimes
  Schedules <- DailyOrWeekly
  None = None
  Horizon = 24
  MaxChanges = 2
INVARIANTS
  NoDayMissed
PROPERTIES
  OnTime
CHECK_DEADLOCK FALSE
