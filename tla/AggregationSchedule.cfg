CONSTANTS
  Keys = {k1}
  Jobs = {cron}
  LookBack = 3
  BatchSize = 1
  LateHours = 1
  Faults = {"call", "crash"}
  MaxAmount = 2
  MaxHour = 5
  MaxFailed = 1
SPECIFICATION ScheduleSpec
INVARIANTS NeverOverCounted NothingMissed
CHECK_DEADLOCK FALSE
