CONSTANTS
  Orgs = {o1}
  Methods <- OneMethod
  Types = {"node-seconds"}
  Units <- MCUnits
  DayLength = 2
  WeekLength = 6
  LateHours = 2
  MaxHour = 10
  MaxRows = 2
  MaxUploads = 4
  Runs = {"zuora"}
  UploaderOf <- CronRuns
  Faults = {"call", "crash"}
  LossyReply = {}
  Period <- MCPeriod
  Phase <- MCPhase
  MaxFailed = 1
SPECIFICATION ScheduleSpec
INVARIANTS NothingSlips OnlyDueUsage
CHECK_DEADLOCK FALSE
