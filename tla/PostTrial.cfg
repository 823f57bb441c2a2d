CONSTANTS
  Orgs = {o1}
  Methods <- MaybeZuora
  Types = {"node-seconds"}
  Units <- MCUnits
  DayLength = 2
  WeekLength = 4
  LateHours = 2
  MaxHour = 7
  MaxRows = 2
  MaxUploads = 2
  Runs = {"zuora"}
  UploaderOf <- CronRuns
  Faults = {"call"}
  LossyReply = {}
  Period <- MCPeriod
  Phase <- MCPhase
  MaxFailed = 0
  Jobs = {j1, j2}
SPECIFICATION FairPostSpec
INVARIANTS NoGap
PROPERTY EventuallyInvoiced
CHECK_DEADLOCK FALSE
