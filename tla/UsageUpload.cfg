CONSTANTS
  Orgs = {o1, o2}
  Methods <- AnyMethod
  Types = {"node-seconds", "other"}
  Units <- MCUnits
  DayLength = 1
  WeekLength = 1
  LateHours = 1
  MaxHour = 1
  MaxRows = 2
  MaxUploads = 2
  Runs = {"zuora", "gcp"}
  UploaderOf <- CronRuns
  Faults = {"call", "crash"}
  LossyReply = {"gcp"}
SPECIFICATION Spec
INVARIANTS  RecordedIsCharged 
SYMMETRY Symmetry
