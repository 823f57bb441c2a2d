SPECIFICATION Spec
CONSTANTS
  Names = {"config_changed", "monitor", "user_test"}
  RTypes = {"browser", "slack"}
  Addresses = {a1, a2}
  MaxReceivers = 4
  InUse <- MCInUse
  NoFlag = "none"
  Flags = {"beta"}
  InstanceFlags = {}
  Requests = {r1, r2}
  MonitorType = "monitor"
  ConfigChangedType = "config_changed"
  UserTestType = "user_test"
  TypeLists <- MCTypeLists
  Files <- MCFiles
  BatchSize = 2
  Budgets <- MCBudgets
  Sockets = {s1}
  ChanCap = 1
INVARIANTS
  CheckedIsInitialized
  
  NobodyForgotten
  
PROPERTIES
  QueueIsEmptied
CHECK_DEADLOCK FALSE
