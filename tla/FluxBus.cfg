CONSTANTS
  None = None
  N = 2
  Calls = {r1}
  MaxFaults = 1
SPECIFICATION FairSpec
INVARIANT RowTellsOfLatest
INVARIANT OneSubscription
INVARIANT CalmCallOnce
PROPERTY EverybodyLeaves
\* Every connection has been made and has ended.
CHECK_DEADLOCK FALSE
