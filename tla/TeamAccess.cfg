CONSTANTS
  None = None
  Users = {u1, u2}
  Teams = {t1, t2}
  Orgs = {o1}
  Handlers = {h1}
  External = {t2}
  Weavers = {u2}
  Unpaid = {o1}
  LongUnpaid = {}
  Staff = TRUE
  MaxFailures = 2
SPECIFICATION Spec
 
INVARIANT LiveOrgHasMember
INVARIANT MovedOrgIsBilledUnlessFailed
\* With every team deleted nobody is left to make a request that succeeds.
CHECK_DEADLOCK FALSE
