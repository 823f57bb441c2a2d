---------------------------- MODULE UsersFilters ----------------------------
(***************************************************************************)
(* The filters of users/db/filter, each written twice in the code: as the  *)
(* WHERE clause Postgres evaluates on a row, and as the Go predicate the   *)
(* in-memory database evaluates on what it stores.  A comparison with NULL *)
(* is neither true nor false, and a row passes only if its clause is true. *)
(* The searches in names and emails are left out.                          *)
(***************************************************************************)
EXTENDS UsersStore

(***************************************************************************)
(* Organizations: i is the id, o the row, g the GCP account joined to it.  *)
(***************************************************************************)
ZuoraAccountWhere(has, o) == IF has THEN o.cols.zuora # Null ELSE o.cols.zuora = Null

ZuoraAccountMatches(has, o) == IF has THEN o.cols.zuora # "" ELSE o.cols.zuora = ""

GCPWhere(has, o) == IF has THEN o.gcp # Null ELSE o.gcp = Null

GCPMatches(has, o) == IF has THEN o.gcp # Null ELSE o.gcp = Null

GCPSubscriptionWhere(running, g) ==
    /\ g # Null
    /\ IF running THEN g.activated /\ g.status = "active"
       ELSE \/ ~g.activated
            \/ g.status # Null /\ g.status # "active"

GCPSubscriptionMatches(running, g) ==
    running = (g # Null /\ (g # Null => g.activated /\ g.status = "active"))

LastSentWeeklyReportBeforeWhere(t, o) ==
    o.cols.weekly = Null \/ (o.cols.weekly # Null /\ o.cols.weekly < t)

LastSentWeeklyReportBeforeMatches(t, o) ==
    o.cols.weekly = Null \/ (o.cols.weekly # Null /\ o.cols.weekly < t)

SeenPromConnectedWhere(seen, o) ==
    IF seen THEN o.cols.seen_prom # Null ELSE o.cols.seen_prom = Null

SeenPromConnectedMatches(seen, o) ==
    IF seen THEN o.cols.seen_prom # Null ELSE o.cols.seen_prom = Null

HasFeatureFlagWhere(f, o) == \E i \in DOMAIN o.flags : o.flags[i] = f

HasFeatureFlagMatches(f, o) == HasFeatureFlag(o.flags, f)

IDWhere(id, i) == i = id

IDMatches(id, i) == i = id

ExternalIDWhere(x, o) == o.ext = x

ExternalIDMatches(x, o) == o.ext = x

(***************************************************************************)
(* Users.  The Go zero time of a user who never logged in is before any    *)
(* other; the column is NULL.                                              *)
(***************************************************************************)
UsersByIDWhere(ids, i) == i \in ids

UsersByIDMatches(ids, i) == \E id \in ids : id = i

LoggedInSinceWhere(t, u) == u.last # Null /\ (u.last # Null => u.last > t)

LoggedInSinceMatches(t, u) == u.last # Null /\ (u.last # Null => u.last > t)

NotLoggedInSinceWhere(t, u) == u.last # Null /\ (u.last # Null => u.last <= t)

NotLoggedInSinceMatches(t, u) == u.last = Null \/ (u.last # Null /\ u.last < t)

AdminWhere(v, u) == u.admin = v

AdminMatches(v, u) == u.admin = v

(***************************************************************************)
(* Teams                                                                   *)
(***************************************************************************)
TeamIDWhere(id, i) == i = id

TeamIDMatches(id, i) == i = id

TeamExternalIDWhere(x, t) == t.ext = x

TeamExternalIDMatches(x, t) == t.ext = x

(***************************************************************************)
(* A filter as it is handed to a list: which one it is, and for what.  The *)
(* list calls one of the two methods of the interfaces Organization, User  *)
(* and Team.                                                               *)
(***************************************************************************)
Filters(name, Args) == [is : {name}, arg : Args]

OrganizationWhere(f, i, o, g) ==
    CASE f.is = "ZuoraAccount" -> ZuoraAccountWhere(f.arg, o)
      [] f.is = "GCP" -> GCPWhere(f.arg, o)
      [] f.is = "SeenPromConnected" -> SeenPromConnectedWhere(f.arg, o)
      [] f.is = "HasFeatureFlag" -> HasFeatureFlagWhere(f.arg, o)
      [] f.is = "LastSentWeeklyReportBefore" -> LastSentWeeklyReportBeforeWhere(f.arg, o)
      [] f.is = "GCPSubscription" -> GCPSubscriptionWhere(f.arg, g)
      [] f.is = "ID" -> IDWhere(f.arg, i)
      [] f.is = "ExternalID" -> ExternalIDWhere(f.arg, o)

MatchesOrg(f, i, o, g) ==
    CASE f.is = "ZuoraAccount" -> ZuoraAccountMatches(f.arg, o)
      [] f.is = "GCP" -> GCPMatches(f.arg, o)
      [] f.is = "SeenPromConnected" -> SeenPromConnectedMatches(f.arg, o)
      [] f.is = "HasFeatureFlag" -> HasFeatureFlagMatches(f.arg, o)
      [] f.is = "LastSentWeeklyReportBefore" -> LastSentWeeklyReportBeforeMatches(f.arg, o)
      [] f.is = "GCPSubscription" -> GCPSubscriptionMatches(f.arg, g)
      [] f.is = "ID" -> IDMatches(f.arg, i)
      [] f.is = "ExternalID" -> ExternalIDMatches(f.arg, o)

UserWhere(f, i, u) ==
    CASE f.is = "UsersByID" -> UsersByIDWhere(f.arg, i)
      [] f.is = "LoggedInSince" -> LoggedInSinceWhere(f.arg, u)
      [] f.is = "NotLoggedInSince" -> NotLoggedInSinceWhere(f.arg, u)
      [] f.is = "Admin" -> AdminWhere(f.arg, u)

MatchesUser(f, i, u) ==
    CASE f.is = "UsersByID" -> UsersByIDMatches(f.arg, i)
      [] f.is = "LoggedInSince" -> LoggedInSinceMatches(f.arg, u)
      [] f.is = "NotLoggedInSince" -> NotLoggedInSinceMatches(f.arg, u)
      [] f.is = "Admin" -> AdminMatches(f.arg, u)

TeamWhere(f, i, t) ==
    CASE f.is = "TeamID" -> TeamIDWhere(f.arg, i)
      [] f.is = "TeamExternalID" -> TeamExternalIDWhere(f.arg, t)

MatchesTeam(f, i, t) ==
    CASE f.is = "TeamID" -> TeamIDMatches(f.arg, i)
      [] f.is = "TeamExternalID" -> TeamExternalIDMatches(f.arg, t)
=============================================================================
