--------------------------- MODULE UsersPostgres ---------------------------
(***************************************************************************)
(* The Postgres users database (users/db/postgres): tables whose rows are  *)
(* marked as deleted and stay, the unique indexes of the migrations, and   *)
(* transactions.  The calls are those of the in-memory database, which     *)
(* this module shows it to implement, apart from the calls in Differs.     *)
(***************************************************************************)
EXTENDS UsersFilters

VARIABLES db, call, out

vars == <<db, call, out>>

Tables ==
    [users |-> <<>>, organizations |-> <<>>, logins |-> <<>>, gcp_accounts |-> <<>>,
     teams |-> <<>>, team_memberships |-> <<>>, webhooks |-> <<>>]

(***************************************************************************)
(* Statements.  An id comes from the sequence of its table.                *)
(***************************************************************************)
Insert(d, table, row) ==
    LET id == Cardinality(DOMAIN d[table])
    IN  Ok([d EXCEPT ![table] = (id :> row) @@ @], id)

\* set gives every row that is updated the columns that are SET.
Update(d, table, set) ==
    [d EXCEPT ![table] = [i \in DOMAIN @ |-> IF i \in DOMAIN set THEN set[i] @@ @[i] ELSE @[i]]]

Delete(d, table, S) == Update(d, table, [i \in S |-> [deleted |-> TRUE]])

Live(d, table) == {i \in DOMAIN d[table] : ~d[table][i].deleted}

\* QueryRow: the newest of the rows that match.
QueryRow(d, S) ==
    IF S = {} THEN Fail(d, "ErrNoRows") ELSE Ok(d, CHOOSE i \in S : \A j \in S : j <= i)

\* The same with sql.ErrNoRows made users.ErrNotFound.
Find(d, S) == IF S = {} THEN Fail(d, "ErrNotFound") ELSE QueryRow(d, S)

\* Mutant: what was done before the error stays.
TransactionCommits(d, r) == r

\* An error takes back what was done through the transaction.
Transaction(d, r) == IF r.ok THEN r ELSE Fail(d, r.out)

(***************************************************************************)
(* Users and their logins                                                  *)
(***************************************************************************)
usersQuery(d) == Live(d, "users")

FindUserByID(d, id) == Find(d, usersQuery(d) \cap {id})

FindUserByEmail(d, email) == Find(d, {i \in usersQuery(d) : d.users[i].email = email})

loginsQuery(d) == Live(d, "logins")

FindUserByLogin(d, l) ==
    Find(d, usersQuery(d) \cap {d.logins[r].user : r \in {r \in loginsQuery(d) : d.logins[r].login = l}})

\* users_lower_email_idx: one user that is not deleted for an email.
CreateUser(d, email, details) ==
    IF FindUserByEmail(d, email).ok THEN Fail(d, "unique index")
    ELSE Insert(d, "users", [email |-> email, details |-> details, admin |-> FALSE,
                             token |-> "", first |-> Null, last |-> Null, deleted |-> FALSE])

\* Without a field to set, the statement has no SET clause and is refused.
UpdateUser(d, id, details) ==
    Then(FindUserByID(d, id),
         LAMBDA e, u : IF details = "" THEN Fail(d, "no SET clause")
                       ELSE Ok(Update(d, "users", id :> [details |-> details]), id))

\* logins_provider_provider_id_idx: one login that is not deleted for an account.
AddLoginToUser(d, id, l, session) ==
    LET existing == FindUserByLogin(d, l)
        Rows == {r \in loginsQuery(d) : d.logins[r].login = l}
    IN  Transaction(d,
        CASE existing.ok /\ existing.out # id -> Fail(d, "AlreadyAttachedError")
          [] existing.ok /\ existing.out = id ->
                LET Attached == {r \in DOMAIN d.logins : d.logins[r].user = id /\ d.logins[r].login = l}
                IN  Ok(Update(d, "logins", [r \in Attached |-> [session |-> session]]), Nil)
          [] ~existing.ok /\ Rows # {} -> Fail(d, "unique index")
          [] OTHER -> Then(Insert(d, "logins", [user |-> id, login |-> l, session |-> session,
                                                deleted |-> FALSE]), LAMBDA e, i : Ok(e, Nil)))

GetLogin(d, l) ==
    Then(Find(d, {r \in loginsQuery(d) : d.logins[r].login = l}),
         LAMBDA e, i : Ok(d, [user |-> d.logins[i].user, session |-> d.logins[i].session]))

DetachLoginFromUser(d, id) ==
    Ok(Delete(d, "logins", {r \in loginsQuery(d) : d.logins[r].user = id}), Nil)

ListLoginsForUserIDs(d, ids) ==
    {d.logins[r].login : r \in {r \in loginsQuery(d) : d.logins[r].user \in ids}}

ListUsers(d, f) == {i \in usersQuery(d) : UserWhere(f, i, d.users[i])}

\* Refused when no row was updated.
SetUserAdmin(d, id, v) ==
    IF ~FindUserByID(d, id).ok THEN Fail(d, "ErrNotFound")
    ELSE Ok(Update(d, "users", id :> [admin |-> v]), Nil)

SetUserToken(d, id, token) ==
    IF ~FindUserByID(d, id).ok THEN Fail(d, "ErrNotFound")
    ELSE Ok(Update(d, "users", id :> [token |-> token]), Nil)

\* Mutant: every login is the first.
SetUserLastLoginAtFirst(d, id, now) ==
    Transaction(d,
        Then(QueryRow(d, usersQuery(d) \cap {id}),
             LAMBDA e, i : Ok(Update(d, "users", id :> [last |-> now, first |-> now]), Nil)))

SetUserLastLoginAt(d, id, now) ==
    Transaction(d,
        Then(QueryRow(d, usersQuery(d) \cap {id}),
             LAMBDA e, i : LET last == Update(d, "users", id :> [last |-> now])
                           IN  IF d.users[id].first # Null THEN Ok(last, Nil)
                               ELSE Ok(Update(last, "users", id :> [first |-> now]), Nil)))

(***************************************************************************)
(* Teams                                                                   *)
(***************************************************************************)
teamsQuery(d) == Live(d, "teams")

\* The memberships of u in t that were not taken back.
Memberships(d, u, t) ==
    {i \in Live(d, "team_memberships") : /\ d.team_memberships[i].user = u
                                         /\ d.team_memberships[i].team = t}

\* Mutant: a membership that was taken back counts.
UserWasMemberOfTeam(d, u, t) ==
    \E i \in DOMAIN d.team_memberships : /\ d.team_memberships[i].user = u
                                        /\ d.team_memberships[i].team = t

UserIsMemberOfTeam(d, u, t) == Memberships(d, u, t) # {}

FindTeamByExternalID(d, x) == Find(d, {t \in teamsQuery(d) : d.teams[t].ext = x})

FindTeamByInternalID(d, id) == Find(d, teamsQuery(d) \cap {id})

teamExternalIDUsed(d, x) == \E t \in DOMAIN d.teams : d.teams[t].ext = x

generateTeamExternalID(d, x) == ~teamExternalIDUsed(d, x)

CreateTeam(d, name, x) ==
    IF name = "" THEN Fail(d, "team name cannot be blank")
    ELSE Insert(d, "teams", [ext |-> x, name |-> name, deleted |-> FALSE])

AddUserToTeam(d, u, t, role) ==
    IF UserIsMemberOfTeam(d, u, t) THEN Ok(d, Nil)
    ELSE Then(Insert(d, "team_memberships", [user |-> u, team |-> t, role |-> role,
                                             deleted |-> FALSE]), LAMBDA e, i : Ok(e, Nil))

CreateTeamAsUser(d, name, x, u) ==
    Then(CreateTeam(d, name, x),
         LAMBDA e, t : Then(AddUserToTeam(e, u, t, "admin"), LAMBDA f, n : Ok(f, t)))

teamHasOrganizations(d, t) ==
    /\ t \in Live(d, "teams")
    /\ \E o \in Live(d, "organizations") : d.organizations[o].team = t

\* Mutant: the organizations of the team are not looked at.
DeleteTeamAnyway(d, t) ==
    LET Rows == {i \in DOMAIN d.team_memberships : d.team_memberships[i].team = t}
    IN  Ok(Delete(Delete(d, "team_memberships", Rows), "teams", {t}), Nil)

DeleteTeam(d, t) ==
    LET Rows == {i \in DOMAIN d.team_memberships : d.team_memberships[i].team = t}
    IN  IF teamHasOrganizations(d, t) THEN Fail(d, "ErrForbidden")
        ELSE Ok(Delete(Delete(d, "team_memberships", Rows), "teams", {t}), Nil)

GetUserRoleInTeam(d, u, t) ==
    Then(Find(d, Memberships(d, u, t)),
         LAMBDA e, i : Ok(d, d.team_memberships[i].role))

UpdateUserRoleInTeam(d, u, t, role) ==
    Ok(Update(d, "team_memberships", [i \in Memberships(d, u, t) |-> [role |-> role]]), Nil)

RemoveUserFromTeam(d, u, t) ==
    Ok(Delete(d, "team_memberships", {i \in DOMAIN d.team_memberships :
                d.team_memberships[i].user = u /\ d.team_memberships[i].team = t}), Nil)

InviteUserToTeam(d, email, x, role) ==
    LET found == FindUserByEmail(d, email)
    IN  Transaction(d,
            Then(IF found.ok THEN found ELSE CreateUser(d, email, ""), LAMBDA e, u :
            Then(FindTeamByExternalID(e, x), LAMBDA f, t :
            Then(AddUserToTeam(f, u, t, role), LAMBDA g, n : Ok(g, <<u, ~found.ok>>)))))

ListTeams(d) == teamsQuery(d)

\* Deleted teams too, says its comment, but teamsQueryHelper leaves them out.
ListAllTeams(d, f) == {t \in teamsQuery(d) : TeamWhere(f, t, d.teams[t])}

ListTeamsForUserID(d, u) == {t \in teamsQuery(d) : UserIsMemberOfTeam(d, u, t)}

ListTeamUsers(d, t) == {u \in usersQuery(d) : UserIsMemberOfTeam(d, u, t)}

ListTeamUsersWithRoles(d, t) ==
    {<<u, GetUserRoleInTeam(d, u, t).out>> : u \in ListTeamUsers(d, t)}

ListTeamMemberships(d) ==
    {LET m == d.team_memberships[i] IN <<m.user, m.team, m.role>> :
        i \in Live(d, "team_memberships")}

getTeamUserIsPartOf(d, u, x) ==
    LET Teams == {t \in ListTeamsForUserID(d, u) : d.teams[t].ext = x}
    IN  Find(d, Teams)

ensureUserIsPartOfTeamByName(d, u, name, x) ==
    LET Teams == {t \in ListTeamsForUserID(d, u) : d.teams[t].name = name}
    IN  IF Teams # {} THEN Find(d, Teams) ELSE CreateTeamAsUser(d, name, x, u)

(***************************************************************************)
(* Organizations                                                           *)
(***************************************************************************)
organizationsQuery(d) == Live(d, "organizations")

organizationsQueryWithDeleted(d) == DOMAIN d.organizations

\* Those of the rows in S with the external id x.
Named(d, S, x) == {o \in S : d.organizations[o].ext = x}

\* The GCP account joined to an organization, if any.
Joined(d, o) == IF o.gcp = Null THEN Null ELSE d.gcp_accounts[o.gcp]

\* A row as the caller sees it: text that is NULL comes out blank.
scanOrganization(d, o) ==
    [ext |-> o.ext, token |-> o.token, team |-> o.team, flags |-> o.flags,
     gcp |-> IF o.gcp = Null THEN Null ELSE d.gcp_accounts[o.gcp].account,
     cols |-> [c \in DOMAIN o.cols |->
                IF c \in {"platform", "environment", "zuora", "reason"} /\ o.cols[c] = Null
                THEN "" ELSE o.cols[c]]]

FindOrganizationByID(d, x) == Find(d, Named(d, organizationsQuery(d), x))

FindOrganizationByInternalID(d, id) == Find(d, organizationsQuery(d) \cap {id})

FindOrganizationByProbeToken(d, token) ==
    Find(d, {o \in organizationsQuery(d) : d.organizations[o].token = token})

OrganizationExists(d, x) == Named(d, organizationsQuery(d), x) # {}

ExternalIDUsed(d, x) == Named(d, organizationsQueryWithDeleted(d), x) # {}

GenerateOrganizationExternalID(d, x) == ~ExternalIDUsed(d, x)

GetOrganizationName(d, x) ==
    Then(QueryRow(d, Named(d, organizationsQuery(d), x)),
         LAMBDA e, o : Ok(d, d.organizations[o].cols.name))

UserIsMemberOf(d, u, x) ==
    \E o \in Named(d, organizationsQuery(d), x) : UserIsMemberOfTeam(d, u, d.organizations[o].team)

RemoveUserFromOrganization(d, x, email) ==
    Transaction(d,
        Then(FindUserByEmail(d, email), LAMBDA e, u :
        Then(FindOrganizationByID(d, x), LAMBDA f, o :
            RemoveUserFromTeam(d, u, d.organizations[o].team))))

Passes(d, f, o) ==
    OrganizationWhere(f, o, d.organizations[o], Joined(d, d.organizations[o]))

ListOrganizations(d, f) == {o \in organizationsQuery(d) : Passes(d, f, o)}

ListAllOrganizations(d, f) == {o \in organizationsQueryWithDeleted(d) : Passes(d, f, o)}

ListOrganizationsInTeam(d, t) == {o \in organizationsQuery(d) : d.organizations[o].team = t}

listOrganizationsForUserIDs(d, us, includeDeleted) ==
    {o \in IF includeDeleted THEN organizationsQueryWithDeleted(d) ELSE organizationsQuery(d) :
        \E u \in us : UserIsMemberOfTeam(d, u, d.organizations[o].team)}

ListOrganizationUsers(d, x, includeDeletedOrgs, excludeNewUsers) ==
    {u \in usersQuery(d) :
        /\ excludeNewUsers => d.users[u].first # Null
        /\ \E o \in Named(d, DOMAIN d.organizations, x) :
            /\ includeDeletedOrgs \/ ~d.organizations[o].deleted
            /\ UserIsMemberOfTeam(d, u, d.organizations[o].team)}

FindUncleanedOrgIDs(d) ==
    {o \in organizationsQueryWithDeleted(d) :
        LET r == d.organizations[o] IN ~r.cols.cleanup /\ (r.deleted \/ r.cols.upload)}

\* The inner joins leave out an organization whose team has no member.
GetSummary(d) ==
    LET Entry(o, t) == <<o, t, ListTeamUsers(d, t)>>
    IN  {e \in {Entry(o, d.organizations[o].team) : o \in organizationsQuery(d)} :
            e[2] \in teamsQuery(d) /\ e[3] # {}}

createOrganization(d, x, name, token, team) ==
    LET cols == [name |-> name, trial |-> 1] @@ Columns
        row == [ext |-> x, token |-> token, team |-> team, flags |-> <<>>, gcp |-> Null,
                cols |-> [platform |-> Null, environment |-> Null, zuora |-> Null,
                          reason |-> Null] @@ cols,
                deleted |-> FALSE]
    IN  CASE Valid(cols) # Nil -> Fail(d, Valid(cols))
          [] Valid(cols) = Nil /\ ExternalIDUsed(d, x) -> Fail(d, "ErrOrgExternalIDIsTaken")
          [] Valid(cols) = Nil /\ ~ExternalIDUsed(d, x)
                               /\ FindOrganizationByProbeToken(d, token).ok ->
                Fail(d, "ErrOrgTokenIsTaken")
          [] OTHER -> Insert(d, "organizations", row)

(***************************************************************************)
(* The team is looked up, or created, through d and not through the        *)
(* transaction: it stays when the organization is refused.                 *)
(***************************************************************************)
CreateOrganizationWithTeam(d, owner, x, name, token, teamExt, teamName, teamNew) ==
    Then(IF teamExt # "" THEN getTeamUserIsPartOf(d, owner, teamExt)
         ELSE ensureUserIsPartOfTeamByName(d, owner, teamName, teamNew),
         LAMBDA e, team : Transaction(e, createOrganization(e, x, name, token, team)))

DeleteOrganization(d, x) ==
    Ok(Delete(d, "organizations", Named(d, organizationsQuery(d), x)), Nil)

\* The setters update the row with the external id, if it is not deleted.
SetColumns(d, x, new) ==
    Ok(Update(d, "organizations", [o \in Named(d, organizationsQuery(d), x) |->
                                     [cols |-> new @@ d.organizations[o].cols]]), Nil)

UpdateOrganization(d, x, update) ==
    Then(FindOrganizationByID(d, x), LAMBDA e, o :
        LET row == d.organizations[o]
            valid == Valid(Written(scanOrganization(d, row).cols, update))
            new == Written(row.cols, update)
        IN  CASE update = <<>> -> Ok(d, o)
              [] update # <<>> /\ valid # Nil -> Fail(d, valid)
              [] OTHER -> Ok(Update(d, "organizations", o :> [cols |-> new]), o))

\* Deleted organizations move too.
MoveOrganizationToTeam(d, x, teamExt, teamName, teamNew, u) ==
    Then(IF teamName # "" THEN CreateTeamAsUser(d, teamName, teamNew, u)
         ELSE FindTeamByExternalID(d, teamExt),
         LAMBDA e, t :
            Ok(Update(e, "organizations", [o \in Named(e, organizationsQueryWithDeleted(e), x) |->
                                             [team |-> t]]), Nil))

\* Neither of the two looks at whether the organization was deleted.
AddFeatureFlag(d, x, f) ==
    Ok(Update(d, "organizations", [o \in Named(d, organizationsQueryWithDeleted(d), x) |->
                                     [flags |-> Append(d.organizations[o].flags, f)]]), Nil)

SetFeatureFlags(d, x, fs) ==
    Ok(Update(d, "organizations", [o \in Named(d, organizationsQueryWithDeleted(d), x) |->
                                     [flags |-> fs]]), Nil)

SetOrganizationCleanup(d, id, v) ==
    Ok(Update(d, "organizations", [o \in organizationsQueryWithDeleted(d) \cap {id} |->
                                     [cols |-> [d.organizations[o].cols EXCEPT !.cleanup = v]]]), Nil)

SetOrganizationRefuseDataAccess(d, x, v) == SetColumns(d, x, [access |-> v])

SetOrganizationRefuseDataUpload(d, x, v) == SetColumns(d, x, [upload |-> v])

SetOrganizationRefuseDataReason(d, x, v) == SetColumns(d, x, [reason |-> v])

SetOrganizationFirstSeenConnectedAt(d, x, v) == SetColumns(d, x, [seen |-> v])

setOrganizationAgentFirstSeenConnectedAt(d, x, agent, v) == SetColumns(d, x, (agent :> v))

SetOrganizationFirstSeenFluxConnectedAt(d, x, v) ==
    setOrganizationAgentFirstSeenConnectedAt(d, x, "seen_flux", v)

SetOrganizationFirstSeenNetConnectedAt(d, x, v) ==
    setOrganizationAgentFirstSeenConnectedAt(d, x, "seen_net", v)

SetOrganizationFirstSeenPromConnectedAt(d, x, v) ==
    setOrganizationAgentFirstSeenConnectedAt(d, x, "seen_prom", v)

SetOrganizationFirstSeenScopeConnectedAt(d, x, v) ==
    setOrganizationAgentFirstSeenConnectedAt(d, x, "seen_scope", v)

SetOrganizationZuoraAccount(d, x, number, at) ==
    SetColumns(d, x, [zuora |-> number, zuora_at |-> at])

SetOrganizationPlatformVersion(d, x, v) == SetColumns(d, x, [version |-> v])

SetLastSentWeeklyReportAt(d, x, v) == SetColumns(d, x, [weekly |-> v])

(***************************************************************************)
(* GCP accounts                                                            *)
(***************************************************************************)
gcpQuery(d, a) == {g \in DOMAIN d.gcp_accounts : d.gcp_accounts[g].account = a}

\* What FindGCP makes of a row: blank for text that is NULL.
scanGCP(g) ==
    [activated |-> g.activated, subscription |-> IF g.subscription = Null THEN "" ELSE g.subscription,
     status |-> IF g.status = Null THEN "" ELSE g.status]

FindGCP(d, a) == Then(Find(d, gcpQuery(d, a)), LAMBDA e, g : Ok(d, scanGCP(d.gcp_accounts[g])))

\* gcp_subscriptions_account_id_idx: one row for an account.
createGCP(d, a) ==
    IF gcpQuery(d, a) # {} THEN Fail(d, "unique index")
    ELSE Insert(d, "gcp_accounts", [account |-> a, activated |-> FALSE,
                                    subscription |-> Null, status |-> Null])

\* gcp_accounts_subscription_name_idx: one row for a subscription.
UpdateGCP(d, a, subscription, status) ==
    IF /\ gcpQuery(d, a) # {}
       /\ \E g \in DOMAIN d.gcp_accounts \ gcpQuery(d, a) : d.gcp_accounts[g].subscription = subscription
    THEN Fail(d, "unique index")
    ELSE Ok(Update(d, "gcp_accounts", [g \in gcpQuery(d, a) |->
                                         [activated |-> TRUE, subscription |-> subscription,
                                          status |-> status]]), Nil)

FindOrganizationByGCPExternalAccountID(d, a) ==
    Then(Find(d, gcpQuery(d, a)),
         LAMBDA e, g : QueryRow(d, {o \in organizationsQuery(d) : d.organizations[o].gcp = g}))

\* The account is attached through d, before what the transaction holds together.
SetOrganizationGCP(d, x, a, now) ==
    Then(Find(d, gcpQuery(d, a)), LAMBDA e, g :
        LET attached == Update(d, "organizations", [o \in Named(d, organizationsQuery(d), x) |->
                                                       [gcp |-> g]])
        IN  Transaction(attached,
                Then(UpdateOrganization(attached, x, [platform |-> "kubernetes",
                                                      environment |-> "gke", trial |-> now]),
                     LAMBDA f, o : AddFeatureFlag(f, x, "billing"))))

CreateOrganizationWithGCP(d, owner, a, x, token, teamNew, now) ==
    Transaction(d,
        Then(CreateOrganizationWithTeam(d, owner, x, "default", token, "", DefaultTeamName(x), teamNew),
             LAMBDA e, o : Then(createGCP(e, a),
             LAMBDA f, g : Then(SetOrganizationGCP(f, x, a, now), LAMBDA h, n : Ok(h, o)))))

(***************************************************************************)
(* Webhooks                                                                *)
(***************************************************************************)
webhooksQuery(d) == Live(d, "webhooks")

ListOrganizationWebhooks(d, x) ==
    {d.webhooks[w].secret :
        w \in {w \in webhooksQuery(d) : d.organizations[d.webhooks[w].org].ext = x}}

CreateOrganizationWebhook(d, x, secret) ==
    Then(FindOrganizationByID(d, x),
         LAMBDA e, o : Then(Insert(d, "webhooks", [org |-> o, secret |-> secret, seen |-> Null,
                                                   deleted |-> FALSE]),
                            LAMBDA f, i : Ok(f, secret)))

DeleteOrganizationWebhook(d, x, secret) ==
    Then(FindOrganizationByID(d, x),
         LAMBDA e, o : Ok(Delete(d, "webhooks", {w \in webhooksQuery(d) : /\ d.webhooks[w].org = o
                                                                        /\ d.webhooks[w].secret = secret}),
                          Nil))

FindOrganizationWebhookBySecretID(d, secret) ==
    Then(QueryRow(d, {w \in webhooksQuery(d) : d.webhooks[w].secret = secret}),
         LAMBDA e, i : Ok(d, secret))

\* Also when the webhook was deleted.
SetOrganizationWebhookFirstSeenAt(d, secret, now) ==
    Then(QueryRow(d, {i \in DOMAIN d.webhooks : d.webhooks[i].secret = secret}),
         LAMBDA e, i : Ok(Update(d, "webhooks", i :> [seen |-> now]), now))

(***************************************************************************)
(* DeleteUser, step by step; nobody else is at it here.                    *)
(***************************************************************************)
DeleteUser(d, u) ==
    LET Members(t) == {i \in Live(d, "team_memberships") : d.team_memberships[i].team = t}
        Sole == {t \in ListTeamsForUserID(d, u) : Cardinality(Members(t)) = 1}
        Left == {o \in organizationsQuery(d) : d.organizations[o].team \in Sole}
        orgs == Delete(d, "organizations", Left)
        Of == {i \in DOMAIN d.team_memberships : d.team_memberships[i].team \in Sole}
        teams == Delete(Delete(orgs, "team_memberships", Of), "teams", Sole)
        Rest == {i \in Live(teams, "team_memberships") : teams.team_memberships[i].user = u}
        members == Delete(teams, "team_memberships", Rest)
    IN  Ok(Delete(members, "users", DOMAIN members.users \cap {u}), Nil)

(***************************************************************************)
(* What the tables are to the in-memory database: the rows that are not    *)
(* deleted, and apart from them the organizations that are.                *)
(***************************************************************************)
MemoryOf(d) ==
    LET Row(r) == Without(r, {"deleted"})
        Orgs(S) == [o \in S |-> scanOrganization(d, d.organizations[o])]
        Member(m) == CHOOSE i \in Live(d, "team_memberships") :
                        <<d.team_memberships[i].user, d.team_memberships[i].team>> = m
    IN  [users |-> [u \in Live(d, "users") |-> Row(d.users[u])],
         organizations |-> Orgs(Live(d, "organizations")),
         deletedOrganizations |-> Orgs(DOMAIN d.organizations \ Live(d, "organizations")),
         logins |-> [l \in {d.logins[i].login : i \in Live(d, "logins")} |-> GetLogin(d, l).out],
         gcpAccounts |-> [a \in {d.gcp_accounts[g].account : g \in DOMAIN d.gcp_accounts} |->
                            FindGCP(d, a).out],
         teams |-> [t \in Live(d, "teams") |-> Row(d.teams[t])],
         teamMemberships |->
            [m \in {<<d.team_memberships[i].user, d.team_memberships[i].team>> :
                        i \in Live(d, "team_memberships")} |-> d.team_memberships[Member(m)].role],
         webhooks |->
            [s \in {d.webhooks[i].secret : i \in Live(d, "webhooks")} |->
                LET i == CHOOSE j \in Live(d, "webhooks") : d.webhooks[j].secret = s
                IN  [ext |-> d.organizations[d.webhooks[i].org].ext, seen |-> d.webhooks[i].seen]]]

NewToken(d, t) == ~FindOrganizationByProbeToken(d, t).ok

NewSecret(d, s) == \A i \in DOMAIN d.webhooks : d.webhooks[i].secret # s

(***************************************************************************)
(* Specification                                                           *)
(***************************************************************************)
Calls == INSTANCE UsersCalls

Init ==
    /\ db \in {Tables, Calls!Populated(Tables)}
    /\ call = Null
    /\ out = Null

Next ==
    \/ Calls!UserCalls
    \/ Calls!TeamCalls
    \/ Calls!InstanceCalls
    \/ Calls!SettingCalls
    \/ Calls!GCPCalls
    \/ Calls!WebhookCalls
    \/ Calls!Return

Spec == Init /\ [][Next]_vars

(***************************************************************************)
(* Properties                                                              *)
(***************************************************************************)
Memory == INSTANCE UsersMemory WITH db <- MemoryOf(db)

\* Some row of the table was deleted, and an id of the in-memory database comes again.
IDsTakenAgain(table) == Live(db, table) # DOMAIN db[table]

NoUser(u) == ~FindUserByID(db, u).ok

NoOrganization(x) == ~FindOrganizationByID(db, x).ok

Setters ==
    {"SetOrganizationRefuseDataAccess", "SetOrganizationRefuseDataUpload",
     "SetOrganizationRefuseDataReason", "SetOrganizationFirstSeenConnectedAt",
     "SetOrganizationFirstSeenFluxConnectedAt", "SetOrganizationFirstSeenNetConnectedAt",
     "SetOrganizationFirstSeenPromConnectedAt", "SetOrganizationFirstSeenScopeConnectedAt",
     "SetLastSentWeeklyReportAt", "SetOrganizationZuoraAccount", "SetOrganizationPlatformVersion",
     "AddFeatureFlag", "SetFeatureFlags", "MoveOrganizationToTeam"}

(***************************************************************************)
(* The calls for which the two databases are known to part.  c is the call *)
(* and what it returned is v.                                              *)
(***************************************************************************)
CreationDiffers(c, v) ==
    \/ c[1] = "CreateUser" /\ (v = <<FALSE, "unique index">> \/ IDsTakenAgain("users"))
    \/ c[1] = "InviteUserToTeam" /\ ~FindUserByEmail(db, c[2]).ok /\ IDsTakenAgain("users")
    \/ c[1] = "CreateTeam" /\ IDsTakenAgain("teams")
    \/ /\ c[1] \in {"CreateOrganizationWithTeam", "CreateOrganizationWithGCP"}
       /\ IDsTakenAgain("organizations") \/ IDsTakenAgain("teams")
    \/ c[1] = "MoveOrganizationToTeam" /\ c[4] # "" /\ IDsTakenAgain("teams")

\* One of them reports that nothing is there, or both do in different words.
MissingDiffers(c, v) ==
    \/ c[1] \in {"UpdateUser", "SetUserLastLoginAt", "DetachLoginFromUser"} /\ NoUser(c[2])
    \/ c[1] = "UpdateUserRoleInTeam" /\ ~UserIsMemberOfTeam(db, c[2], c[3])
    \/ c[1] = "RemoveUserFromOrganization" /\ v = <<FALSE, "ErrNotFound">>
    \/ c[1] = "CreateOrganizationWithTeam" /\ v = <<FALSE, "ErrNotFound">>
    \/ c[1] = "UpdateGCP" /\ gcpQuery(db, c[2]) = {}
    \/ c[1] = "SetOrganizationGCP" /\ v = <<FALSE, "ErrNotFound">>
    \/ c[1] = "DeleteOrganizationWebhook" /\ v = <<FALSE, "ErrNotFound">>
    \/ c[1] = "SetOrganizationWebhookFirstSeenAt"
       /\ \A w \in webhooksQuery(db) : db.webhooks[w].secret # c[2]
    \/ c[1] = "SetOrganizationCleanup" /\ c[2] \notin Live(db, "organizations")
    \/ /\ c[1] \in Setters
       /\ NoOrganization(c[2])

\* One of them refuses what the other does.
RuleDiffers(c, v) ==
    \/ c[1] = "UpdateUser" /\ c[3] = ""
    \/ c[1] = "AddLoginToUser" /\ v = <<FALSE, "unique index">>
    \/ /\ c[1] = "InviteUserToTeam"                 \* a role of a member is kept, or replaced
       /\ v[1] /\ GetUserRoleInTeam(db, v[2][1], FindTeamByExternalID(db, c[3]).out).ok
    \/ c[1] = "UpdateOrganization" /\ ~v[1] /\ v[2] # "ErrNotFound"
    \/ c[1] = "CreateOrganizationWithGCP" /\ v = <<FALSE, "unique index">>
    \/ c[1] = "UpdateGCP" /\ v = <<FALSE, "unique index">>
    \/ /\ c[1] = "SetOrganizationGCP"               \* an account attached twice, a flag set twice
       /\ v[1] /\ LET o == db.organizations[FindOrganizationByID(db, c[2]).out]
                  IN  o.gcp # Null \/ HasFeatureFlag(o.flags, "billing")
    \/ /\ c[1] = "CreateOrganizationWithTeam"       \* any of the teams of that name, or the newest
       /\ Cardinality({t \in ListTeamsForUserID(db, c[2]) : db.teams[t].name = c[7]}) > 1

Differs ==
    /\ call' # Null
    /\ \/ CreationDiffers(call', out')
       \/ MissingDiffers(call', out')
       \/ RuleDiffers(call', out')

(***************************************************************************)
(* Every call leaves behind and returns what it does with the in-memory    *)
(* database, on which the tests of the users service rely.                 *)
(***************************************************************************)
Refines == Memory!Init /\ [][Differs \/ Memory!Next]_vars

\* Two answers that are the same value, or two errors.
Same(r, s) == r.ok = s.ok /\ (r.ok => r.out = s.out)

UsersAgree(d, m) ==
    /\ \A u \in DOMAIN d.users :
        /\ Same(FindUserByID(d, u), Memory!FindUserByID(m, u))
        /\ ListLoginsForUserIDs(d, {u}) = Memory!ListLoginsForUserIDs(m, {u})
        /\ ListTeamsForUserID(d, u) = Memory!ListTeamsForUserID(m, u)
        /\ \A incl \in BOOLEAN :
            listOrganizationsForUserIDs(d, {u}, incl) = Memory!listOrganizationsForUserIDs(m, {u}, incl)
    /\ \A e \in Emails : Same(FindUserByEmail(d, e), Memory!FindUserByEmail(m, e))
    /\ \A l \in LoginIDs :
        /\ Same(FindUserByLogin(d, l), Memory!FindUserByLogin(m, l))
        /\ Same(GetLogin(d, l), Memory!GetLogin(m, l))
    /\ \A f \in Filters("UsersByID", SUBSET {0, 1}) \cup Filters("Admin", BOOLEAN)
                \cup Filters("LoggedInSince", Calls!Times) :
        ListUsers(d, f) = Memory!ListUsers(m, f)
    \* They part on a user who never logged in, and on one who did at that time.
    /\ \A f \in Filters("NotLoggedInSince", Calls!Times) :
        LET Differ == {u \in DOMAIN d.users : d.users[u].last \in {f.arg, Null}}
        IN  ListUsers(d, f) \ Differ = Memory!ListUsers(m, f) \ Differ

TeamsAgree(d, m) ==
    /\ ListTeams(d) = Memory!ListTeams(m)
    /\ ListTeamMemberships(d) = Memory!ListTeamMemberships(m)
    /\ \A t \in DOMAIN d.teams :
        /\ Same(FindTeamByInternalID(d, t), Memory!FindTeamByInternalID(m, t))
        /\ Same(Ok(d, ListTeamUsers(d, t)), Memory!ListTeamUsers(m, t))
        /\ Same(Ok(d, ListTeamUsersWithRoles(d, t)), Memory!ListTeamUsersWithRoles(m, t))
        /\ ListOrganizationsInTeam(d, t) = Memory!ListOrganizationsInTeam(m, t)
        /\ \A u \in DOMAIN d.users :
            Same(GetUserRoleInTeam(d, u, t), Memory!GetUserRoleInTeam(m, u, t))
    /\ \A x \in TeamIDs : Same(FindTeamByExternalID(d, x), Memory!FindTeamByExternalID(m, x))
    /\ \A f \in Filters("TeamID", DOMAIN d.teams) \cup Filters("TeamExternalID", TeamIDs) :
        ListAllTeams(d, f) = Memory!ListAllTeams(m, f)

InstancesAgree(d, m) ==
    /\ \A x \in ExternalIDs :
        /\ Same(FindOrganizationByID(d, x), Memory!FindOrganizationByID(m, x))
        /\ OrganizationExists(d, x) = Memory!OrganizationExists(m, x)
        /\ ExternalIDUsed(d, x) = Memory!ExternalIDUsed(m, x)
        /\ Same(GetOrganizationName(d, x), Memory!GetOrganizationName(m, x))
        /\ \A u \in DOMAIN d.users : UserIsMemberOf(d, u, x) = Memory!UserIsMemberOf(m, u, x)
        \* Of an organization that is not there, one lists nobody and the other fails.
        /\ \A excl \in BOOLEAN :
            OrganizationExists(d, x) =>
                Same(Ok(d, ListOrganizationUsers(d, x, FALSE, excl)), Memory!listOrganizationUsers(m, x, excl))
        /\ ListOrganizationWebhooks(d, x) = Memory!ListOrganizationWebhooks(m, x)
    /\ \A t \in Tokens : Same(FindOrganizationByProbeToken(d, t), Memory!FindOrganizationByProbeToken(m, t))
    /\ \A o \in DOMAIN d.organizations :
        Same(FindOrganizationByInternalID(d, o), Memory!FindOrganizationByInternalID(m, o))
    \* Deleted organizations are left to clean too, but not in memory.
    /\ FindUncleanedOrgIDs(d) \cap Live(d, "organizations") = Memory!FindUncleanedOrgIDs(m)
    \* An organization of a team without members is summed up in memory only.
    /\ GetSummary(d) = {e \in Memory!GetSummary(m) : e[3] # {}}
    /\ \A a \in Accounts :
        /\ Same(FindGCP(d, a), Memory!FindGCP(m, a))
        /\ LET Attached == {o \in organizationsQuery(d) : d.organizations[o].gcp \in gcpQuery(d, a)}
           IN  Cardinality(Attached) <= 1 =>
                Same(FindOrganizationByGCPExternalAccountID(d, a),
                     Memory!FindOrganizationByGCPExternalAccountID(m, a))
    /\ \A s \in Secrets :
        Same(FindOrganizationWebhookBySecretID(d, s), Memory!FindOrganizationWebhookBySecretID(m, s))

\* The two forms of a filter list the same organizations, deleted ones too.
FiltersAgree(d, m) ==
    /\ \A f \in Filters("ZuoraAccount", BOOLEAN) \cup Filters("GCP", BOOLEAN)
                \cup Filters("SeenPromConnected", BOOLEAN)
                \cup Filters("LastSentWeeklyReportBefore", Calls!Times)
                \cup Filters("HasFeatureFlag", {"billing", "other"})
                \cup Filters("ID", DOMAIN d.organizations) \cup Filters("ExternalID", ExternalIDs) :
        /\ ListOrganizations(d, f) = Memory!ListOrganizations(m, f)
        /\ ListAllOrganizations(d, f) = Memory!ListAllOrganizations(m, f)
    \* They part on an organization without a GCP account.
    /\ \A f \in Filters("GCPSubscription", BOOLEAN) :
        LET Differ == {o \in DOMAIN d.organizations : d.organizations[o].gcp = Null}
        IN  /\ ListOrganizations(d, f) \ Differ = Memory!ListOrganizations(m, f) \ Differ
            /\ ListAllOrganizations(d, f) \ Differ = Memory!ListAllOrganizations(m, f) \ Differ

(***************************************************************************)
(* Every query, with the filters written both in SQL and in Go, answers on *)
(* the tables what it answers on the maps they stand for; apart from the   *)
(* disagreements noted above.                                              *)
(***************************************************************************)
AnswersAgree ==
    call = Null => LET d == db
                       m == MemoryOf(db)
                   IN  /\ UsersAgree(d, m)
                       /\ TeamsAgree(d, m)
                       /\ InstancesAgree(d, m)
                       /\ FiltersAgree(d, m)

(***************************************************************************)
(* Rows refer to rows that exist.                                          *)
(***************************************************************************)
TypeOK ==
    /\ \A o \in DOMAIN db.organizations : LET r == db.organizations[o]
                                          IN  /\ r.team \in DOMAIN db.teams
                                              /\ r.gcp \in DOMAIN db.gcp_accounts \cup {Null}
    /\ \A i \in DOMAIN db.team_memberships : LET r == db.team_memberships[i]
                                             IN  /\ r.user \in DOMAIN db.users
                                                 /\ r.team \in DOMAIN db.teams
                                                 /\ r.role \in Roles
    /\ \A i \in DOMAIN db.logins : db.logins[i].user \in DOMAIN db.users
    /\ \A i \in DOMAIN db.webhooks : db.webhooks[i].org \in DOMAIN db.organizations

(***************************************************************************)
(* What is not deleted belongs to something that is not deleted: a live    *)
(* organization has a live team, a live membership joins a live user and a *)
(* live team.  Nothing in the schema says so; DeleteTeam and DeleteUser    *)
(* see to it one statement at a time.                                      *)
(***************************************************************************)
NothingDangles ==
    /\ \A o \in Live(db, "organizations") : db.organizations[o].team \in Live(db, "teams")
    /\ \A i \in Live(db, "team_memberships") :
        /\ db.team_memberships[i].user \in Live(db, "users")
        /\ db.team_memberships[i].team \in Live(db, "teams")

(***************************************************************************)
(* A refused call leaves no trace, except that CreateOrganizationWithTeam  *)
(* leaves the team it created for the organization it then refused.        *)
(***************************************************************************)
RefusedLeavesNoTrace ==
    [][call' # Null /\ ~out'[1] =>
        \/ db' = db
        \/ /\ call'[1] = "CreateOrganizationWithTeam"
           /\ db'.organizations = db.organizations]_vars
=============================================================================
