---------------------------- MODULE UsersMemory ----------------------------
(***************************************************************************)
(* The in-memory users database (users/db/memory), which unit tests and    *)
(* local development run against: maps from ids to what is stored, with    *)
(* the deleted organizations in a map of their own.  It serves here as the *)
(* specification the Postgres database is compared with.                   *)
(***************************************************************************)
EXTENDS UsersFilters

VARIABLES db, call, out

vars == <<db, call, out>>

New ==
    [users |-> <<>>, organizations |-> <<>>, deletedOrganizations |-> <<>>,
     logins |-> <<>>, gcpAccounts |-> <<>>, teams |-> <<>>,
     teamMemberships |-> <<>>, webhooks |-> <<>>]

\* The next id: fmt.Sprint(len(m)), which an id in use takes over after a deletion.
NewID(m) == Cardinality(DOMAIN m)

\* What a loop over a map finds first.
First(d, S) == IF S = {} THEN Fail(d, "ErrNotFound") ELSE Ok(d, CHOOSE i \in S : TRUE)

(***************************************************************************)
(* Users and their logins                                                  *)
(***************************************************************************)
createUser(d, email, details) ==
    LET id == NewID(d.users)
        u == [email |-> email, details |-> details, admin |-> FALSE,
              token |-> "", first |-> Null, last |-> Null]
    IN  Ok([d EXCEPT !.users = (id :> u) @@ @], id)

CreateUser(d, email, details) == createUser(d, email, details)

findUserByID(d, id) ==
    IF id \in DOMAIN d.users THEN Ok(d, id) ELSE Fail(d, "ErrNotFound")

FindUserByID(d, id) == findUserByID(d, id)

findUserByEmail(d, email) ==
    First(d, {i \in DOMAIN d.users : d.users[i].email = email})

FindUserByEmail(d, email) == findUserByEmail(d, email)

findUserByLogin(d, l) ==
    IF l \in DOMAIN d.logins THEN findUserByID(d, d.logins[l].user)
                             ELSE Fail(d, "ErrNotFound")

FindUserByLogin(d, l) == findUserByLogin(d, l)

\* A write to a user that is not there dereferences nil.
UpdateUser(d, id, details) ==
    IF id \notin DOMAIN d.users
    THEN IF details = "" THEN Ok(d, Null) ELSE Fail(d, "panic")
    ELSE Ok(IF details = "" THEN d ELSE [d EXCEPT !.users[id].details = details], id)

AddLoginToUser(d, id, l, session) ==
    Then(findUserByID(d, id),
         LAMBDA e, u : LET existing == findUserByLogin(d, l)
                       IN  IF existing.ok /\ existing.out # id
                           THEN Fail(d, "AlreadyAttachedError")
                           ELSE Ok([d EXCEPT !.logins =
                                        (l :> [user |-> id, session |-> session]) @@ @], Nil))

GetLogin(d, l) == IF l \in DOMAIN d.logins THEN Ok(d, d.logins[l]) ELSE Fail(d, "ErrNotFound")

DetachLoginFromUser(d, id) ==
    IF ~findUserByID(d, id).ok THEN Ok(d, Nil)
    ELSE Ok([d EXCEPT !.logins = Without(@, {l \in DOMAIN @ : @[l].user = id})], Nil)

ListLoginsForUserIDs(d, ids) == {l \in DOMAIN d.logins : d.logins[l].user \in ids}

changeUser(d, id, new) ==
    Then(findUserByID(d, id), LAMBDA e, u : Ok([d EXCEPT !.users[id] = new @@ @], Nil))

SetUserAdmin(d, id, v) == changeUser(d, id, [admin |-> v])

SetUserToken(d, id, token) == changeUser(d, id, [token |-> token])

SetUserLastLoginAt(d, id, now) ==
    Then(findUserByID(d, id), LAMBDA e, u :
        changeUser(d, u, [first |-> IF d.users[u].first = Null THEN now ELSE d.users[u].first,
                          last |-> now]))

ListUsers(d, f) == {i \in DOMAIN d.users : MatchesUser(f, i, d.users[i])}

(***************************************************************************)
(* Teams                                                                   *)
(***************************************************************************)
Members(d, t) == {m \in DOMAIN d.teamMemberships : m[2] = t}

FindTeamByExternalID(d, x) == First(d, {t \in DOMAIN d.teams : d.teams[t].ext = x})

FindTeamByInternalID(d, id) == First(d, DOMAIN d.teams \cap {id})

\* Taken when no team is there, or when some team has another external id.
generateTeamExternalID(d, x) ==
    d.teams = <<>> \/ \E t \in DOMAIN d.teams : d.teams[t].ext # x

\* x is the external id the generator comes up with.
CreateTeam(d, name, x) ==
    LET id == NewID(d.teams)
    IN  IF name = "" THEN Fail(d, "team name cannot be blank")
        ELSE Ok([d EXCEPT !.teams = (id :> [ext |-> x, name |-> name]) @@ @], id)

AddUserToTeam(d, u, t, role) ==
    IF <<u, t>> \in DOMAIN d.teamMemberships THEN Ok(d, Nil)
    ELSE Ok([d EXCEPT !.teamMemberships = (<<u, t>> :> role) @@ @], Nil)

CreateTeamAsUser(d, name, x, u) ==
    Then(CreateTeam(d, name, x),
         LAMBDA e, t : Then(AddUserToTeam(e, u, t, "admin"), LAMBDA f, n : Ok(f, t)))

DeleteTeam(d, t) ==
    IF \E o \in DOMAIN d.organizations : d.organizations[o].team = t
    THEN Fail(d, "ErrForbidden")
    ELSE Ok([d EXCEPT !.teamMemberships = Without(@, Members(d, t)),
                      !.teams = Without(@, {t})], Nil)

GetUserRoleInTeam(d, u, t) ==
    IF <<u, t>> \in DOMAIN d.teamMemberships THEN Ok(d, d.teamMemberships[<<u, t>>])
                                             ELSE Fail(d, "ErrNotFound")

UpdateUserRoleInTeam(d, u, t, role) ==
    Then(GetUserRoleInTeam(d, u, t),
         LAMBDA e, r : Ok([d EXCEPT !.teamMemberships[<<u, t>>] = role], Nil))

RemoveUserFromTeam(d, u, t) ==
    Ok([d EXCEPT !.teamMemberships = Without(@, {<<u, t>>})], Nil)

InviteUserToTeam(d, email, x, role) ==
    Then(FindTeamByExternalID(d, x),
         LAMBDA e, t :
            LET found == findUserByEmail(e, email)
                user == IF found.ok THEN found ELSE createUser(e, email, "")
            IN  Ok([user.db EXCEPT !.teamMemberships = (<<user.out, t>> :> role) @@ @],
                   <<user.out, ~found.ok>>))

getTeamUserIsPartOf(d, u, x) ==
    LET found == FindTeamByExternalID(d, x)
    IN  CASE ~found.ok -> Fail(d, "team does not exist")
          [] found.ok /\ <<u, found.out>> \in DOMAIN d.teamMemberships -> found
          [] OTHER -> Fail(d, "ErrNotFound")

ensureUserIsPartOfTeamByName(d, u, name, x) ==
    LET Named == {t \in DOMAIN d.teams : /\ <<u, t>> \in DOMAIN d.teamMemberships
                                         /\ d.teams[t].name = name}
    IN  IF Named # {} THEN First(d, Named) ELSE CreateTeamAsUser(d, name, x, u)

ListTeams(d) == DOMAIN d.teams

ListAllTeams(d, f) == {t \in DOMAIN d.teams : MatchesTeam(f, t, d.teams[t])}

ListTeamsForUserID(d, u) == {m[2] : m \in {n \in DOMAIN d.teamMemberships : n[1] = u}}

\* findUserByID fails for a member that is no user.
listTeamUsers(d, t, excludeNewUsers) ==
    IF \E m \in Members(d, t) : m[1] \notin DOMAIN d.users THEN Fail(d, "ErrNotFound")
    ELSE Ok(d, {m[1] : m \in {n \in Members(d, t) :
                                ~excludeNewUsers \/ d.users[n[1]].first # Null}})

ListTeamUsers(d, t) == listTeamUsers(d, t, FALSE)

ListTeamUsersWithRoles(d, t) ==
    Then(listTeamUsers(d, t, FALSE),
         LAMBDA e, S : Ok(d, {<<u, d.teamMemberships[<<u, t>>]>> : u \in S}))

ListTeamMemberships(d) ==
    {<<m[1], m[2], d.teamMemberships[m]>> : m \in DOMAIN d.teamMemberships}

(***************************************************************************)
(* Organizations                                                           *)
(***************************************************************************)
findOrganizationByExternalID(d, x) ==
    First(d, {o \in DOMAIN d.organizations : d.organizations[o].ext = x})

FindOrganizationByID(d, x) ==
    First(d, {o \in DOMAIN d.organizations : d.organizations[o].ext = x})

FindOrganizationByInternalID(d, id) == First(d, DOMAIN d.organizations \cap {id})

FindOrganizationByProbeToken(d, token) ==
    First(d, {o \in DOMAIN d.organizations : d.organizations[o].token = token})

FindOrganizationByGCPExternalAccountID(d, a) ==
    First(d, {o \in DOMAIN d.organizations : d.organizations[o].gcp = a})

organizationExists(d, x, includeDeleted) ==
    \/ findOrganizationByExternalID(d, x).ok
    \/ /\ includeDeleted
       /\ \E o \in DOMAIN d.deletedOrganizations : d.deletedOrganizations[o].ext = x

OrganizationExists(d, x) == organizationExists(d, x, FALSE)

ExternalIDUsed(d, x) == organizationExists(d, x, TRUE)

\* The generator tries until it comes up with an external id that was never used.
GenerateOrganizationExternalID(d, x) == ~organizationExists(d, x, TRUE)

GetOrganizationName(d, x) ==
    Then(findOrganizationByExternalID(d, x), LAMBDA e, o : Ok(d, d.organizations[o].cols.name))

UserIsMemberOf(d, u, x) ==
    LET found == findOrganizationByExternalID(d, x)
    IN  found.ok /\ <<u, d.organizations[found.out].team>> \in DOMAIN d.teamMemberships

\* Neither the user nor the organization is looked at before it is dereferenced.
RemoveUserFromOrganization(d, x, email) ==
    LET o == findOrganizationByExternalID(d, x)
        u == findUserByEmail(d, email)
    IN  IF ~o.ok \/ ~u.ok THEN Fail(d, "panic")
        ELSE RemoveUserFromTeam(d, u.out, d.organizations[o.out].team)

Matching(d, orgs, f) ==
    {o \in DOMAIN orgs :
        MatchesOrg(f, o, orgs[o], IF orgs[o].gcp = Null THEN Null ELSE d.gcpAccounts[orgs[o].gcp])}

ListOrganizations(d, f) == Matching(d, d.organizations, f)

ListAllOrganizations(d, f) == ListOrganizations(d, f) \cup Matching(d, d.deletedOrganizations, f)

ListOrganizationsInTeam(d, t) ==
    {o \in DOMAIN d.organizations : d.organizations[o].team = t}

listOrganizationsForUserIDs(d, us, includeDeleted) ==
    LET OfTeams(m) == {o \in DOMAIN m : \E u \in us : <<u, m[o].team>> \in DOMAIN d.teamMemberships}
    IN  OfTeams(d.organizations)
        \cup IF includeDeleted THEN OfTeams(d.deletedOrganizations) ELSE {}

listOrganizationUsers(d, x, excludeNewUsers) ==
    Then(findOrganizationByExternalID(d, x),
         LAMBDA e, o : listTeamUsers(d, d.organizations[o].team, excludeNewUsers))

\* Deleted organizations are in the other map and never show up here.
FindUncleanedOrgIDs(d) ==
    {o \in DOMAIN d.organizations : LET cols == d.organizations[o].cols
                                    IN  ~cols.cleanup /\ cols.upload}

GetSummary(d) ==
    {<<o, d.organizations[o].team, listOrganizationUsers(d, d.organizations[o].ext, FALSE).out>> :
        o \in DOMAIN d.organizations}

\* The owner is looked up first; teamNew is the external id a new team gets.
CreateOrganizationWithTeam(d, owner, x, name, token, teamExt, teamName, teamNew) ==
    Then(findUserByID(d, owner), LAMBDA d0, u :
    Then(IF teamExt # "" THEN getTeamUserIsPartOf(d0, owner, teamExt)
         ELSE ensureUserIsPartOfTeamByName(d0, owner, teamName, teamNew), LAMBDA e, team :
    LET cols == [name |-> name, trial |-> 1] @@ Columns
        id == NewID(e.organizations)
        o == [ext |-> x, token |-> token, team |-> team, flags |-> <<>>, gcp |-> Null,
              cols |-> cols]
    IN  CASE Valid(cols) # Nil -> Fail(e, Valid(cols))
          [] Valid(cols) = Nil /\ organizationExists(e, x, TRUE) -> Fail(e, "ErrOrgExternalIDIsTaken")
          [] Valid(cols) = Nil /\ ~organizationExists(e, x, TRUE)
                               /\ FindOrganizationByProbeToken(e, token).ok ->
                Fail(e, "ErrOrgTokenIsTaken")
          [] OTHER -> Ok([e EXCEPT !.organizations = (id :> o) @@ @], id)))

DeleteOrganization(d, x) ==
    LET found == findOrganizationByExternalID(d, x)
        o == found.out
    IN  IF ~found.ok THEN Ok(d, Nil)
        ELSE Ok([d EXCEPT !.deletedOrganizations = (o :> d.organizations[o]) @@ @,
                          !.organizations = Without(@, {o})], Nil)

changeOrg(d, x, new) ==
    Then(findOrganizationByExternalID(d, x),
         LAMBDA e, o : Ok([d EXCEPT !.organizations[o] = new @@ @], Nil))

SetColumn(d, x, c, v) ==
    Then(findOrganizationByExternalID(d, x),
         LAMBDA e, o : Ok([d EXCEPT !.organizations[o].cols[c] = v], Nil))

\* The update is in place before it is found to be invalid, and stays.
UpdateOrganization(d, x, update) ==
    Then(findOrganizationByExternalID(d, x), LAMBDA d0, o :
        LET e == [d0 EXCEPT !.organizations[o].cols = Written(@, update)]
            valid == Valid(e.organizations[o].cols)
        IN  IF valid = Nil THEN Ok(e, o) ELSE Fail(e, valid))

MoveOrganizationToTeam(d, x, teamExt, teamName, teamNew, u) ==
    Then(IF teamName # "" THEN CreateTeamAsUser(d, teamName, teamNew, u)
         ELSE FindTeamByExternalID(d, teamExt),
         LAMBDA e, t : changeOrg(e, x, [team |-> t]))

AddFeatureFlag(d, x, f) ==
    Then(findOrganizationByExternalID(d, x),
         LAMBDA e, o : changeOrg(d, x, [flags |-> Append(d.organizations[o].flags, f)]))

SetFeatureFlags(d, x, fs) == changeOrg(d, x, [flags |-> fs])

SetOrganizationCleanup(d, id, v) ==
    Then(FindOrganizationByInternalID(d, id),
         LAMBDA e, o : SetColumn(d, d.organizations[o].ext, "cleanup", v))

SetOrganizationRefuseDataAccess(d, x, v) == SetColumn(d, x, "access", v)

SetOrganizationRefuseDataUpload(d, x, v) == SetColumn(d, x, "upload", v)

SetOrganizationRefuseDataReason(d, x, v) == SetColumn(d, x, "reason", v)

SetOrganizationFirstSeenConnectedAt(d, x, v) == SetColumn(d, x, "seen", v)

SetOrganizationFirstSeenFluxConnectedAt(d, x, v) == SetColumn(d, x, "seen_flux", v)

SetOrganizationFirstSeenNetConnectedAt(d, x, v) == SetColumn(d, x, "seen_net", v)

SetOrganizationFirstSeenPromConnectedAt(d, x, v) == SetColumn(d, x, "seen_prom", v)

SetOrganizationFirstSeenScopeConnectedAt(d, x, v) == SetColumn(d, x, "seen_scope", v)

SetOrganizationZuoraAccount(d, x, number, at) ==
    Then(SetColumn(d, x, "zuora", number), LAMBDA e, n : SetColumn(e, x, "zuora_at", at))

SetOrganizationPlatformVersion(d, x, v) == SetColumn(d, x, "version", v)

SetLastSentWeeklyReportAt(d, x, v) == SetColumn(d, x, "weekly", v)

(***************************************************************************)
(* GCP accounts                                                            *)
(***************************************************************************)
FindGCP(d, a) == IF a \in DOMAIN d.gcpAccounts THEN Ok(d, d.gcpAccounts[a])
                                               ELSE Fail(d, "ErrNotFound")

createGCP(d, a) ==
    IF a \in DOMAIN d.gcpAccounts THEN Fail(d, "account is already in use")
    ELSE Ok([d EXCEPT !.gcpAccounts =
                (a :> [activated |-> FALSE, subscription |-> "", status |-> ""]) @@ @], a)

UpdateGCP(d, a, subscription, status) ==
    Then(FindGCP(d, a),
         LAMBDA e, g : Ok([d EXCEPT !.gcpAccounts[a] = [activated |-> TRUE,
                            subscription |-> subscription, status |-> status]], Nil))

SetOrganizationGCP(d, x, a, now) ==
    Then(findOrganizationByExternalID(d, x), LAMBDA e, i :
        IF d.organizations[i].gcp # Null THEN Fail(d, "organization already has a GCP account")
        ELSE LET o == d.organizations[i]
             IN  changeOrg(d, x,
                    [gcp |-> IF a \in DOMAIN d.gcpAccounts THEN a ELSE Null,
                     cols |-> [platform |-> "kubernetes", environment |-> "gke", trial |-> now] @@ o.cols,
                     flags |-> IF HasFeatureFlag(o.flags, "billing") THEN o.flags
                               ELSE Append(o.flags, "billing")]))

CreateOrganizationWithGCP(d, owner, a, x, token, teamNew, now) ==
    Then(CreateOrganizationWithTeam(d, owner, x, "default", token, "", DefaultTeamName(x), teamNew),
         LAMBDA e, o : Then(createGCP(e, a),
         LAMBDA f, g : Then(SetOrganizationGCP(f, x, a, now), LAMBDA h, n : Ok(h, o))))

(***************************************************************************)
(* Webhooks, by secret id; kept by the external id of their organization.  *)
(***************************************************************************)
ListOrganizationWebhooks(d, x) == {s \in DOMAIN d.webhooks : d.webhooks[s].ext = x}

CreateOrganizationWebhook(d, x, secret) ==
    Then(findOrganizationByExternalID(d, x),
         LAMBDA e, o : Ok([d EXCEPT !.webhooks = (secret :> [ext |-> x, seen |-> Null]) @@ @],
                          secret))

DeleteOrganizationWebhook(d, x, secret) ==
    Ok([d EXCEPT !.webhooks = Without(@, ListOrganizationWebhooks(d, x) \cap {secret})], Nil)

FindOrganizationWebhookBySecretID(d, secret) ==
    IF secret \in DOMAIN d.webhooks THEN Ok(d, secret) ELSE Fail(d, "no such webhook")

SetOrganizationWebhookFirstSeenAt(d, secret, now) ==
    Then(FindOrganizationWebhookBySecretID(d, secret),
         LAMBDA e, s : Ok([d EXCEPT !.webhooks[secret].seen = now], now))

(***************************************************************************)
(* DeleteUser takes along the teams the user is the only member of, and    *)
(* the organizations of these teams.                                       *)
(***************************************************************************)
DeleteUser(d, u) ==
    LET Mine == {t \in ListTeamsForUserID(d, u) : Members(d, t) = {<<u, t>>}}
        Orgs == {o \in DOMAIN d.organizations : d.organizations[o].team \in Mine}
    IN  Ok([d EXCEPT !.organizations = Without(@, Orgs),
                     !.deletedOrganizations = [o \in Orgs |-> d.organizations[o]] @@ @,
                     !.teams = Without(@, Mine),
                     !.teamMemberships = Without(@, {m \in DOMAIN @ : m[1] = u}),
                     !.users = Without(@, {u})], Nil)

NewToken(d, t) == ~FindOrganizationByProbeToken(d, t).ok

NewSecret(d, s) == s \notin DOMAIN d.webhooks

(***************************************************************************)
(* Specification                                                           *)
(***************************************************************************)
Calls == INSTANCE UsersCalls

Init ==
    /\ db \in {New, Calls!Populated(New)}
    /\ call = Null
    /\ out = Null

Next ==
    \/ Calls!UserCalls
    \/ Calls!TeamCalls
    \/ Calls!InstanceCalls
    \/ Calls!SettingCalls
    \/ Calls!GCPCalls
    \/ Calls!WebhookCalls
    \/ Calls!Return

Spec == Init /\ [][Next]_vars
=============================================================================
