---------------------------- MODULE UsersCalls ----------------------------
(***************************************************************************)
(* The interface DB of users/db/db.go: the calls the users service makes   *)
(* that change something, for either implementation.  A call leaves its    *)
(* name and arguments in call and what it returned in out, until the       *)
(* caller takes the result.  Owners, inviters and team members come from   *)
(* a request that was authenticated, so they are users at that moment; an  *)
(* id in a URL may be that of anything, or of nothing.                     *)
(***************************************************************************)
EXTENDS UsersStore

CONSTANTS
    CreateUser(_, _, _), UpdateUser(_, _, _), DeleteUser(_, _), FindUserByID(_, _),
    AddLoginToUser(_, _, _, _), DetachLoginFromUser(_, _), SetUserAdmin(_, _, _),
    SetUserToken(_, _, _), SetUserLastLoginAt(_, _, _),
    generateTeamExternalID(_, _), CreateTeam(_, _, _), AddUserToTeam(_, _, _, _),
    DeleteTeam(_, _), UpdateUserRoleInTeam(_, _, _, _), RemoveUserFromTeam(_, _, _),
    InviteUserToTeam(_, _, _, _), RemoveUserFromOrganization(_, _, _),
    FindTeamByInternalID(_, _), GenerateOrganizationExternalID(_, _),
    CreateOrganizationWithTeam(_, _, _, _, _, _, _, _), DeleteOrganization(_, _),
    UpdateOrganization(_, _, _), MoveOrganizationToTeam(_, _, _, _, _, _),
    AddFeatureFlag(_, _, _), SetFeatureFlags(_, _, _), SetOrganizationCleanup(_, _, _),
    SetOrganizationRefuseDataAccess(_, _, _), SetOrganizationRefuseDataUpload(_, _, _),
    SetOrganizationRefuseDataReason(_, _, _), SetOrganizationFirstSeenConnectedAt(_, _, _),
    SetOrganizationFirstSeenFluxConnectedAt(_, _, _),
    SetOrganizationFirstSeenNetConnectedAt(_, _, _),
    SetOrganizationFirstSeenPromConnectedAt(_, _, _),
    SetOrganizationFirstSeenScopeConnectedAt(_, _, _),
    SetOrganizationZuoraAccount(_, _, _, _), SetOrganizationPlatformVersion(_, _, _),
    SetLastSentWeeklyReportAt(_, _, _), UpdateGCP(_, _, _, _), SetOrganizationGCP(_, _, _, _),
    CreateOrganizationWithGCP(_, _, _, _, _, _, _), CreateOrganizationWebhook(_, _, _),
    DeleteOrganizationWebhook(_, _, _), SetOrganizationWebhookFirstSeenAt(_, _, _),
    NewToken(_, _),      \* a probe token that is not taken
    NewSecret(_, _)      \* a webhook secret that never came up

VARIABLES db, call, out

(***************************************************************************)
(* Arguments                                                               *)
(***************************************************************************)
IDs == 0..2

Times == 1..2

User(u) == FindUserByID(db, u).ok

Team(t) == FindTeamByInternalID(db, t).ok

\* Views an instance is updated with: some are refused by Organization.Valid.
OrgWriteViews ==
    {<<>>, [name |-> "new"], [name |-> ""], [platform |-> "ecs"],
     [platform |-> "kubernetes", environment |-> "gke"],
     [platform |-> "ecs", environment |-> "gke"],
     [platform |-> "mars", environment |-> "gke"],
     [trial |-> 2], [trial |-> 0], [pending |-> 1, expired |-> 0],
     [expired |-> 1, pending |-> 0]}

(***************************************************************************)
(* What a few calls make of an empty database: two users, the first with a *)
(* login and a team that has an organization.                              *)
(***************************************************************************)
Populated(d) ==
    LET email == CHOOSE e \in Emails : TRUE
        other == CHOOSE e \in Emails \ {email} : TRUE
        users == CreateUser(CreateUser(d, email, "").db, other, "").db
        login == AddLoginToUser(users, 0, CHOOSE l \in LoginIDs : TRUE, "s1").db
    IN  CreateOrganizationWithTeam(login, 0, CHOOSE x \in ExternalIDs : TRUE, "org",
                                   CHOOSE t \in Tokens : TRUE, "", CHOOSE n \in TeamNames : TRUE,
                                   CHOOSE x \in TeamIDs : TRUE).db

Call(c, allowed, r) ==
    /\ call = Null
    /\ call' = c
    /\ allowed
    /\ db' = r.db
    /\ out' = <<r.ok, r.out>>

Return ==
    /\ call # Null
    /\ call' = Null
    /\ out' = Null
    /\ UNCHANGED db

(***************************************************************************)
(* Users and their logins                                                  *)
(***************************************************************************)
UserCalls ==
    \/ \E e \in Emails, s \in {"", "details"} :
            Call(<<"CreateUser", e, s>>, TRUE, CreateUser(db, e, s))
    \/ \E u \in IDs :
        \/ \E s \in {"", "new"} : Call(<<"UpdateUser", u, s>>, TRUE, UpdateUser(db, u, s))
        \/ Call(<<"DeleteUser", u>>, TRUE, DeleteUser(db, u))
        \/ \E l \in LoginIDs, s \in {"s1", "s2"} :
            Call(<<"AddLoginToUser", u, l, s>>, User(u), AddLoginToUser(db, u, l, s))
        \/ Call(<<"DetachLoginFromUser", u>>, TRUE, DetachLoginFromUser(db, u))
        \/ \E v \in BOOLEAN : Call(<<"SetUserAdmin", u, v>>, TRUE, SetUserAdmin(db, u, v))
        \/ \E s \in {"", "t"} : Call(<<"SetUserToken", u, s>>, TRUE, SetUserToken(db, u, s))
        \/ \E t \in Times :
            Call(<<"SetUserLastLoginAt", u, t>>, TRUE, SetUserLastLoginAt(db, u, t))

(***************************************************************************)
(* Teams                                                                   *)
(***************************************************************************)
TeamCalls ==
    \/ \E n \in TeamNames \cup {""}, x \in TeamIDs :
            Call(<<"CreateTeam", n, x>>, generateTeamExternalID(db, x), CreateTeam(db, n, x))
    \/ \E u \in IDs, t \in IDs :
        \/ \E r \in Roles :
            \/ Call(<<"AddUserToTeam", u, t, r>>, User(u) /\ Team(t), AddUserToTeam(db, u, t, r))
            \/ Call(<<"UpdateUserRoleInTeam", u, t, r>>, Team(t), UpdateUserRoleInTeam(db, u, t, r))
        \/ Call(<<"RemoveUserFromTeam", u, t>>, Team(t), RemoveUserFromTeam(db, u, t))
    \/ \E e \in Emails, x \in TeamIDs, r \in Roles :
            Call(<<"InviteUserToTeam", e, x, r>>, TRUE, InviteUserToTeam(db, e, x, r))
    \/ \E x \in ExternalIDs, e \in Emails :
            Call(<<"RemoveUserFromOrganization", x, e>>, TRUE, RemoveUserFromOrganization(db, x, e))
    \/ \E t \in IDs : Call(<<"DeleteTeam", t>>, TRUE, DeleteTeam(db, t))

(***************************************************************************)
(* Organizations.  A team is asked for by its external id or by its name.  *)
(***************************************************************************)
InstanceCalls ==
    \/ \E u \in IDs, x \in ExternalIDs, n \in {"", "org"}, t \in Tokens, y \in TeamIDs :
        \/ Call(<<"CreateOrganizationWithTeam", u, x, n, t, y, "", "">>, User(u),
                 CreateOrganizationWithTeam(db, u, x, n, t, y, "", ""))
        \/ \E z \in TeamNames :
            Call(<<"CreateOrganizationWithTeam", u, x, n, t, "", z, y>>,
                 User(u) /\ generateTeamExternalID(db, y),
                 CreateOrganizationWithTeam(db, u, x, n, t, "", z, y))
    \/ \E u \in IDs, x \in ExternalIDs, y \in TeamIDs :
        \/ Call(<<"MoveOrganizationToTeam", x, y, "", "", u>>, User(u),
                 MoveOrganizationToTeam(db, x, y, "", "", u))
        \/ \E z \in TeamNames :
            Call(<<"MoveOrganizationToTeam", x, "", z, y, u>>,
                 User(u) /\ generateTeamExternalID(db, y),
                 MoveOrganizationToTeam(db, x, "", z, y, u))
    \/ \E x \in ExternalIDs : Call(<<"DeleteOrganization", x>>, TRUE, DeleteOrganization(db, x))
    \/ \E u \in IDs : Call(<<"DeleteUser", u>>, TRUE, DeleteUser(db, u))
    \/ \E t \in IDs : Call(<<"DeleteTeam", t>>, TRUE, DeleteTeam(db, t))

(***************************************************************************)
(* Settings of an organization                                             *)
(***************************************************************************)
SettingCalls ==
    \/ \E id \in IDs, v \in BOOLEAN :
        Call(<<"SetOrganizationCleanup", id, v>>, TRUE, SetOrganizationCleanup(db, id, v))
    \/ \E x \in ExternalIDs :
        \/ \E v \in OrgWriteViews :
            Call(<<"UpdateOrganization", x, v>>, TRUE, UpdateOrganization(db, x, v))
        \/ \E f \in {"billing", "other"} :
            Call(<<"AddFeatureFlag", x, f>>, TRUE, AddFeatureFlag(db, x, f))
        \/ \E fs \in {<<>>, <<"other">>} :
            Call(<<"SetFeatureFlags", x, fs>>, TRUE, SetFeatureFlags(db, x, fs))
        \/ \E v \in BOOLEAN :
            \/ Call(<<"SetOrganizationRefuseDataAccess", x, v>>, TRUE,
                    SetOrganizationRefuseDataAccess(db, x, v))
            \/ Call(<<"SetOrganizationRefuseDataUpload", x, v>>, TRUE,
                    SetOrganizationRefuseDataUpload(db, x, v))
        \/ Call(<<"SetOrganizationRefuseDataReason", x, "why">>, TRUE,
                SetOrganizationRefuseDataReason(db, x, "why"))
        \/ \E t \in Times :
            \/ Call(<<"SetOrganizationFirstSeenConnectedAt", x, t>>, TRUE,
                    SetOrganizationFirstSeenConnectedAt(db, x, t))
            \/ Call(<<"SetOrganizationFirstSeenFluxConnectedAt", x, t>>, TRUE,
                    SetOrganizationFirstSeenFluxConnectedAt(db, x, t))
            \/ Call(<<"SetOrganizationFirstSeenNetConnectedAt", x, t>>, TRUE,
                    SetOrganizationFirstSeenNetConnectedAt(db, x, t))
            \/ Call(<<"SetOrganizationFirstSeenPromConnectedAt", x, t>>, TRUE,
                    SetOrganizationFirstSeenPromConnectedAt(db, x, t))
            \/ Call(<<"SetOrganizationFirstSeenScopeConnectedAt", x, t>>, TRUE,
                    SetOrganizationFirstSeenScopeConnectedAt(db, x, t))
            \/ Call(<<"SetLastSentWeeklyReportAt", x, t>>, TRUE, SetLastSentWeeklyReportAt(db, x, t))
        \/ Call(<<"SetOrganizationZuoraAccount", x, "Z1", 1>>, TRUE,
                SetOrganizationZuoraAccount(db, x, "Z1", 1))
        \/ Call(<<"SetOrganizationPlatformVersion", x, "v1">>, TRUE,
                SetOrganizationPlatformVersion(db, x, "v1"))
        \/ Call(<<"DeleteOrganization", x>>, TRUE, DeleteOrganization(db, x))

(***************************************************************************)
(* GCP accounts                                                            *)
(***************************************************************************)
GCPCalls ==
    \/ \E u \in IDs, a \in Accounts, x \in ExternalIDs, t \in Tokens, y \in TeamIDs :
        Call(<<"CreateOrganizationWithGCP", u, a, x, t, y>>,
             /\ User(u)
             /\ GenerateOrganizationExternalID(db, x)
             /\ generateTeamExternalID(db, y)
             /\ NewToken(db, t),
             CreateOrganizationWithGCP(db, u, a, x, t, y, 2))
    \/ \E a \in Accounts, s \in {"sub1", "sub2"}, status \in {"active", "cancelled"} :
        Call(<<"UpdateGCP", a, s, status>>, TRUE, UpdateGCP(db, a, s, status))
    \/ \E x \in ExternalIDs, a \in Accounts :
        Call(<<"SetOrganizationGCP", x, a>>, TRUE, SetOrganizationGCP(db, x, a, 2))
    \/ \E x \in ExternalIDs : Call(<<"DeleteOrganization", x>>, TRUE, DeleteOrganization(db, x))

(***************************************************************************)
(* Webhooks                                                                *)
(***************************************************************************)
WebhookCalls ==
    \/ \E x \in ExternalIDs, s \in Secrets :
        \/ Call(<<"CreateOrganizationWebhook", x, s>>, NewSecret(db, s),
                 CreateOrganizationWebhook(db, x, s))
        \/ Call(<<"DeleteOrganizationWebhook", x, s>>, TRUE, DeleteOrganizationWebhook(db, x, s))
    \/ \E s \in Secrets, t \in Times :
        Call(<<"SetOrganizationWebhookFirstSeenAt", s, t>>, TRUE,
             SetOrganizationWebhookFirstSeenAt(db, s, t))
    \/ \E x \in ExternalIDs : Call(<<"DeleteOrganization", x>>, TRUE, DeleteOrganization(db, x))
=============================================================================
