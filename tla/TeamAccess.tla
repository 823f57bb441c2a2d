----------------------------- MODULE TeamAccess -----------------------------
(***************************************************************************)
(* Teams of the users service: who is a member of which team with which    *)
(* role, and which team owns an organization (users/api/team.go,           *)
(* users/api/org.go, users/api/admin.go over users/db/postgres).           *)
(*                                                                         *)
(* A request is served by one handler.  What a handler reads and checks    *)
(* before its first write is one step; every statement that writes is a    *)
(* step of its own, because none of them share a transaction with the      *)
(* checks.  Any statement can fail, which ends the request and leaves what *)
(* was already written.  A check that fails answers an error and changes   *)
(* nothing, so it is not a step.                                           *)
(***************************************************************************)
EXTENDS Naturals, FiniteSets

CONSTANTS
  Users, Teams, Orgs,
  Handlers,      \* requests that can be served at the same time
  External,      \* teams whose billing account has the provider "external"
  Weavers,       \* users with a @weave.works address
  Unpaid,        \* orgs past their trial with no Zuora or GCP account
  LongUnpaid,    \* ... for more than TrialRefuseDataUploadAfter
  Staff,         \* whether staff use the admin pages
  MaxFailures,   \* bound: how many statements fail
  None

ASSUME TeamAccessAssumption ==
  /\ External \subseteq Teams /\ Weavers \subseteq Users
  /\ LongUnpaid \subseteq Unpaid /\ Unpaid \subseteq Orgs
  /\ Staff \in BOOLEAN /\ MaxFailures \in Nat
  /\ None \notin Users \union Teams \union Orgs

VARIABLES
  account,    \* the users table: not created yet, live, deleted
  team,       \* the teams table
  role,       \* team_memberships: the role of a user in a team, or NoRole
  orgLive,    \* organizations that are not deleted
  orgTeam,    \* organizations.team_id
  flags,      \* organizations.feature_flags, the ones about billing
  refused,    \* organizations.refuse_data_access and refuse_data_upload
  answered,   \* orgs whose last change of team was answered with success
  failures,   \* how many statements have failed
  staffed,    \* history: teams of which staff have removed a member
  req         \* the request each handler is serving

vars == <<account, team, role, orgLive, orgTeam, flags, refused, answered,
          failures, staffed, req>>

Life == {"absent", "live", "deleted"}

\* "editor" may do no more in these handlers than "viewer" does.
Roles == {"admin", "viewer"}
NoRole == "none"
Flags == {"billing", "no-billing", "weaveworks-internal"}
Refusals == {"access", "upload"}

Steps == {"idle", "setRole", "remove", "removeFromOrg", "invite", "hasOrgs",
          "dropMembers", "dropTeam", "sole", "soleOrgs", "dropMemberships",
          "dropUser", "dropOrg", "createTeam", "joinTeam", "findTeam",
          "moveOrg", "moved", "setFlags", "refuse"}

Request ==
  [pc : Steps, actor : Users \union {None}, user : Users \union {None},
   team : Teams \union {None}, role : Roles, org : Orgs \union {None},
   prev : Teams \union {None}, teams : SUBSET Teams, orgs : SUBSET Orgs,
   ff : SUBSET Flags]

Idle == [pc |-> "idle", actor |-> None, user |-> None, team |-> None,
         role |-> "viewer", org |-> None, prev |-> None, teams |-> {},
         orgs |-> {}, ff |-> {}]

Exactly1(S) == \E x \in S : S = {x}

Rows(t) == {u \in Users : role[t][u] # NoRole}
Members(t) == {u \in Rows(t) : account[u] = "live"}
Admins(t) == {u \in Members(t) : role[t][u] = "admin"}
OrgsOf(t) == {o \in orgLive : orgTeam[o] = t}

userCanAccessTeam(u, t) == team[t] = "live" /\ u \in Rows(t)

\* Every permission these handlers ask for belongs to the role "admin" only.
requirePermission(u, t) == role[t][u] = "admin"
RequireTeamMemberPermissionTo(u, t) == team[t] = "live" /\ requirePermission(u, t)

TypeOK ==
  /\ account \in [Users -> Life]
  /\ team \in [Teams -> Life]
  /\ role \in [Teams -> [Users -> Roles \union {NoRole}]]
  /\ orgLive \subseteq Orgs
  /\ orgTeam \in [Orgs -> Teams]
  /\ flags \in [Orgs -> SUBSET Flags]
  /\ refused \in [Orgs -> SUBSET Refusals]
  /\ answered \subseteq Orgs
  /\ failures \in 0 .. MaxFailures
  /\ staffed \subseteq Teams
  /\ req \in [Handlers -> Request]

BillingFlags(t) == IF t \in External THEN {"no-billing"} ELSE {"billing"}

\* Teams and orgs as sign-up leaves them: whoever created a team is its admin.
Init ==
  /\ account \in [Users -> {"absent", "live"}]
  /\ team \in [Teams -> {"absent", "live"}]
  /\ role \in [Teams -> [Users -> {"admin", NoRole}]]
  /\ \A t \in Teams : \A u \in Rows(t) : team[t] = "live" /\ account[u] = "live"
  /\ \A t \in Teams : team[t] = "live" => Rows(t) # {}
  /\ orgLive = Orgs
  /\ orgTeam \in [Orgs -> Teams]
  /\ \A o \in Orgs : team[orgTeam[o]] = "live"
  /\ flags = [o \in Orgs |-> BillingFlags(orgTeam[o])]
  /\ refused = [o \in Orgs |-> {}]
  /\ answered = Orgs
  /\ failures = 0
  /\ staffed = {}
  /\ req = [h \in Handlers |-> Idle]

(***************************************************************************)
(* How a request starts, goes on and ends.                                 *)
(***************************************************************************)
Start(h, r) == req[h] = Idle /\ req' = [req EXCEPT ![h] = r]
At(h, pc) == req[h].pc = pc
Goto(h, pc) == req' = [req EXCEPT ![h] = [req[h] EXCEPT !.pc = pc]]
Done(h) == req' = [req EXCEPT ![h] = Idle]

restrictions == <<flags, refused, answered>>
members == <<account, team, role>>
orgVars == <<orgLive, orgTeam>>

Fail(h) ==
  /\ req[h] # Idle
  /\ failures < MaxFailures
  /\ failures' = failures + 1
  /\ Done(h)
  /\ UNCHANGED <<members, orgVars, restrictions, staffed>>

SetRole(t, u, r) == role' = [role EXCEPT ![t] = [role[t] EXCEPT ![u] = r]]

(***************************************************************************)
(* Members of a team.                                                      *)
(***************************************************************************)
updateUserRoleInTeam(h) ==
  \E a \in Users, u \in Users, t \in Teams, r \in Roles :
    /\ account[a] = "live" /\ account[u] = "live"
    /\ userCanAccessTeam(a, t)
    /\ a # u
    /\ RequireTeamMemberPermissionTo(a, t)
    /\ Start(h, [Idle EXCEPT !.pc = "setRole", !.user = u, !.team = t, !.role = r])
    /\ UNCHANGED <<members, orgVars, restrictions, failures, staffed>>

UpdateUserRoleInTeam(h) ==
  LET q == req[h] IN
  /\ At(h, "setRole")
  /\ IF q.user \in Rows(q.team) THEN SetRole(q.team, q.user, q.role)
                                ELSE UNCHANGED role
  /\ Done(h)
  /\ UNCHANGED <<account, team, orgVars, restrictions, failures, staffed>>

\* Mutant: the admins are not counted.
removeUserFromTeamUnguarded(h) ==
  \E a \in Users, u \in Users, t \in Teams :
    /\ account[a] = "live" /\ account[u] = "live"
    /\ userCanAccessTeam(a, t)
    /\ ~ Exactly1(Members(t))
    /\ u \in Rows(t)
    /\ a # u => RequireTeamMemberPermissionTo(a, t)
    /\ Start(h, [Idle EXCEPT !.pc = "remove", !.user = u, !.team = t])
    /\ UNCHANGED <<members, orgVars, restrictions, failures, staffed>>

removeUserFromTeam(h) ==
  \E a \in Users, u \in Users, t \in Teams :
    /\ account[a] = "live" /\ account[u] = "live"
    /\ userCanAccessTeam(a, t)
    /\ ~ Exactly1(Members(t))
    /\ u \in Rows(t)
    /\ role[t][u] = "admin" => ~ Exactly1(Admins(t))
    /\ a # u => RequireTeamMemberPermissionTo(a, t)
    /\ Start(h, [Idle EXCEPT !.pc = "remove", !.user = u, !.team = t])
    /\ UNCHANGED <<members, orgVars, restrictions, failures, staffed>>

RemoveUserFromTeam(h) ==
  /\ At(h, "remove")
  /\ SetRole(req[h].team, req[h].user, NoRole)
  /\ Done(h)
  /\ UNCHANGED <<account, team, orgVars, restrictions, failures, staffed>>

adminRemoveUserFromOrganization(h) ==
  \E u \in Users, o \in orgLive :
    /\ Staff
    /\ ~ Exactly1(Members(orgTeam[o]))
    /\ account[u] = "live"
    /\ Start(h, [Idle EXCEPT !.pc = "removeFromOrg", !.user = u, !.org = o])
    /\ UNCHANGED <<members, orgVars, restrictions, failures, staffed>>

\* The team is the one the org has by now.
RemoveUserFromOrganization(h) ==
  LET q == req[h] IN
  /\ At(h, "removeFromOrg")
  /\ IF account[q.user] = "live" /\ q.org \in orgLive
     THEN /\ SetRole(orgTeam[q.org], q.user, NoRole)
          /\ staffed' = staffed \union {orgTeam[q.org]}
     ELSE UNCHANGED <<role, staffed>>
  /\ Done(h)
  /\ UNCHANGED <<account, team, orgVars, restrictions, failures>>

inviteUserToTeam(h) ==
  \E a \in Users, t \in Teams, r \in Roles :
    /\ account[a] = "live"
    /\ userCanAccessTeam(a, t)
    /\ RequireTeamMemberPermissionTo(a, t)
    /\ Start(h, [Idle EXCEPT !.pc = "invite", !.team = t, !.role = r])
    /\ UNCHANGED <<members, orgVars, restrictions, failures, staffed>>

\* One transaction.  An address of no live user gets a new account; whoever is
\* a member keeps the role they have.
InviteUserToTeam(h) ==
  LET t == req[h].team IN
  /\ At(h, "invite")
  /\ \/ /\ team[t] = "live"
        /\ \E u \in {x \in Users : account[x] # "deleted"} :
             /\ account' = [account EXCEPT ![u] = "live"]
             /\ IF u \in Rows(t) THEN UNCHANGED role
                                 ELSE SetRole(t, u, req[h].role)
     \/ team[t] # "live" /\ UNCHANGED <<account, role>>
  /\ Done(h)
  /\ UNCHANGED <<team, orgVars, restrictions, failures, staffed>>

(***************************************************************************)
(* Deleting a team: DeleteTeam runs its three statements one by one.       *)
(***************************************************************************)
deleteTeam(h) ==
  \E a \in Users, t \in Teams :
    /\ account[a] = "live"
    /\ userCanAccessTeam(a, t)
    /\ Start(h, [Idle EXCEPT !.pc = "hasOrgs", !.team = t])
    /\ UNCHANGED <<members, orgVars, restrictions, failures, staffed>>

teamHasOrganizations(h) ==
  LET t == req[h].team IN
  /\ At(h, "hasOrgs")
  /\ IF team[t] = "live" /\ OrgsOf(t) # {} THEN Done(h) ELSE Goto(h, "dropMembers")
  /\ UNCHANGED <<members, orgVars, restrictions, failures, staffed>>

DeleteTeamMembers(h) ==
  LET t == req[h].team IN
  /\ At(h, "dropMembers")
  /\ role' = [role EXCEPT ![t] = [u \in Users |-> NoRole]]
  /\ Goto(h, "dropTeam")
  /\ UNCHANGED <<account, team, orgVars, restrictions, failures, staffed>>

\* DeleteUser goes on with the other teams of the user.
DeleteTeam(h) ==
  LET t == req[h].team IN
  /\ At(h, "dropTeam")
  /\ team' = [team EXCEPT ![t] = "deleted"]
  /\ IF req[h].user = None THEN Done(h) ELSE Goto(h, "sole")
  /\ UNCHANGED <<account, role, orgVars, restrictions, failures, staffed>>

(***************************************************************************)
(* Deleting a user.  DeleteUser opens a transaction but runs its           *)
(* statements outside of it, so each of them takes effect by itself.       *)
(***************************************************************************)
adminDeleteUser(h) ==
  \E u \in Users :
    /\ Staff
    /\ account[u] = "live"
    /\ Start(h, [Idle EXCEPT !.pc = "sole", !.user = u,
                   !.teams = {t \in Teams : team[t] = "live" /\ Rows(t) = {u}}])
    /\ UNCHANGED <<members, orgVars, restrictions, failures, staffed>>

\* Mutant: the teams that have no other member are left alone.
DeleteUserNoTeams(h) ==
  /\ At(h, "sole")
  /\ Goto(h, "dropMemberships")
  /\ UNCHANGED <<members, orgVars, restrictions, failures, staffed>>

DeleteUserNextTeam(h) ==
  LET q == req[h] IN
  /\ At(h, "sole")
  /\ \/ \E t \in q.teams :
          req' = [req EXCEPT ![h] = [q EXCEPT !.pc = "soleOrgs", !.team = t,
                               !.teams = q.teams \ {t}, !.orgs = OrgsOf(t)]]
     \/ q.teams = {} /\ Goto(h, "dropMemberships")
  /\ UNCHANGED <<members, orgVars, restrictions, failures, staffed>>

DeleteUserOrgs(h) ==
  LET q == req[h] IN
  /\ At(h, "soleOrgs")
  /\ \/ \E o \in q.orgs :
          /\ orgLive' = orgLive \ {o}
          /\ req' = [req EXCEPT ![h] = [q EXCEPT !.orgs = q.orgs \ {o}]]
     \/ q.orgs = {} /\ Goto(h, "hasOrgs") /\ UNCHANGED orgLive
  /\ UNCHANGED <<members, orgTeam, restrictions, failures, staffed>>

DeleteUserMemberships(h) ==
  LET u == req[h].user IN
  /\ At(h, "dropMemberships")
  /\ role' = [t \in Teams |-> [role[t] EXCEPT ![u] = NoRole]]
  /\ staffed' = staffed \union {t \in Teams : u \in Rows(t)}
  /\ Goto(h, "dropUser")
  /\ UNCHANGED <<account, team, orgVars, restrictions, failures>>

DeleteUser(h) ==
  /\ At(h, "dropUser")
  /\ account' = [account EXCEPT ![req[h].user] = "deleted"]
  /\ Done(h)
  /\ UNCHANGED <<team, role, orgVars, restrictions, failures, staffed>>

(***************************************************************************)
(* Organizations: deleting one, and moving one to a team that exists or to *)
(* a new one.                                                              *)
(***************************************************************************)
deleteOrg(h) ==
  \E a \in Users, o \in orgLive :
    /\ account[a] = "live"
    /\ requirePermission(a, orgTeam[o])
    /\ Start(h, [Idle EXCEPT !.pc = "dropOrg", !.org = o])
    /\ UNCHANGED <<members, orgVars, restrictions, failures, staffed>>

adminDeleteOrganization(h) ==
  \E o \in orgLive :
    /\ Staff
    /\ Start(h, [Idle EXCEPT !.pc = "dropOrg", !.org = o])
    /\ UNCHANGED <<members, orgVars, restrictions, failures, staffed>>

DeleteOrganization(h) ==
  /\ At(h, "dropOrg")
  /\ orgLive' = orgLive \ {req[h].org}
  /\ Done(h)
  /\ UNCHANGED <<members, orgTeam, restrictions, failures, staffed>>

updateOrg(h) ==
  \E a \in Users, o \in orgLive, t \in Teams \union {None} :
    /\ account[a] = "live"
    /\ RequireTeamMemberPermissionTo(a, orgTeam[o])
    /\ IF t = None THEN \E n \in Teams : team[n] = "absent"   \* bound: a team id is left
                   ELSE RequireTeamMemberPermissionTo(a, t)
    /\ Start(h, [Idle EXCEPT !.pc = IF t = None THEN "createTeam" ELSE "findTeam",
                   !.actor = a, !.org = o, !.team = t, !.prev = orgTeam[o]])
    /\ UNCHANGED <<members, orgVars, restrictions, failures, staffed>>

CreateTeam(h) ==
  /\ At(h, "createTeam")
  /\ \E t \in Teams :
       /\ team[t] = "absent"
       /\ team' = [team EXCEPT ![t] = "live"]
       /\ req' = [req EXCEPT ![h] = [req[h] EXCEPT !.pc = "joinTeam", !.team = t]]
  /\ UNCHANGED <<account, role, orgVars, restrictions, failures, staffed>>

CreateTeamAsUser(h) ==
  /\ At(h, "joinTeam")
  /\ SetRole(req[h].team, req[h].actor, "admin")
  /\ Goto(h, "moveOrg")
  /\ UNCHANGED <<account, team, orgVars, restrictions, failures, staffed>>

FindTeamByExternalID(h) ==
  /\ At(h, "findTeam")
  /\ IF team[req[h].team] = "live" THEN Goto(h, "moveOrg") ELSE Done(h)
  /\ UNCHANGED <<members, orgVars, restrictions, failures, staffed>>

MoveOrganizationToTeam(h) ==
  LET q == req[h] IN
  /\ At(h, "moveOrg")
  /\ orgTeam' = [orgTeam EXCEPT ![q.org] = q.team]
  /\ answered' = answered \ {q.org}
  /\ Goto(h, "moved")
  /\ UNCHANGED <<members, orgLive, flags, refused, failures, staffed>>

SameProvider(s, t) == s \in External <=> t \in External

\* An update whose error is only logged.
BestEffort(ok) ==
  /\ ok \/ failures < MaxFailures
  /\ failures' = IF ok THEN failures ELSE failures + 1

\* MoveOrg reads the org again and compares the providers of its old and its
\* new team; only if they differ are the restrictions refreshed, which starts
\* by allowing everything to an org that is billed externally.
MoveOrg(h) ==
  LET q == req[h]
      t == orgTeam[q.org]
  IN
  /\ At(h, "moved")
  /\ \/ /\ q.org \notin orgLive
        /\ Done(h)
        /\ UNCHANGED <<restrictions, failures>>
     \/ /\ q.org \in orgLive /\ SameProvider(q.prev, t)
        /\ answered' = answered \union {q.org}
        /\ Done(h)
        /\ UNCHANGED <<flags, refused, failures>>
     \/ /\ q.org \in orgLive /\ ~ SameProvider(q.prev, t)
        /\ \E kept \in SUBSET refused[q.org] :
             /\ t \notin External => kept = refused[q.org]
             /\ BestEffort(t \notin External \/ kept = {})
             /\ refused' = [refused EXCEPT ![q.org] = kept]
        /\ req' = [req EXCEPT ![h] = [q EXCEPT !.pc = "setFlags", !.team = t,
                                               !.ff = flags[q.org]]]
        /\ UNCHANGED <<flags, answered>>
  /\ UNCHANGED <<members, orgVars, staffed>>

NewFlags(a, t, old) ==
  LET add == IF a \in Weavers THEN {"no-billing", "weaveworks-internal"} ELSE BillingFlags(t)
      clear == IF "billing" \in add THEN "no-billing" ELSE "billing"
  IN  (old \ {clear}) \union add

\* Mutant: the flags follow the billing of the team the org leaves.
refreshOrganizationRestrictionsSwapped(h) ==
  LET q == req[h] IN
  /\ At(h, "setFlags")
  /\ \E ff \in {NewFlags(q.actor, q.prev, q.ff)} :
       /\ flags' = [flags EXCEPT ![q.org] = ff]
       /\ req' = [req EXCEPT ![h] = [q EXCEPT !.pc = "refuse", !.ff = ff]]
  /\ UNCHANGED <<members, orgVars, refused, answered, failures, staffed>>

\* The new flags are made from the ones MoveOrg read.
refreshOrganizationRestrictions(h) ==
  LET q == req[h] IN
  /\ At(h, "setFlags")
  /\ \E ff \in {NewFlags(q.actor, q.team, q.ff)} :
       /\ flags' = [flags EXCEPT ![q.org] = ff]
       /\ req' = [req EXCEPT ![h] = [q EXCEPT !.pc = "refuse", !.ff = ff]]
  /\ UNCHANGED <<members, orgVars, refused, answered, failures, staffed>>

ShouldRefuse(o, fs) ==
  IF "billing" \notin fs THEN {}
  ELSE {r \in Refusals : \/ r = "access" /\ o \in Unpaid
                         \/ r = "upload" /\ o \in LongUnpaid}

RefuseData(h) ==
  LET o == req[h].org
      refuse == ShouldRefuse(o, req[h].ff)
  IN
  /\ At(h, "refuse")
  /\ \E done \in SUBSET refuse :
       /\ BestEffort(done = refuse)
       /\ refused' = [refused EXCEPT ![o] = refused[o] \union (IF o \in orgLive THEN done ELSE {})]
  /\ answered' = answered \union {o}
  /\ Done(h)
  /\ UNCHANGED <<members, orgVars, flags, staffed>>

Next ==
  \E h \in Handlers :
    \/ updateUserRoleInTeam(h) \/ UpdateUserRoleInTeam(h)
    \/ removeUserFromTeam(h) \/ RemoveUserFromTeam(h)
    \/ adminRemoveUserFromOrganization(h) \/ RemoveUserFromOrganization(h)
    \/ inviteUserToTeam(h) \/ InviteUserToTeam(h)
    \/ deleteTeam(h) \/ teamHasOrganizations(h) \/ DeleteTeamMembers(h) \/ DeleteTeam(h)
    \/ adminDeleteUser(h) \/ DeleteUserNextTeam(h) \/ DeleteUserOrgs(h)
    \/ DeleteUserMemberships(h) \/ DeleteUser(h)
    \/ deleteOrg(h) \/ adminDeleteOrganization(h) \/ DeleteOrganization(h)
    \/ updateOrg(h) \/ CreateTeam(h) \/ CreateTeamAsUser(h) \/ FindTeamByExternalID(h)
    \/ MoveOrganizationToTeam(h) \/ MoveOrg(h) \/ refreshOrganizationRestrictions(h)
    \/ RefuseData(h)
    \/ Fail(h)

Spec == Init /\ [][Next]_vars

(***************************************************************************)
(* Properties.                                                             *)
(***************************************************************************)
\* A team that has members has an admin among them: removeUserFromTeam counts
\* the admins before it removes one and nobody may change their own role.  The
\* admin pages do not look at roles, so a team staff removed somebody from may
\* be left without an admin.
AtLeastOneAdmin ==
  \A t \in Teams \ staffed : team[t] = "live" /\ Members(t) # {} => Admins(t) # {}

\* An organization that is not deleted belongs to a team that is not deleted
\* and has a member, although a team, its members and a user are deleted by
\* several statements any of which can fail.
LiveOrgHasMember ==
  \A o \in orgLive : team[orgTeam[o]] = "live" /\ Members(orgTeam[o]) # {}

\* Once MoveOrg has succeeded the org is billed the way its team is: not at
\* all if that is external, otherwise it is (unless somebody at Weaveworks
\* moved it).
MovedOrgIsBilled ==
  \A o \in answered \intersect orgLive :
    IF orgTeam[o] \in External
    THEN "no-billing" \in flags[o] /\ "billing" \notin flags[o]
    ELSE "weaveworks-internal" \in flags[o] \/ "billing" \in flags[o]

\* As long as no call has failed, an org that MoveOrg moved is billed the way
\* its team is, and its data is not refused if that is externally.
MovedOrgIsBilledUnlessFailed ==
  failures = 0 =>
    /\ MovedOrgIsBilled
    /\ \A o \in answered \intersect orgLive : orgTeam[o] \in External => refused[o] = {}

(***************************************************************************)
(* What a request knows when it is the only one being served: the facts    *)
(* its checks established still hold when it writes.                       *)
(***************************************************************************)
OneRequest == \A g, h \in Handlers : g = h

WellFormed(q) ==
  /\ q.pc \in {"setRole", "remove", "removeFromOrg", "sole", "soleOrgs",
              "dropMemberships", "dropUser"} => q.user \in Users
  /\ q.pc \in {"setRole", "remove", "invite", "hasOrgs", "dropMembers", "dropTeam",
              "soleOrgs", "joinTeam", "findTeam", "moveOrg"} => q.team \in Teams
  /\ q.pc \in {"removeFromOrg", "createTeam", "joinTeam", "findTeam", "moveOrg",
              "moved", "setFlags", "refuse"} => q.org \in Orgs
  /\ q.pc \in {"createTeam", "joinTeam"} => q.actor \in Users

HasRow(t) == \E u \in Users : role[t][u] # NoRole
HasOther(t, u) == \E a \in Users : a # u /\ role[t][a] # NoRole
HasOtherAdmin(t, u) == \E a \in Users : a # u /\ role[t][a] = "admin"

RowsAreLive ==
  \A t \in Teams, u \in Users : role[t][u] # NoRole => account[u] = "live"

OrgsAreOwned ==
  \A o \in orgLive : team[orgTeam[o]] = "live" /\ HasRow(orgTeam[o])

RemovePending(q) ==
  /\ q.pc = "remove" => HasOther(q.team, q.user)
  /\ q.pc = "removeFromOrg" /\ q.org \in orgLive => HasOther(orgTeam[q.org], q.user)

DeletePending(q) ==
  /\ q.pc \in {"dropMembers", "dropTeam"} => \A o \in orgLive : orgTeam[o] # q.team
  /\ q.user # None /\ q.pc \in {"sole", "soleOrgs", "hasOrgs", "dropMembers", "dropTeam"} =>
       \A o \in orgLive : \/ orgTeam[o] \in q.teams
                          \/ orgTeam[o] = q.team /\ q.pc # "sole"
                          \/ HasOther(orgTeam[o], q.user)
  /\ q.pc = "dropMemberships" => \A o \in orgLive : HasOther(orgTeam[o], q.user)
  /\ q.pc = "dropUser" => \A t \in Teams : role[t][q.user] = NoRole

MovePending(q) ==
  /\ q.pc \in {"createTeam", "joinTeam"} => account[q.actor] = "live"
  /\ q.pc \in {"joinTeam", "moveOrg"} => team[q.team] = "live"
  /\ q.pc \in {"findTeam", "moveOrg"} => HasRow(q.team)

AdminPending(q) ==
  /\ q.pc \in {"setRole", "remove"} /\ q.team \notin staffed => HasOtherAdmin(q.team, q.user)
  /\ q.pc = "invite" => \E a \in Users : role[q.team][a] = "admin"

=============================================================================
