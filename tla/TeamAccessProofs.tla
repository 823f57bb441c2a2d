-------------------------- MODULE TeamAccessProofs --------------------------
(***************************************************************************)
(* Type correctness of TeamAccess: one lemma for each action.  Besides the *)
(* types, the fields a step uses have been set by the steps before it.     *)
(***************************************************************************)
EXTENDS TeamAccess, TLAPS

ReqOK == req \in [Handlers -> Request] /\ \A h \in Handlers : WellFormed(req[h])

DbOK ==
  /\ account \in [Users -> Life]
  /\ team \in [Teams -> Life]
  /\ role \in [Teams -> [Users -> Roles \union {NoRole}]]
  /\ orgLive \subseteq Orgs
  /\ orgTeam \in [Orgs -> Teams]
  /\ flags \in [Orgs -> SUBSET Flags]
  /\ refused \in [Orgs -> SUBSET Refusals]
  /\ answered \subseteq Orgs
  /\ failures \in 0 .. MaxFailures
  /\ staffed \subseteq Teams

TypeInv == DbOK /\ ReqOK

USE DEF members, orgVars, restrictions, NoRole

\* The fields of a handler that serves no request.
LEMMA IdleFact ==
  /\ Idle \in Request
  /\ WellFormed(Idle)
  /\ Idle.pc = "idle" /\ Idle.user = None
BY Zenon DEF Idle, Request, Steps, Roles, WellFormed

\* The tables sign-up leaves are well typed.
LEMMA TypeInit == TeamAccessAssumption /\ Init => TypeInv
BY IdleFact DEF TypeInv, DbOK, ReqOK, Init, Life, Roles, BillingFlags, Flags, TeamAccessAssumption

\* Replacing one request by a well-formed one keeps them all well formed.
LEMMA ReqUpdate ==
  ASSUME ReqOK, NEW h \in Handlers, NEW r \in Request, WellFormed(r),
         req' = [req EXCEPT ![h] = r]
  PROVE  ReqOK'
BY Zenon DEF ReqOK

\* Ending a request keeps all requests well formed.
LEMMA DoneOK == ASSUME ReqOK, NEW h \in Handlers, Done(h) PROVE ReqOK'
BY Zenon, ReqUpdate, IdleFact DEF Done

\* So does going on to a step whose fields are set.
LEMMA GotoOK ==
  ASSUME ReqOK, NEW h \in Handlers, NEW p \in Steps,
         WellFormed([req[h] EXCEPT !.pc = p]), Goto(h, p)
  PROVE  ReqOK'
<1>1. [req[h] EXCEPT !.pc = p] \in Request
  BY ZenonT(60) DEF ReqOK, Request
<1>q. QED  BY Zenon, <1>1, ReqUpdate DEF Goto

\* Writing a role, or none, keeps the memberships well typed.
LEMMA SetRoleOK ==
  ASSUME DbOK, NEW t \in Teams, NEW u \in Users, NEW r \in Roles \union {NoRole},
         SetRole(t, u, r)
  PROVE  role' \in [Teams -> [Users -> Roles \union {NoRole}]]
BY Zenon DEF DbOK, SetRole

\* Changing the step of a request yields a request.
LEMMA RequestUpdate ==
  ASSUME NEW q \in Request, NEW p \in Steps, NEW t \in Teams
  PROVE  [q EXCEPT !.pc = p, !.team = t] \in Request
BY Zenon DEF Request

\* The checks of a change of role keep every variable and every request well
\* typed.
LEMMA Type_updateUserRoleInTeam ==
  ASSUME TeamAccessAssumption, TypeInv, NEW h \in Handlers, updateUserRoleInTeam(h)
  PROVE  TypeInv'
<1>1. PICK u \in Users, t \in Teams, r \in Roles :
        req' = [req EXCEPT ![h] = [Idle EXCEPT !.pc = "setRole", !.user = u, !.team = t, !.role = r]]
  BY ZenonT(60) DEF updateUserRoleInTeam, Start
<1>2. [Idle EXCEPT !.pc = "setRole", !.user = u, !.team = t, !.role = r] \in Request
  BY Zenon DEF Idle, Request, Steps, Roles, TypeInv, DbOK
<1>3. WellFormed([Idle EXCEPT !.pc = "setRole", !.user = u, !.team = t, !.role = r])
  BY Zenon DEF Idle, WellFormed, TypeInv, DbOK
<1>4. ReqOK'
  BY Zenon, <1>1, <1>2, <1>3, ReqUpdate DEF TypeInv
<1>5. DbOK'
  BY Zenon DEF updateUserRoleInTeam, TypeInv, DbOK
<1>q. QED  BY Zenon, <1>4, <1>5 DEF TypeInv

\* Writing the new role keeps every variable and every request well typed.
LEMMA Type_UpdateUserRoleInTeam ==
  ASSUME TeamAccessAssumption, TypeInv, NEW h \in Handlers, UpdateUserRoleInTeam(h)
  PROVE  TypeInv'
<1>1. ReqOK'
  BY Zenon, DoneOK DEF UpdateUserRoleInTeam, TypeInv
<1>2. req[h].user \in Users /\ req[h].team \in Teams /\ req[h].role \in Roles
  BY Zenon DEF UpdateUserRoleInTeam, At, ReqOK, WellFormed, TypeInv, DbOK, Request
<1>3. DbOK'
  BY Zenon, <1>2, SetRoleOK DEF UpdateUserRoleInTeam, TypeInv, DbOK
<1>q. QED  BY Zenon, <1>1, <1>3 DEF TypeInv

\* The checks before a member is removed keep every variable and every
\* request well typed.
LEMMA Type_removeUserFromTeam ==
  ASSUME TeamAccessAssumption, TypeInv, NEW h \in Handlers, removeUserFromTeam(h)
  PROVE  TypeInv'
<1>1. PICK u \in Users, t \in Teams :
        req' = [req EXCEPT ![h] = [Idle EXCEPT !.pc = "remove", !.user = u, !.team = t]]
  BY Zenon DEF removeUserFromTeam, Start
<1>2. [Idle EXCEPT !.pc = "remove", !.user = u, !.team = t] \in Request
  BY Zenon DEF Idle, Request, Steps, Roles, TypeInv, DbOK
<1>3. WellFormed([Idle EXCEPT !.pc = "remove", !.user = u, !.team = t])
  BY Zenon DEF Idle, WellFormed, TypeInv, DbOK
<1>4. ReqOK'
  BY Zenon, <1>1, <1>2, <1>3, ReqUpdate DEF TypeInv
<1>5. DbOK'
  BY Zenon DEF removeUserFromTeam, TypeInv, DbOK
<1>q. QED  BY Zenon, <1>4, <1>5 DEF TypeInv

\* Deleting the membership keeps every variable and every request well typed.
LEMMA Type_RemoveUserFromTeam ==
  ASSUME TeamAccessAssumption, TypeInv, NEW h \in Handlers, RemoveUserFromTeam(h)
  PROVE  TypeInv'
<1>1. ReqOK'
  BY Zenon, DoneOK DEF RemoveUserFromTeam, TypeInv
<1>2. req[h].user \in Users /\ req[h].team \in Teams
  BY Zenon DEF RemoveUserFromTeam, At, ReqOK, WellFormed, TypeInv, DbOK, Request
<1>3. DbOK'
  BY Zenon, <1>2, SetRoleOK DEF RemoveUserFromTeam, TypeInv, DbOK
<1>q. QED  BY Zenon, <1>1, <1>3 DEF TypeInv

\* The check on the admin page that removes a member keeps every variable and
\* every request well typed.
LEMMA Type_adminRemoveUserFromOrganization ==
  ASSUME TeamAccessAssumption, TypeInv, NEW h \in Handlers, adminRemoveUserFromOrganization(h)
  PROVE  TypeInv'
<1>1. PICK u \in Users, o \in orgLive :
        req' = [req EXCEPT ![h] = [Idle EXCEPT !.pc = "removeFromOrg", !.user = u, !.org = o]]
  BY Zenon DEF adminRemoveUserFromOrganization, Start
<1>2. [Idle EXCEPT !.pc = "removeFromOrg", !.user = u, !.org = o] \in Request
  BY Zenon DEF Idle, Request, Steps, Roles, TypeInv, DbOK
<1>3. WellFormed([Idle EXCEPT !.pc = "removeFromOrg", !.user = u, !.org = o])
  BY Zenon DEF Idle, WellFormed, TypeInv, DbOK
<1>4. ReqOK'
  BY Zenon, <1>1, <1>2, <1>3, ReqUpdate DEF TypeInv
<1>5. DbOK'
  BY Zenon DEF adminRemoveUserFromOrganization, TypeInv, DbOK
<1>q. QED  BY Zenon, <1>4, <1>5 DEF TypeInv

\* Deleting the membership in the org's team keeps every variable and every
\* request well typed.
LEMMA Type_RemoveUserFromOrganization ==
  ASSUME TeamAccessAssumption, TypeInv, NEW h \in Handlers, RemoveUserFromOrganization(h)
  PROVE  TypeInv'
<1>1. ReqOK'
  BY Zenon, DoneOK DEF RemoveUserFromOrganization, TypeInv
<1>2. req[h].user \in Users /\ orgTeam[req[h].org] \in Teams
  BY Zenon DEF RemoveUserFromOrganization, At, ReqOK, WellFormed, TypeInv, DbOK, Request
<1>3. DbOK'
  BY Zenon, <1>2, SetRoleOK DEF RemoveUserFromOrganization, TypeInv, DbOK
<1>q. QED  BY Zenon, <1>1, <1>3 DEF TypeInv

\* The checks of an invitation keep every variable and every request well
\* typed.
LEMMA Type_inviteUserToTeam ==
  ASSUME TeamAccessAssumption, TypeInv, NEW h \in Handlers, inviteUserToTeam(h)
  PROVE  TypeInv'
<1>1. PICK t \in Teams, r \in Roles :
        req' = [req EXCEPT ![h] = [Idle EXCEPT !.pc = "invite", !.team = t, !.role = r]]
  BY Zenon DEF inviteUserToTeam, Start
<1>2. [Idle EXCEPT !.pc = "invite", !.team = t, !.role = r] \in Request
  BY Zenon DEF Idle, Request, Steps, Roles, TypeInv, DbOK
<1>3. WellFormed([Idle EXCEPT !.pc = "invite", !.team = t, !.role = r])
  BY Zenon DEF Idle, WellFormed, TypeInv, DbOK
<1>4. ReqOK'
  BY Zenon, <1>1, <1>2, <1>3, ReqUpdate DEF TypeInv
<1>5. DbOK'
  BY Zenon DEF inviteUserToTeam, TypeInv, DbOK
<1>q. QED  BY Zenon, <1>4, <1>5 DEF TypeInv

\* The transaction that creates the invited user and the membership keeps
\* every variable and every request well typed.
LEMMA Type_InviteUserToTeam ==
  ASSUME TeamAccessAssumption, TypeInv, NEW h \in Handlers, InviteUserToTeam(h)
  PROVE  TypeInv'
<1>1. ReqOK'
  BY Zenon, DoneOK DEF InviteUserToTeam, TypeInv
<1>2. req[h].team \in Teams /\ req[h].role \in Roles
  BY DEF InviteUserToTeam, At, ReqOK, WellFormed, TypeInv, Request
<1>3. account' \in [Users -> Life]
  BY Zenon DEF InviteUserToTeam, TypeInv, DbOK, Life
<1>4. role' \in [Teams -> [Users -> Roles \union {NoRole}]]
  BY Zenon, <1>2, SetRoleOK DEF InviteUserToTeam, TypeInv, DbOK
<1>5. DbOK'
  BY Zenon, <1>3, <1>4 DEF InviteUserToTeam, TypeInv, DbOK
<1>q. QED  BY Zenon, <1>1, <1>5 DEF TypeInv

\* The check before a team is deleted keeps every variable and every request
\* well typed.
LEMMA Type_deleteTeam ==
  ASSUME TeamAccessAssumption, TypeInv, NEW h \in Handlers, deleteTeam(h)
  PROVE  TypeInv'
<1>1. PICK t \in Teams :
        req' = [req EXCEPT ![h] = [Idle EXCEPT !.pc = "hasOrgs", !.team = t]]
  BY Zenon DEF deleteTeam, Start
<1>2. [Idle EXCEPT !.pc = "hasOrgs", !.team = t] \in Request
  BY Zenon DEF Idle, Request, Steps, Roles, TypeInv, DbOK
<1>3. WellFormed([Idle EXCEPT !.pc = "hasOrgs", !.team = t])
  BY Zenon DEF Idle, WellFormed, TypeInv, DbOK
<1>4. ReqOK'
  BY Zenon, <1>1, <1>2, <1>3, ReqUpdate DEF TypeInv
<1>5. DbOK'
  BY Zenon DEF deleteTeam, TypeInv, DbOK
<1>q. QED  BY Zenon, <1>4, <1>5 DEF TypeInv

\* Counting the orgs of the team to delete keeps every variable and every
\* request well typed.
LEMMA Type_teamHasOrganizations ==
  ASSUME TeamAccessAssumption, TypeInv, NEW h \in Handlers, teamHasOrganizations(h)
  PROVE  TypeInv'
<1>1. WellFormed([req[h] EXCEPT !.pc = "dropMembers"])
  BY DEF teamHasOrganizations, At, ReqOK, WellFormed, TypeInv, Request
<1>2. "dropMembers" \in Steps
  BY Zenon DEF Steps
<1>3. ReqOK'
  BY Zenon, <1>1, <1>2, GotoOK, DoneOK DEF teamHasOrganizations, TypeInv
<1>4. req[h].team \in Teams
  BY Zenon DEF teamHasOrganizations, At, ReqOK, WellFormed, TypeInv, DbOK, Request
<1>5. DbOK'
  BY Zenon, <1>4 DEF teamHasOrganizations, TypeInv, DbOK
<1>q. QED  BY Zenon, <1>3, <1>5 DEF TypeInv

\* Deleting the memberships of a team keeps every variable and every request
\* well typed.
LEMMA Type_DeleteTeamMembers ==
  ASSUME TeamAccessAssumption, TypeInv, NEW h \in Handlers, DeleteTeamMembers(h)
  PROVE  TypeInv'
<1>1. WellFormed([req[h] EXCEPT !.pc = "dropTeam"])
  BY DEF DeleteTeamMembers, At, ReqOK, WellFormed, TypeInv, Request
<1>2. "dropTeam" \in Steps
  BY Zenon DEF Steps
<1>3. ReqOK'
  BY Zenon, <1>1, <1>2, GotoOK DEF DeleteTeamMembers, TypeInv
<1>4. req[h].team \in Teams
  BY Zenon DEF DeleteTeamMembers, At, ReqOK, WellFormed, TypeInv, DbOK, Request
<1>5. DbOK'
  BY Zenon, <1>4 DEF DeleteTeamMembers, TypeInv, DbOK
<1>q. QED  BY Zenon, <1>3, <1>5 DEF TypeInv

\* Marking the team deleted keeps every variable and every request well
\* typed.
LEMMA Type_DeleteTeam ==
  ASSUME TeamAccessAssumption, TypeInv, NEW h \in Handlers, DeleteTeam(h)
  PROVE  TypeInv'
<1>1. req[h].user # None => WellFormed([req[h] EXCEPT !.pc = "sole"])
  BY DEF DeleteTeam, At, ReqOK, WellFormed, TypeInv, Request
<1>2. "sole" \in Steps
  BY Zenon DEF Steps
<1>3. ReqOK'
  BY Zenon, <1>1, <1>2, GotoOK, DoneOK DEF DeleteTeam, TypeInv
<1>4. req[h].team \in Teams
  BY Zenon DEF DeleteTeam, At, ReqOK, WellFormed, TypeInv
<1>5. DbOK'
  BY Zenon, <1>4 DEF DeleteTeam, TypeInv, DbOK, Life
<1>q. QED  BY Zenon, <1>3, <1>5 DEF TypeInv

\* Collecting the teams in which a user is alone keeps every variable and
\* every request well typed.
LEMMA Type_adminDeleteUser ==
  ASSUME TeamAccessAssumption, TypeInv, NEW h \in Handlers, adminDeleteUser(h)
  PROVE  TypeInv'
<1>1. PICK u \in Users, ts \in SUBSET Teams :
        req' = [req EXCEPT ![h] = [Idle EXCEPT !.pc = "sole", !.user = u, !.teams = ts]]
  BY Zenon DEF adminDeleteUser, Start
<1>2. [Idle EXCEPT !.pc = "sole", !.user = u, !.teams = ts] \in Request
  BY Zenon DEF Idle, Request, Steps, Roles, TypeInv, DbOK
<1>3. WellFormed([Idle EXCEPT !.pc = "sole", !.user = u, !.teams = ts])
  BY Zenon DEF Idle, WellFormed, TypeInv, DbOK
<1>4. ReqOK'
  BY Zenon, <1>1, <1>2, <1>3, ReqUpdate DEF TypeInv
<1>5. DbOK'
  BY Zenon DEF adminDeleteUser, TypeInv, DbOK
<1>q. QED  BY Zenon, <1>4, <1>5 DEF TypeInv

\* Going on to the next of those teams keeps every variable and every request
\* well typed.
LEMMA Type_DeleteUserNextTeam ==
  ASSUME TeamAccessAssumption, TypeInv, NEW h \in Handlers, DeleteUserNextTeam(h)
  PROVE  TypeInv'
<1>1. req[h] \in Request /\ req[h].user \in Users /\ req[h].teams \subseteq Teams
  BY Zenon DEF DeleteUserNextTeam, At, ReqOK, WellFormed, TypeInv, Request
<1>2. CASE Goto(h, "dropMemberships")
  <2>1. WellFormed([req[h] EXCEPT !.pc = "dropMemberships"]) /\ "dropMemberships" \in Steps
    BY Zenon, <1>1 DEF WellFormed, Steps, Request
  <2>q. QED  BY Zenon, <1>2, <2>1, GotoOK DEF DeleteUserNextTeam, TypeInv, DbOK
<1>3. ASSUME NEW t \in req[h].teams,
             req' = [req EXCEPT ![h] = [req[h] EXCEPT !.pc = "soleOrgs", !.team = t,
                               !.teams = req[h].teams \ {t}, !.orgs = OrgsOf(t)]]
      PROVE  ReqOK'
  <2> DEFINE q == [req[h] EXCEPT !.pc = "soleOrgs", !.team = t,
                               !.teams = req[h].teams \ {t}, !.orgs = OrgsOf(t)]
  <2>1. OrgsOf(t) \in SUBSET Orgs /\ "soleOrgs" \in Steps /\ t \in Teams
    BY Zenon, <1>1 DEF OrgsOf, TypeInv, DbOK, Steps
  <2>2. q \in Request
    BY Zenon, <1>1, <2>1 DEF Request
  <2>3. WellFormed(q)
    BY Zenon, <1>1, <2>1 DEF WellFormed, Request
  <2>q. QED  BY Zenon, <1>3, <2>2, <2>3, ReqUpdate DEF TypeInv
<1>q. QED  BY Zenon, <1>2, <1>3 DEF DeleteUserNextTeam, TypeInv, DbOK

\* Deleting the orgs of such a team keeps every variable and every request
\* well typed.
LEMMA Type_DeleteUserOrgs ==
  ASSUME TeamAccessAssumption, TypeInv, NEW h \in Handlers, DeleteUserOrgs(h)
  PROVE  TypeInv'
<1>1. req[h] \in Request /\ req[h].pc = "soleOrgs" /\ WellFormed(req[h])
  BY Zenon DEF DeleteUserOrgs, At, ReqOK, TypeInv
<1>2. WellFormed([req[h] EXCEPT !.pc = "hasOrgs"]) /\ "hasOrgs" \in Steps
  BY Zenon, <1>1 DEF WellFormed, Steps, Request
<1>3. ASSUME NEW o \in req[h].orgs
      PROVE  LET q == [req[h] EXCEPT !.orgs = req[h].orgs \ {o}]
             IN  q \in Request /\ WellFormed(q)
  BY Zenon, <1>1 DEF WellFormed, Request
<1>4. ReqOK'
  BY Zenon, <1>2, <1>3, GotoOK, ReqUpdate DEF DeleteUserOrgs, TypeInv
<1>5. DbOK'
  BY Zenon DEF DeleteUserOrgs, TypeInv, DbOK
<1>q. QED  BY Zenon, <1>4, <1>5 DEF TypeInv

\* Deleting the memberships of a user keeps every variable and every request
\* well typed.
LEMMA Type_DeleteUserMemberships ==
  ASSUME TeamAccessAssumption, TypeInv, NEW h \in Handlers, DeleteUserMemberships(h)
  PROVE  TypeInv'
<1>1. WellFormed([req[h] EXCEPT !.pc = "dropUser"])
  BY DEF DeleteUserMemberships, At, ReqOK, WellFormed, TypeInv, Request
<1>2. "dropUser" \in Steps
  BY Zenon DEF Steps
<1>3. ReqOK'
  BY Zenon, <1>1, <1>2, GotoOK DEF DeleteUserMemberships, TypeInv
<1>4. req[h].user \in Users
  BY Zenon DEF DeleteUserMemberships, At, ReqOK, WellFormed, TypeInv, DbOK, Request
<1>5. DbOK'
  BY Zenon, <1>4 DEF DeleteUserMemberships, TypeInv, DbOK
<1>q. QED  BY Zenon, <1>3, <1>5 DEF TypeInv

\* Marking the user deleted keeps every variable and every request well
\* typed.
LEMMA Type_DeleteUser ==
  ASSUME TeamAccessAssumption, TypeInv, NEW h \in Handlers, DeleteUser(h)
  PROVE  TypeInv'
<1>1. ReqOK'
  BY Zenon, DoneOK DEF DeleteUser, TypeInv
<1>2. req[h].user \in Users
  BY Zenon DEF DeleteUser, At, ReqOK, WellFormed, TypeInv, DbOK, Request
<1>3. DbOK'
  BY Zenon, <1>2 DEF DeleteUser, TypeInv, DbOK, Life
<1>q. QED  BY Zenon, <1>1, <1>3 DEF TypeInv

\* The check before an org is deleted keeps every variable and every request
\* well typed.
LEMMA Type_deleteOrg ==
  ASSUME TeamAccessAssumption, TypeInv, NEW h \in Handlers, deleteOrg(h)
  PROVE  TypeInv'
<1>1. PICK o \in orgLive :
        req' = [req EXCEPT ![h] = [Idle EXCEPT !.pc = "dropOrg", !.org = o]]
  BY Zenon DEF deleteOrg, Start
<1>2. [Idle EXCEPT !.pc = "dropOrg", !.org = o] \in Request
  BY Zenon DEF Idle, Request, Steps, Roles, TypeInv, DbOK
<1>3. WellFormed([Idle EXCEPT !.pc = "dropOrg", !.org = o])
  BY Zenon DEF Idle, WellFormed, TypeInv, DbOK
<1>4. ReqOK'
  BY Zenon, <1>1, <1>2, <1>3, ReqUpdate DEF TypeInv
<1>5. DbOK'
  BY Zenon DEF deleteOrg, TypeInv, DbOK
<1>q. QED  BY Zenon, <1>4, <1>5 DEF TypeInv

\* The admin page that deletes an org keeps every variable and every request
\* well typed.
LEMMA Type_adminDeleteOrganization ==
  ASSUME TeamAccessAssumption, TypeInv, NEW h \in Handlers, adminDeleteOrganization(h)
  PROVE  TypeInv'
<1>1. PICK o \in orgLive :
        req' = [req EXCEPT ![h] = [Idle EXCEPT !.pc = "dropOrg", !.org = o]]
  BY Zenon DEF adminDeleteOrganization, Start
<1>2. [Idle EXCEPT !.pc = "dropOrg", !.org = o] \in Request
  BY Zenon DEF Idle, Request, Steps, Roles, TypeInv, DbOK
<1>3. WellFormed([Idle EXCEPT !.pc = "dropOrg", !.org = o])
  BY Zenon DEF Idle, WellFormed, TypeInv, DbOK
<1>4. ReqOK'
  BY Zenon, <1>1, <1>2, <1>3, ReqUpdate DEF TypeInv
<1>5. DbOK'
  BY Zenon DEF adminDeleteOrganization, TypeInv, DbOK
<1>q. QED  BY Zenon, <1>4, <1>5 DEF TypeInv

\* Marking the org deleted keeps every variable and every request well typed.
LEMMA Type_DeleteOrganization ==
  ASSUME TeamAccessAssumption, TypeInv, NEW h \in Handlers, DeleteOrganization(h)
  PROVE  TypeInv'
<1>1. ReqOK'
  BY Zenon, DoneOK DEF DeleteOrganization, TypeInv
<1>2. orgLive \subseteq Orgs
  BY Zenon DEF DeleteOrganization, At, ReqOK, WellFormed, TypeInv, DbOK, Request
<1>3. DbOK'
  BY Zenon, <1>2 DEF DeleteOrganization, TypeInv, DbOK
<1>q. QED  BY Zenon, <1>1, <1>3 DEF TypeInv

\* The checks before an org is moved keep every variable and every request
\* well typed.
LEMMA Type_updateOrg ==
  ASSUME TeamAccessAssumption, TypeInv, NEW h \in Handlers, updateOrg(h)
  PROVE  TypeInv'
<1>1. PICK a \in Users, o \in orgLive, t \in Teams \union {None} :
        req' = [req EXCEPT ![h] = [Idle EXCEPT
                  !.pc = IF t = None THEN "createTeam" ELSE "findTeam",
                  !.actor = a, !.org = o, !.team = t, !.prev = orgTeam[o]]]
  BY Zenon DEF updateOrg, Start
<1> DEFINE p == IF t = None THEN "createTeam" ELSE "findTeam"
           q == [Idle EXCEPT !.pc = p, !.actor = a, !.org = o, !.team = t,
                             !.prev = orgTeam[o]]
<1>2. o \in Orgs /\ orgTeam[o] \in Teams /\ p \in Steps
  BY Zenon DEF TypeInv, DbOK, Steps
<1>3. q \in Request
  BY ZenonT(60), <1>2 DEF Idle, Request, Steps, Roles
<1>4. WellFormed(q)
  BY Zenon, <1>2 DEF Idle, WellFormed
<1>5. ReqOK'
  BY Zenon, <1>1, <1>3, <1>4, ReqUpdate DEF TypeInv
<1>6. DbOK'
  BY Zenon DEF updateOrg, TypeInv, DbOK
<1>q. QED  BY Zenon, <1>5, <1>6 DEF TypeInv

\* Inserting a new team keeps every variable and every request well typed.
LEMMA Type_CreateTeam ==
  ASSUME TeamAccessAssumption, TypeInv, NEW h \in Handlers, CreateTeam(h)
  PROVE  TypeInv'
<1>1. PICK t \in Teams :
        /\ team' = [team EXCEPT ![t] = "live"]
        /\ req' = [req EXCEPT ![h] = [req[h] EXCEPT !.pc = "joinTeam", !.team = t]]
  BY Zenon DEF CreateTeam
<1>2. req[h] \in Request /\ req[h].pc = "createTeam" /\ WellFormed(req[h]) /\ "joinTeam" \in Steps
  BY Zenon DEF CreateTeam, At, ReqOK, TypeInv, Steps
<1>3. [req[h] EXCEPT !.pc = "joinTeam", !.team = t] \in Request
  BY Zenon, <1>2, RequestUpdate
<1>4. WellFormed([req[h] EXCEPT !.pc = "joinTeam", !.team = t])
  BY Zenon, <1>2 DEF WellFormed, Request
<1>5. ReqOK'
  BY Zenon, <1>1, <1>3, <1>4, ReqUpdate DEF TypeInv
<1>6. DbOK'
  BY Zenon, <1>1 DEF CreateTeam, TypeInv, DbOK, Life
<1>q. QED  BY Zenon, <1>5, <1>6 DEF TypeInv

\* Making its creator its admin keeps every variable and every request well
\* typed.
LEMMA Type_CreateTeamAsUser ==
  ASSUME TeamAccessAssumption, TypeInv, NEW h \in Handlers, CreateTeamAsUser(h)
  PROVE  TypeInv'
<1>1. WellFormed([req[h] EXCEPT !.pc = "moveOrg"])
  BY DEF CreateTeamAsUser, At, ReqOK, WellFormed, TypeInv, Request
<1>2. "moveOrg" \in Steps
  BY Zenon DEF Steps
<1>3. ReqOK'
  BY Zenon, <1>1, <1>2, GotoOK DEF CreateTeamAsUser, TypeInv
<1>4. req[h].team \in Teams /\ req[h].actor \in Users
  BY Zenon DEF CreateTeamAsUser, At, ReqOK, WellFormed, TypeInv, DbOK, Request
<1>5. DbOK'
  BY Zenon, <1>4, SetRoleOK DEF CreateTeamAsUser, TypeInv, DbOK, Roles
<1>q. QED  BY Zenon, <1>3, <1>5 DEF TypeInv

\* Looking up the team to move to keeps every variable and every request well
\* typed.
LEMMA Type_FindTeamByExternalID ==
  ASSUME TeamAccessAssumption, TypeInv, NEW h \in Handlers, FindTeamByExternalID(h)
  PROVE  TypeInv'
<1>1. WellFormed([req[h] EXCEPT !.pc = "moveOrg"])
  BY DEF FindTeamByExternalID, At, ReqOK, WellFormed, TypeInv, Request
<1>2. "moveOrg" \in Steps
  BY Zenon DEF Steps
<1>3. ReqOK'
  BY Zenon, <1>1, <1>2, GotoOK, DoneOK DEF FindTeamByExternalID, TypeInv
<1>4. req[h].team \in Teams
  BY Zenon DEF FindTeamByExternalID, At, ReqOK, WellFormed, TypeInv, DbOK, Request
<1>5. DbOK'
  BY Zenon, <1>4 DEF FindTeamByExternalID, TypeInv, DbOK
<1>q. QED  BY Zenon, <1>3, <1>5 DEF TypeInv

\* Writing the org's team keeps every variable and every request well typed.
LEMMA Type_MoveOrganizationToTeam ==
  ASSUME TeamAccessAssumption, TypeInv, NEW h \in Handlers, MoveOrganizationToTeam(h)
  PROVE  TypeInv'
<1>1. WellFormed([req[h] EXCEPT !.pc = "moved"])
  BY DEF MoveOrganizationToTeam, At, ReqOK, WellFormed, TypeInv, Request
<1>2. "moved" \in Steps
  BY Zenon DEF Steps
<1>3. ReqOK'
  BY Zenon, <1>1, <1>2, GotoOK DEF MoveOrganizationToTeam, TypeInv
<1>4. req[h].team \in Teams /\ req[h].org \in Orgs
  BY Zenon DEF MoveOrganizationToTeam, At, ReqOK, WellFormed, TypeInv, DbOK, Request
<1>5. DbOK'
  BY Zenon, <1>4 DEF MoveOrganizationToTeam, TypeInv, DbOK
<1>q. QED  BY Zenon, <1>3, <1>5 DEF TypeInv

\* Comparing the billing providers after a move keeps every variable and
\* every request well typed.
LEMMA Type_MoveOrg ==
  ASSUME TeamAccessAssumption, TypeInv, NEW h \in Handlers, MoveOrg(h)
  PROVE  TypeInv'
<1>1. orgTeam[req[h].org] \in Teams /\ req[h].org \in Orgs /\ req[h] \in Request
  BY Zenon DEF MoveOrg, At, TypeInv, DbOK, ReqOK, WellFormed
<1> DEFINE r == [req[h] EXCEPT !.pc = "setFlags", !.team = orgTeam[req[h].org],
                               !.ff = flags[req[h].org]]
<1>2. r \in Request
  <2>1. "setFlags" \in Steps
    BY Zenon DEF Steps
  <2>2. flags[req[h].org] \in SUBSET Flags
    BY Zenon, <1>1 DEF TypeInv, DbOK
  <2>q. QED  BY Zenon, <1>1, <2>1, <2>2 DEF Request
<1>3. WellFormed(r)
  BY Zenon, <1>1 DEF WellFormed, Request
<1>4. ReqOK'
  BY Zenon, <1>2, <1>3, DoneOK, ReqUpdate DEF MoveOrg, TypeInv
<1>5. refused' \in [Orgs -> SUBSET Refusals] /\ answered' \subseteq Orgs
  BY <1>1 DEF MoveOrg, TypeInv, DbOK
<1>6. failures' \in 0 .. MaxFailures
  BY DEF MoveOrg, BestEffort, TypeInv, DbOK, TeamAccessAssumption
<1>q. QED  BY Zenon, <1>4, <1>5, <1>6 DEF MoveOrg, TypeInv, DbOK

\* Writing the billing flags after a move keeps every variable and every
\* request well typed.
LEMMA Type_refreshOrganizationRestrictions ==
  ASSUME TeamAccessAssumption, TypeInv, NEW h \in Handlers, refreshOrganizationRestrictions(h)
  PROVE  TypeInv'
<1> DEFINE ff == NewFlags(req[h].actor, req[h].team, req[h].ff)
           r == [req[h] EXCEPT !.pc = "refuse", !.ff = ff]
<1>1. req[h].org \in Orgs /\ req[h] \in Request
  BY Zenon DEF refreshOrganizationRestrictions, At, ReqOK, WellFormed, TypeInv
<1>2. ff \in SUBSET Flags /\ "refuse" \in Steps
  BY Zenon, <1>1 DEF Request, NewFlags, BillingFlags, Flags, Steps
<1> HIDE DEF ff
<1>3. r \in Request /\ WellFormed(r)
  BY Zenon, <1>1, <1>2 DEF Request, WellFormed
<1>6. flags' = [flags EXCEPT ![req[h].org] = ff] /\ req' = [req EXCEPT ![h] = r]
  BY Zenon DEF refreshOrganizationRestrictions, ff
<1>4. ReqOK'
  BY Zenon, <1>3, <1>6, ReqUpdate DEF TypeInv
<1>5. DbOK'
  BY Zenon, <1>1, <1>2, <1>6 DEF refreshOrganizationRestrictions, TypeInv, DbOK
<1>q. QED  BY Zenon, <1>4, <1>5 DEF TypeInv

\* Refusing data after a move keeps every variable and every request well
\* typed.
LEMMA Type_RefuseData ==
  ASSUME TeamAccessAssumption, TypeInv, NEW h \in Handlers, RefuseData(h)
  PROVE  TypeInv'
<1>1. ReqOK'
  BY Zenon, DoneOK DEF RefuseData, TypeInv
<1>2. req[h].org \in Orgs
  BY Zenon DEF RefuseData, At, ReqOK, WellFormed, TypeInv
<1>3. refused' \in [Orgs -> SUBSET Refusals]
  BY <1>2 DEF RefuseData, TypeInv, DbOK, ShouldRefuse
<1>4. failures' \in 0 .. MaxFailures
  BY DEF RefuseData, BestEffort, TypeInv, DbOK, TeamAccessAssumption
<1>5. DbOK'
  BY Zenon, <1>2, <1>3, <1>4 DEF RefuseData, TypeInv, DbOK
<1>q. QED  BY Zenon, <1>1, <1>5 DEF TypeInv

\* A statement that fails keeps every variable and every request well typed.
LEMMA Type_Fail ==
  ASSUME TeamAccessAssumption, TypeInv, NEW h \in Handlers, Fail(h)
  PROVE  TypeInv'
<1>1. ReqOK'
  BY Zenon, DoneOK DEF Fail, TypeInv
<1>2. DbOK'
  BY DEF Fail, TypeInv, DbOK, TeamAccessAssumption
<1>q. QED  BY Zenon, <1>1, <1>2 DEF TypeInv

\* Every step keeps the types.
LEMMA TypeNext == TeamAccessAssumption /\ TypeInv /\ [Next]_vars => TypeInv'
<1> SUFFICES ASSUME TeamAccessAssumption, TypeInv, [Next]_vars PROVE TypeInv'
  BY Zenon
<1>1. CASE UNCHANGED vars
  BY Zenon, <1>1 DEF vars, TypeInv, DbOK, ReqOK
<1>2. CASE Next
  BY Zenon, <1>2, Type_updateUserRoleInTeam, Type_UpdateUserRoleInTeam, Type_removeUserFromTeam, Type_RemoveUserFromTeam, Type_adminRemoveUserFromOrganization, Type_RemoveUserFromOrganization, Type_inviteUserToTeam, Type_InviteUserToTeam, Type_deleteTeam, Type_teamHasOrganizations, Type_DeleteTeamMembers, Type_DeleteTeam, Type_adminDeleteUser, Type_DeleteUserNextTeam, Type_DeleteUserOrgs, Type_DeleteUserMemberships, Type_DeleteUser, Type_deleteOrg, Type_adminDeleteOrganization, Type_DeleteOrganization, Type_updateOrg, Type_CreateTeam, Type_CreateTeamAsUser, Type_FindTeamByExternalID, Type_MoveOrganizationToTeam, Type_MoveOrg, Type_refreshOrganizationRestrictions, Type_RefuseData, Type_Fail DEF Next
<1>q. QED  BY Zenon, <1>1, <1>2

\* The variables keep their types, whatever requests are served together and
\* whichever of their statements fail.
THEOREM TypeCorrect == Spec => []TypeOK
<1>1. Init => TypeInv
  BY Zenon, TypeInit, TeamAccessAssumption
<1>2. TypeInv /\ [Next]_vars => TypeInv'
  BY Zenon, TypeNext, TeamAccessAssumption
<1>3. TypeInv => TypeOK
  BY Zenon DEF TypeInv, DbOK, ReqOK, TypeOK
<1>q. QED  BY <1>1, <1>2, <1>3, PTL DEF Spec

=============================================================================
