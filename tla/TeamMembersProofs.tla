--------------------------- MODULE TeamMembersProofs ---------------------------
(***************************************************************************)
(* What holds of teams, organizations, members and admins when requests    *)
(* are served one at a time.                                               *)
(***************************************************************************)
EXTENDS TeamAccessProofs

USE DEF members, orgVars, restrictions, NoRole

Pending(q) == RemovePending(q) /\ DeletePending(q) /\ MovePending(q)

DbInv == RowsAreLive /\ OrgsAreOwned

\* The inductive invariant, apart from the types.
Owned == DbInv /\ \A h \in Handlers : Pending(req[h])

\* HasOther(orgTeam[o], u)' and HasRow(t)' for values u and t of this state.
OtherNext(o, u) == \E a \in Users : a # u /\ role'[orgTeam'[o]][a] # NoRole
RowNext(t) == \E u \in Users : role'[t][u] # NoRole

Ctx == TypeInv /\ OneRequest /\ Owned

\* The only handler has the request that was written to it.
LEMMA OnlyRequest ==
  ASSUME TypeInv, OneRequest, NEW h \in Handlers, NEW r, req' = [req EXCEPT ![h] = r]
  PROVE  \A g \in Handlers : req'[g] = r
BY Zenon DEF TypeInv, ReqOK, OneRequest

\* A request that is over waits for nothing.
LEMMA DonePending ==
  ASSUME TypeInv, OneRequest, NEW h \in Handlers, Done(h)
  PROVE  \A g \in Handlers : Pending(req[g])'
<1>1. \A g \in Handlers : req'[g] = Idle
  BY Zenon, OnlyRequest DEF Done
<1>2. Idle.pc = "idle" /\ Idle.user = None
  BY Zenon, IdleFact
<1>q. QED  BY Zenon, <1>1, <1>2 DEF Pending, RemovePending, DeletePending, MovePending

\* Nothing changes in the database.
LEMMA SameDb ==
  ASSUME DbInv, UNCHANGED <<account, team, role, orgLive, orgTeam>>
  PROVE  DbInv'
BY Zenon DEF DbInv, RowsAreLive, OrgsAreOwned, HasRow

\* Setting a role changes that role and no other.
LEMMA SetRoleFact ==
  ASSUME DbOK, NEW t \in Teams, NEW u \in Users, NEW r, SetRole(t, u, r)
  PROVE  /\ role'[t][u] = r
         /\ \A s \in Teams, v \in Users : s # t \/ v # u => role'[s][v] = role[s][v]
BY Zenon DEF DbOK, SetRole

\* The checks of a change of role keep every org owned and what the request
\* relies on true.
LEMMA Owned_updateUserRoleInTeam ==
  ASSUME Ctx, NEW h \in Handlers, updateUserRoleInTeam(h)
  PROVE  Owned'
<1>1. PICK u \in Users, t \in Teams, r \in Roles :
        /\ req' = [req EXCEPT ![h] = [Idle EXCEPT !.pc = "setRole", !.user = u, !.team = t, !.role = r]]
        /\ u \in Users
  BY Zenon DEF updateUserRoleInTeam, Start
<1>2. DbInv'
  BY Zenon, SameDb DEF updateUserRoleInTeam, Ctx, Owned
<1>3. \A g \in Handlers : req'[g] = [Idle EXCEPT !.pc = "setRole", !.user = u, !.team = t, !.role = r]
  BY Zenon, <1>1, OnlyRequest DEF Ctx
<1>4. \A g \in Handlers : req'[g].pc = "setRole"
  BY Zenon, <1>3 DEF Idle
<1>5. \A g \in Handlers : Pending(req[g])'
  BY Zenon, <1>4 DEF Pending, RemovePending, DeletePending, MovePending
<1>q. QED  BY Zenon, <1>2, <1>5 DEF Owned

\* Writing the new role keeps every org owned and what the request relies on
\* true.
LEMMA Owned_UpdateUserRoleInTeam ==
  ASSUME Ctx, NEW h \in Handlers, UpdateUserRoleInTeam(h)
  PROVE  Owned'
<1>1. \A g \in Handlers : Pending(req[g])'
  BY Zenon, DonePending DEF UpdateUserRoleInTeam, Ctx
<1>2. req[h].user \in Users /\ req[h].team \in Teams /\ req[h].role \in Roles
  BY Zenon DEF UpdateUserRoleInTeam, At, Ctx, TypeInv, ReqOK, WellFormed, Request
<1>3. ASSUME UNCHANGED role PROVE DbInv'
  BY Zenon, <1>3, SameDb DEF UpdateUserRoleInTeam, Ctx, Owned
<1>4. ASSUME req[h].user \in Rows(req[h].team), SetRole(req[h].team, req[h].user, req[h].role)
      PROVE  DbInv'
  <2>1. \A s \in Teams, v \in Users : role'[s][v] # NoRole <=> role[s][v] # NoRole
    BY <1>2, <1>4, SetRoleFact DEF Rows, Roles, Ctx, TypeInv
  <2>q. QED  BY ZenonT(60), <2>1 DEF UpdateUserRoleInTeam, Ctx, TypeInv, DbOK, Owned, DbInv,
               RowsAreLive, OrgsAreOwned, HasRow
<1>9. DbInv'
  BY Zenon, <1>3, <1>4 DEF UpdateUserRoleInTeam
<1>q. QED  BY Zenon, <1>1, <1>9 DEF Owned

\* The checks before a member is removed keep every org owned and what the
\* request relies on true.
LEMMA Owned_removeUserFromTeam ==
  ASSUME Ctx, NEW h \in Handlers, removeUserFromTeam(h)
  PROVE  Owned'
<1>1. PICK u \in Users, t \in Teams :
        /\ req' = [req EXCEPT ![h] = [Idle EXCEPT !.pc = "remove", !.user = u, !.team = t]]
        /\ account[u] = "live" /\ u \in Rows(t) /\ ~ Exactly1(Members(t))
  BY ZenonT(60) DEF removeUserFromTeam, Start
<1>2. PICK a \in Users : a # u /\ role[t][a] # NoRole
  BY Zenon, <1>1 DEF Exactly1, Members, Rows
<1>3. DbInv'
  BY Zenon, SameDb DEF removeUserFromTeam, Ctx, Owned
<1>4. \A g \in Handlers : req'[g] = [Idle EXCEPT !.pc = "remove", !.user = u, !.team = t]
  BY Zenon, <1>1, OnlyRequest DEF Ctx
<1>5. \A g \in Handlers : req'[g].pc = "remove" /\ req'[g].user = u /\ req'[g].team = t
  BY ZenonT(60), <1>4 DEF Idle
<1>6. HasOther(t, u)'
  BY Zenon, <1>2 DEF HasOther, removeUserFromTeam
<1>7. \A g \in Handlers : Pending(req[g])'
  BY Zenon, <1>5, <1>6 DEF Pending, RemovePending, DeletePending, MovePending
<1>q. QED  BY Zenon, <1>3, <1>7 DEF Owned

\* Deleting the membership keeps every org owned and what the request relies
\* on true.
LEMMA Owned_RemoveUserFromTeam ==
  ASSUME Ctx, NEW h \in Handlers, RemoveUserFromTeam(h)
  PROVE  Owned'
<1>1. \A g \in Handlers : Pending(req[g])'
  BY Zenon, DonePending DEF RemoveUserFromTeam, Ctx
<1>2. req[h].user \in Users /\ req[h].team \in Teams /\ HasOther(req[h].team, req[h].user)
  BY Zenon DEF RemoveUserFromTeam, At, Ctx, TypeInv, ReqOK, WellFormed, Owned, Pending, RemovePending
<1>3. /\ role'[req[h].team][req[h].user] = NoRole
      /\ \A s \in Teams, v \in Users :
           s # req[h].team \/ v # req[h].user => role'[s][v] = role[s][v]
  BY ZenonT(60), <1>2, SetRoleFact DEF RemoveUserFromTeam, Ctx, TypeInv
<1>4. RowsAreLive'
  BY ZenonT(60), <1>3 DEF RemoveUserFromTeam, Ctx, Owned, DbInv, RowsAreLive
<1>5. OrgsAreOwned'
  BY <1>2, <1>3 DEF RemoveUserFromTeam, Ctx, TypeInv, DbOK, Owned, DbInv, OrgsAreOwned,
    HasRow, HasOther
<1>9. DbInv'
  BY Zenon, <1>4, <1>5 DEF DbInv
<1>q. QED  BY Zenon, <1>1, <1>9 DEF Owned

\* The check on the admin page that removes a member keeps every org owned
\* and what the request relies on true.
LEMMA Owned_adminRemoveUserFromOrganization ==
  ASSUME Ctx, NEW h \in Handlers, adminRemoveUserFromOrganization(h)
  PROVE  Owned'
<1>1. PICK u \in Users, o \in orgLive :
        /\ req' = [req EXCEPT ![h] = [Idle EXCEPT !.pc = "removeFromOrg", !.user = u, !.org = o]]
        /\ ~ Exactly1(Members(orgTeam[o]))
  BY Zenon DEF adminRemoveUserFromOrganization, Start
<1>2. orgTeam[o] \in Teams /\ HasRow(orgTeam[o])
  BY Zenon DEF Ctx, TypeInv, DbOK, Owned, DbInv, OrgsAreOwned
<1>3. PICK v \in Users : v \in Members(orgTeam[o])
  BY Zenon, <1>2 DEF HasRow, Members, Rows, Ctx, Owned, DbInv, RowsAreLive
<1>4. \E a \in Users : a # u /\ role[orgTeam[o]][a] # NoRole
  BY Zenon, <1>1, <1>3 DEF Exactly1, Members, Rows
<1>5. HasOther(orgTeam[o], u)'
  BY Zenon, <1>4 DEF HasOther, adminRemoveUserFromOrganization
<1>6. DbInv'
  BY Zenon, SameDb DEF adminRemoveUserFromOrganization, Ctx, Owned
<1>7. \A g \in Handlers : req'[g] = [Idle EXCEPT !.pc = "removeFromOrg", !.user = u, !.org = o]
  BY Zenon, <1>1, OnlyRequest DEF Ctx
<1>8. \A g \in Handlers : req'[g].pc = "removeFromOrg" /\ req'[g].user = u /\ req'[g].org = o
  BY ZenonT(60), <1>7 DEF Idle
<1>9. \A g \in Handlers : Pending(req[g])'
  BY Zenon, <1>5, <1>8 DEF Pending, RemovePending, DeletePending, MovePending
<1>q. QED  BY Zenon, <1>6, <1>9 DEF Owned

\* Deleting the membership in the org's team keeps every org owned and what
\* the request relies on true.
LEMMA Owned_RemoveUserFromOrganization ==
  ASSUME Ctx, NEW h \in Handlers, RemoveUserFromOrganization(h)
  PROVE  Owned'
<1>1. \A g \in Handlers : Pending(req[g])'
  BY Zenon, DonePending DEF RemoveUserFromOrganization, Ctx
<1> DEFINE q == req[h]
           t == orgTeam[q.org]
<1>2. ASSUME UNCHANGED role PROVE DbInv'
  BY Zenon, <1>2, SameDb DEF RemoveUserFromOrganization, Ctx, Owned
<1>3. ASSUME q.org \in orgLive, SetRole(t, q.user, NoRole)
      PROVE  DbInv'
  <2>1. q.user \in Users /\ t \in Teams /\ HasOther(t, q.user)
    BY Zenon, <1>3 DEF RemoveUserFromOrganization, At, Ctx, TypeInv, DbOK, ReqOK, WellFormed,
      Owned, Pending, RemovePending
  <2>2. /\ role'[t][q.user] = NoRole
        /\ \A s \in Teams, v \in Users : s # t \/ v # q.user => role'[s][v] = role[s][v]
    BY ZenonT(60), <1>3, <2>1, SetRoleFact DEF Ctx, TypeInv
  <2>3. RowsAreLive'
    BY ZenonT(60), <2>2 DEF RemoveUserFromOrganization, Ctx, Owned, DbInv, RowsAreLive
  <2>4. OrgsAreOwned'
    BY <2>1, <2>2 DEF RemoveUserFromOrganization, Ctx, TypeInv, DbOK, Owned, DbInv,
      OrgsAreOwned, HasRow, HasOther
  <2>q. QED  BY Zenon, <2>3, <2>4 DEF DbInv
<1>9. DbInv'
  BY Zenon, <1>2, <1>3 DEF RemoveUserFromOrganization
<1>q. QED  BY Zenon, <1>1, <1>9 DEF Owned

\* The checks of an invitation keep every org owned and what the request
\* relies on true.
LEMMA Owned_inviteUserToTeam ==
  ASSUME Ctx, NEW h \in Handlers, inviteUserToTeam(h)
  PROVE  Owned'
<1>1. PICK t \in Teams, r \in Roles :
        /\ req' = [req EXCEPT ![h] = [Idle EXCEPT !.pc = "invite", !.team = t, !.role = r]]
        /\ t \in Teams
  BY Zenon DEF inviteUserToTeam, Start
<1>2. DbInv'
  BY Zenon, SameDb DEF inviteUserToTeam, Ctx, Owned
<1>3. \A g \in Handlers : req'[g] = [Idle EXCEPT !.pc = "invite", !.team = t, !.role = r]
  BY Zenon, <1>1, OnlyRequest DEF Ctx
<1>4. \A g \in Handlers : req'[g].pc = "invite"
  BY Zenon, <1>3 DEF Idle
<1>5. \A g \in Handlers : Pending(req[g])'
  BY Zenon, <1>4 DEF Pending, RemovePending, DeletePending, MovePending
<1>q. QED  BY Zenon, <1>2, <1>5 DEF Owned

\* The transaction that creates the invited user and the membership keeps
\* every org owned and what the request relies on true.
LEMMA Owned_InviteUserToTeam ==
  ASSUME Ctx, NEW h \in Handlers, InviteUserToTeam(h)
  PROVE  Owned'
<1>1. \A g \in Handlers : Pending(req[g])'
  BY Zenon, DonePending DEF InviteUserToTeam, Ctx
<1> DEFINE t == req[h].team
<1>2. t \in Teams /\ req[h].role \in Roles
  BY Zenon DEF InviteUserToTeam, At, Ctx, TypeInv, ReqOK, WellFormed, Request
<1>3. ASSUME UNCHANGED <<account, role>> PROVE DbInv'
  BY Zenon, <1>3, SameDb DEF InviteUserToTeam, Ctx, Owned
<1>4. ASSUME NEW u \in Users, account' = [account EXCEPT ![u] = "live"],
             UNCHANGED role \/ SetRole(t, u, req[h].role)
      PROVE  DbInv'
  <2>1. \A s \in Teams, v \in Users : s # t \/ v # u => role'[s][v] = role[s][v]
    BY ZenonT(60), <1>2, <1>4, SetRoleFact DEF Ctx, TypeInv
  <2>2. role[t][u] # NoRole => role'[t][u] # NoRole
    BY <1>2, <1>4, SetRoleFact DEF Ctx, TypeInv, Roles
  <2>3. account'[u] = "live" /\ \A v \in Users : account[v] = "live" => account'[v] = "live"
    BY Zenon, <1>4 DEF Ctx, TypeInv, DbOK
  <2>4. RowsAreLive'
    BY Zenon, <2>1, <2>3 DEF Ctx, Owned, DbInv, RowsAreLive
  <2>5. \A s \in Teams : HasRow(s) => HasRow(s)'
    BY Zenon, <2>1, <2>2 DEF HasRow
  <2>6. OrgsAreOwned'
    BY Zenon, <2>5 DEF InviteUserToTeam, Ctx, TypeInv, DbOK, Owned, DbInv, OrgsAreOwned
  <2>q. QED  BY Zenon, <2>4, <2>6 DEF DbInv
<1>9. DbInv'
  BY Zenon, <1>3, <1>4 DEF InviteUserToTeam
<1>q. QED  BY Zenon, <1>1, <1>9 DEF Owned

\* The check before a team is deleted keeps every org owned and what the
\* request relies on true.
LEMMA Owned_deleteTeam ==
  ASSUME Ctx, NEW h \in Handlers, deleteTeam(h)
  PROVE  Owned'
<1>1. PICK t \in Teams :
        /\ req' = [req EXCEPT ![h] = [Idle EXCEPT !.pc = "hasOrgs", !.team = t]]
        /\ t \in Teams
  BY Zenon DEF deleteTeam, Start
<1>2. DbInv'
  BY Zenon, SameDb DEF deleteTeam, Ctx, Owned
<1>3. \A g \in Handlers : req'[g] = [Idle EXCEPT !.pc = "hasOrgs", !.team = t]
  BY Zenon, <1>1, OnlyRequest DEF Ctx
<1>4. \A g \in Handlers : req'[g].pc = "hasOrgs" /\ req'[g].user = None
  BY Zenon, <1>3 DEF Idle
<1>5. \A g \in Handlers : Pending(req[g])'
  BY Zenon, <1>4 DEF Pending, RemovePending, DeletePending, MovePending
<1>q. QED  BY Zenon, <1>2, <1>5 DEF Owned

\* Counting the orgs of the team to delete keeps every org owned and what the
\* request relies on true.
LEMMA Owned_teamHasOrganizations ==
  ASSUME Ctx, NEW h \in Handlers, teamHasOrganizations(h)
  PROVE  Owned'
<1>1. ASSUME Goto(h, "dropMembers")
      PROVE  \A g \in Handlers : /\ req'[g].pc = "dropMembers" /\ req'[g].user = req[h].user
                                 /\ req'[g].team = req[h].team /\ req'[g].teams = req[h].teams
                                 /\ req'[g].org = req[h].org
  <2>1. \A g \in Handlers : req'[g] = [req[h] EXCEPT !.pc = "dropMembers"]
    BY Zenon, <1>1, OnlyRequest DEF Goto, Ctx
  <2>q. QED  BY ZenonT(60), <2>1 DEF Ctx, TypeInv, ReqOK, Request
<1>8. DbInv'
  BY Zenon, SameDb DEF teamHasOrganizations, Ctx, Owned
<1>2. ASSUME Done(h)
      PROVE  \A g \in Handlers : Pending(req[g])'
  BY Zenon, <1>2, DonePending DEF Ctx
<1>3. ASSUME Goto(h, "dropMembers"), ~ (team[req[h].team] = "live" /\ OrgsOf(req[h].team) # {})
      PROVE  \A g \in Handlers : Pending(req[g])'
  <2>1. \A o \in orgLive : orgTeam[o] # req[h].team
    BY Zenon, <1>3 DEF OrgsOf, Ctx, Owned, DbInv, OrgsAreOwned
  <2>2. req[h].pc = "hasOrgs" /\ DeletePending(req[h])
    BY Zenon DEF teamHasOrganizations, At, Ctx, Owned, Pending
  <2>3. req[h].user # None =>
          \A o \in orgLive : orgTeam[o] \in req[h].teams \/ HasOther(orgTeam[o], req[h].user)
    BY Zenon, <2>1, <2>2 DEF DeletePending
  <2>4. req[h].user # None =>
          \A o \in orgLive' : orgTeam'[o] \in req[h].teams \/ OtherNext(o, req[h].user)
    BY Zenon, <2>3 DEF HasOther, OtherNext, teamHasOrganizations
  <2>q. QED  BY <1>1, <1>3, <2>1, <2>4
    DEF Pending, RemovePending, DeletePending, MovePending, HasOther, OtherNext, teamHasOrganizations
<1>9. \A g \in Handlers : Pending(req[g])'
  BY Zenon, <1>2, <1>3, DonePending DEF teamHasOrganizations, Ctx
<1>q. QED  BY Zenon, <1>8, <1>9 DEF Owned

\* Deleting the memberships of a team keeps every org owned and what the
\* request relies on true.
LEMMA Owned_DeleteTeamMembers ==
  ASSUME Ctx, NEW h \in Handlers, DeleteTeamMembers(h)
  PROVE  Owned'
<1>1. ASSUME Goto(h, "dropTeam")
      PROVE  \A g \in Handlers : /\ req'[g].pc = "dropTeam" /\ req'[g].user = req[h].user
                                 /\ req'[g].team = req[h].team /\ req'[g].teams = req[h].teams
                                 /\ req'[g].org = req[h].org
  <2>1. \A g \in Handlers : req'[g] = [req[h] EXCEPT !.pc = "dropTeam"]
    BY Zenon, <1>1, OnlyRequest DEF Goto, Ctx
  <2>q. QED  BY ZenonT(60), <2>1 DEF Ctx, TypeInv, ReqOK, Request
<1>2. /\ req[h].pc = "dropMembers" /\ req[h].team \in Teams
      /\ \A o \in orgLive : orgTeam[o] # req[h].team
      /\ DeletePending(req[h])
  BY Zenon DEF DeleteTeamMembers, At, Ctx, TypeInv, ReqOK, WellFormed, Owned, Pending, DeletePending
<1>3. /\ \A u \in Users : role'[req[h].team][u] = NoRole
      /\ \A t \in Teams : t # req[h].team => role'[t] = role[t]
  BY Zenon, <1>2 DEF DeleteTeamMembers, Ctx, TypeInv, DbOK
<1>4. RowsAreLive'
  BY Zenon, <1>3 DEF DeleteTeamMembers, Ctx, Owned, DbInv, RowsAreLive
<1>5. OrgsAreOwned'
  BY <1>2, <1>3 DEF DeleteTeamMembers, Ctx, TypeInv, DbOK, Owned, DbInv, OrgsAreOwned, HasRow
<1>6. req[h].user # None =>
          \A o \in orgLive' : orgTeam'[o] \in req[h].teams \/ OtherNext(o, req[h].user)
  BY <1>2, <1>3 DEF DeletePending, DeleteTeamMembers, HasOther, OtherNext, Ctx, TypeInv, DbOK
<1>8. DbInv'
  BY Zenon, <1>4, <1>5 DEF DbInv
<1>9. \A g \in Handlers : Pending(req[g])'
  BY <1>1, <1>2, <1>6 DEF DeleteTeamMembers, Ctx, Pending, RemovePending, DeletePending, MovePending, HasOther, OtherNext, HasRow, RowNext
<1>q. QED  BY Zenon, <1>8, <1>9 DEF Owned

\* Marking the team deleted keeps every org owned and what the request relies
\* on true.
LEMMA Owned_DeleteTeam ==
  ASSUME Ctx, NEW h \in Handlers, DeleteTeam(h)
  PROVE  Owned'
<1>1. ASSUME Goto(h, "sole")
      PROVE  \A g \in Handlers : /\ req'[g].pc = "sole" /\ req'[g].user = req[h].user
                                 /\ req'[g].team = req[h].team /\ req'[g].teams = req[h].teams
                                 /\ req'[g].org = req[h].org
  <2>1. \A g \in Handlers : req'[g] = [req[h] EXCEPT !.pc = "sole"]
    BY Zenon, <1>1, OnlyRequest DEF Goto, Ctx
  <2>q. QED  BY ZenonT(60), <2>1 DEF Ctx, TypeInv, ReqOK, Request
<1>2. /\ req[h].pc = "dropTeam" /\ req[h].team \in Teams
      /\ \A o \in orgLive : orgTeam[o] # req[h].team
      /\ DeletePending(req[h])
  BY Zenon DEF DeleteTeam, At, Ctx, TypeInv, ReqOK, WellFormed, Owned, Pending, DeletePending
<1>3. RowsAreLive'
  BY Zenon DEF DeleteTeam, Ctx, Owned, DbInv, RowsAreLive
<1>4. OrgsAreOwned'
  BY Zenon, <1>2 DEF DeleteTeam, Ctx, TypeInv, DbOK, Owned, DbInv, OrgsAreOwned, HasRow
<1>5. req[h].user # None =>
          \A o \in orgLive' : orgTeam'[o] \in req[h].teams \/ OtherNext(o, req[h].user)
  BY Zenon, <1>2 DEF DeletePending, DeleteTeam, HasOther, OtherNext
<1>6. ASSUME Done(h)
      PROVE  \A g \in Handlers : Pending(req[g])'
  BY Zenon, <1>6, DonePending DEF Ctx
<1>7. ASSUME Goto(h, "sole"), req[h].user # None
      PROVE  \A g \in Handlers : Pending(req[g])'
  BY ZenonT(120), <1>1, <1>5, <1>7 DEF Pending, RemovePending, DeletePending, MovePending, HasOther, OtherNext
<1>8. DbInv'
  BY Zenon, <1>3, <1>4 DEF DbInv
<1>9. \A g \in Handlers : Pending(req[g])'
  BY Zenon, <1>6, <1>7 DEF DeleteTeam
<1>q. QED  BY Zenon, <1>8, <1>9 DEF Owned

\* Collecting the teams in which a user is alone keeps every org owned and
\* what the request relies on true.
LEMMA Owned_adminDeleteUser ==
  ASSUME Ctx, NEW h \in Handlers, adminDeleteUser(h)
  PROVE  Owned'
<1>1. PICK u \in Users : Start(h, [Idle EXCEPT !.pc = "sole", !.user = u,
                   !.teams = {t \in Teams : team[t] = "live" /\ Rows(t) = {u}}])
  BY Zenon DEF adminDeleteUser
<1> DEFINE ts == {t \in Teams : team[t] = "live" /\ Rows(t) = {u}}
<1>2. \A o \in orgLive : orgTeam[o] \in ts \/ HasOther(orgTeam[o], u)
  <2>1. TAKE o \in orgLive
  <2>2. orgTeam[o] \in Teams /\ team[orgTeam[o]] = "live" /\ HasRow(orgTeam[o])
    BY Zenon DEF Ctx, TypeInv, DbOK, Owned, DbInv, OrgsAreOwned
  <2>q. QED  BY Zenon, <2>2 DEF HasRow, HasOther, Rows
<1>3. DbInv'
  BY Zenon, SameDb DEF adminDeleteUser, Ctx, Owned
<1>4. \A g \in Handlers : req'[g] = [Idle EXCEPT !.pc = "sole", !.user = u, !.teams = ts]
  BY Zenon, <1>1, OnlyRequest DEF Ctx, Start
<1>5. \A g \in Handlers : req'[g].pc = "sole" /\ req'[g].user = u /\ req'[g].teams = ts
  BY ZenonT(60), <1>4 DEF Idle
<1>6. \A o \in orgLive' : orgTeam'[o] \in ts \/ HasOther(orgTeam[o], u)'
  BY ZenonT(60), <1>2 DEF adminDeleteUser, HasOther
<1> HIDE DEF ts
<1>7. \A g \in Handlers : Pending(req[g])'
  BY Zenon, <1>5, <1>6 DEF Pending, RemovePending, DeletePending, MovePending
<1>q. QED  BY Zenon, <1>3, <1>7 DEF Owned

\* Going on to the next of those teams keeps every org owned and what the
\* request relies on true.
LEMMA Owned_DeleteUserNextTeam ==
  ASSUME TeamAccessAssumption, Ctx, NEW h \in Handlers, DeleteUserNextTeam(h)
  PROVE  Owned'
<1>1. ASSUME Goto(h, "dropMemberships")
      PROVE  \A g \in Handlers : /\ req'[g].pc = "dropMemberships" /\ req'[g].user = req[h].user
                                 /\ req'[g].team = req[h].team /\ req'[g].teams = req[h].teams
                                 /\ req'[g].org = req[h].org
  <2>1. \A g \in Handlers : req'[g] = [req[h] EXCEPT !.pc = "dropMemberships"]
    BY Zenon, <1>1, OnlyRequest DEF Goto, Ctx
  <2>q. QED  BY <2>1 DEF Ctx, TypeInv, ReqOK, Request
<1>8. DbInv'
  BY Zenon, SameDb DEF DeleteUserNextTeam, Ctx, Owned
<1>2. /\ req[h].pc = "sole" /\ req[h].user \in Users
      /\ req[h].user # None =>
           \A o \in orgLive : orgTeam[o] \in req[h].teams \/ HasOther(orgTeam[o], req[h].user)
  BY Zenon DEF DeleteUserNextTeam, At, Ctx, TypeInv, ReqOK, WellFormed, Owned, Pending, DeletePending
<1>3. \A o \in orgLive : orgTeam[o] \in req[h].teams \/ HasOther(orgTeam[o], req[h].user)
  BY Zenon, <1>2 DEF TeamAccessAssumption
<1>4. \A o \in orgLive' : orgTeam'[o] \in req[h].teams \/ OtherNext(o, req[h].user)
  BY Zenon, <1>3 DEF HasOther, OtherNext, DeleteUserNextTeam
<1>5. ASSUME req[h].teams = {}, Goto(h, "dropMemberships")
      PROVE  \A g \in Handlers : Pending(req[g])'
  BY ZenonT(120), <1>1, <1>4, <1>5 DEF Pending, RemovePending, DeletePending, MovePending, HasOther, OtherNext
<1>6. ASSUME NEW t \in req[h].teams,
             req' = [req EXCEPT ![h] = [req[h] EXCEPT !.pc = "soleOrgs", !.team = t,
                               !.teams = req[h].teams \ {t}, !.orgs = OrgsOf(t)]]
      PROVE  \A g \in Handlers : Pending(req[g])'
  <2>1. \A g \in Handlers :
          req'[g] = [req[h] EXCEPT !.pc = "soleOrgs", !.team = t,
                               !.teams = req[h].teams \ {t}, !.orgs = OrgsOf(t)]
    BY Zenon, <1>6, OnlyRequest DEF Ctx
  <2>2. \A g \in Handlers :
          /\ req'[g].pc = "soleOrgs" /\ req'[g].user = req[h].user
          /\ req'[g].team = t /\ req'[g].teams = req[h].teams \ {t}
    <3>1. req[h] \in Request
      BY Zenon DEF Ctx, TypeInv, ReqOK
    <3>2. TAKE g \in Handlers
    <3>3. req'[g] = [req[h] EXCEPT !.pc = "soleOrgs", !.team = t,
                               !.teams = req[h].teams \ {t}, !.orgs = OrgsOf(t)]
      BY Zenon, <2>1
    <3>q. QED  BY Zenon, <3>1, <3>3 DEF Request
  <2>q. QED  BY ZenonT(120), <1>4, <2>2 DEF Pending, RemovePending, DeletePending, MovePending, HasOther, OtherNext
<1>9. \A g \in Handlers : Pending(req[g])'
  BY Zenon, <1>5, <1>6 DEF DeleteUserNextTeam
<1>q. QED  BY Zenon, <1>8, <1>9 DEF Owned

\* Deleting the orgs of such a team keeps every org owned and what the
\* request relies on true.
LEMMA Owned_DeleteUserOrgs ==
  ASSUME Ctx, NEW h \in Handlers, DeleteUserOrgs(h)
  PROVE  Owned'
<1>1. ASSUME Goto(h, "hasOrgs")
      PROVE  \A g \in Handlers : /\ req'[g].pc = "hasOrgs" /\ req'[g].user = req[h].user
                                 /\ req'[g].team = req[h].team /\ req'[g].teams = req[h].teams
                                 /\ req'[g].org = req[h].org
  <2>1. \A g \in Handlers : req'[g] = [req[h] EXCEPT !.pc = "hasOrgs"]
    BY Zenon, <1>1, OnlyRequest DEF Goto, Ctx
  <2>q. QED  BY ZenonT(60), <2>1 DEF Ctx, TypeInv, ReqOK, Request
<1>2. /\ req[h].pc = "soleOrgs" /\ DeletePending(req[h])
  BY Zenon DEF DeleteUserOrgs, At, Ctx, Owned, Pending
<1>3. req[h].user # None =>
        \A o \in orgLive' : \/ orgTeam'[o] \in req[h].teams \/ orgTeam'[o] = req[h].team
                            \/ OtherNext(o, req[h].user)
  BY Zenon, <1>2 DEF DeletePending, DeleteUserOrgs, HasOther, OtherNext
<1>4. ASSUME Goto(h, "hasOrgs")
      PROVE  \A g \in Handlers : Pending(req[g])'
  BY <1>1, <1>3, <1>4 DEF Pending, RemovePending, DeletePending, MovePending, HasOther, OtherNext
<1>5. ASSUME NEW o \in req[h].orgs,
             req' = [req EXCEPT ![h] = [req[h] EXCEPT !.orgs = req[h].orgs \ {o}]]
      PROVE  \A g \in Handlers : Pending(req[g])'
  <2>1. \A g \in Handlers : req'[g] = [req[h] EXCEPT !.orgs = req[h].orgs \ {o}]
    BY Zenon, <1>5, OnlyRequest DEF Ctx
  <2>2. \A g \in Handlers :
          /\ req'[g].pc = "soleOrgs" /\ req'[g].user = req[h].user
          /\ req'[g].team = req[h].team /\ req'[g].teams = req[h].teams
    BY Zenon, <1>2, <2>1 DEF Ctx, TypeInv, ReqOK, Request
  <2>q. QED  BY ZenonT(120), <1>3, <2>2 DEF Pending, RemovePending, DeletePending, MovePending, HasOther, OtherNext
<1>8. DbInv'
  BY Zenon DEF DeleteUserOrgs, Ctx, Owned, DbInv, RowsAreLive, OrgsAreOwned, HasRow
<1>9. \A g \in Handlers : Pending(req[g])'
  BY Zenon, <1>4, <1>5 DEF DeleteUserOrgs
<1>q. QED  BY Zenon, <1>8, <1>9 DEF Owned

\* Deleting the memberships of a user keeps every org owned and what the
\* request relies on true.
LEMMA Owned_DeleteUserMemberships ==
  ASSUME Ctx, NEW h \in Handlers, DeleteUserMemberships(h)
  PROVE  Owned'
<1>1. ASSUME Goto(h, "dropUser")
      PROVE  \A g \in Handlers : /\ req'[g].pc = "dropUser" /\ req'[g].user = req[h].user
                                 /\ req'[g].team = req[h].team /\ req'[g].teams = req[h].teams
                                 /\ req'[g].org = req[h].org
  <2>1. \A g \in Handlers : req'[g] = [req[h] EXCEPT !.pc = "dropUser"]
    BY Zenon, <1>1, OnlyRequest DEF Goto, Ctx
  <2>q. QED  BY ZenonT(60), <2>1 DEF Ctx, TypeInv, ReqOK, Request
<1>2. /\ req[h].pc = "dropMemberships" /\ req[h].user \in Users
      /\ \A o \in orgLive : HasOther(orgTeam[o], req[h].user)
  BY Zenon DEF DeleteUserMemberships, At, Ctx, TypeInv, ReqOK, WellFormed, Owned, Pending, DeletePending
<1>3. \A t \in Teams : /\ role'[t][req[h].user] = NoRole
                       /\ \A u \in Users : u # req[h].user => role'[t][u] = role[t][u]
  BY Zenon, <1>2 DEF DeleteUserMemberships, Ctx, TypeInv, DbOK
<1>4. RowsAreLive'
  BY <1>3 DEF DeleteUserMemberships, Ctx, Owned, DbInv, RowsAreLive
<1>5. OrgsAreOwned'
  BY ZenonT(60), <1>2, <1>3 DEF DeleteUserMemberships, Ctx, TypeInv, DbOK, Owned, DbInv, OrgsAreOwned,
    HasRow, HasOther
<1>8. DbInv'
  BY Zenon, <1>4, <1>5 DEF DbInv
<1>9. \A g \in Handlers : Pending(req[g])'
  BY ZenonT(60), <1>1, <1>3 DEF DeleteUserMemberships, Ctx, Pending, RemovePending, DeletePending, MovePending
<1>q. QED  BY Zenon, <1>8, <1>9 DEF Owned

\* Marking the user deleted keeps every org owned and what the request relies
\* on true.
LEMMA Owned_DeleteUser ==
  ASSUME Ctx, NEW h \in Handlers, DeleteUser(h)
  PROVE  Owned'
<1>1. \A g \in Handlers : Pending(req[g])'
  BY Zenon, DonePending DEF DeleteUser, Ctx
<1>2. /\ req[h].user \in Users
      /\ \A t \in Teams : role[t][req[h].user] = NoRole
  BY Zenon DEF DeleteUser, At, Ctx, TypeInv, ReqOK, WellFormed, Owned, Pending, DeletePending
<1>3. RowsAreLive'
  BY Zenon, <1>2 DEF DeleteUser, Ctx, TypeInv, DbOK, Owned, DbInv, RowsAreLive
<1>4. OrgsAreOwned'
  BY Zenon DEF DeleteUser, Ctx, Owned, DbInv, OrgsAreOwned, HasRow
<1>9. DbInv'
  BY Zenon, <1>3, <1>4 DEF DbInv
<1>q. QED  BY Zenon, <1>1, <1>9 DEF Owned

\* The check before an org is deleted keeps every org owned and what the
\* request relies on true.
LEMMA Owned_deleteOrg ==
  ASSUME Ctx, NEW h \in Handlers, deleteOrg(h)
  PROVE  Owned'
<1>1. PICK o \in orgLive :
        /\ req' = [req EXCEPT ![h] = [Idle EXCEPT !.pc = "dropOrg", !.org = o]]
        /\ o \in orgLive
  BY Zenon DEF deleteOrg, Start
<1>2. DbInv'
  BY Zenon, SameDb DEF deleteOrg, Ctx, Owned
<1>3. \A g \in Handlers : req'[g] = [Idle EXCEPT !.pc = "dropOrg", !.org = o]
  BY Zenon, <1>1, OnlyRequest DEF Ctx
<1>4. \A g \in Handlers : req'[g].pc = "dropOrg"
  BY Zenon, <1>3 DEF Idle
<1>5. \A g \in Handlers : Pending(req[g])'
  BY Zenon, <1>4 DEF Pending, RemovePending, DeletePending, MovePending
<1>q. QED  BY Zenon, <1>2, <1>5 DEF Owned

\* The admin page that deletes an org keeps every org owned and what the
\* request relies on true.
LEMMA Owned_adminDeleteOrganization ==
  ASSUME Ctx, NEW h \in Handlers, adminDeleteOrganization(h)
  PROVE  Owned'
<1>1. PICK o \in orgLive :
        /\ req' = [req EXCEPT ![h] = [Idle EXCEPT !.pc = "dropOrg", !.org = o]]
        /\ o \in orgLive
  BY Zenon DEF adminDeleteOrganization, Start
<1>2. DbInv'
  BY Zenon, SameDb DEF adminDeleteOrganization, Ctx, Owned
<1>3. \A g \in Handlers : req'[g] = [Idle EXCEPT !.pc = "dropOrg", !.org = o]
  BY Zenon, <1>1, OnlyRequest DEF Ctx
<1>4. \A g \in Handlers : req'[g].pc = "dropOrg"
  BY Zenon, <1>3 DEF Idle
<1>5. \A g \in Handlers : Pending(req[g])'
  BY Zenon, <1>4 DEF Pending, RemovePending, DeletePending, MovePending
<1>q. QED  BY Zenon, <1>2, <1>5 DEF Owned

\* Marking the org deleted keeps every org owned and what the request relies
\* on true.
LEMMA Owned_DeleteOrganization ==
  ASSUME Ctx, NEW h \in Handlers, DeleteOrganization(h)
  PROVE  Owned'
<1>1. \A g \in Handlers : Pending(req[g])'
  BY Zenon, DonePending DEF DeleteOrganization, Ctx
<1>9. DbInv'
  BY ZenonT(60) DEF DeleteOrganization, Ctx, Owned, DbInv, RowsAreLive, OrgsAreOwned, HasRow
<1>q. QED  BY Zenon, <1>1, <1>9 DEF Owned

\* The checks before an org is moved keep every org owned and what the
\* request relies on true.
LEMMA Owned_updateOrg ==
  ASSUME TeamAccessAssumption, Ctx, NEW h \in Handlers, updateOrg(h)
  PROVE  Owned'
<1>1. PICK a \in Users, o \in orgLive, t \in Teams \union {None} :
        /\ account[a] = "live"
        /\ t # None => RequireTeamMemberPermissionTo(a, t)
        /\ req' = [req EXCEPT ![h] = [Idle EXCEPT
                  !.pc = IF t = None THEN "createTeam" ELSE "findTeam",
                  !.actor = a, !.org = o, !.team = t, !.prev = orgTeam[o]]]
  BY ZenonT(60) DEF updateOrg, Start
<1> DEFINE p == IF t = None THEN "createTeam" ELSE "findTeam"
<1>2. DbInv'
  BY Zenon, SameDb DEF updateOrg, Ctx, Owned
<1>3. \A g \in Handlers : req'[g] = [Idle EXCEPT !.pc = p,
                  !.actor = a, !.org = o, !.team = t, !.prev = orgTeam[o]]
  BY Zenon, <1>1, OnlyRequest DEF Ctx
<1> HIDE DEF p
<1>4. \A g \in Handlers : /\ req'[g].pc = p
                          /\ req'[g].actor = a /\ req'[g].team = t
  <2>1. TAKE g \in Handlers
  <2>2. req'[g] = [Idle EXCEPT !.pc = p, !.actor = a, !.org = o, !.team = t, !.prev = orgTeam[o]]
    BY Zenon, <1>3
  <2>q. QED  BY Zenon, <2>2 DEF Idle
<1>5. t # None => HasRow(t)'
  BY Zenon, <1>1 DEF HasRow, updateOrg, RequireTeamMemberPermissionTo, requirePermission
<1>6. account'[a] = "live"
  BY Zenon, <1>1 DEF updateOrg
<1>7. \A g \in Handlers : Pending(req[g])'
  BY Zenon, <1>4, <1>5, <1>6 DEF p, Pending, RemovePending, DeletePending, MovePending
<1>q. QED  BY Zenon, <1>2, <1>7 DEF Owned

\* Inserting a new team keeps every org owned and what the request relies on
\* true.
LEMMA Owned_CreateTeam ==
  ASSUME Ctx, NEW h \in Handlers, CreateTeam(h)
  PROVE  Owned'
<1>1. PICK t \in Teams :
        /\ team[t] = "absent" /\ team' = [team EXCEPT ![t] = "live"]
        /\ req' = [req EXCEPT ![h] = [req[h] EXCEPT !.pc = "joinTeam", !.team = t]]
  BY Zenon DEF CreateTeam
<1>2. \A g \in Handlers : req'[g] = [req[h] EXCEPT !.pc = "joinTeam", !.team = t]
  BY Zenon, <1>1, OnlyRequest DEF Ctx
<1>3. \A g \in Handlers : /\ req'[g].pc = "joinTeam" /\ req'[g].team = t
                          /\ req'[g].actor = req[h].actor
  BY Zenon, <1>2 DEF Ctx, TypeInv, ReqOK, Request
<1>4. account'[req[h].actor] = "live" /\ team'[t] = "live"
  BY Zenon, <1>1 DEF CreateTeam, At, Ctx, TypeInv, DbOK, Owned, Pending, MovePending
<1>5. \A g \in Handlers : Pending(req[g])'
  BY Zenon, <1>3, <1>4 DEF Pending, RemovePending, DeletePending, MovePending
<1>6. DbInv'
  BY <1>1 DEF CreateTeam, Ctx, TypeInv, DbOK, Owned, DbInv, RowsAreLive, OrgsAreOwned, HasRow
<1>q. QED  BY Zenon, <1>5, <1>6 DEF Owned

\* Making its creator its admin keeps every org owned and what the request
\* relies on true.
LEMMA Owned_CreateTeamAsUser ==
  ASSUME Ctx, NEW h \in Handlers, CreateTeamAsUser(h)
  PROVE  Owned'
<1>1. ASSUME Goto(h, "moveOrg")
      PROVE  \A g \in Handlers : /\ req'[g].pc = "moveOrg" /\ req'[g].user = req[h].user
                                 /\ req'[g].team = req[h].team /\ req'[g].teams = req[h].teams
                                 /\ req'[g].org = req[h].org
  <2>1. \A g \in Handlers : req'[g] = [req[h] EXCEPT !.pc = "moveOrg"]
    BY Zenon, <1>1, OnlyRequest DEF Goto, Ctx
  <2>q. QED  BY ZenonT(60), <2>1 DEF Ctx, TypeInv, ReqOK, Request
<1>2. /\ req[h].team \in Teams /\ req[h].actor \in Users
      /\ account[req[h].actor] = "live" /\ team[req[h].team] = "live"
  BY Zenon DEF CreateTeamAsUser, At, Ctx, TypeInv, ReqOK, WellFormed, Owned, Pending, MovePending
<1>3. /\ role'[req[h].team][req[h].actor] = "admin"
      /\ \A s \in Teams, v \in Users :
           s # req[h].team \/ v # req[h].actor => role'[s][v] = role[s][v]
  BY ZenonT(60), <1>2, SetRoleFact DEF CreateTeamAsUser, Ctx, TypeInv
<1>4. RowNext(req[h].team) /\ \A s \in Teams : HasRow(s) => HasRow(s)'
  BY Zenon, <1>2, <1>3 DEF HasRow, RowNext
<1>5. RowsAreLive'
  BY ZenonT(60), <1>2, <1>3 DEF CreateTeamAsUser, Ctx, Owned, DbInv, RowsAreLive
<1>6. OrgsAreOwned'
  BY Zenon, <1>4 DEF CreateTeamAsUser, Ctx, TypeInv, DbOK, Owned, DbInv, OrgsAreOwned
<1>8. DbInv'
  BY Zenon, <1>5, <1>6 DEF DbInv
<1>9. \A g \in Handlers : Pending(req[g])'
  BY ZenonT(120), <1>1, <1>2, <1>4 DEF CreateTeamAsUser, Ctx, Pending, RemovePending, DeletePending, MovePending, HasOther, OtherNext, HasRow, RowNext
<1>q. QED  BY Zenon, <1>8, <1>9 DEF Owned

\* Looking up the team to move to keeps every org owned and what the request
\* relies on true.
LEMMA Owned_FindTeamByExternalID ==
  ASSUME Ctx, NEW h \in Handlers, FindTeamByExternalID(h)
  PROVE  Owned'
<1>1. ASSUME Goto(h, "moveOrg")
      PROVE  \A g \in Handlers : /\ req'[g].pc = "moveOrg" /\ req'[g].user = req[h].user
                                 /\ req'[g].team = req[h].team /\ req'[g].teams = req[h].teams
                                 /\ req'[g].org = req[h].org
  <2>1. \A g \in Handlers : req'[g] = [req[h] EXCEPT !.pc = "moveOrg"]
    BY Zenon, <1>1, OnlyRequest DEF Goto, Ctx
  <2>q. QED  BY ZenonT(60), <2>1 DEF Ctx, TypeInv, ReqOK, Request
<1>8. DbInv'
  BY Zenon, SameDb DEF FindTeamByExternalID, Ctx, Owned
<1>2. RowNext(req[h].team)
  BY Zenon DEF FindTeamByExternalID, At, Ctx, Owned, Pending, MovePending, HasRow, RowNext
<1>3. ASSUME Done(h)
      PROVE  \A g \in Handlers : Pending(req[g])'
  BY Zenon, <1>3, DonePending DEF Ctx
<1>4. ASSUME Goto(h, "moveOrg"), team[req[h].team] = "live"
      PROVE  \A g \in Handlers : Pending(req[g])'
  BY <1>1, <1>2, <1>4 DEF Pending, RemovePending, DeletePending, MovePending, HasRow, RowNext, FindTeamByExternalID
<1>9. \A g \in Handlers : Pending(req[g])'
  BY Zenon, <1>3, <1>4 DEF FindTeamByExternalID
<1>q. QED  BY Zenon, <1>8, <1>9 DEF Owned

\* Writing the org's team keeps every org owned and what the request relies
\* on true.
LEMMA Owned_MoveOrganizationToTeam ==
  ASSUME Ctx, NEW h \in Handlers, MoveOrganizationToTeam(h)
  PROVE  Owned'
<1>1. ASSUME Goto(h, "moved")
      PROVE  \A g \in Handlers : /\ req'[g].pc = "moved" /\ req'[g].user = req[h].user
                                 /\ req'[g].team = req[h].team /\ req'[g].teams = req[h].teams
                                 /\ req'[g].org = req[h].org
  <2>1. \A g \in Handlers : req'[g] = [req[h] EXCEPT !.pc = "moved"]
    BY Zenon, <1>1, OnlyRequest DEF Goto, Ctx
  <2>q. QED  BY ZenonT(60), <2>1 DEF Ctx, TypeInv, ReqOK, Request
<1>2. /\ req[h].team \in Teams /\ req[h].org \in Orgs
      /\ team[req[h].team] = "live" /\ HasRow(req[h].team)
  BY Zenon DEF MoveOrganizationToTeam, At, Ctx, TypeInv, ReqOK, WellFormed, Owned, Pending, MovePending
<1>3. OrgsAreOwned'
  BY ZenonT(60), <1>2 DEF MoveOrganizationToTeam, Ctx, TypeInv, DbOK, Owned, DbInv, OrgsAreOwned, HasRow
<1>4. RowsAreLive'
  BY Zenon DEF MoveOrganizationToTeam, Ctx, Owned, DbInv, RowsAreLive
<1>8. DbInv'
  BY Zenon, <1>3, <1>4 DEF DbInv
<1>9. \A g \in Handlers : Pending(req[g])'
  BY Zenon, <1>1 DEF MoveOrganizationToTeam, Ctx, Pending, RemovePending, DeletePending, MovePending
<1>q. QED  BY Zenon, <1>8, <1>9 DEF Owned

\* Comparing the billing providers after a move keeps every org owned and
\* what the request relies on true.
LEMMA Owned_MoveOrg ==
  ASSUME Ctx, NEW h \in Handlers, MoveOrg(h)
  PROVE  Owned'
<1>8. DbInv'
  BY Zenon, SameDb DEF MoveOrg, Ctx, Owned
<1>2. ASSUME Done(h)
      PROVE  \A g \in Handlers : Pending(req[g])'
  BY Zenon, <1>2, DonePending DEF Ctx
<1>3. ASSUME NEW t, NEW ff,
             req' = [req EXCEPT ![h] = [req[h] EXCEPT !.pc = "setFlags", !.team = t, !.ff = ff]]
      PROVE  \A g \in Handlers : Pending(req[g])'
  <2>1. \A g \in Handlers : req'[g] = [req[h] EXCEPT !.pc = "setFlags", !.team = t, !.ff = ff]
    BY Zenon, <1>3, OnlyRequest DEF Ctx
  <2>2. \A g \in Handlers : req'[g].pc = "setFlags"
    BY Zenon, <2>1 DEF Ctx, TypeInv, ReqOK, Request
  <2>q. QED  BY Zenon, <2>2 DEF Pending, RemovePending, DeletePending, MovePending
<1>9. \A g \in Handlers : Pending(req[g])'
  BY Zenon, <1>2, <1>3 DEF MoveOrg
<1>q. QED  BY Zenon, <1>8, <1>9 DEF Owned

\* Writing the billing flags after a move keeps every org owned and what the
\* request relies on true.
LEMMA Owned_refreshOrganizationRestrictions ==
  ASSUME Ctx, NEW h \in Handlers, refreshOrganizationRestrictions(h)
  PROVE  Owned'
<1>1. \A g \in Handlers : req'[g].pc = "refuse"
  <2>1. PICK ff : req' = [req EXCEPT ![h] = [req[h] EXCEPT !.pc = "refuse", !.ff = ff]]
    BY Zenon DEF refreshOrganizationRestrictions
  <2>2. \A g \in Handlers : req'[g] = [req[h] EXCEPT !.pc = "refuse", !.ff = ff]
    BY Zenon, <2>1, OnlyRequest DEF Ctx
  <2>q. QED  BY Zenon, <2>2 DEF Ctx, TypeInv, ReqOK, Request
<1>8. DbInv'
  BY Zenon, SameDb DEF refreshOrganizationRestrictions, Ctx, Owned
<1>9. \A g \in Handlers : Pending(req[g])'
  BY Zenon, <1>1 DEF refreshOrganizationRestrictions, Ctx, Pending, RemovePending, DeletePending, MovePending
<1>q. QED  BY Zenon, <1>8, <1>9 DEF Owned

\* Refusing data after a move keeps every org owned and what the request
\* relies on true.
LEMMA Owned_RefuseData ==
  ASSUME Ctx, NEW h \in Handlers, RefuseData(h)
  PROVE  Owned'
<1>1. \A g \in Handlers : Pending(req[g])'
  BY Zenon, DonePending DEF RefuseData, Ctx
<1>9. DbInv'
  BY Zenon, SameDb DEF RefuseData, Ctx, Owned
<1>q. QED  BY Zenon, <1>1, <1>9 DEF Owned

\* A statement that fails keeps every org owned and what the request relies
\* on true.
LEMMA Owned_Fail ==
  ASSUME Ctx, NEW h \in Handlers, Fail(h)
  PROVE  Owned'
<1>1. \A g \in Handlers : Pending(req[g])'
  BY Zenon, DonePending DEF Fail, Ctx
<1>9. DbInv'
  BY Zenon, SameDb DEF Fail, Ctx, Owned
<1>q. QED  BY Zenon, <1>1, <1>9 DEF Owned

\* Every step keeps every org owned.
LEMMA OwnedNext == TeamAccessAssumption /\ Ctx /\ [Next]_vars => Owned'
<1> SUFFICES ASSUME TeamAccessAssumption, Ctx, [Next]_vars PROVE Owned'
  BY Zenon
<1>1. CASE UNCHANGED vars
  BY SMTT(60), <1>1 DEF vars, Ctx, Owned, DbInv, RowsAreLive, OrgsAreOwned, HasRow, HasOther,
    Pending, RemovePending, DeletePending, MovePending
<1>2. CASE Next
  BY Zenon, <1>2,
     Owned_updateUserRoleInTeam, Owned_UpdateUserRoleInTeam,
     Owned_removeUserFromTeam, Owned_RemoveUserFromTeam,
     Owned_adminRemoveUserFromOrganization, Owned_RemoveUserFromOrganization,
     Owned_inviteUserToTeam, Owned_InviteUserToTeam, Owned_deleteTeam,
     Owned_teamHasOrganizations, Owned_DeleteTeamMembers, Owned_DeleteTeam,
     Owned_adminDeleteUser, Owned_DeleteUserNextTeam, Owned_DeleteUserOrgs,
     Owned_DeleteUserMemberships, Owned_DeleteUser, Owned_deleteOrg,
     Owned_adminDeleteOrganization, Owned_DeleteOrganization, Owned_updateOrg,
     Owned_CreateTeam, Owned_CreateTeamAsUser, Owned_FindTeamByExternalID,
     Owned_MoveOrganizationToTeam, Owned_MoveOrg,
     Owned_refreshOrganizationRestrictions, Owned_RefuseData, Owned_Fail
  DEF Next
<1>q. QED  BY Zenon, <1>1, <1>2

\* Sign-up leaves every org with a team that has a member.
LEMMA OwnedInit == TeamAccessAssumption /\ OneRequest /\ Init => Owned
<1> SUFFICES ASSUME TeamAccessAssumption, OneRequest, Init PROVE Owned
  BY Zenon
<1>1. \A h \in Handlers : req[h].pc = "idle" /\ req[h].user = None
  BY Zenon, IdleFact DEF Init
<1>2. \A h \in Handlers : Pending(req[h])
  BY Zenon, <1>1 DEF Pending, RemovePending, DeletePending, MovePending
<1>3. RowsAreLive
  BY Zenon DEF Init, RowsAreLive, Rows
<1>4. OrgsAreOwned
  <2>1. \A o \in orgLive : o \in Orgs /\ orgTeam[o] \in Teams /\ team[orgTeam[o]] = "live"
    BY Zenon DEF Init
  <2>2. \A t \in Teams : team[t] = "live" => HasRow(t)
    BY DEF Init, Rows, HasRow
  <2>q. QED  BY Zenon, <2>1, <2>2 DEF OrgsAreOwned
<1>q. QED  BY Zenon, <1>2, <1>3, <1>4 DEF Owned, DbInv

\* If requests are served one at a time, an organization always belongs to a
\* team that exists and has a member, even if any statement of a request can
\* fail after the ones before it have taken effect.
THEOREM OrgKeepsAMember == OneRequest => (Spec => []LiveOrgHasMember)
<1> SUFFICES ASSUME OneRequest PROVE Spec => []LiveOrgHasMember
  BY Zenon
<1>1. Init => TypeInv /\ Owned
  BY Zenon, TypeInit, OwnedInit, TeamAccessAssumption
<1>2. (TypeInv /\ Owned) /\ [Next]_vars => (TypeInv /\ Owned)'
  BY Zenon, TypeNext, OwnedNext, TeamAccessAssumption DEF Ctx
<1>3. TypeInv /\ Owned => LiveOrgHasMember
  BY DEF TypeInv, DbOK, Owned, DbInv, RowsAreLive, OrgsAreOwned, HasRow,
    LiveOrgHasMember, Members, Rows
<1>q. QED  BY <1>1, <1>2, <1>3, PTL DEF Spec

-----------------------------------------------------------------------------
(* A team of which staff have removed nobody keeps an admin.               *)


HasAdmin(t) == \E a \in Users : role[t][a] = "admin"

AbsentIsEmpty == \A t \in Teams : team[t] = "absent" => ~ HasRow(t)
RowsHaveAdmin == \A t \in Teams : t \notin staffed /\ HasRow(t) => HasAdmin(t)
RoleInv == AbsentIsEmpty /\ RowsHaveAdmin

\* The inductive invariant, apart from what is shown above.
Administered == RoleInv /\ \A h \in Handlers : AdminPending(req[h])

AdminCtx == Ctx /\ Administered

\* A request that is over waits for nothing.
LEMMA DoneAdmin ==
  ASSUME TypeInv, OneRequest, NEW h \in Handlers, Done(h)
  PROVE  \A g \in Handlers : AdminPending(req[g])'
<1>1. \A g \in Handlers : req'[g] = Idle
  BY Zenon, OnlyRequest DEF Done
<1>2. Idle.pc = "idle"
  BY Zenon, IdleFact
<1>q. QED  BY Zenon, <1>1, <1>2 DEF AdminPending

\* A request that goes on to a step that takes no admin for granted.
LEMMA GotoAdmin ==
  ASSUME AdminCtx, NEW h \in Handlers, NEW pc, pc \notin {"setRole", "remove", "invite"},
         Goto(h, pc)
  PROVE  \A g \in Handlers : AdminPending(req[g])'
<1>1. \A g \in Handlers : req'[g] = [req[h] EXCEPT !.pc = pc]
  BY Zenon, OnlyRequest DEF Goto, AdminCtx, Ctx
<1>2. \A g \in Handlers : req'[g].pc = pc
  BY ZenonT(120), <1>1 DEF AdminCtx, Ctx, TypeInv, ReqOK, Request
<1>q. QED  BY Zenon, <1>2 DEF AdminPending

\* Neither teams nor roles change.
LEMMA SameRoles ==
  ASSUME RoleInv, UNCHANGED <<team, role, staffed>>
  PROVE  RoleInv'
BY Zenon DEF RoleInv, AbsentIsEmpty, RowsHaveAdmin, HasRow, HasAdmin

\* An admin that was there is still there.
LEMMA AdminStays ==
  ASSUME NEW t \in Teams, HasAdmin(t), UNCHANGED role
  PROVE  HasAdmin(t)'
BY Zenon DEF HasAdmin

\* The checks of a change of role keep an admin in every team with members.
LEMMA Admin_updateUserRoleInTeam ==
  ASSUME AdminCtx, NEW h \in Handlers, updateUserRoleInTeam(h)
  PROVE  Administered'
<1>0. PICK a \in Users, u \in Users, t \in Teams, r \in Roles :
        /\ a # u /\ RequireTeamMemberPermissionTo(a, t)
        /\ Start(h, [Idle EXCEPT !.pc = "setRole", !.user = u, !.team = t, !.role = r])
  BY Zenon DEF updateUserRoleInTeam
<1>1. /\ req' = [req EXCEPT ![h] = [Idle EXCEPT !.pc = "setRole", !.user = u, !.team = t, !.role = r]]
      /\ a # u /\ role[t][a] = "admin"
  BY <1>0, Zenon DEF Start, RequireTeamMemberPermissionTo, requirePermission
<1>2. RoleInv'
  BY Zenon, SameRoles DEF updateUserRoleInTeam, AdminCtx, Administered
<1>3. \A g \in Handlers : req'[g] = [Idle EXCEPT !.pc = "setRole", !.user = u, !.team = t, !.role = r]
  BY Zenon, <1>1, OnlyRequest DEF AdminCtx, Ctx
<1>4. \A g \in Handlers : req'[g].pc = "setRole" /\ req'[g].user = u /\ req'[g].team = t
  BY ZenonT(60), <1>3 DEF Idle
<1>5. HasOtherAdmin(t, u)'
  BY Zenon, <1>1 DEF HasOtherAdmin, updateUserRoleInTeam
<1>6. \A g \in Handlers : AdminPending(req[g])'
  BY Zenon, <1>4, <1>5 DEF AdminPending
<1>q. QED  BY Zenon, <1>2, <1>6 DEF Administered

\* Writing the new role keeps an admin in every team with members.
LEMMA Admin_UpdateUserRoleInTeam ==
  ASSUME AdminCtx, NEW h \in Handlers, UpdateUserRoleInTeam(h)
  PROVE  Administered'
<1>1. \A g \in Handlers : AdminPending(req[g])'
  BY Zenon, DoneAdmin DEF UpdateUserRoleInTeam, AdminCtx, Ctx
<1> DEFINE q == req[h]
<1>2. /\ q.user \in Users /\ q.team \in Teams /\ q.role \in Roles
      /\ q.team \notin staffed => HasOtherAdmin(q.team, q.user)
  BY Zenon DEF UpdateUserRoleInTeam, At, AdminCtx, Ctx, TypeInv, ReqOK, WellFormed, Request,
    Administered, AdminPending
<1>3. ASSUME UNCHANGED role PROVE RoleInv'
  BY Zenon, <1>3, SameRoles DEF UpdateUserRoleInTeam, AdminCtx, Administered
<1>4. ASSUME q.user \in Rows(q.team), SetRole(q.team, q.user, q.role) PROVE RoleInv'
  <2>1. /\ role'[q.team][q.user] = q.role
        /\ \A s \in Teams, v \in Users :
             s # q.team \/ v # q.user => role'[s][v] = role[s][v]
    BY ZenonT(60), <1>2, <1>4, SetRoleFact DEF AdminCtx, Ctx, TypeInv
  <2>2. \A s \in Teams : HasRow(s)' => HasRow(s)
    BY Zenon, <1>4, <2>1 DEF HasRow, Rows
  <2>3. \A s \in Teams : s \notin staffed /\ HasRow(s)' => HasAdmin(s)'
    BY <1>2, <2>1, <2>2 DEF HasAdmin, HasRow, HasOtherAdmin, AdminCtx, Administered, RoleInv,
      RowsHaveAdmin
  <2>q. QED  BY Zenon, <2>2, <2>3 DEF UpdateUserRoleInTeam, AdminCtx, Administered, RoleInv,
               AbsentIsEmpty, RowsHaveAdmin
<1>9. RoleInv'
  BY Zenon, <1>3, <1>4 DEF UpdateUserRoleInTeam
<1>q. QED  BY Zenon, <1>1, <1>9 DEF Administered

\* The checks before a member is removed keep an admin in every team with
\* members.
LEMMA Admin_removeUserFromTeam ==
  ASSUME AdminCtx, NEW h \in Handlers, removeUserFromTeam(h)
  PROVE  Administered'
<1>1. PICK u \in Users, t \in Teams :
        /\ req' = [req EXCEPT ![h] = [Idle EXCEPT !.pc = "remove", !.user = u, !.team = t]]
        /\ account[u] = "live" /\ u \in Rows(t)
        /\ role[t][u] = "admin" => ~ Exactly1(Admins(t))
  BY Zenon DEF removeUserFromTeam, Start
<1>2. t \notin staffed => \E a \in Users : a # u /\ role[t][a] = "admin"
  <2>1. CASE role[t][u] = "admin"
    BY Zenon, <1>1, <2>1 DEF Exactly1, Admins, Members, Rows
  <2>2. CASE role[t][u] # "admin"
    <3>1. HasRow(t)
      BY Zenon, <1>1 DEF Rows, HasRow
    <3>2. t \notin staffed => HasAdmin(t)
      BY Zenon, <3>1 DEF AdminCtx, Administered, RoleInv, RowsHaveAdmin
    <3>q. QED  BY Zenon, <2>2, <3>2 DEF HasAdmin
  <2>q. QED  BY Zenon, <2>1, <2>2
<1>3. t \notin staffed' => HasOtherAdmin(t, u)'
  BY Zenon, <1>2 DEF HasOtherAdmin, removeUserFromTeam
<1>4. RoleInv'
  BY Zenon, SameRoles DEF removeUserFromTeam, AdminCtx, Administered
<1>5. \A g \in Handlers : req'[g] = [Idle EXCEPT !.pc = "remove", !.user = u, !.team = t]
  BY Zenon, <1>1, OnlyRequest DEF AdminCtx, Ctx
<1>6. \A g \in Handlers : req'[g].pc = "remove" /\ req'[g].user = u /\ req'[g].team = t
  BY ZenonT(60), <1>5 DEF Idle
<1>7. \A g \in Handlers : AdminPending(req[g])'
  BY Zenon, <1>3, <1>6 DEF AdminPending
<1>q. QED  BY Zenon, <1>4, <1>7 DEF Administered

\* Deleting the membership keeps an admin in every team with members.
LEMMA Admin_RemoveUserFromTeam ==
  ASSUME AdminCtx, NEW h \in Handlers, RemoveUserFromTeam(h)
  PROVE  Administered'
<1>1. \A g \in Handlers : AdminPending(req[g])'
  BY Zenon, DoneAdmin DEF RemoveUserFromTeam, AdminCtx, Ctx
<1> DEFINE q == req[h]
<1>2. /\ q.user \in Users /\ q.team \in Teams
      /\ q.team \notin staffed => HasOtherAdmin(q.team, q.user)
  BY Zenon DEF RemoveUserFromTeam, At, AdminCtx, Ctx, TypeInv, ReqOK, WellFormed,
    Administered, AdminPending
<1>3. /\ role'[q.team][q.user] = NoRole
      /\ \A s \in Teams, v \in Users :
           s # q.team \/ v # q.user => role'[s][v] = role[s][v]
  BY ZenonT(60), <1>2, SetRoleFact DEF RemoveUserFromTeam, AdminCtx, Ctx, TypeInv
<1>4. \A s \in Teams : HasRow(s)' => HasRow(s)
  BY Zenon, <1>3 DEF HasRow
<1>5. \A s \in Teams : s \notin staffed /\ HasRow(s)' => HasAdmin(s)'
  BY <1>2, <1>3, <1>4 DEF HasAdmin, HasRow, HasOtherAdmin, AdminCtx, Administered, RoleInv,
    RowsHaveAdmin
<1>9. RoleInv'
  BY Zenon, <1>4, <1>5 DEF RemoveUserFromTeam, AdminCtx, Administered, RoleInv,
    AbsentIsEmpty, RowsHaveAdmin
<1>q. QED  BY Zenon, <1>1, <1>9 DEF Administered

\* The checks of an invitation keep an admin in every team with members.
LEMMA Admin_inviteUserToTeam ==
  ASSUME AdminCtx, NEW h \in Handlers, inviteUserToTeam(h)
  PROVE  Administered'
<1>1. PICK a \in Users, t \in Teams, r \in Roles :
        /\ req' = [req EXCEPT ![h] = [Idle EXCEPT !.pc = "invite", !.team = t, !.role = r]]
        /\ role[t][a] = "admin"
  BY Zenon DEF inviteUserToTeam, Start, RequireTeamMemberPermissionTo, requirePermission
<1>2. RoleInv'
  BY Zenon, SameRoles DEF inviteUserToTeam, AdminCtx, Administered
<1>3. \A g \in Handlers : req'[g] = [Idle EXCEPT !.pc = "invite", !.team = t, !.role = r]
  BY Zenon, <1>1, OnlyRequest DEF AdminCtx, Ctx
<1>4. \A g \in Handlers : req'[g].pc = "invite" /\ req'[g].team = t
  BY Zenon, <1>3 DEF Idle
<1>5. \E a2 \in Users : role'[t][a2] = "admin"
  BY Zenon, <1>1 DEF inviteUserToTeam
<1>6. \A g \in Handlers : AdminPending(req[g])'
  BY Zenon, <1>4, <1>5 DEF AdminPending
<1>q. QED  BY Zenon, <1>2, <1>6 DEF Administered

\* The transaction that creates the invited user and the membership keeps an
\* admin in every team with members.
LEMMA Admin_InviteUserToTeam ==
  ASSUME AdminCtx, NEW h \in Handlers, InviteUserToTeam(h)
  PROVE  Administered'
<1>1. \A g \in Handlers : AdminPending(req[g])'
  BY Zenon, DoneAdmin DEF InviteUserToTeam, AdminCtx, Ctx
<1> DEFINE t == req[h].team
<1>2. t \in Teams /\ req[h].role \in Roles /\ HasAdmin(t)
  BY Zenon DEF InviteUserToTeam, At, AdminCtx, Ctx, TypeInv, ReqOK, WellFormed, Request,
    Administered, AdminPending, HasAdmin
<1>3. ASSUME UNCHANGED role PROVE RoleInv'
  BY Zenon, <1>3, SameRoles DEF InviteUserToTeam, AdminCtx, Administered
<1>4. ASSUME NEW u \in Users, u \notin Rows(t), team[t] = "live", SetRole(t, u, req[h].role)
      PROVE  RoleInv'
  <2>1. \A s \in Teams, v \in Users : s # t \/ v # u => role'[s][v] = role[s][v]
    BY ZenonT(120), <1>2, <1>4, SetRoleFact DEF AdminCtx, Ctx, TypeInv
  <2>2. role[t][u] = NoRole
    BY Zenon, <1>4 DEF Rows
  <2>3. \A s \in Teams : HasAdmin(s) => HasAdmin(s)'
    BY Zenon, <2>1, <2>2 DEF HasAdmin
  <2>4. \A s \in Teams : s # t => (HasRow(s)' => HasRow(s))
    BY Zenon, <2>1 DEF HasRow
  <2>q. QED  BY Zenon, <1>2, <1>4, <2>3, <2>4 DEF InviteUserToTeam, AdminCtx, Administered, RoleInv,
               AbsentIsEmpty, RowsHaveAdmin
<1>9. RoleInv'
  BY Zenon, <1>3, <1>4 DEF InviteUserToTeam
<1>q. QED  BY Zenon, <1>1, <1>9 DEF Administered

\* The check before a team is deleted keeps an admin in every team with
\* members.
LEMMA Admin_deleteTeam ==
  ASSUME AdminCtx, NEW h \in Handlers, deleteTeam(h)
  PROVE  Administered'
<1>1. PICK t \in Teams :
        /\ req' = [req EXCEPT ![h] = [Idle EXCEPT !.pc = "hasOrgs", !.team = t]]
        /\ t \in Teams
  BY Zenon DEF deleteTeam, Start
<1>2. RoleInv'
  BY Zenon, SameRoles DEF deleteTeam, AdminCtx, Administered
<1>3. \A g \in Handlers : req'[g] = [Idle EXCEPT !.pc = "hasOrgs", !.team = t]
  BY Zenon, <1>1, OnlyRequest DEF AdminCtx, Ctx
<1>4. \A g \in Handlers : req'[g].pc = "hasOrgs" /\ req'[g].user = None
  BY Zenon, <1>3 DEF Idle
<1>6. \A g \in Handlers : AdminPending(req[g])'
  BY Zenon, <1>4 DEF AdminPending
<1>q. QED  BY Zenon, <1>2, <1>6 DEF Administered

\* Counting the orgs of the team to delete keeps an admin in every team with
\* members.
LEMMA Admin_teamHasOrganizations ==
  ASSUME AdminCtx, NEW h \in Handlers, teamHasOrganizations(h)
  PROVE  Administered'
<1>8. RoleInv'
  BY Zenon, SameRoles DEF teamHasOrganizations, AdminCtx, Administered
<1>3. ASSUME Done(h) PROVE \A g \in Handlers : AdminPending(req[g])'
  BY Zenon, <1>3, DoneAdmin DEF AdminCtx, Ctx
<1>4. ASSUME Goto(h, "dropMembers") PROVE \A g \in Handlers : AdminPending(req[g])'
  BY Zenon, <1>4, GotoAdmin
<1>9. \A g \in Handlers : AdminPending(req[g])'
  BY Zenon, <1>3, <1>4 DEF teamHasOrganizations
<1>q. QED  BY Zenon, <1>8, <1>9 DEF Administered

\* Deleting the memberships of a team keeps an admin in every team with
\* members.
LEMMA Admin_DeleteTeamMembers ==
  ASSUME AdminCtx, NEW h \in Handlers, DeleteTeamMembers(h)
  PROVE  Administered'
<1>2. req[h].team \in Teams
  BY Zenon DEF DeleteTeamMembers, At, AdminCtx, Ctx, TypeInv, ReqOK, WellFormed
<1>3. /\ \A u \in Users : role'[req[h].team][u] = NoRole
      /\ \A t \in Teams : t # req[h].team => role'[t] = role[t]
  BY Zenon, <1>2 DEF DeleteTeamMembers, AdminCtx, Ctx, TypeInv, DbOK
<1>4. \A t \in Teams : HasRow(t)' => HasRow(t) /\ role'[t] = role[t]
  BY Zenon, <1>3 DEF HasRow
<1>8. RoleInv'
  BY Zenon, <1>4 DEF DeleteTeamMembers, AdminCtx, Administered, RoleInv, AbsentIsEmpty,
    RowsHaveAdmin, HasAdmin
<1>9. \A g \in Handlers : AdminPending(req[g])'
  BY Zenon, GotoAdmin DEF DeleteTeamMembers
<1>q. QED  BY Zenon, <1>8, <1>9 DEF Administered

\* Marking the team deleted keeps an admin in every team with members.
LEMMA Admin_DeleteTeam ==
  ASSUME AdminCtx, NEW h \in Handlers, DeleteTeam(h)
  PROVE  Administered'
<1>1. \A g \in Handlers : AdminPending(req[g])'
  <2>1. ASSUME Goto(h, "sole") PROVE \A g \in Handlers : AdminPending(req[g])'
    BY Zenon, <2>1, GotoAdmin
  <2>q. QED  BY Zenon, <2>1, DoneAdmin DEF DeleteTeam, AdminCtx, Ctx
<1>9. RoleInv'
  BY Zenon DEF DeleteTeam, AdminCtx, Ctx, TypeInv, DbOK, Administered, RoleInv, AbsentIsEmpty,
    RowsHaveAdmin, HasRow, HasAdmin
<1>q. QED  BY Zenon, <1>1, <1>9 DEF Administered

\* The check before an org is deleted keeps an admin in every team with
\* members.
LEMMA Admin_deleteOrg ==
  ASSUME AdminCtx, NEW h \in Handlers, deleteOrg(h)
  PROVE  Administered'
<1>1. PICK o \in orgLive :
        /\ req' = [req EXCEPT ![h] = [Idle EXCEPT !.pc = "dropOrg", !.org = o]]
        /\ o \in orgLive
  BY Zenon DEF deleteOrg, Start
<1>2. RoleInv'
  BY Zenon, SameRoles DEF deleteOrg, AdminCtx, Administered
<1>3. \A g \in Handlers : req'[g] = [Idle EXCEPT !.pc = "dropOrg", !.org = o]
  BY Zenon, <1>1, OnlyRequest DEF AdminCtx, Ctx
<1>4. \A g \in Handlers : req'[g].pc = "dropOrg"
  BY Zenon, <1>3 DEF Idle
<1>6. \A g \in Handlers : AdminPending(req[g])'
  BY Zenon, <1>4 DEF AdminPending
<1>q. QED  BY Zenon, <1>2, <1>6 DEF Administered

\* Marking the org deleted keeps an admin in every team with members.
LEMMA Admin_DeleteOrganization ==
  ASSUME AdminCtx, NEW h \in Handlers, DeleteOrganization(h)
  PROVE  Administered'
<1>1. \A g \in Handlers : AdminPending(req[g])'
  BY Zenon, DoneAdmin DEF DeleteOrganization, AdminCtx, Ctx
<1>9. RoleInv'
  BY Zenon, SameRoles DEF DeleteOrganization, AdminCtx, Administered
<1>q. QED  BY Zenon, <1>1, <1>9 DEF Administered

\* The checks before an org is moved keep an admin in every team with
\* members.
LEMMA Admin_updateOrg ==
  ASSUME AdminCtx, NEW h \in Handlers, updateOrg(h)
  PROVE  Administered'
<1>1. PICK a \in Users, o \in orgLive, t \in Teams \union {None} :
        req' = [req EXCEPT ![h] = [Idle EXCEPT
                  !.pc = IF t = None THEN "createTeam" ELSE "findTeam",
                  !.actor = a, !.org = o, !.team = t, !.prev = orgTeam[o]]]
  BY ZenonT(60) DEF updateOrg, Start
<1> DEFINE p == IF t = None THEN "createTeam" ELSE "findTeam"
<1>2. RoleInv'
  BY Zenon, SameRoles DEF updateOrg, AdminCtx, Administered
<1>3. \A g \in Handlers : req'[g] = [Idle EXCEPT !.pc = p,
                  !.actor = a, !.org = o, !.team = t, !.prev = orgTeam[o]]
  BY Zenon, <1>1, OnlyRequest DEF AdminCtx, Ctx
<1> HIDE DEF p
<1>4. \A g \in Handlers : req'[g].pc = p
  <2>1. TAKE g \in Handlers
  <2>2. req'[g] = [Idle EXCEPT !.pc = p, !.actor = a, !.org = o, !.team = t, !.prev = orgTeam[o]]
    BY Zenon, <1>3
  <2>q. QED  BY Zenon, <2>2 DEF Idle
<1>5. \A g \in Handlers : AdminPending(req[g])'
  BY Zenon, <1>4 DEF AdminPending, p
<1>q. QED  BY Zenon, <1>2, <1>5 DEF Administered

\* Inserting a new team keeps an admin in every team with members.
LEMMA Admin_CreateTeam ==
  ASSUME AdminCtx, NEW h \in Handlers, CreateTeam(h)
  PROVE  Administered'
<1>1. PICK t \in Teams :
        /\ team' = [team EXCEPT ![t] = "live"]
        /\ req' = [req EXCEPT ![h] = [req[h] EXCEPT !.pc = "joinTeam", !.team = t]]
  BY Zenon DEF CreateTeam
<1>2. \A g \in Handlers : req'[g] = [req[h] EXCEPT !.pc = "joinTeam", !.team = t]
  BY Zenon, <1>1, OnlyRequest DEF AdminCtx, Ctx
<1>3. \A g \in Handlers : req'[g].pc = "joinTeam"
  BY Zenon, <1>2 DEF AdminCtx, Ctx, TypeInv, ReqOK, Request
<1>4. \A g \in Handlers : AdminPending(req[g])'
  BY Zenon, <1>3 DEF AdminPending
<1>5. RoleInv'
  <2>1. \A s \in Teams : team'[s] = "absent" => team[s] = "absent"
    BY Zenon, <1>1 DEF AdminCtx, Ctx, TypeInv, DbOK
  <2>2. UNCHANGED <<role, staffed>>
    BY Zenon DEF CreateTeam
  <2>3. AbsentIsEmpty'
    BY Zenon, <2>1, <2>2 DEF AdminCtx, Administered, RoleInv, AbsentIsEmpty, HasRow
  <2>4. RowsHaveAdmin'
    BY Zenon, <2>2 DEF AdminCtx, Administered, RoleInv, RowsHaveAdmin, HasRow, HasAdmin
  <2>q. QED  BY Zenon, <2>3, <2>4 DEF RoleInv
<1>q. QED  BY Zenon, <1>4, <1>5 DEF Administered

\* Making its creator its admin keeps an admin in every team with members.
LEMMA Admin_CreateTeamAsUser ==
  ASSUME AdminCtx, NEW h \in Handlers, CreateTeamAsUser(h)
  PROVE  Administered'
<1> DEFINE q == req[h]
<1>2. q.team \in Teams /\ q.actor \in Users /\ team[q.team] = "live"
  BY Zenon DEF CreateTeamAsUser, At, AdminCtx, Ctx, TypeInv, ReqOK, WellFormed, Owned, Pending, MovePending
<1>3. /\ role'[q.team][q.actor] = "admin"
      /\ \A s \in Teams, v \in Users :
           s # q.team \/ v # q.actor => role'[s][v] = role[s][v]
  BY ZenonT(60), <1>2, SetRoleFact DEF CreateTeamAsUser, AdminCtx, Ctx, TypeInv
<1>4. \A s \in Teams : s # q.team => (HasRow(s)' <=> HasRow(s)) /\ (HasAdmin(s)' <=> HasAdmin(s))
  BY Zenon, <1>3 DEF HasRow, HasAdmin
<1>5. \E a \in Users : role'[q.team][a] = "admin"
  BY Zenon, <1>2, <1>3
<1>6. AbsentIsEmpty'
  BY Zenon, <1>2, <1>4 DEF CreateTeamAsUser, AdminCtx, Administered, RoleInv, AbsentIsEmpty
<1>7. RowsHaveAdmin'
  <2>1. \A s \in Teams : s = q.team => HasAdmin(s)'
    BY Zenon, <1>5 DEF HasAdmin
  <2>q. QED  BY Zenon, <1>4, <2>1 DEF CreateTeamAsUser, AdminCtx, Administered, RoleInv, RowsHaveAdmin
<1>8. RoleInv'
  BY Zenon, <1>6, <1>7 DEF RoleInv
<1>9. \A g \in Handlers : AdminPending(req[g])'
  BY Zenon, GotoAdmin DEF CreateTeamAsUser
<1>q. QED  BY Zenon, <1>8, <1>9 DEF Administered

\* Looking up the team to move to keeps an admin in every team with members.
LEMMA Admin_FindTeamByExternalID ==
  ASSUME AdminCtx, NEW h \in Handlers, FindTeamByExternalID(h)
  PROVE  Administered'
<1>8. RoleInv'
  BY Zenon, SameRoles DEF FindTeamByExternalID, AdminCtx, Administered
<1>3. ASSUME Done(h) PROVE \A g \in Handlers : AdminPending(req[g])'
  BY Zenon, <1>3, DoneAdmin DEF AdminCtx, Ctx
<1>4. ASSUME Goto(h, "moveOrg") PROVE \A g \in Handlers : AdminPending(req[g])'
  BY Zenon, <1>4, GotoAdmin
<1>9. \A g \in Handlers : AdminPending(req[g])'
  BY Zenon, <1>3, <1>4 DEF FindTeamByExternalID
<1>q. QED  BY Zenon, <1>8, <1>9 DEF Administered

\* Writing the org's team keeps an admin in every team with members.
LEMMA Admin_MoveOrganizationToTeam ==
  ASSUME AdminCtx, NEW h \in Handlers, MoveOrganizationToTeam(h)
  PROVE  Administered'
<1>8. RoleInv'
  BY Zenon, SameRoles DEF MoveOrganizationToTeam, AdminCtx, Administered
<1>9. \A g \in Handlers : AdminPending(req[g])'
  BY Zenon, GotoAdmin DEF MoveOrganizationToTeam
<1>q. QED  BY Zenon, <1>8, <1>9 DEF Administered

\* Comparing the billing providers after a move keeps an admin in every team
\* with members.
LEMMA Admin_MoveOrg ==
  ASSUME AdminCtx, NEW h \in Handlers, MoveOrg(h)
  PROVE  Administered'
<1>8. RoleInv'
  BY Zenon, SameRoles DEF MoveOrg, AdminCtx, Administered
<1>2. ASSUME Done(h) PROVE \A g \in Handlers : AdminPending(req[g])'
  BY Zenon, <1>2, DoneAdmin DEF AdminCtx, Ctx
<1>3. ASSUME NEW t, NEW ff,
             req' = [req EXCEPT ![h] = [req[h] EXCEPT !.pc = "setFlags", !.team = t, !.ff = ff]]
      PROVE  \A g \in Handlers : AdminPending(req[g])'
  <2>1. \A g \in Handlers : req'[g] = [req[h] EXCEPT !.pc = "setFlags", !.team = t, !.ff = ff]
    BY Zenon, <1>3, OnlyRequest DEF AdminCtx, Ctx
  <2>2. \A g \in Handlers : req'[g].pc = "setFlags"
    BY Zenon, <2>1 DEF AdminCtx, Ctx, TypeInv, ReqOK, Request
  <2>q. QED  BY Zenon, <2>2 DEF AdminPending
<1>9. \A g \in Handlers : AdminPending(req[g])'
  BY Zenon, <1>2, <1>3 DEF MoveOrg
<1>q. QED  BY Zenon, <1>8, <1>9 DEF Administered

\* Writing the billing flags after a move keeps an admin in every team with
\* members.
LEMMA Admin_refreshOrganizationRestrictions ==
  ASSUME AdminCtx, NEW h \in Handlers, refreshOrganizationRestrictions(h)
  PROVE  Administered'
<1>1. \A g \in Handlers : req'[g].pc = "refuse"
  <2>1. PICK ff : req' = [req EXCEPT ![h] = [req[h] EXCEPT !.pc = "refuse", !.ff = ff]]
    BY Zenon DEF refreshOrganizationRestrictions
  <2>2. \A g \in Handlers : req'[g] = [req[h] EXCEPT !.pc = "refuse", !.ff = ff]
    BY Zenon, <2>1, OnlyRequest DEF AdminCtx, Ctx
  <2>q. QED  BY Zenon, <2>2 DEF AdminCtx, Ctx, TypeInv, ReqOK, Request
<1>8. RoleInv'
  BY Zenon, SameRoles DEF refreshOrganizationRestrictions, AdminCtx, Administered
<1>9. \A g \in Handlers : AdminPending(req[g])'
  BY Zenon, <1>1 DEF refreshOrganizationRestrictions, AdminPending
<1>q. QED  BY Zenon, <1>8, <1>9 DEF Administered

\* Refusing data after a move keeps an admin in every team with members.
LEMMA Admin_RefuseData ==
  ASSUME AdminCtx, NEW h \in Handlers, RefuseData(h)
  PROVE  Administered'
<1>1. \A g \in Handlers : AdminPending(req[g])'
  BY Zenon, DoneAdmin DEF RefuseData, AdminCtx, Ctx
<1>9. RoleInv'
  BY Zenon, SameRoles DEF RefuseData, AdminCtx, Administered
<1>q. QED  BY Zenon, <1>1, <1>9 DEF Administered

\* A statement that fails keeps an admin in every team with members.
LEMMA Admin_Fail ==
  ASSUME AdminCtx, NEW h \in Handlers, Fail(h)
  PROVE  Administered'
<1>1. \A g \in Handlers : AdminPending(req[g])'
  BY Zenon, DoneAdmin DEF Fail, AdminCtx, Ctx
<1>9. RoleInv'
  BY Zenon, SameRoles DEF Fail, AdminCtx, Administered
<1>q. QED  BY Zenon, <1>1, <1>9 DEF Administered

\* The checks before staff remove a member keep an admin in every team with
\* members.
LEMMA Admin_adminRemoveUserFromOrganization ==
  ASSUME AdminCtx, NEW h \in Handlers, adminRemoveUserFromOrganization(h)
  PROVE  Administered'
<1>1. PICK u \in Users, o \in orgLive :
        req' = [req EXCEPT ![h] = [Idle EXCEPT !.pc = "removeFromOrg", !.user = u, !.org = o]]
  BY Zenon DEF adminRemoveUserFromOrganization, Start
<1>2. RoleInv'
  BY Zenon, SameRoles DEF adminRemoveUserFromOrganization, AdminCtx, Administered
<1>3. \A g \in Handlers : req'[g] = [Idle EXCEPT !.pc = "removeFromOrg", !.user = u, !.org = o]
  BY Zenon, <1>1, OnlyRequest DEF AdminCtx, Ctx
<1>4. \A g \in Handlers : req'[g].pc = "removeFromOrg"
  BY Zenon, <1>3 DEF Idle
<1>5. \A g \in Handlers : AdminPending(req[g])'
  BY Zenon, <1>4 DEF AdminPending
<1>q. QED  BY Zenon, <1>2, <1>5 DEF Administered

\* When staff remove a member, only the team of that org may lose its admin.
LEMMA Admin_RemoveUserFromOrganization ==
  ASSUME AdminCtx, NEW h \in Handlers, RemoveUserFromOrganization(h)
  PROVE  Administered'
<1>1. \A g \in Handlers : AdminPending(req[g])'
  BY Zenon, DoneAdmin DEF RemoveUserFromOrganization, AdminCtx, Ctx
<1> DEFINE q == req[h]
           t == orgTeam[q.org]
<1>2. q.user \in Users /\ t \in Teams
  BY DEF RemoveUserFromOrganization, At, AdminCtx, Ctx, TypeInv, DbOK, ReqOK, WellFormed
<1>3. ASSUME UNCHANGED <<role, staffed>> PROVE RoleInv'
  BY Zenon, <1>3, SameRoles DEF RemoveUserFromOrganization, AdminCtx, Administered
<1>4. ASSUME SetRole(t, q.user, NoRole), staffed' = staffed \union {t} PROVE RoleInv'
  <2>1. /\ role'[t][q.user] = NoRole
        /\ \A s \in Teams, v \in Users : s # t \/ v # q.user => role'[s][v] = role[s][v]
    BY ZenonT(60), <1>2, <1>4, SetRoleFact DEF AdminCtx, Ctx, TypeInv
  <2>2. \A s \in Teams : HasRow(s)' => HasRow(s)
    BY Zenon, <2>1 DEF HasRow
  <2>3. \A s \in Teams : s # t => (HasAdmin(s) => HasAdmin(s)')
    BY Zenon, <2>1 DEF HasAdmin
  <2>4. \A s \in Teams : s \notin staffed' => s # t /\ s \notin staffed
    BY Zenon, <1>4
  <2>q. QED  BY Zenon, <2>2, <2>3, <2>4 DEF RemoveUserFromOrganization, AdminCtx, Administered,
               RoleInv, AbsentIsEmpty, RowsHaveAdmin
<1>9. RoleInv'
  BY Zenon, <1>3, <1>4 DEF RemoveUserFromOrganization
<1>q. QED  BY Zenon, <1>1, <1>9 DEF Administered

\* Listing the teams a user is alone in keeps an admin in every team with
\* members.
LEMMA Admin_adminDeleteUser ==
  ASSUME AdminCtx, NEW h \in Handlers, adminDeleteUser(h)
  PROVE  Administered'
<1>1. PICK u \in Users, ts \in SUBSET Teams :
        req' = [req EXCEPT ![h] = [Idle EXCEPT !.pc = "sole", !.user = u, !.teams = ts]]
  BY Zenon DEF adminDeleteUser, Start
<1>2. RoleInv'
  BY Zenon, SameRoles DEF adminDeleteUser, AdminCtx, Administered
<1>3. \A g \in Handlers : req'[g] = [Idle EXCEPT !.pc = "sole", !.user = u, !.teams = ts]
  BY Zenon, <1>1, OnlyRequest DEF AdminCtx, Ctx
<1>4. \A g \in Handlers : req'[g].pc = "sole"
  BY Zenon, <1>3 DEF Idle
<1>5. \A g \in Handlers : AdminPending(req[g])'
  BY Zenon, <1>4 DEF AdminPending
<1>q. QED  BY Zenon, <1>2, <1>5 DEF Administered

\* Taking up the next of those teams keeps an admin in every team with
\* members.
LEMMA Admin_DeleteUserNextTeam ==
  ASSUME AdminCtx, NEW h \in Handlers, DeleteUserNextTeam(h)
  PROVE  Administered'
<1>1. RoleInv'
  BY Zenon, SameRoles DEF DeleteUserNextTeam, AdminCtx, Administered
<1>2. ASSUME NEW t, NEW ts, NEW os,
             req' = [req EXCEPT ![h] = [req[h] EXCEPT !.pc = "soleOrgs", !.team = t,
                                          !.teams = ts, !.orgs = os]]
      PROVE  \A g \in Handlers : AdminPending(req[g])'
  <2>1. \A g \in Handlers : req'[g] = [req[h] EXCEPT !.pc = "soleOrgs", !.team = t,
                                          !.teams = ts, !.orgs = os]
    BY Zenon, <1>2, OnlyRequest DEF AdminCtx, Ctx
  <2>2. \A g \in Handlers : req'[g].pc = "soleOrgs"
    BY Zenon, <2>1 DEF AdminCtx, Ctx, TypeInv, ReqOK, Request
  <2>q. QED  BY Zenon, <2>2 DEF AdminPending
<1>3. ASSUME Goto(h, "dropMemberships") PROVE \A g \in Handlers : AdminPending(req[g])'
  BY Zenon, <1>3, GotoAdmin
<1>4. \A g \in Handlers : AdminPending(req[g])'
  BY Zenon, <1>2, <1>3 DEF DeleteUserNextTeam
<1>q. QED  BY Zenon, <1>1, <1>4 DEF Administered

\* Deleting the orgs of such a team keeps an admin in every team with members.
LEMMA Admin_DeleteUserOrgs ==
  ASSUME AdminCtx, NEW h \in Handlers, DeleteUserOrgs(h)
  PROVE  Administered'
<1>1. RoleInv'
  BY Zenon, SameRoles DEF DeleteUserOrgs, AdminCtx, Administered
<1>2. ASSUME NEW os, req' = [req EXCEPT ![h] = [req[h] EXCEPT !.orgs = os]], At(h, "soleOrgs")
      PROVE  \A g \in Handlers : AdminPending(req[g])'
  <2>1. \A g \in Handlers : req'[g] = [req[h] EXCEPT !.orgs = os]
    BY Zenon, <1>2, OnlyRequest DEF AdminCtx, Ctx
  <2>2. \A g \in Handlers : req'[g].pc = "soleOrgs"
    BY ZenonT(60), <1>2, <2>1 DEF At, AdminCtx, Ctx, TypeInv, ReqOK, Request
  <2>q. QED  BY Zenon, <2>2 DEF AdminPending
<1>3. ASSUME Goto(h, "hasOrgs") PROVE \A g \in Handlers : AdminPending(req[g])'
  BY Zenon, <1>3, GotoAdmin
<1>4. \A g \in Handlers : AdminPending(req[g])'
  BY Zenon, <1>2, <1>3 DEF DeleteUserOrgs
<1>q. QED  BY Zenon, <1>1, <1>4 DEF Administered

\* Dropping the other memberships of a deleted user, only the teams they were
\* in may lose their admin.
LEMMA Admin_DeleteUserMemberships ==
  ASSUME AdminCtx, NEW h \in Handlers, DeleteUserMemberships(h)
  PROVE  Administered'
<1>1. \A g \in Handlers : AdminPending(req[g])'
  BY Zenon, GotoAdmin DEF DeleteUserMemberships
<1> DEFINE u == req[h].user
<1>2. u \in Users
  BY Zenon DEF DeleteUserMemberships, At, AdminCtx, Ctx, TypeInv, ReqOK, WellFormed
<1>3. \A t \in Teams : role'[t] = [role[t] EXCEPT ![u] = NoRole]
  BY Zenon DEF DeleteUserMemberships
<1>4. \A t \in Teams, v \in Users : role'[t][v] = IF v = u THEN NoRole ELSE role[t][v]
  <2>1. TAKE t \in Teams, v \in Users
  <2>2. role[t] \in [Users -> Roles \union {NoRole}]
    BY Zenon DEF AdminCtx, Ctx, TypeInv, DbOK
  <2>3. role'[t] = [role[t] EXCEPT ![u] = NoRole]
    BY Zenon, <1>3
  <2>q. QED  BY Zenon, <2>2, <2>3
<1>5. \A t \in Teams : HasRow(t)' => HasRow(t)
  BY Zenon, <1>4 DEF HasRow
<1>6. \A t \in Teams : t \notin staffed' => t \notin staffed /\ role[t][u] = NoRole
  BY Zenon, <1>2 DEF DeleteUserMemberships, Rows
<1>7. \A t \in Teams : t \notin staffed' => (HasAdmin(t) => HasAdmin(t)')
  BY Zenon, <1>4, <1>6 DEF HasAdmin
<1>8. RoleInv'
  BY Zenon, <1>5, <1>6, <1>7 DEF DeleteUserMemberships, AdminCtx, Administered, RoleInv,
    AbsentIsEmpty, RowsHaveAdmin
<1>q. QED  BY Zenon, <1>1, <1>8 DEF Administered

\* Deleting the account keeps an admin in every team with members.
LEMMA Admin_DeleteUser ==
  ASSUME AdminCtx, NEW h \in Handlers, DeleteUser(h)
  PROVE  Administered'
<1>1. \A g \in Handlers : AdminPending(req[g])'
  BY Zenon, DoneAdmin DEF DeleteUser, AdminCtx, Ctx
<1>2. RoleInv'
  BY Zenon, SameRoles DEF DeleteUser, AdminCtx, Administered
<1>q. QED  BY Zenon, <1>1, <1>2 DEF Administered

\* Staff asking for the deletion of an org keeps an admin in every team with
\* members.
LEMMA Admin_adminDeleteOrganization ==
  ASSUME AdminCtx, NEW h \in Handlers, adminDeleteOrganization(h)
  PROVE  Administered'
<1>1. PICK o \in orgLive : req' = [req EXCEPT ![h] = [Idle EXCEPT !.pc = "dropOrg", !.org = o]]
  BY Zenon DEF adminDeleteOrganization, Start
<1>2. RoleInv'
  BY Zenon, SameRoles DEF adminDeleteOrganization, AdminCtx, Administered
<1>3. \A g \in Handlers : req'[g] = [Idle EXCEPT !.pc = "dropOrg", !.org = o]
  BY Zenon, <1>1, OnlyRequest DEF AdminCtx, Ctx
<1>4. \A g \in Handlers : req'[g].pc = "dropOrg"
  BY Zenon, <1>3 DEF Idle
<1>5. \A g \in Handlers : AdminPending(req[g])'
  BY Zenon, <1>4 DEF AdminPending
<1>q. QED  BY Zenon, <1>2, <1>5 DEF Administered

\* Every step keeps an admin in every team with members.
LEMMA AdminNext == AdminCtx /\ [Next]_vars => Administered'
<1> SUFFICES ASSUME AdminCtx, [Next]_vars PROVE Administered'
  BY Zenon
<1>1. CASE UNCHANGED vars
  <2>1. RoleInv'
    BY Zenon, <1>1, SameRoles DEF vars, AdminCtx, Administered
  <2>2. \A h \in Handlers : AdminPending(req[h])'
    BY Zenon, <1>1 DEF vars, AdminCtx, Administered, AdminPending, HasOtherAdmin
  <2>q. QED  BY Zenon, <2>1, <2>2 DEF Administered
<1>2. CASE Next
  BY Zenon, <1>2, Admin_adminRemoveUserFromOrganization, Admin_RemoveUserFromOrganization,
     Admin_adminDeleteUser, Admin_DeleteUserNextTeam, Admin_DeleteUserOrgs,
     Admin_DeleteUserMemberships, Admin_DeleteUser, Admin_adminDeleteOrganization,
     Admin_updateUserRoleInTeam, Admin_UpdateUserRoleInTeam,
     Admin_removeUserFromTeam, Admin_RemoveUserFromTeam, Admin_inviteUserToTeam,
     Admin_InviteUserToTeam, Admin_deleteTeam, Admin_teamHasOrganizations,
     Admin_DeleteTeamMembers, Admin_DeleteTeam, Admin_deleteOrg,
     Admin_DeleteOrganization, Admin_updateOrg, Admin_CreateTeam,
     Admin_CreateTeamAsUser, Admin_FindTeamByExternalID,
     Admin_MoveOrganizationToTeam, Admin_MoveOrg,
     Admin_refreshOrganizationRestrictions, Admin_RefuseData, Admin_Fail
  DEF Next
<1>q. QED  BY Zenon, <1>1, <1>2

\* Sign-up makes whoever created a team its admin.
LEMMA AdminInit == TeamAccessAssumption /\ Init => Administered
<1> SUFFICES ASSUME Init PROVE Administered
  BY Zenon
<1>1. \A h \in Handlers : req[h].pc = "idle"
  BY Zenon, IdleFact DEF Init
<1>2. \A h \in Handlers : AdminPending(req[h])
  BY Zenon, <1>1 DEF AdminPending
<1>3. AbsentIsEmpty
  BY Zenon DEF Init, AbsentIsEmpty, HasRow, Rows
<1>4. RowsHaveAdmin
  BY DEF Init, RowsHaveAdmin, HasRow, HasAdmin
<1>q. QED  BY Zenon, <1>2, <1>3, <1>4 DEF Administered, RoleInv

\* If requests are served one at a time, every team that has members and of
\* which staff have removed nobody has an admin among them, whatever roles are
\* changed, members invited, removed or leave, teams created or deleted.
THEOREM TeamKeepsAnAdmin == OneRequest => (Spec => []AtLeastOneAdmin)
<1> SUFFICES ASSUME OneRequest PROVE Spec => []AtLeastOneAdmin
  BY Zenon
<1> DEFINE I == TypeInv /\ Owned /\ Administered
<1>1. Init => I
  BY Zenon, TypeInit, OwnedInit, AdminInit, TeamAccessAssumption
<1>2. I /\ [Next]_vars => I'
  BY Zenon, TypeNext, OwnedNext, AdminNext, TeamAccessAssumption DEF Ctx, AdminCtx
<1>3. I => AtLeastOneAdmin
  BY ZenonT(60) DEF TypeInv, DbOK, Owned, DbInv, RowsAreLive, Administered, RoleInv, RowsHaveAdmin,
    HasRow, HasAdmin, AtLeastOneAdmin, Admins, Members, Rows
<1>q. QED  BY <1>1, <1>2, <1>3, PTL DEF Spec

=============================================================================
