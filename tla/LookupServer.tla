---------------------------- MODULE LookupServer ----------------------------
(***************************************************************************)
(* The questions the front end asks the users service (users/grpc): may    *)
(* the holder of this cookie, token or webhook secret act on this          *)
(* organization?  An answer is read from the database in one step and is   *)
(* the HTTP status the error becomes (users/render), 200 without one.      *)
(*                                                                         *)
(* d.role[u][o]: role of user u in the team of organization o, or None;    *)
(* d.orgs[o]: the organization; the probe token of o stands as o.          *)
(***************************************************************************)
EXTENDS Sessions

CONSTANT Orgs

\* ListPermissionsForRoleID, for a permission that editors have and viewers do not.
Permitted == {"admin", "editor"}

\* No answer came: the call failed between the two services.
NoAnswer == 0

Refused(code) == [code |-> code, org |-> None, user |-> None, flags |-> {}]

Granted(o, u, flags) == [code |-> 200, org |-> o, user |-> u, flags |-> flags]

\* An organization that was denied for a reason an administrator gave is 403, else 402.
InstanceDenied(org) == IF org.reason THEN 403 ELSE 402

authorizeAction(action, org) ==
    CASE action = "access" /\ org.refuseAccess -> InstanceDenied(org)
      [] action = "upload" /\ org.refuseUpload -> InstanceDenied(org)
      [] OTHER -> 200

Authorized(action, o, u, org) ==
    LET code == authorizeAction(action, org)
    IN  IF code = 200 THEN Granted(o, u, org.flags) ELSE Refused(code)

\* in: [cookie, org, action]
LookupOrg(d, in, now) ==
    IF /\ Decode(in.cookie, now)
       /\ d.orgs[in.org].live
       /\ d.role[in.cookie.user][in.org] # None
    THEN Authorized(in.action, in.org, in.cookie.user, d.orgs[in.org])
    ELSE Refused(401)

\* in: [token, action]
LookupUsingToken(d, in) ==
    IF d.orgs[in.token].live THEN Authorized(in.action, in.token, None, d.orgs[in.token])
    ELSE Refused(401)

LookupAdmin(accounts, cookie, now) ==
    IF /\ Decode(cookie, now)
       /\ cookie.user \in accounts.live
       /\ cookie.user \in accounts.admin
    THEN Granted(None, cookie.user, {}) ELSE Refused(401)

LookupUser(cookie, now) == IF Decode(cookie, now) THEN Granted(None, cookie.user, {}) ELSE Refused(401)

\* The status of the error for an unknown webhook is lost on the way: it arrives as 500.
LookupOrganizationWebhookUsingSecretID(d, hook) ==
    CASE ~hook.live -> Refused(500)
      [] hook.live /\ ~d.orgs[hook.org].live -> Refused(404)
      [] OTHER -> Authorized("upload", hook.org, None, d.orgs[hook.org])

requirePermission(role) == IF role \in Permitted THEN 200 ELSE 403

RequireOrgMemberPermissionTo(d, u, o) ==
    IF d.orgs[o].live THEN requirePermission(d.role[u][o]) ELSE 404
=============================================================================
