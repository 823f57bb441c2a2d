--------------------------- MODULE MCRequestPath ---------------------------
(***************************************************************************)
(* Small instances of RequestPath: in each, the kinds of requests that     *)
(* meet in the code run against each other.                                *)
(***************************************************************************)
EXTENDS RequestPath

CONSTANTS p1, p2, o1, o2, ann, bob, eve, newbie, newer, h1, h2, e1, e2, e3, c1, c2, c0


MCProcs == {p1, p2}
MCUsers == {ann, bob, eve, newbie, newer}
MCOrgs == {o1, o2}
MCPlans == {"standard", "enterprise"}
MCHooks == {h1, h2}
MCEndpoints == {e1, e2, e3}
MCLoadFactor == <<2, 1>>
MCReplicas == {0, 1}
MCreplicaHash(e, i) == CASE e = e1 -> <<0, 5>>[i + 1] [] e = e2 -> <<2, 6>>[i + 1]
                         [] e = e3 -> <<4, 1>>[i + 1]
MCkeyHash(o) == IF o = o1 THEN 3 ELSE 7

Ann == [id |-> c1, old |-> None, email |-> "ann"]
Other == [id |-> c2, old |-> c0, email |-> "new"]

Plain == [check |-> "none", needs |-> {}, balanced |-> FALSE]
Access == [org |-> o1, action |-> "access"]
Upload(o) == [token |-> o, action |-> "upload"]
Given == [routes |-> {Plain}, inOrg |-> {Access}, inProbe |-> {Upload(o1)}, changed |-> {o1},
          claims |-> {Ann, Other}, targets |-> {bob, eve}]

Nothing == [org |-> 0, probe |-> 0, hook |-> 0, become |-> 0, user |-> 0, attach |-> 0, logout |-> 0,
            fails |-> 0, aborts |-> 0, updates |-> 0, changes |-> 0, hookDeletes |-> 0,
            accountChanges |-> 0, ticks |-> 0, subscribe |-> 0, customer |-> 0, acks |-> 0]

Org == [live |-> TRUE, refuseAccess |-> FALSE, refuseUpload |-> FALSE, reason |-> FALSE,
        flags |-> {"flag"}, gcp |-> None]

Start ==
    [left |-> Nothing,
     given |-> Given,
     access |-> [role |-> [u \in {ann} |-> [o \in MCOrgs |-> "editor"]],
                 orgs |-> [o \in MCOrgs |-> Org]],
     accounts |-> [live |-> {ann, bob, eve}, admin |-> {ann, bob},
                   email |-> (ann :> "ann" @@ bob :> "bob" @@ eve :> "eve" @@ newbie :> None @@
                             newer :> None),
                   logins |-> (c0 :> None @@ c1 :> ann @@ c2 :> None)],
     hooks |-> (h1 :> [org |-> o1, live |-> TRUE, type |-> "github", key |-> TRUE, seen |-> None] @@
                h2 :> [org |-> o1, live |-> TRUE, type |-> "bitbucket", key |-> FALSE, seen |-> None]),
     jar |-> [session |-> Encode(c1, ann, None, 0), impersonation |-> FALSE],
     people |-> {ann},
     market |-> NoMarket,
     endpoints |-> {e1, e2}]

Caching ==
    {[Start EXCEPT !.left = [Nothing EXCEPT !.org = 3, !.changes = 1, !.ticks = 3]],
     [Start EXCEPT !.left = [Nothing EXCEPT !.probe = 3, !.changes = 1, !.ticks = 2],
                   !.given.inProbe = {Upload(o1), Upload(o2)}]}

Checking ==
    {[Start EXCEPT !.left = [Nothing EXCEPT !.org = 2, !.changes = 1, !.fails = 1],
                   !.given.routes = {[Plain EXCEPT !.check = "control"],
                                     [Plain EXCEPT !.check = "report"],
                                     [Plain EXCEPT !.needs = {"flag"}]},
                   !.given.inOrg = {Access, [Access EXCEPT !.action = "other"]}]}

Balancing ==
    {[Start EXCEPT !.left = [Nothing EXCEPT !.probe = 3, !.updates = 2, !.aborts = 1],
                   !.given.routes = {[Plain EXCEPT !.balanced = TRUE]},
                   !.given.inProbe = {Upload(o1), Upload(o2)}]}

Delivering ==
    {[Start EXCEPT !.left = [Nothing EXCEPT !.hook = 2, !.changes = 1, !.fails = 1,
                                            !.hookDeletes = 1]]}

LoggingIn ==
    {[Start EXCEPT !.left = [Nothing EXCEPT !.attach = 2, !.accountChanges = 1],
                   !.jar = NoJar, !.people = {}],
     [Start EXCEPT !.left = [Nothing EXCEPT !.attach = 1, !.become = 2, !.logout = 1],
                   !.given.claims = {Other}],
     [Start EXCEPT !.left = [Nothing EXCEPT !.become = 2, !.user = 1, !.accountChanges = 1,
                                            !.ticks = 3]]}

\* Somebody who has just bought an entitlement signs up; somebody who has signed up before goes on,
\* after having deleted the organization too.
Bought == [NoEntitlement EXCEPT !.state = "activationRequested", !.plan = "standard"]
Row == [activated |-> TRUE, name |-> 1, plan |-> "standard", status |-> "active"]

Signed == [Start EXCEPT !.access.orgs[o1].gcp = Row,
                        !.market.ents[1] = [Bought EXCEPT !.state = "active"]]

Subscribing ==
    {[Start EXCEPT !.left = [Nothing EXCEPT !.subscribe = 2, !.customer = 1, !.fails = 1],
                   !.access.orgs[o1].live = FALSE,
                   !.market = [ents |-> [NoMarket.ents EXCEPT ![1] = Bought],
                               messages |-> [type : {"creationRequested"}, id : {1}, number : {0}],
                               sent |-> 1]],
     [Signed EXCEPT !.left = [Nothing EXCEPT !.customer = 2, !.fails = 1, !.acks = 1]],
     [Signed EXCEPT !.left = [Nothing EXCEPT !.customer = 3]],
     [Signed EXCEPT !.left = [Nothing EXCEPT !.subscribe = 1, !.customer = 2],
                    !.access.orgs[o1].live = FALSE]}

\* One instance of a service, that goes and comes back while it handles two requests.
Flapping ==
    {[Start EXCEPT !.left = [Nothing EXCEPT !.probe = 2, !.updates = 2],
                   !.given.routes = {[Plain EXCEPT !.balanced = TRUE]},
                   !.endpoints = {e1}]}

MCScenarios == Caching \cup Checking \cup Balancing \cup Delivering \cup LoggingIn \cup Subscribing
=============================================================================
