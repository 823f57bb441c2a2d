---------------------------- MODULE RequestPath ----------------------------
(***************************************************************************)
(* The path of a request through the front end: the middlewares of         *)
(* users/client ask the users service, over the caching client, whether it *)
(* may pass, and authfe forwards it to a back end, if need be over the     *)
(* load balancer.  With it, the handlers of the users service that give    *)
(* out sessions (login through a provider, becoming a user, and logout),   *)
(* and those through which a customer of Google subscribes and is refused. *)
(*                                                                         *)
(* Requests are processes; a call to the users service or to the database  *)
(* is a step, and everything else may happen in between.                   *)
(***************************************************************************)
EXTENDS CachingClient, Balancer, Subscriptions

CONSTANTS Users,          \* ids of users, those still to be created included
          Hooks,          \* webhooks
          keyHash(_),     \* hash of the affinity key
          Scenarios,      \* initial states, with which requests come and how many of each
          MaxTime,
          MaxLatency      \* a call to the users service is answered within this time

VARIABLES now, past,       \* the clock, and what the database said at each time
          accounts, hooks, \* the database: users and their logins; webhooks
          jar, people,     \* the browser's cookies, and who has logged in there
          orgCache, probeCache,
          balancer, discovery, disturbed,
          given

cacheVars == <<orgCache, probeCache>>
dbVars == <<access, accounts, hooks>>
clockVars == <<now, past, given>>
balanceVars == <<balancer, discovery, disturbed>>
browserVars == <<jar, people>>
marketVars == <<market, fresh>>
vars == <<clockVars, dbVars, browserVars, marketVars, cacheVars, balanceVars, req, left>>

NoRoute == [check |-> "none", needs |-> {}, balanced |-> FALSE]

New(kind, in, route) ==
    [kind |-> kind, in |-> in, route |-> route, at |-> "lookup", out |-> Refused(NoAnswer),
     began |-> now, decided |-> None, code |-> NoAnswer, seen |-> None, hide |-> FALSE,
     endpoint |-> None]

Init ==
    /\ \E s \in Scenarios :
          /\ left = s.left
          /\ given = s.given
          /\ access = s.access
          /\ accounts = s.accounts
          /\ hooks = s.hooks
          /\ market = s.market
          /\ jar = s.jar
          /\ people = s.people
          /\ past = [t \in 0 .. MaxTime |-> IF t = 0 THEN {s.access} ELSE {}]
          /\ discovery = [cache |-> s.endpoints, additions |-> None]
          /\ balancer = AddEndpoints(NewConsistent, s.endpoints)
    /\ now = 0
    /\ fresh = Fresh(TRUE)
    /\ orgCache = <<>> /\ probeCache = <<>>
    /\ disturbed = {}
    /\ req = [p \in Procs |-> Idle]

Done(r, code) == [r EXCEPT !.at = "done", !.code = code]

(***************************************************************************)
(* The middlewares                                                         *)
(***************************************************************************)
\* The status the client gets when the users service refused.
handleError(code) ==
    CASE code \in {401, 402, 403, 404} -> code
      [] code = NoAnswer -> 502
      [] OTHER -> 401

\* What AuthOrgMiddleware and AuthProbeMiddleware do with the answer.
Decided(r, out) ==
    LET d == [r EXCEPT !.out = out, !.decided = now]
    IN  CASE out.code # 200 -> Done(d, handleError(out.code))
          [] out.code = 200 /\ ~(r.route.needs \subseteq out.flags) -> Done(d, 401)
          [] OTHER -> [d EXCEPT !.at = IF r.route.check = "none" THEN "proxy" ELSE "permission"]

\* A request with the cookies of the browser for an organization; the caching client is asked first.
AuthOrg(p) ==
    /\ Free(p) /\ Spend("org")
    /\ \E i \in given.inOrg, route \in given.routes :
          LET in == [cookie |-> jar.session, org |-> i.org, action |-> i.action]
              r == New("org", in, route)
          IN  /\ Becomes(p, CASE jar.session = None -> Done(r, 401)
                              [] Hit(orgCache, in, now) ->
                                    Decided(r, Head(Entries(orgCache, in)).out)
                              [] OTHER -> r)
              /\ orgCache' = IF jar.session = None THEN orgCache ELSE Touched(orgCache, in, now)
    /\ UNCHANGED <<clockVars, dbVars, browserVars, marketVars, balanceVars, probeCache>>

\* A request with a probe token.
AuthProbe(p) ==
    /\ Free(p) /\ Spend("probe")
    /\ \E in \in given.inProbe, route \in given.routes :
          LET r == New("probe", in, [route EXCEPT !.check = "none"])
          IN  /\ Becomes(p, IF Hit(probeCache, in, now)
                            THEN Decided(r, Head(Entries(probeCache, in)).out) ELSE r)
              /\ probeCache' = Touched(probeCache, in, now)
    /\ UNCHANGED <<clockVars, dbVars, browserVars, marketVars, balanceVars, orgCache>>

\* A request of a repository host, whose signature is right or not.
Webhook(p) ==
    /\ Free(p) /\ Spend("hook")
    /\ \E h \in Hooks, signed \in BOOLEAN :
          Becomes(p, New("hook", [hook |-> h, signed |-> signed], NoRoute))
    /\ UNCHANGED <<clockVars, dbVars, browserVars, marketVars, cacheVars, balanceVars>>

\* An administrator asks to become a user; one who is logged in asks for their user id.
AuthCookie(p) ==
    /\ Free(p)
    /\ \/ Spend("become") /\ \E u \in given.targets :
              Becomes(p, New("admin", [cookie |-> jar.session, jar |-> jar, become |-> u], NoRoute))
       \/ Spend("user") /\ Becomes(p, New("user", [cookie |-> jar.session], NoRoute))
    /\ jar.session # None
    /\ UNCHANGED <<clockVars, dbVars, browserVars, marketVars, cacheVars, balanceVars>>

\* The users service answers, from what the database says now.
Lookup(r) ==
    CASE r.kind = "org" -> LookupOrg(access, r.in, now)
      [] r.kind = "probe" -> LookupUsingToken(access, r.in)
      [] r.kind = "hook" -> LookupOrganizationWebhookUsingSecretID(access, hooks[r.in.hook])
      [] r.kind = "admin" -> LookupAdmin(accounts, r.in.cookie, now)
      [] r.kind = "user" -> LookupUser(r.in.cookie, now)

Serve(p) ==
    /\ At(p, "lookup")
    /\ LET r == [req[p] EXCEPT !.at = "answer",
                               !.seen = IF @ = None /\ req[p].kind = "hook"
                                        THEN hooks[req[p].in.hook].seen ELSE @]
       IN  \/ Becomes(p, [r EXCEPT !.out = Lookup(r)]) /\ UNCHANGED left
           \/ Spend("fails") /\ \E code \in {500, NoAnswer} :
                 Becomes(p, [r EXCEPT !.out = Refused(code)])
    /\ UNCHANGED <<clockVars, dbVars, browserVars, marketVars, cacheVars, balanceVars>>

\* WebhooksMiddleware with the answer: the signature, if the kind of host has one, then whether
\* the webhook was seen before.
Verified(r) ==
    LET hook == hooks[r.in.hook]
    IN  CASE r.out.code # 200 -> Done(r, handleError(r.out.code))
          [] r.out.code = 200 /\ hook.type # "bitbucket" /\ ~hook.key -> Done(r, 500)
          [] r.out.code = 200 /\ hook.type # "bitbucket" /\ hook.key /\ ~r.in.signed -> Done(r, 401)
          [] OTHER -> [r EXCEPT !.at = IF r.seen = None THEN "seen" ELSE "proxy"]

\* The answer arrives, is kept in the cache, and the middleware goes on.
Answer(p) ==
    /\ At(p, "answer")
    /\ LET r == req[p]
       IN  /\ Becomes(p, CASE r.kind \in {"org", "probe"} -> Decided(r, r.out)
                           [] r.kind = "hook" -> Verified(r)
                           [] r.kind = "admin" /\ r.out.code = 200 -> [r EXCEPT !.at = "become"]
                           [] r.kind = "user" /\ r.out.code = 200 -> [r EXCEPT !.at = "proxy"]
                           [] OTHER -> Done(r, handleError(r.out.code)))
           /\ orgCache' = IF r.kind = "org" THEN Store(orgCache, r.in, r.out, now) ELSE orgCache
           /\ probeCache' = IF r.kind = "probe" THEN Store(probeCache, r.in, r.out, now)
                            ELSE probeCache
    /\ UNCHANGED <<clockVars, dbVars, browserVars, marketVars, balanceVars, left>>

\* UserPermissionsMiddleware refuses the request, ScopeCensorMiddleware has the back end hide
\* what the user may not see.
Permission(p) ==
    /\ At(p, "permission")
    /\ LET r == req[p]
           Checked(code) ==
               CASE r.route.check = "report" -> [r EXCEPT !.at = "proxy", !.hide = code # 200]
                 [] r.route.check = "control" /\ code = 200 -> [r EXCEPT !.at = "proxy"]
                 [] OTHER -> Done(r, handleError(code))
       IN  \/ /\ Becomes(p, Checked(RequireOrgMemberPermissionTo(access, r.out.user, r.out.org)))
              /\ UNCHANGED left
           \/ Spend("fails") /\ \E code \in {500, NoAnswer} : Becomes(p, Checked(code))
    /\ UNCHANGED <<clockVars, dbVars, browserVars, marketVars, cacheVars, balanceVars>>

\* Mutant: an error of the call is passed over.
SeenAnyway(p) ==
    /\ At(p, "seen")
    /\ \/ /\ hooks' = [hooks EXCEPT ![req[p].in.hook].seen = now]
          /\ UNCHANGED left
       \/ Spend("fails") /\ UNCHANGED hooks
    /\ Becomes(p, [req[p] EXCEPT !.at = "proxy"])
    /\ UNCHANGED <<clockVars, access, accounts, browserVars, marketVars, cacheVars, balanceVars>>

\* SetOrganizationWebhookFirstSeenAt, which does not look whether another request was first.
Seen(p) ==
    /\ At(p, "seen")
    /\ \/ /\ hooks' = [hooks EXCEPT ![req[p].in.hook].seen = now]
          /\ Becomes(p, [req[p] EXCEPT !.at = "proxy"])
          /\ UNCHANGED left
       \/ /\ Spend("fails")
          /\ \E code \in {500, NoAnswer} : Becomes(p, Done(req[p], handleError(code)))
          /\ UNCHANGED hooks
    /\ UNCHANGED <<clockVars, access, accounts, browserVars, marketVars, cacheVars, balanceVars>>

(***************************************************************************)
(* The proxy and the load balancer                                         *)
(***************************************************************************)
\* A service without a balancer answers in this step.
Forward(p) ==
    /\ At(p, "proxy")
    /\ LET r == req[p]
       IN  CASE ~r.route.balanced -> Becomes(p, Done(r, 200)) /\ UNCHANGED balancer
             [] r.route.balanced /\ isEmpty(balancer) ->
                   Becomes(p, Done(r, 500)) /\ UNCHANGED balancer
             [] OTHER ->
                   /\ GetReturns(balancer)
                   /\ LET e == GetEndpoint(balancer, keyHash(r.out.org))
                      IN  /\ balancer' = Taken(balancer, e)
                          /\ Becomes(p, [r EXCEPT !.at = "backend", !.endpoint = e])
    /\ UNCHANGED <<clockVars, dbVars, browserVars, marketVars, cacheVars, discovery, disturbed, left>>

\* Mutant: an endpoint that is still known is not given back.
FinishWithoutPut(p) ==
    /\ At(p, "backend")
    /\ Becomes(p, Done(req[p], 200))
    /\ UNCHANGED <<clockVars, dbVars, browserVars, marketVars, cacheVars, balanceVars, left>>

\* The back end has answered, or could not be reached: the endpoint is given back.
Finish(p) ==
    /\ At(p, "backend")
    /\ balancer' = Put(balancer, req[p].endpoint)
    /\ Becomes(p, Done(req[p], 200))
    /\ UNCHANGED <<clockVars, dbVars, browserVars, marketVars, cacheVars, discovery, disturbed, left>>

\* The answer breaks off: ReverseProxy panics, and the endpoint is not given back.
Abort(p) ==
    /\ At(p, "backend") /\ Spend("aborts")
    /\ Becomes(p, Done(req[p], NoAnswer))
    /\ disturbed' = disturbed \cup {req[p].endpoint}
    /\ UNCHANGED <<clockVars, dbVars, browserVars, marketVars, cacheVars, balancer, discovery>>

InFlight(e) == {p \in Procs : At(p, "backend") /\ req[p].endpoint = e}

\* Service discovery names the instances there are: those that are gone are removed.
Discover ==
    /\ discovery.additions = None /\ Spend("updates")
    /\ \E S \in SUBSET Endpoints :
          LET Gone == discovery.cache \ S
          IN  /\ S # discovery.cache
              /\ balancer' = RemoveEndpoints(balancer, Gone)
              /\ discovery' = [cache |-> discovery.cache \cap S,
                                additions |-> S \ discovery.cache]
              /\ disturbed' = disturbed \cup {e \in Gone : InFlight(e) # {}}
    /\ UNCHANGED <<clockVars, dbVars, browserVars, marketVars, cacheVars, req>>

\* The second half of update: those that are new are added.
AddDiscovered ==
    /\ discovery.additions # None
    /\ balancer' = AddEndpoints(balancer, discovery.additions)
    /\ discovery' = [cache |-> discovery.cache \cup discovery.additions, additions |-> None]
    /\ UNCHANGED <<clockVars, dbVars, browserVars, marketVars, cacheVars, disturbed, req, left>>

(***************************************************************************)
(* Logging in through a provider: attachLoginProvider, one step for each   *)
(* call to the database.  accounts.logins[i] is the user a login is        *)
(* attached to, who may have been deleted since, or None.                  *)
(***************************************************************************)
Attach(p) ==
    /\ Free(p) /\ Spend("attach")
    /\ \E c \in given.claims, force \in BOOLEAN :
          Becomes(p, [kind |-> "attach", at |-> "session", claims |-> c, force |-> force,
                      jar |-> jar, user |-> None, existing |-> None, response |-> None,
                      code |-> NoAnswer])
    /\ UNCHANGED <<clockVars, dbVars, browserVars, marketVars, cacheVars, balanceVars>>

FindUserByLogin(id) == {accounts.logins[id]} \cap accounts.live

FindUserByEmail(email) == {u \in accounts.live : accounts.email[u] = email}

\* The user the login is for: of the session, the login, the login before auth0, the email.
FindUser(p) ==
    /\ req[p].at \in {"session", "login", "old", "email"}
    /\ LET r == req[p]
           s == r.jar.session
           Found == CASE r.at = "session" -> IF Decode(s, now) THEN {s.user} \cap accounts.live ELSE {}
                      [] r.at = "login" -> FindUserByLogin(r.claims.id)
                      [] r.at = "old" -> IF r.claims.old = None THEN {} ELSE FindUserByLogin(r.claims.old)
                      [] r.at = "email" -> FindUserByEmail(r.claims.email)
           next == CASE r.at = "session" -> "login" [] r.at = "login" -> "old"
                     [] r.at = "old" -> "email" [] r.at = "email" -> "create"
       IN  Becomes(p, IF Found = {} THEN [r EXCEPT !.at = next]
                      ELSE [r EXCEPT !.at = "add", !.user = CHOOSE u \in Found : TRUE])
    /\ UNCHANGED <<clockVars, dbVars, browserVars, marketVars, cacheVars, balanceVars, left>>

\* CreateUser fails when somebody has got the email since.
CreateUser(p) ==
    /\ At(p, "create")
    /\ LET r == req[p]
       IN  \/ /\ FindUserByEmail(r.claims.email) # {}
              /\ Becomes(p, Done(r, 401)) /\ UNCHANGED accounts
           \/ /\ FindUserByEmail(r.claims.email) = {}
              /\ LET u == CHOOSE u \in Users : accounts.email[u] = None
                 IN  /\ accounts' = [accounts EXCEPT !.live = @ \cup {u},
                                                    !.email[u] = r.claims.email]
                     /\ Becomes(p, [r EXCEPT !.at = "add", !.user = u])
    /\ UNCHANGED <<clockVars, access, hooks, browserVars, marketVars, cacheVars, balanceVars, left>>

\* AddLoginToUser, the first time and, after a forced detach, the second.  A login of a deleted
\* user is in the way and cannot be moved.
AddLogin(p) ==
    /\ req[p].at \in {"add", "readd"}
    /\ LET r == req[p]
           id == r.claims.id
           Existing == FindUserByLogin(id)
       IN  CASE Existing \ {r.user} # {} ->
                  /\ Becomes(p, CASE r.at = "readd" -> Done(r, 401)
                                  [] r.at = "add" /\ ~r.force -> Done(r, 400)
                                  [] OTHER -> [r EXCEPT !.at = "detach", !.existing = accounts.logins[id]])
                  /\ UNCHANGED accounts
             [] Existing = {} /\ accounts.logins[id] # None ->
                  Becomes(p, Done(r, 401)) /\ UNCHANGED accounts
             [] OTHER ->
                  /\ accounts' = [accounts EXCEPT !.logins[id] = r.user]
                  /\ Becomes(p, [r EXCEPT !.at = "last"])
    /\ UNCHANGED <<clockVars, access, hooks, browserVars, marketVars, cacheVars, balanceVars, left>>

\* DetachLoginFromUser: every login the user has with the provider.
Detach(p) ==
    /\ At(p, "detach")
    /\ accounts' = [accounts EXCEPT !.logins =
                       [i \in DOMAIN @ |-> IF @[i] = req[p].existing THEN None ELSE @[i]]]
    /\ Becomes(p, [req[p] EXCEPT !.at = "readd"])
    /\ UNCHANGED <<clockVars, access, hooks, browserVars, marketVars, cacheVars, balanceVars, left>>

\* UpdateUserAtLogin fails for a user who was deleted; then the session is set.
LastLogin(p) ==
    /\ At(p, "last")
    /\ LET r == req[p]
       IN  Becomes(p, IF r.user \in accounts.live
                      THEN [r EXCEPT !.at = "respond",
                                     !.response = SetSession(r.jar, r.claims.id, r.user, None, now)]
                      ELSE Done(r, 500))
    /\ UNCHANGED <<clockVars, dbVars, browserVars, marketVars, cacheVars, balanceVars, left>>

\* adminBecomeUser: who impersonates stays who they are.
BecomeUser(p) ==
    /\ At(p, "become")
    /\ LET r == req[p]
           s == r.in.cookie
       IN  Becomes(p, CASE r.in.become \notin accounts.live -> Done(r, 404)
                        [] r.in.become \in accounts.live /\ ~Decode(s, now) -> Done(r, 200)
                        [] OTHER -> [kind |-> "admin", at |-> "respond", user |-> None, code |-> NoAnswer,
                                     response |-> SetSession(r.in.jar, s.login, r.in.become,
                                                             GetActingUserID(s), now)])
    /\ UNCHANGED <<clockVars, dbVars, browserVars, marketVars, cacheVars, balanceVars, left>>

Logout(p) ==
    /\ Free(p) /\ Spend("logout")
    /\ Becomes(p, [kind |-> "logout", at |-> "respond", user |-> None, code |-> NoAnswer,
                   response |-> Clear(jar)])
    /\ UNCHANGED <<clockVars, dbVars, browserVars, marketVars, cacheVars, balanceVars>>

\* The browser gets the response, which may be later than the response to a later request.
Respond(p) ==
    /\ At(p, "respond")
    /\ jar' = Receive(jar, req[p].response)
    /\ people' = people \cup ({req[p].user} \ {None})
    /\ Becomes(p, Idle)
    /\ UNCHANGED <<clockVars, dbVars, marketVars, cacheVars, balanceVars, left>>

(***************************************************************************)
(* What others do to the database meanwhile, and the clock                 *)
(***************************************************************************)
Lookups == {p \in Procs : req[p].kind \in {"org", "probe"}}

\* Kept as long as somebody has asked, or will.
Remember(d) ==
    past' = IF Lookups # {} \/ left["org"] + left["probe"] > 0
            THEN [past EXCEPT ![now] = @ \cup {d}] ELSE past

AccessBecomes(d) ==
    /\ d # access
    /\ access' = d
    /\ Remember(d)

\* Administrators, the billing enforcer and members change organizations and roles.
ChangeAccess ==
    /\ Spend("changes")
    /\ \E o \in given.changed :
          \/ \E refuse, reason \in BOOLEAN :
                AccessBecomes([access EXCEPT !.orgs[o].refuseAccess = refuse,
                                             !.orgs[o].refuseUpload = refuse,
                                             !.orgs[o].reason = reason])
          \/ AccessBecomes([access EXCEPT !.orgs[o].live = FALSE])
          \/ AccessBecomes([access EXCEPT !.orgs[o].flags = {}])
          \/ \E u \in DOMAIN access.role, r \in {"editor", "viewer", None} :
                AccessBecomes([access EXCEPT !.role[u][o] = r])
    /\ UNCHANGED <<now, given, accounts, hooks, browserVars, marketVars, cacheVars, balanceVars, req>>

\* DeleteOrganizationWebhook
DeleteHook ==
    /\ Spend("hookDeletes")
    /\ \E h \in Hooks : hooks[h].live /\ hooks' = [hooks EXCEPT ![h].live = FALSE]
    /\ UNCHANGED <<clockVars, access, accounts, browserVars, marketVars, cacheVars, balanceVars, req>>

\* DeleteUser and SetUserAdmin
ChangeAccounts ==
    /\ Spend("accountChanges")
    /\ \E u \in accounts.live :
          \/ accounts' = [accounts EXCEPT !.live = @ \ {u}]
          \/ accounts' = [accounts EXCEPT !.admin = @ \ {u}]
    /\ UNCHANGED <<clockVars, access, hooks, browserVars, marketVars, cacheVars, balanceVars, req>>

(***************************************************************************)
(* Customers of Google: see Subscriptions                                  *)
(***************************************************************************)
Marketplace ==
    /\ \/ CustomerActs
       \/ \E p \in Procs : SubscriptionStep(p)
       \/ \E p \in Procs : jar.session # None /\ Subscribe(p, jar.session.user)
    /\ Remember(access')
    /\ UNCHANGED <<now, given, accounts, hooks, browserVars, cacheVars, balanceVars>>

Outstanding(p) == req[p].at \in {"lookup", "answer"}

Tick ==
    /\ now < MaxTime /\ Spend("ticks")
    /\ \A p \in Procs : Outstanding(p) => now - req[p].began < MaxLatency
    /\ now' = now + 1
    /\ past' = [past EXCEPT ![now + 1] = {access}]
    /\ UNCHANGED <<given, dbVars, browserVars, marketVars, cacheVars, balanceVars, req>>

Step(p) ==
    \/ AuthOrg(p) \/ AuthProbe(p) \/ Webhook(p) \/ AuthCookie(p)
    \/ Serve(p) \/ Answer(p) \/ Permission(p) \/ Seen(p)
    \/ Forward(p) \/ Finish(p) \/ Abort(p)
    \/ Attach(p) \/ FindUser(p) \/ CreateUser(p) \/ AddLogin(p) \/ Detach(p) \/ LastLogin(p)
    \/ BecomeUser(p) \/ Logout(p) \/ Respond(p)

Next ==
    \/ \E p \in Procs : Step(p)
    \/ Discover \/ AddDiscovered
    \/ ChangeAccess \/ DeleteHook \/ ChangeAccounts
    \/ Marketplace
    \/ Tick

Spec == Init /\ [][Next]_vars

(***************************************************************************)
(* Properties                                                              *)
(***************************************************************************)
\* What the users service would have answered to r at time t.
AnswersAt(r, t) ==
    {IF r.kind = "org" THEN LookupOrg(d, r.in, t) ELSE LookupUsingToken(d, r.in) : d \in past[t]}

\* The variables have the shape the code gives them, the caches (newCachingClient) stay within
\* their size and hold one entry for a request, and only answers worth keeping.
PathTypeOK ==
    /\ now \in 0 .. MaxTime
    /\ accounts.live \subseteq Users /\ accounts.admin \subseteq Users
    /\ DOMAIN req = Procs
    /\ discovery.cache \subseteq Endpoints /\ disturbed \subseteq Endpoints
    /\ \A cache \in {orgCache, probeCache} :
          /\ Len(cache) <= CacheSize
          /\ \A i, j \in DOMAIN cache : cache[i].in = cache[j].in => i = j
          /\ \A i \in DOMAIN cache : cache[i].out.code \in {200, 401, 402}

\* The caching client never makes the front end say what has not been true for longer than an
\* answer is kept and a call takes: whoever is let in, or refused, would have got the same
\* answer from the users service within that time - a member who left, an organization that
\* did not pay or paid again, a session that expired included.  An organization that an
\* administrator refused for a reason is not kept out by the cache at all once the refusal is
\* lifted: a 403 was true while the request that got it was being handled.
AnswerIsRecent ==
    \A p \in Lookups :
        LET r == req[p]
            oldest == IF r.out.code = 403 THEN r.began
                      ELSE r.decided - CacheExpiration - MaxLatency
        IN  r.decided # None /\ r.out.code \in {200, 401, 402, 403} =>
                \E t \in oldest .. r.decided : t >= 0 /\ r.out \in AnswersAt(r, t)

\* "Absence implies user is real": however the responses of overlapping requests arrive, a
\* browser without the impersonation cookie does not hold the session of an impersonation.  And
\* who is named as impersonator has logged in in this browser themselves, through however many
\* users they became one another: adminBecomeUser keeps the first.
ImpersonationMarked ==
    jar.session # None /\ jar.session.impersonator # None =>
        jar.impersonation /\ jar.session.impersonator \in people

\* No delivery of a webhook reaches flux-api before the webhook's FirstSeenAt is set, whoever of
\* several deliveries sets it and however the calls fail.
ServedIsSeen ==
    \A p \in Procs :
        req[p].kind = "hook" /\ (At(p, "proxy") \/ req[p].code = 200) =>
            hooks[req[p].in.hook].seen # None

\* The balancer's books agree in every order of Get, Put, removal and addition: the ring holds
\* the replicas of the endpoints there are, totalLoad is the sum of their loads, and the load of
\* an endpoint is the number of requests it is handling, unless it was removed while it handled
\* some or a response broke off.
BooksAgree ==
    LET Ring == DOMAIN balancer.load
    IN  /\ DOMAIN balancer.endpoints = Hashes(Ring)
        /\ balancer.numEndpoints = Cardinality(Ring)
        /\ balancer.totalLoad = MapThenSumSet(LAMBDA e : balancer.load[e], Ring)
        /\ \A e \in Ring \ disturbed : balancer.load[e] = Cardinality(InFlight(e))

\* Get finds an endpoint that accepts the request, whatever the loads and the endpoints, as long
\* as no load has become negative.
GetFindsEndpoint ==
    isEmpty(balancer) \/ GetReturns(balancer) \/ \E e \in DOMAIN balancer.load : balancer.load[e] < 0

\* Get returns the Service Endpoint to use for the next request, whenever there are endpoints.
GetAlwaysReturns == isEmpty(balancer) \/ GetReturns(balancer)

\* Consistent hashing: when endpoints come or go, an organization only moves away from an endpoint
\* that is gone, or to one that is new.
OnlyDisplacedMove ==
    [][\A o \in Orgs :
          LET h == keyHash(o)
              moves == Home(balancer, h) # Home(balancer', h)
          IN  ~isEmpty(balancer) /\ ~isEmpty(balancer') /\ moves =>
                  \/ Home(balancer, h) \notin DOMAIN balancer'.load
                  \/ Home(balancer', h) \notin DOMAIN balancer.load]_balancer
=============================================================================
