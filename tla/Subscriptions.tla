--------------------------- MODULE Subscriptions ---------------------------
(***************************************************************************)
(* A customer of Google's marketplace.  They buy an entitlement from       *)
(* Google, sign up for Weave Cloud (GCPSubscribe of users/api), and later  *)
(* change or cancel the entitlement with Google, who tells                 *)
(* gcp-launcher-webhook about it in messages over Pub/Sub.  A message is   *)
(* delivered until it is acknowledged, perhaps once more after that, and   *)
(* in no order.  It says what happened to which entitlement; the handler   *)
(* asks Google for the entitlement as it is now.                           *)
(*                                                                         *)
(* A request, or the handling of a message, is a process of RequestPath,   *)
(* and a call to Google, or to the users service, is a step.  Google is    *)
(* external.  The types of messages that Handle acknowledges without doing *)
(* anything are not sent, and the account for testing is left out.         *)
(***************************************************************************)
EXTENDS LookupServer, FiniteSets

CONSTANTS Procs,
          Customer,         \* the organization that is the customer's
          Plans,
          MaxEntitlements   \* how many entitlements they buy, one after the other

VARIABLES access,           \* the database: roles and organizations
          market,           \* Google: entitlements, and messages not acknowledged yet
          fresh,            \* what was last written of the subscription was so at the time
          req, left         \* the processes, and how much of everything may still happen

Entitlements == 1 .. MaxEntitlements

NoEntitlement == [state |-> "none", plan |-> None, pending |-> None, gone |-> FALSE]

NoMarket == [ents |-> [i \in Entitlements |-> NoEntitlement], messages |-> {}, sent |-> 0]

Fresh(b) == [row |-> b, access |-> b, upload |-> b]

Idle == [kind |-> "none", at |-> "done", code |-> NoAnswer]

Spend(what) == left[what] > 0 /\ left' = [left EXCEPT ![what] = @ - 1]

Free(p) == req[p].at = "done"

At(p, where) == req[p].at = where

Becomes(p, r) == req' = [req EXCEPT ![p] = r]

(***************************************************************************)
(* Google                                                                  *)
(***************************************************************************)
\* The entitlement that was bought last, 0 before the first.
Latest == Cardinality({i \in Entitlements : market.ents[i].state # "none"})

\* Google's books after entitlement i became e, with a message about it or none.
Changed(i, e, types) ==
    [ents |-> [market.ents EXCEPT ![i] = e],
     messages |-> market.messages \cup [type : types, id : {i}, number : {market.sent}],
     sent |-> market.sent + Cardinality(types)]

\* The customer buys an entitlement, has its plan changed, takes that back, ends it now or at the
\* end of the month, takes that back; after a while Google forgets an entitlement that ended.
CustomerActs ==
    /\ Latest > 0 /\ Spend("customer")
    /\ LET i == Latest
           e == market.ents[i]
           Now(state) == [e EXCEPT !.state = state, !.pending = None]
       IN  \/ /\ e.state = "cancelled" /\ i < MaxEntitlements
              /\ \E plan \in Plans :
                    market' = Changed(i + 1, [NoEntitlement EXCEPT !.state = "activationRequested",
                                                                   !.plan = plan],
                                      {"creationRequested"})
           \/ /\ e.state = "active"
              /\ \E plan \in Plans \ {e.plan} :
                    market' = Changed(i, [e EXCEPT !.state = "pendingPlanChangeApproval",
                                                   !.pending = plan], {"planChangeRequested"})
           \/ e.state = "active" /\ market' = Changed(i, Now("pendingCancellation"), {})
           \/ /\ e.state \in {"pendingPlanChangeApproval", "pendingCancellation"}
              /\ market' = Changed(i, Now("active"), {})
           \/ e.state # "cancelled" /\ market' = Changed(i, Now("cancelled"), {"cancelled"})
           \/ /\ e.state = "cancelled" /\ ~e.gone
              /\ market' = Changed(i, [e EXCEPT !.gone = TRUE], {})
    /\ UNCHANGED <<access, fresh, req>>

\* ApproveEntitlement, refused when there is nothing to approve.
Approvable(i) == market.ents[i].state = "activationRequested"

Approved(i) == Changed(i, [market.ents[i] EXCEPT !.state = "active"], {"active"})

\* ApprovePlanChangeEntitlement
PlanApprovable(i, plan) ==
    market.ents[i].state = "pendingPlanChangeApproval" /\ market.ents[i].pending = plan

PlanApproved(i) ==
    Changed(i, [market.ents[i] EXCEPT !.state = "active", !.plan = market.ents[i].pending,
                                      !.pending = None], {"planChanged"})

(***************************************************************************)
(* What the users service writes.  A write is fresh if what it says of the *)
(* subscription is so at that moment.                                      *)
(***************************************************************************)
UpdateGCP(r, state) ==
    [access EXCEPT !.orgs[Customer].gcp =
        [activated |-> TRUE, name |-> r.id, plan |-> r.ent.plan, status |-> state]]

IsSo(r, state) ==
    r.id = Latest /\ market.ents[r.id].plan = r.ent.plan /\ market.ents[r.id].state = state

(***************************************************************************)
(* Signing up                                                              *)
(***************************************************************************)
\* gcpSubscribe; u is logged in.
Subscribe(p, u) ==
    /\ Free(p) /\ Spend("subscribe")
    /\ Becomes(p, [kind |-> "signup", at |-> "list", user |-> u, id |-> None, ent |-> None,
                   code |-> NoAnswer])
    /\ UNCHANGED <<access, market, fresh>>

Ends(p, code) == Becomes(p, [Idle EXCEPT !.code = code])

\* getPendingEntitlement
ListEntitlements(p) ==
    /\ At(p, "list")
    /\ LET Pending == {i \in Entitlements : Approvable(i)}
       IN  \/ Pending = {} /\ Ends(p, 400)
           \/ \E i \in Pending :
                 Becomes(p, [req[p] EXCEPT !.at = "org", !.id = i, !.ent = market.ents[i]])
    /\ UNCHANGED <<access, market, fresh, left>>

\* FindOrganizationByGCPExternalAccountID: "Are we resuming?"
FindOrganization(p) ==
    /\ At(p, "org")
    /\ LET o == access.orgs[Customer]
       IN  CASE ~o.live \/ o.gcp = None -> Becomes(p, [req[p] EXCEPT !.at = "new"])
             [] o.live /\ o.gcp # None /\ o.gcp.activated -> Ends(p, 500)
             [] OTHER -> Becomes(p, [req[p] EXCEPT !.at = "approve"])
    /\ UNCHANGED <<access, market, fresh, left>>

\* CreateOrganizationWithGCP, refused when the account has got an organization before.
CreateOrganization(p) ==
    /\ At(p, "new")
    /\ LET r == req[p]
           new == [activated |-> FALSE, name |-> None, plan |-> None, status |-> None]
       IN  IF access.orgs[Customer].gcp # None THEN Ends(p, 500) /\ UNCHANGED access
           ELSE /\ access' = [access EXCEPT !.orgs[Customer].live = TRUE,
                                            !.orgs[Customer].gcp = new,
                                            !.role[r.user][Customer] = "admin"]
                /\ Becomes(p, [r EXCEPT !.at = "approve"])
    /\ UNCHANGED <<market, fresh, left>>

\* ApproveAccount and ApproveEntitlement
ApproveSignup(p) ==
    /\ At(p, "approve") /\ req[p].kind = "signup"
    /\ IF Approvable(req[p].id)
       THEN market' = Approved(req[p].id) /\ Becomes(p, [req[p] EXCEPT !.at = "activate"])
       ELSE Ends(p, 500) /\ UNCHANGED market
    /\ UNCHANGED <<access, fresh, left>>

\* Mutant: the status is the one the entitlement had when it was listed.
ActivateAsListed(p) ==
    /\ At(p, "activate")
    /\ access' = UpdateGCP(req[p], req[p].ent.state)
    /\ fresh' = IF IsSo(req[p], "active") THEN [fresh EXCEPT !.row = TRUE] ELSE Fresh(FALSE)
    /\ Ends(p, 200)
    /\ UNCHANGED <<market, left>>

\* "Set subscription status to ACTIVE because approval passed."
Activate(p) ==
    /\ At(p, "activate")
    /\ access' = UpdateGCP(req[p], "active")
    /\ fresh' = IF IsSo(req[p], "active") THEN [fresh EXCEPT !.row = TRUE] ELSE Fresh(FALSE)
    /\ Ends(p, 200)
    /\ UNCHANGED <<market, left>>

(***************************************************************************)
(* Messages                                                                *)
(***************************************************************************)
\* A message is delivered; and again when its acknowledgement takes too long or is lost.
Deliver(p) ==
    /\ Free(p)
    /\ \E m \in market.messages :
          /\ Becomes(p, [kind |-> "message", at |-> "fetch", type |-> m.type, id |-> m.id,
                         number |-> m.number, ent |-> None, code |-> NoAnswer])
          /\ IF \E q \in Procs : ~Free(q) /\ req[q].kind = "message" /\ req[q].number = m.number
             THEN Spend("acks") ELSE UNCHANGED left
    /\ UNCHANGED <<access, market, fresh>>

\* The message is not delivered again, unless the acknowledgement is lost.
Acknowledge(p, m) ==
    /\ Becomes(p, Idle)
    /\ \/ market' = [m EXCEPT !.messages = {x \in @ : x.number # req[p].number}]
          /\ UNCHANGED left
       \/ market' = m /\ Spend("acks")

Nack(p) == Becomes(p, Idle) /\ UNCHANGED <<market, left>>

\* GetEntitlement: "this has already been handled by a cancellation message".
Fetch(p) ==
    /\ At(p, "fetch")
    /\ LET r == req[p]
           e == market.ents[r.id]
       IN  IF e.gone
           THEN /\ Acknowledge(p, market)
                /\ fresh' = IF r.type = "cancelled" THEN Fresh(FALSE) ELSE fresh
           ELSE /\ Becomes(p, [r EXCEPT !.at = "account", !.ent = e])
                /\ UNCHANGED <<market, fresh, left>>
    /\ UNCHANGED access

\* The first call that handles the message, for an entitlement in this state.
FirstCall(type, state) ==
    CASE type = "creationRequested" /\ state = "activationRequested" -> "approve"
      [] type \in {"active", "planChanged"} /\ state = "active" -> "row"
      [] type = "planChangeRequested" /\ state = "pendingPlanChangeApproval" -> "approve"
      [] type = "cancelled" /\ state = "cancelled" -> "access"
      [] OTHER -> "none"

\* GetGCP: the message is acknowledged at once for an account that has not signed up, and for an
\* entitlement that has moved on.  One that may move back is not written then.
Consider(p) ==
    /\ At(p, "account")
    /\ LET r == req[p]
           g == access.orgs[Customer].gcp
           signedUp == IF g = None THEN FALSE ELSE g.activated
           call == FirstCall(r.type, r.ent.state)
           skipped == /\ r.type \in {"active", "planChanged"}
                      /\ r.ent.state \in {"pendingPlanChangeApproval", "pendingCancellation"}
       IN  IF ~signedUp \/ call = "none"
           THEN /\ Acknowledge(p, market)
                /\ fresh' = IF signedUp /\ skipped THEN Fresh(FALSE) ELSE fresh
           ELSE /\ Becomes(p, [r EXCEPT !.at = call])
                /\ UNCHANGED <<market, fresh, left>>
    /\ UNCHANGED access

\* An entitlement, or a plan, is approved; the rest is left to the message that follows.
ApproveMessage(p) ==
    /\ At(p, "approve") /\ req[p].kind = "message"
    /\ LET r == req[p]
       IN  CASE r.type = "creationRequested" /\ Approvable(r.id) -> Acknowledge(p, Approved(r.id))
             [] r.type = "planChangeRequested" /\ PlanApprovable(r.id, r.ent.pending) ->
                   Acknowledge(p, PlanApproved(r.id))
             [] OTHER -> Nack(p)
    /\ UNCHANGED <<access, fresh>>

\* updateGCP, at the beginning of updateEntitlement and at the end of cancelEntitlement.
WriteRow(p) ==
    /\ At(p, "row")
    /\ LET r == req[p]
       IN  /\ access' = UpdateGCP(r, r.ent.state)
           /\ fresh' = [fresh EXCEPT !.row = IsSo(r, r.ent.state)]
           /\ IF r.type = "cancelled" THEN Acknowledge(p, market)
              ELSE Becomes(p, [r EXCEPT !.at = "access"]) /\ UNCHANGED <<market, left>>

\* setWeaveCloudAccessFlagsTo: the organization is looked up, and RefuseDataAccess is set.
WriteAccess(p) ==
    /\ At(p, "access")
    /\ LET r == req[p]
       IN  IF access.orgs[Customer].live
           THEN /\ access' = [access EXCEPT !.orgs[Customer].refuseAccess = r.type = "cancelled"]
                /\ fresh' = [fresh EXCEPT !.access = IsSo(r, r.ent.state)]
                /\ Becomes(p, [r EXCEPT !.at = "upload"]) /\ UNCHANGED <<market, left>>
           ELSE Nack(p) /\ UNCHANGED <<access, fresh>>

\* RefuseDataUpload
WriteUpload(p) ==
    /\ At(p, "upload")
    /\ LET r == req[p]
       IN  /\ access' = [access EXCEPT !.orgs[Customer].refuseUpload = r.type = "cancelled"]
           /\ fresh' = [fresh EXCEPT !.upload = IsSo(r, r.ent.state)]
           /\ IF r.type = "cancelled"
              THEN Becomes(p, [r EXCEPT !.at = "row"]) /\ UNCHANGED <<market, left>>
              ELSE Acknowledge(p, market)

\* A call fails.  The message will be delivered again; one who signs up may try again, but an
\* entitlement that has been approved is not pending any more.
CallFails(p) ==
    /\ req[p].kind \in {"message", "signup"} /\ ~Free(p) /\ Spend("fails")
    /\ fresh' = IF At(p, "activate") THEN Fresh(FALSE) ELSE fresh
    /\ Ends(p, 500)
    /\ UNCHANGED <<access, market>>

SubscriptionStep(p) ==
    \/ ListEntitlements(p) \/ FindOrganization(p) \/ CreateOrganization(p) \/ ApproveSignup(p)
    \/ Activate(p)
    \/ Deliver(p) \/ Fetch(p) \/ Consider(p) \/ ApproveMessage(p)
    \/ WriteRow(p) \/ WriteAccess(p) \/ WriteUpload(p)
    \/ CallFails(p)

(***************************************************************************)
(* Properties                                                              *)
(***************************************************************************)
\* Once every message is acknowledged and nobody is at work, the database agrees with Google: an
\* active entitlement is recorded with its plan and is not refused anything, and one that was
\* cancelled is recorded as such and is refused.  However messages are delayed, repeated and
\* reordered, whether they come during the sign-up, and whichever call fails; unless what was
\* written last came from an entitlement that had changed since it was fetched, or the message
\* that was to tell was dropped: of an entitlement Google has forgotten, or in a state that was
\* taken back; or the sign-up failed after its entitlement had been approved.
SubscriptionAgrees ==
    Latest > 0 /\ market.messages = {} /\ (\A p \in Procs : Free(p)) =>
        LET e == market.ents[Latest]
            o == access.orgs[Customer]
            row == [activated |-> TRUE, name |-> Latest, plan |-> e.plan, status |-> e.state]
            signedUp == IF o.gcp = None THEN FALSE ELSE o.gcp.activated
            refused == e.state = "cancelled"
        IN  e.state = "active" \/ (e.state = "cancelled" /\ signedUp) =>
                /\ fresh.row => o.gcp = row
                /\ fresh.access => o.refuseAccess = refused
                /\ fresh.upload => o.refuseUpload = refused
=============================================================================
