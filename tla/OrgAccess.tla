------------------------------- MODULE OrgAccess -------------------------------
(***************************************************************************)
(* One organization between the services that grant and refuse it access:  *)
(* the billing enforcer, the cleaner, staff who extend its trial           *)
(* (users/api/org.go, users/api/admin.go), billing-api when it gets a       *)
(* billing account, members who move it to a team that is billed elsewhere *)
(* or delete it, and the probes that upload its data through authfe, which *)
(* keeps the answers of the users service for a while                      *)
(* (users/client/cache.go).                                                *)
(***************************************************************************)
EXTENDS BillingEnforcer, OrgCleaner

VARIABLES
  staff,     \* the extension of the trial in progress, and until when
  payment,   \* where markOrganizationDutiful is
  external,  \* the team of the organization is billed elsewhere
  mover,     \* refreshOrganizationRestrictions in progress and what it is to do
  cached,    \* authfe has cached that the token of the probes is good
  stale,     \* history: something changed under a job that had read the row
  early,     \* history: a clean-up began before the organization was deleted
  late       \* history: data came in on a cached answer that was out of date

handlers == <<staff, payment, external, mover>>
history == <<stale, early, late>>
vars == <<now, database, enforcement, cleaning, handlers, cached, requests, history>>

\* Every variable has its type: the row, the jobs and the handlers that write it.
TypeOK ==
  /\ now \in 0 .. MaxDay
  /\ org \in Row
  /\ failures \in 0 .. MaxEvents
  /\ EnforcerTypeOK /\ CleanerTypeOK
  /\ staff \in [pc : {"idle", "flags", "trial", "access", "upload"}, until : 0 .. MaxDay]
  /\ payment \in {"idle", "zuora", "access", "upload"}
  /\ external \in BOOLEAN
  /\ mover \in [pc : {"idle", "access", "upload", "flags"}, access : BOOLEAN, upload : BOOLEAN]
  /\ cached \in BOOLEAN
  /\ requests \in 0 .. MaxEvents
  /\ stale \in BOOLEAN /\ early \in BOOLEAN /\ late \in BOOLEAN

Rest(pc) == [pc |-> pc, access |-> FALSE, upload |-> FALSE]

Init ==
  /\ now = 0
  /\ \E ends \in {0, 1}, billing \in BOOLEAN : org = NewRow(ends, billing)
  /\ failures = 0
  /\ EnforcerInit /\ CleanerInit
  /\ staff = [pc |-> "idle", until |-> 0]
  /\ payment = "idle"
  /\ external = ~ org.billing
  /\ mover = Rest("idle")
  /\ cached = FALSE
  /\ requests = 0
  /\ stale = FALSE /\ early = FALSE /\ late = FALSE

Request == failures + requests < MaxEvents /\ requests' = requests + 1 /\ ~ org.deleted

\* Whether the organization should pay is about to change: who has read the row
\* and will write a flag is out of date.
Changes ==
  stale' = (stale \/ enforcer.pc \in {"access", "upload"} \/ mover.pc # "idle")

(***************************************************************************)
(* Staff.                                                                  *)
(***************************************************************************)
StaffGoto(pc) == staff' = [staff EXCEPT !.pc = pc]
StaffOnly == UNCHANGED <<now, enforcement, cleaning, payment, external, mover, cached, early, late>>

adminTrial ==
  /\ Request /\ staff.pc = "idle"
  /\ \E t \in now + 1 .. MaxDay : t > org.trialEnds /\ staff' = [pc |-> "trial", until |-> t]
  /\ UNCHANGED <<database, stale>> /\ StaffOnly

\* Staff enable the feature flag "billing": the trial is extended as well.
setOrgFeatureFlags ==
  /\ Request /\ staff.pc = "idle"
  /\ ~ org.billing
  /\ \E t \in now + 1 .. MaxDay : staff' = [pc |-> "flags", until |-> t]
  /\ UNCHANGED <<database, stale>> /\ StaffOnly

EnableBilling ==
  /\ staff.pc = "flags"
  /\ \/ /\ SetFeatureFlags(TRUE) /\ Changes
        /\ StaffGoto(IF staff.until > org.trialEnds THEN "trial" ELSE "idle")
     \/ Fails /\ StaffGoto("idle") /\ UNCHANGED stale
  /\ UNCHANGED requests /\ StaffOnly

extendOrgTrialPeriod ==
  /\ staff.pc = "trial"
  /\ \/ /\ ~ org.deleted
        /\ Stores([org EXCEPT !.trialEnds = staff.until, !.expiredNotified = FALSE])
        /\ Changes
        /\ StaffGoto("access")
     \/ org.deleted /\ UNCHANGED <<database, stale>> /\ StaffGoto("idle")
     \/ Fails /\ UNCHANGED stale /\ StaffGoto("idle")
  /\ UNCHANGED requests /\ StaffOnly

AllowAccess ==
  /\ staff.pc = "access"
  /\ \/ SetOrganizationRefuseDataAccess(FALSE) /\ StaffGoto("upload")
     \/ Fails /\ StaffGoto("idle")
  /\ UNCHANGED <<stale, requests>> /\ StaffOnly

AllowUpload ==
  /\ staff.pc = "upload"
  /\ SetOrganizationRefuseDataUpload(FALSE) \/ Fails
  /\ StaffGoto("idle")
  /\ UNCHANGED <<stale, requests>> /\ StaffOnly

(***************************************************************************)
(* markOrganizationDutiful: an error in one of the calls does not keep it  *)
(* from making the others.                                                 *)
(***************************************************************************)
PaymentOnly == UNCHANGED <<now, enforcement, cleaning, staff, external, mover, cached, early, late>>

CreateAccount ==
  /\ Request /\ payment = "idle" /\ ~ org.zuora
  /\ payment' = "zuora"
  /\ UNCHANGED <<database, stale>> /\ PaymentOnly

\* Mutant: the account is written after the flags are cleared.
markOrganizationDutifulLast ==
  /\ \/ payment = "zuora" /\ payment' = "access" /\ (SetOrganizationRefuseDataAccess(FALSE) \/ Fails)
     \/ payment = "access" /\ payment' = "upload" /\ (SetOrganizationRefuseDataUpload(FALSE) \/ Fails)
     \/ payment = "upload" /\ payment' = "idle" /\ (SetOrganizationZuoraAccount \/ Fails)
  /\ IF org'.zuora = org.zuora THEN UNCHANGED stale ELSE Changes
  /\ UNCHANGED requests /\ PaymentOnly

markOrganizationDutiful ==
  /\ \/ payment = "zuora" /\ payment' = "access" /\ (SetOrganizationZuoraAccount \/ Fails)
     \/ payment = "access" /\ payment' = "upload" /\ (SetOrganizationRefuseDataAccess(FALSE) \/ Fails)
     \/ payment = "upload" /\ payment' = "idle" /\ (SetOrganizationRefuseDataUpload(FALSE) \/ Fails)
  /\ IF org'.zuora = org.zuora THEN UNCHANGED stale ELSE Changes
  /\ UNCHANGED requests /\ PaymentOnly

(***************************************************************************)
(* MoveOrg to a team of another billing provider: the flags are cleared    *)
(* before billing is disabled, and set after it is enabled.                *)
(***************************************************************************)
MoverOnly == UNCHANGED <<now, enforcement, cleaning, staff, payment, cached, early, late>>

MoveOrg ==
  /\ Request /\ mover.pc = "idle"
  /\ external' = ~ external
  /\ mover' =
       IF external
       THEN [pc |-> "flags",
             access |-> ShouldRefuseDataAccess([org EXCEPT !.billing = TRUE], now),
             upload |-> ShouldRefuseDataUpload([org EXCEPT !.billing = TRUE], now)]
       ELSE [pc |-> "access", access |-> org.refuseDataAccess, upload |-> org.refuseDataUpload]
  /\ UNCHANGED <<database, stale>> /\ MoverOnly

\* The flags are set for a team that is billed by Zuora, cleared for one that is not.
RefreshAccess ==
  /\ mover.pc = "access"
  /\ \/ mover.access /\ (SetOrganizationRefuseDataAccess(~ external) \/ Fails)
     \/ ~ mover.access /\ UNCHANGED database
  /\ mover' = [mover EXCEPT !.pc = "upload"]
  /\ UNCHANGED <<external, stale, requests>> /\ MoverOnly

RefreshUpload ==
  /\ mover.pc = "upload"
  /\ \/ mover.upload /\ (SetOrganizationRefuseDataUpload(~ external) \/ Fails)
     \/ ~ mover.upload /\ UNCHANGED database
  /\ mover' = IF external THEN Rest("flags") ELSE Rest("idle")
  /\ UNCHANGED <<external, stale, requests>> /\ MoverOnly

RefreshFlags ==
  /\ mover.pc = "flags"
  /\ \/ /\ SetFeatureFlags(~ external)
        /\ stale' = (stale \/ enforcer.pc \in {"access", "upload"})
        /\ mover' = IF external THEN Rest("idle") ELSE [mover EXCEPT !.pc = "access"]
     \/ Fails /\ mover' = Rest("idle") /\ UNCHANGED stale
  /\ UNCHANGED <<external, requests>> /\ MoverOnly

deleteOrg ==
  /\ Request
  /\ DeleteOrganization \/ Fails
  /\ UNCHANGED <<now, enforcement, cleaning, handlers, cached, history>>

(***************************************************************************)
(* Uploads.                                                                *)
(***************************************************************************)
authorizeAction == ~ org.deleted /\ ~ org.refuseDataUpload

\* A probe uploads data if the users service knows its token, or has known it
\* not long ago.  (A refusal is cached too, which only delays uploads.)
LookupUsingToken ==
  /\ cached \/ authorizeAction
  /\ cached' = TRUE
  /\ \E u \in Urls \ data : data' = data \union {u}
  /\ late' = (late \/ ~ authorizeAction)
  /\ UNCHANGED <<now, database, enforcement, cleaner, handlers, requests, stale, early>>

Expiration ==
  /\ cached
  /\ cached' = FALSE
  /\ UNCHANGED <<now, database, enforcement, cleaning, handlers, requests, history>>

\* The status of the services is asked for when one is connected.
updateOrgFirstSeen ==
  /\ data # {} /\ ~ org.onboarded /\ ~ org.deleted
  /\ SetOrganizationFirstSeenConnectedAt
  /\ UNCHANGED <<now, enforcement, cleaning, handlers, cached, requests, history>>

EnforceStep ==
  /\ Enforce
  /\ stale' = (stale \/ (org' # org /\ mover.pc # "idle"))
  /\ UNCHANGED <<now, cleaning, handlers, cached, requests, early, late>>

CleanStep ==
  /\ Clean
  /\ early' = (early \/ (cleaner'.busy /\ ~ org.deleted))
  /\ UNCHANGED <<now, enforcement, handlers, cached, requests, stale, late>>

Next ==
  \/ At("idle") /\ Tick /\ UNCHANGED <<enforcement, cleaning, handlers, cached, requests, history>>
  \/ EnforceStep \/ CleanStep
  \/ adminTrial \/ setOrgFeatureFlags \/ EnableBilling \/ extendOrgTrialPeriod
  \/ AllowAccess \/ AllowUpload
  \/ CreateAccount \/ markOrganizationDutiful
  \/ MoveOrg \/ RefreshAccess \/ RefreshUpload \/ RefreshFlags \/ deleteOrg
  \/ LookupUsingToken \/ Expiration \/ updateOrgFirstSeen

Spec == Init /\ [][Next]_vars

\* Cron starts the enforcer every hour and a ticker wakes the cleaner.
FairSpec == Spec /\ WF_vars(EnforceStep) /\ WF_vars(CleanStep)

(***************************************************************************)
(* Properties.                                                             *)
(***************************************************************************)
Quiet == staff.pc = "idle" /\ payment = "idle" /\ mover.pc = "idle"

\* No organization that need not pay is refused anything once the handlers are
\* done: paying, extending the trial and moving to a team that is billed
\* elsewhere clear the flags for good, unless a call failed or the enforcer or
\* a move had read the row before.  What was done to a deleted one is left.
RefusedShouldPay ==
  Quiet /\ ~ stale /\ failures = 0 /\ ~ org.deleted =>
    /\ org.refuseDataAccess => ShouldRefuseDataAccess(org, now)
    /\ org.refuseDataUpload => ShouldRefuseDataUpload(org, now)

\* The members get each mail of the enforcer at most once, and once more for
\* every request that changes what they owe.
MailedOnce == failures = 0 => \A m \in Mails : mails[m] <= 1 + requests

\* A deleted organization that is marked as cleaned has no data left in any
\* service, unless it had been cleaned while it was only refused uploads or
\* data came in on an out-of-date answer of the cache.
CleanedIsGone == org.deleted /\ org.cleanup /\ ~ early /\ ~ late => data = {}

\* An organization that should pay and is in use is refused access in the end.
DelinquentIsRefused ==
  isDelinquent(org, now) /\ org.onboarded
    ~> org.refuseDataAccess \/ ~ isDelinquent(org, now) \/ org.deleted

\* A deleted organization is marked as cleaned in the end, whichever calls of
\* the cleaner fail.
DeletedIsMarked == org.deleted ~> org.cleanup

=============================================================================
