--------------------------- MODULE OrgAccessProofs ---------------------------
(***************************************************************************)
(* What OrgAccess promises for any number of days, requests, failures and  *)
(* services: nobody who need not pay is refused for good, the members get  *)
(* each mail of the enforcer once, and what is marked as cleaned is gone.  *)
(***************************************************************************)
EXTENDS OrgAccess, TLAPS

(***************************************************************************)
(* The cleaner.                                                            *)
(***************************************************************************)

\* Unless a clean-up began early, it is of a deleted organization; while no call
\* has failed the data that is left is that of the services still to be called.
CleanInv ==
  ~ early =>
    /\ cleaner.busy \/ org.cleanup => org.deleted
    /\ ~ late /\ cleaner.busy /\ cleaner.done => data \subseteq cleaner.todo
    /\ ~ late /\ org.cleanup => data = {}

(***************************************************************************)
(* The mails.                                                              *)
(***************************************************************************)
One(b) == IF b THEN 1 ELSE 0

\* The job has yet to do only what comes after the step it is at, its time is
\* past, and what it decided of the mails on its copy still holds of the row.
JobInv ==
  /\ enforcer.access <=> At("access")
  /\ enforcer.upload => enforcer.pc \in {"access", "upload"}
  /\ enforcer.tell => enforcer.pc \in {"access", "upload", "refused"}
  /\ enforcer.expired => enforcer.pc \in {"access", "upload", "refused", "expired"}
  /\ At("upload") => enforcer.upload
  /\ At("refused") => enforcer.tell
  /\ At("expired") => enforcer.expired
  /\ enforcer.at <= now
  /\ At("pending") => ~ org.pendingNotified
  /\ enforcer.expired => ~ org.expiredNotified

\* The handlers that may still make uploads possible again.
Clearing ==
  One(staff.pc # "idle") + One(payment # "idle")
    + One(external /\ mover.pc \in {"access", "upload"})

\* Every mail is paid for by the creation of the organization or by a request.
MailInv ==
  failures = 0 =>
    /\ mails["pending"] = One(org.pendingNotified)
    /\ mails["expired"] + One(~ org.expiredNotified) + One(staff.pc \in {"flags", "trial"})
         <= 1 + requests
    /\ mails["refused"] <= 1 + requests
    /\ ~ org.deleted =>
         mails["refused"] + One(enforcer.tell) + One(~ org.refuseDataUpload /\ ~ enforcer.upload)
           + Clearing <= 1 + requests

(***************************************************************************)
(* The flags.                                                              *)
(***************************************************************************)
Undisturbed == ~ stale /\ failures = 0 /\ ~ org.deleted

Billed(o) == [o EXCEPT !.billing = TRUE]

\* What the enforcer and a move are about to refuse should be refused.
JobSound ==
  /\ enforcer.access => ShouldRefuseDataAccess(org, now)
  /\ enforcer.upload => ShouldRefuseDataUpload(org, now)

MoverSound ==
  /\ mover.pc # "idle" /\ ~ external =>
       /\ mover.access => ShouldRefuseDataAccess(Billed(org), now)
       /\ mover.upload => ShouldRefuseDataUpload(Billed(org), now)
       /\ mover.pc \in {"access", "upload"} => org.billing
  /\ external =>
       /\ mover.pc = "access" => (org.refuseDataAccess => mover.access)
       /\ mover.pc \in {"access", "upload"} => (org.refuseDataUpload => mover.upload)
       /\ mover.pc \in {"upload", "flags"} => ~ org.refuseDataAccess
       /\ mover.pc = "flags" => ~ org.refuseDataUpload

\* A flag is set rightly, or a handler is about to clear it.
FlagsSound ==
  /\ org.refuseDataAccess =>
       \/ ShouldRefuseDataAccess(org, now)
       \/ staff.pc = "access" \/ payment = "access"
  /\ org.refuseDataUpload =>
       \/ ShouldRefuseDataUpload(org, now)
       \/ staff.pc \in {"access", "upload"} \/ payment \in {"access", "upload"}

RefusalInv == Undisturbed => JobSound /\ MoverSound /\ FlagsSound

IndInv == TypeOK /\ CleanInv /\ JobInv /\ MailInv /\ RefusalInv

-----------------------------------------------------------------------------
(* Types.                                                                  *)

\* The types of the parts of the state that the services write.
JobType == [pc : Steps, at : 0 .. MaxDay, access : BOOLEAN, upload : BOOLEAN,
            tell : BOOLEAN, expired : BOOLEAN]
CleanupType == [busy : BOOLEAN, todo : SUBSET Urls, done : BOOLEAN]
StaffType == [pc : {"idle", "flags", "trial", "access", "upload"}, until : 0 .. MaxDay]
MoverType == [pc : {"idle", "access", "upload", "flags"}, access : BOOLEAN, upload : BOOLEAN]

\* A statement on the row leaves a row.
LEMMA RowType ==
  ASSUME org \in Row, NEW v \in BOOLEAN
  PROVE  /\ [org EXCEPT !.refuseDataAccess = v] \in Row
         /\ [org EXCEPT !.refuseDataUpload = v] \in Row
         /\ [org EXCEPT !.billing = v] \in Row
         /\ [org EXCEPT !.zuora = TRUE] \in Row
         /\ [org EXCEPT !.onboarded = TRUE] \in Row
         /\ [org EXCEPT !.pendingNotified = TRUE] \in Row
         /\ [org EXCEPT !.expiredNotified = TRUE] \in Row
         /\ [org EXCEPT !.cleanup = TRUE] \in Row
         /\ [org EXCEPT !.deleted = TRUE] \in Row
         /\ \A t \in 0 .. MaxDay : [org EXCEPT !.trialEnds = t, !.expiredNotified = FALSE] \in Row
BY ZenonT(30) DEF Row

\* A call that fails is counted.
LEMMA FailsType ==
  ASSUME TypeOK, Fails
  PROVE  failures' \in 0 .. MaxEvents /\ failures' # 0 /\ org' = org
BY OrganizationAssumption DEF TypeOK, Fails

\* A request is counted.
LEMMA RequestType ==
  ASSUME TypeOK, Request
  PROVE  requests' \in 0 .. MaxEvents /\ requests' = requests + 1 /\ ~ org.deleted
BY OrganizationAssumption DEF TypeOK, Request

\* Whether the organization should be refused anything is a truth value.
LEMMA ShouldType ==
  ASSUME NEW o \in Row, NEW t \in 0 .. MaxDay
  PROVE  /\ ShouldRefuseDataAccess(o, t) \in BOOLEAN
         /\ ShouldRefuseDataUpload(o, t) \in BOOLEAN
BY Zenon DEF Row, ShouldRefuseDataAccess, ShouldRefuseDataUpload, isDelinquent, TrialExpiredBy

\* The job goes on with a step of its own.
LEMMA OnwardType ==
  ASSUME NEW j \in JobType
  PROVE  Onward(j) \in JobType
<1>1. Idle \in JobType
  BY OrganizationAssumption DEF Idle, JobType, Steps
<1>2. /\ [j EXCEPT !.pc = "access"] \in JobType
      /\ [j EXCEPT !.pc = "upload"] \in JobType
      /\ [j EXCEPT !.pc = "refused"] \in JobType
      /\ [j EXCEPT !.pc = "expired"] \in JobType
  BY DEF JobType, Steps
<1> QED
  BY Zenon, <1>1, <1>2 DEF Onward

\* What the job decides to refuse should be refused.
LEMMA DecisionsFacts ==
  ASSUME NEW o \in Row, NEW t \in 0 .. MaxDay
  PROVE  /\ Decisions(o, t) \in JobType
         /\ Decisions(o, t).at = 0
         /\ Decisions(o, t).access => ShouldRefuseDataAccess(o, t)
         /\ Decisions(o, t).upload => ~ o.refuseDataUpload /\ ShouldRefuseDataUpload(o, t)
         /\ Decisions(o, t).tell => Decisions(o, t).upload
         /\ Decisions(o, t).expired => ~ o.expiredNotified
<1>1. ShouldRefuseDataAccess(o, t) \in BOOLEAN /\ ShouldRefuseDataUpload(o, t) \in BOOLEAN
  BY Zenon, ShouldType
<1>2. \A a, u, n, e \in BOOLEAN :
        [Idle EXCEPT !.access = a, !.upload = u, !.tell = n, !.expired = e] \in JobType
  <2>1. Idle \in JobType
    BY OrganizationAssumption DEF Idle, JobType, Steps
  <2> QED
    BY Zenon, <2>1 DEF JobType
<1> QED
  BY ZenonT(30), <1>1, <1>2 DEF Decisions, Idle, Row

\* A statement on a row that is live, or its failure, leaves a row.
LEMMA DatabaseType ==
  ASSUME TypeOK, NEW row \in Row, Stores(row) \/ StoresIfLive(row) \/ Fails
  PROVE  org' \in Row /\ failures' \in 0 .. MaxEvents
<1>1. CASE Fails
  BY Zenon, <1>1, FailsType DEF TypeOK
<1>2. CASE Stores(row) \/ StoresIfLive(row)
  BY Zenon, <1>2 DEF Stores, StoresIfLive, TypeOK
<1> QED
  BY Zenon, <1>1, <1>2

\* Mailing the members leaves a row and counts the mail.
LEMMA NotifyType ==
  ASSUME TypeOK, NEW kind \in Mails, NEW row \in Row, Notify(kind, row)
  PROVE  org' \in Row /\ failures' \in 0 .. MaxEvents /\ mails' \in [Mails -> Nat]
<1>1. mails \in [Mails -> Nat]
  BY Zenon DEF TypeOK, EnforcerTypeOK
<1>2. mails' = mails \/ mails' = [mails EXCEPT ![kind] = @ + 1]
  BY Zenon DEF Notify
<1>3. mails' \in [Mails -> Nat]
  BY <1>1, <1>2
<1>4. Stores(row) \/ Fails \/ UNCHANGED database
  BY Zenon DEF Notify
<1> QED
  BY Zenon, <1>3, <1>4, DatabaseType DEF database, TypeOK

\* The steps of the enforcer keep the types.
LEMMA EnforceType ==
  ASSUME TypeOK, Enforce
  PROVE  org' \in Row /\ failures' \in 0 .. MaxEvents /\ EnforcerTypeOK'
<1>1. /\ enforcer \in JobType /\ mails \in [Mails -> Nat] /\ org \in Row
      /\ failures \in 0 .. MaxEvents /\ now \in 0 .. MaxDay
  BY Zenon DEF TypeOK, EnforcerTypeOK, JobType
<1>2. Idle \in JobType
  BY OrganizationAssumption DEF Idle, JobType, Steps
<1>3. \A pc \in Steps : [enforcer EXCEPT !.pc = pc] \in JobType
                        /\ [Idle EXCEPT !.at = now, !.pc = pc] \in JobType
  BY Zenon, <1>1, <1>2 DEF JobType
<1>4. "pending" \in Steps /\ "delinquent" \in Steps
  BY Zenon DEF Steps
<1> SUFFICES org' \in Row /\ failures' \in 0 .. MaxEvents
             /\ enforcer' \in JobType /\ mails' \in [Mails -> Nat]
  BY Zenon DEF EnforcerTypeOK, JobType
<1>5. CASE NotifyTrialOrganizations
  BY Zenon, <1>1, <1>3, <1>4, <1>5 DEF NotifyTrialOrganizations, database
<1>6. CASE NotifyTrialOrganizationsFails
  BY Zenon, <1>1, <1>3, <1>4, <1>6, FailsType DEF NotifyTrialOrganizationsFails
<1>7. CASE NotifyTrialPendingExpiry
  <2>1. "pending" \in Mails /\ [org EXCEPT !.pendingNotified = TRUE] \in Row
    BY Zenon, <1>1, RowType DEF Mails
  <2> QED
    BY Zenon, <1>3, <1>4, <1>7, <2>1, NotifyType DEF NotifyTrialPendingExpiry
<1>8. CASE ProcessDelinquentOrganizations
  <2>1. \A t \in 0 .. MaxDay : Decisions(org, t) \in JobType
    BY Zenon, <1>1, DecisionsFacts
  <2>2. enforcer.at \in 0 .. MaxDay
    BY Zenon, <1>1 DEF JobType
  <2>3. enforcer' \in JobType
    BY Zenon, <1>1, <1>2, <1>8, <2>1, <2>2, OnwardType DEF ProcessDelinquentOrganizations
  <2> QED
    BY Zenon, <1>1, <1>8, <2>3 DEF ProcessDelinquentOrganizations, database
<1>9. CASE ProcessDelinquentOrganizationsFails
  BY Zenon, <1>1, <1>2, <1>9, FailsType DEF ProcessDelinquentOrganizationsFails
<1>10. /\ Onward([enforcer EXCEPT !.access = FALSE]) \in JobType
       /\ Onward([enforcer EXCEPT !.upload = FALSE]) \in JobType
       /\ Onward([enforcer EXCEPT !.tell = FALSE]) \in JobType
  <2>1. /\ [enforcer EXCEPT !.access = FALSE] \in JobType
        /\ [enforcer EXCEPT !.upload = FALSE] \in JobType
        /\ [enforcer EXCEPT !.tell = FALSE] \in JobType
    BY Zenon, <1>1 DEF JobType
  <2> QED
    BY Zenon, <2>1, OnwardType
<1>11. CASE refuseDataAccess
  <2>1. [org EXCEPT !.refuseDataAccess = TRUE] \in Row
    BY Zenon, <1>1, RowType
  <2> QED
    BY Zenon, <1>1, <1>10, <1>11, <2>1, DatabaseType
      DEF refuseDataAccess, SetOrganizationRefuseDataAccess
<1>12. CASE refuseDataUpload
  <2>1. [org EXCEPT !.refuseDataUpload = TRUE] \in Row
    BY Zenon, <1>1, RowType
  <2> QED
    BY Zenon, <1>1, <1>10, <1>12, <2>1, DatabaseType
      DEF refuseDataUpload, SetOrganizationRefuseDataUpload
<1>13. CASE NotifyRefuseDataUpload
  <2>1. "refused" \in Mails
    BY Zenon DEF Mails
  <2> QED
    BY Zenon, <1>1, <1>10, <1>13, <2>1, NotifyType DEF NotifyRefuseDataUpload
<1>14. CASE NotifyTrialExpired
  <2>1. "expired" \in Mails /\ [org EXCEPT !.expiredNotified = TRUE] \in Row
    BY Zenon, <1>1, RowType DEF Mails
  <2> QED
    BY Zenon, <1>2, <1>14, <2>1, NotifyType DEF NotifyTrialExpired
<1> QED
  BY Zenon, <1>5, <1>6, <1>7, <1>8, <1>9, <1>11, <1>12, <1>13, <1>14 DEF Enforce

\* The steps of the cleaner keep the types.
LEMMA CleanType ==
  ASSUME TypeOK, Clean
  PROVE  org' \in Row /\ failures' \in 0 .. MaxEvents /\ CleanerTypeOK'
<1>1. /\ cleaner \in CleanupType /\ data \subseteq Urls /\ org \in Row
      /\ failures \in 0 .. MaxEvents
  BY Zenon DEF TypeOK, CleanerTypeOK, CleanupType
<1> SUFFICES org' \in Row /\ failures' \in 0 .. MaxEvents
             /\ cleaner' \in CleanupType /\ data' \subseteq Urls
  BY Zenon DEF CleanerTypeOK, CleanupType
<1>2. CASE findAndClean
  <2>1. [busy |-> TRUE, todo |-> Urls, done |-> TRUE] \in CleanupType
    BY Zenon DEF CleanupType
  <2> QED
    BY Zenon, <1>1, <1>2, <2>1 DEF findAndClean, database
<1>3. CASE callEndpoint
  <2>1. \A u \in cleaner.todo :
          /\ [cleaner EXCEPT !.todo = @ \ {u}] \in CleanupType
          /\ [cleaner EXCEPT !.todo = @ \ {u}, !.done = FALSE] \in CleanupType
    BY Zenon, <1>1 DEF CleanupType
  <2>2. UNCHANGED database \/ Fails
    BY Zenon, <1>3 DEF callEndpoint
  <2> QED
    BY Zenon, <1>1, <1>3, <2>1, <2>2, FailsType DEF callEndpoint, database
<1>4. CASE clean
  <2>1. Asleep \in CleanupType
    BY Zenon DEF Asleep, CleanupType
  <2>2. [org EXCEPT !.cleanup = TRUE] \in Row
    BY Zenon, <1>1, RowType
  <2>3. Stores([org EXCEPT !.cleanup = TRUE]) \/ Fails \/ UNCHANGED database
    BY Zenon, <1>4 DEF clean, SetOrganizationCleanup
  <2>4. org' \in Row /\ failures' \in 0 .. MaxEvents
    BY Zenon, <1>1, <2>2, <2>3, DatabaseType DEF database
  <2> QED
    BY Zenon, <1>1, <1>4, <2>1, <2>4 DEF clean
<1> QED
  BY Zenon, <1>2, <1>3, <1>4 DEF Clean

\* The steps of staff who extend the trial keep the types.
LEMMA StaffStepType ==
  ASSUME TypeOK,
         adminTrial \/ setOrgFeatureFlags \/ EnableBilling \/ extendOrgTrialPeriod
           \/ AllowAccess \/ AllowUpload
  PROVE  org' \in Row /\ failures' \in 0 .. MaxEvents /\ staff' \in StaffType
         /\ stale' \in BOOLEAN /\ requests' \in 0 .. MaxEvents
<1>1. /\ staff \in StaffType /\ org \in Row /\ failures \in 0 .. MaxEvents
      /\ now \in 0 .. MaxDay /\ stale \in BOOLEAN /\ requests \in 0 .. MaxEvents
      /\ staff.until \in 0 .. MaxDay
  BY Zenon DEF TypeOK, StaffType
<1>2. \A to \in {"idle", "trial", "access", "upload"} : [staff EXCEPT !.pc = to] \in StaffType
  BY Zenon, <1>1 DEF StaffType
<1>3. CASE adminTrial \/ setOrgFeatureFlags
  <2>1. requests' \in 0 .. MaxEvents
    BY Zenon, <1>3, RequestType DEF adminTrial, setOrgFeatureFlags
  <2>2. PICK t \in now + 1 .. MaxDay, to \in {"trial", "flags"} : staff' = [pc |-> to, until |-> t]
    BY Zenon, <1>3 DEF adminTrial, setOrgFeatureFlags
  <2>3. t \in 0 .. MaxDay
    BY <1>1, OrganizationAssumption
  <2>4. staff' \in StaffType
    BY Zenon, <2>2, <2>3 DEF StaffType
  <2> QED
    BY Zenon, <1>1, <1>3, <2>1, <2>4 DEF adminTrial, setOrgFeatureFlags, database
<1>4. CASE EnableBilling
  <2>1. [org EXCEPT !.billing = TRUE] \in Row
    BY Zenon, <1>1, RowType
  <2>2. Stores([org EXCEPT !.billing = TRUE]) \/ Fails
    BY Zenon, <1>4 DEF EnableBilling, SetFeatureFlags
  <2>3. stale' \in BOOLEAN
    BY Zenon, <1>1, <1>4 DEF EnableBilling, Changes
  <2> QED
    BY Zenon, <1>1, <1>2, <1>4, <2>1, <2>2, <2>3, DatabaseType DEF EnableBilling, StaffGoto
<1>5. CASE extendOrgTrialPeriod
  <2>1. [org EXCEPT !.trialEnds = staff.until, !.expiredNotified = FALSE] \in Row
    BY Zenon, <1>1, RowType
  <2>2. org' \in Row /\ failures' \in 0 .. MaxEvents
    BY Zenon, <1>1, <1>5, <2>1, DatabaseType DEF extendOrgTrialPeriod, database
  <2>3. stale' \in BOOLEAN
    BY Zenon, <1>1, <1>5 DEF extendOrgTrialPeriod, Changes
  <2> QED
    BY Zenon, <1>1, <1>2, <1>5, <2>2, <2>3 DEF extendOrgTrialPeriod, StaffGoto
<1>6. CASE AllowAccess
  <2>1. [org EXCEPT !.refuseDataAccess = FALSE] \in Row
    BY Zenon, <1>1, RowType
  <2> QED
    BY Zenon, <1>1, <1>2, <1>6, <2>1, DatabaseType
      DEF AllowAccess, SetOrganizationRefuseDataAccess, StaffGoto
<1>7. CASE AllowUpload
  <2>1. [org EXCEPT !.refuseDataUpload = FALSE] \in Row
    BY Zenon, <1>1, RowType
  <2> QED
    BY Zenon, <1>1, <1>2, <1>7, <2>1, DatabaseType
      DEF AllowUpload, SetOrganizationRefuseDataUpload, StaffGoto
<1> QED
  BY Zenon, <1>3, <1>4, <1>5, <1>6, <1>7

\* The steps of markOrganizationDutiful keep the types.
LEMMA PaymentStepType ==
  ASSUME TypeOK, CreateAccount \/ markOrganizationDutiful
  PROVE  org' \in Row /\ failures' \in 0 .. MaxEvents
         /\ payment' \in {"idle", "zuora", "access", "upload"}
         /\ stale' \in BOOLEAN /\ requests' \in 0 .. MaxEvents
<1>1. /\ org \in Row /\ failures \in 0 .. MaxEvents
      /\ stale \in BOOLEAN /\ requests \in 0 .. MaxEvents
  BY Zenon DEF TypeOK
<1>2. CASE CreateAccount
  BY Zenon, <1>1, <1>2, RequestType DEF CreateAccount, database
<1>3. CASE markOrganizationDutiful
  <2>1. /\ [org EXCEPT !.refuseDataAccess = FALSE] \in Row
        /\ [org EXCEPT !.refuseDataUpload = FALSE] \in Row
        /\ [org EXCEPT !.zuora = TRUE] \in Row
    BY Zenon, <1>1, RowType
  <2>2. org' \in Row /\ failures' \in 0 .. MaxEvents
    BY Zenon, <1>3, <2>1, DatabaseType DEF markOrganizationDutiful, SetOrganizationZuoraAccount,
      SetOrganizationRefuseDataAccess, SetOrganizationRefuseDataUpload
  <2>3. stale' \in BOOLEAN
    BY Zenon, <1>1, <1>3 DEF markOrganizationDutiful, Changes
  <2> QED
    BY Zenon, <1>1, <1>3, <2>2, <2>3 DEF markOrganizationDutiful
<1> QED
  BY Zenon, <1>2, <1>3

\* The steps of a move keep the types.
LEMMA MoverStepType ==
  ASSUME TypeOK, MoveOrg \/ RefreshAccess \/ RefreshUpload \/ RefreshFlags
  PROVE  org' \in Row /\ failures' \in 0 .. MaxEvents
         /\ external' \in BOOLEAN /\ mover' \in MoverType
         /\ stale' \in BOOLEAN /\ requests' \in 0 .. MaxEvents
<1>1. /\ org \in Row /\ failures \in 0 .. MaxEvents /\ mover \in MoverType /\ external \in BOOLEAN
      /\ stale \in BOOLEAN /\ requests \in 0 .. MaxEvents /\ now \in 0 .. MaxDay
  BY Zenon DEF TypeOK, MoverType
<1>2. /\ \A v \in BOOLEAN : /\ [org EXCEPT !.refuseDataAccess = v] \in Row
                            /\ [org EXCEPT !.refuseDataUpload = v] \in Row
                            /\ [org EXCEPT !.billing = v] \in Row
      /\ (~ external) \in BOOLEAN
  BY Zenon, <1>1, RowType
<1>3. \A to \in {"idle", "access", "upload", "flags"} :
        [mover EXCEPT !.pc = to] \in MoverType /\ Rest(to) \in MoverType
  BY Zenon, <1>1 DEF MoverType, Rest
<1>4. CASE MoveOrg
  <2>1. \A to \in {"flags", "access"}, a, u \in BOOLEAN :
          [pc |-> to, access |-> a, upload |-> u] \in MoverType
    BY Zenon DEF MoverType
  <2>2. /\ org.refuseDataAccess \in BOOLEAN /\ org.refuseDataUpload \in BOOLEAN
        /\ ShouldRefuseDataAccess([org EXCEPT !.billing = TRUE], now) \in BOOLEAN
        /\ ShouldRefuseDataUpload([org EXCEPT !.billing = TRUE], now) \in BOOLEAN
    BY Zenon, <1>1, <1>2, ShouldType DEF Row
  <2>3. mover' \in MoverType /\ external' \in BOOLEAN
    BY Zenon, <1>1, <1>4, <2>1, <2>2 DEF MoveOrg
  <2> QED
    BY Zenon, <1>1, <1>4, <2>3, RequestType DEF MoveOrg, database
<1>5. CASE RefreshAccess
  BY Zenon, <1>1, <1>2, <1>3, <1>5, DatabaseType
    DEF RefreshAccess, SetOrganizationRefuseDataAccess, database
<1>6. CASE RefreshUpload
  BY Zenon, <1>1, <1>2, <1>3, <1>6, DatabaseType
    DEF RefreshUpload, SetOrganizationRefuseDataUpload, database
<1>7. CASE RefreshFlags
  <2>1. stale' \in BOOLEAN
    BY Zenon, <1>1, <1>7 DEF RefreshFlags
  <2>2. org' \in Row /\ failures' \in 0 .. MaxEvents
    BY Zenon, <1>2, <1>7, DatabaseType DEF RefreshFlags, SetFeatureFlags
  <2> QED
    BY Zenon, <1>1, <1>3, <1>7, <2>1, <2>2 DEF RefreshFlags
<1> QED
  BY Zenon, <1>4, <1>5, <1>6, <1>7

\* The organization is new and nothing has happened.
LEMMA InitType == Init => TypeOK
<1> SUFFICES ASSUME Init PROVE TypeOK
  BY Zenon
<1>1. now \in 0 .. MaxDay /\ failures \in 0 .. MaxEvents /\ requests \in 0 .. MaxEvents
      /\ 0 \in 0 .. MaxDay
  BY OrganizationAssumption DEF Init
<1>2. org \in Row
  <2>1. PICK ends \in {0, 1}, billing \in BOOLEAN : org = NewRow(ends, billing)
    BY Zenon DEF Init
  <2>2. ends \in 0 .. MaxDay
    BY OrganizationAssumption
  <2> QED
    BY Zenon, <2>1, <2>2 DEF NewRow, Row
<1>3. EnforcerTypeOK
  <2>1. Idle \in JobType
    BY OrganizationAssumption DEF Idle, JobType, Steps
  <2> QED
    BY <2>1 DEF Init, EnforcerInit, EnforcerTypeOK, JobType
<1>4. CleanerTypeOK
  BY Zenon DEF Init, CleanerInit, CleanerTypeOK, Asleep
<1>5. external \in BOOLEAN /\ mover \in MoverType /\ staff \in StaffType
  BY Zenon, <1>1, <1>2 DEF Init, Row, MoverType, StaffType, Rest
<1> QED
  BY Zenon, <1>1, <1>2, <1>3, <1>4, <1>5 DEF Init, TypeOK, MoverType, StaffType

\* Every step keeps the types.
LEMMA NextType == TypeOK /\ [Next]_vars => TypeOK'
<1> SUFFICES ASSUME TypeOK, [Next]_vars PROVE TypeOK'
  BY Zenon
<1>1. CASE Tick /\ UNCHANGED <<enforcement, cleaning, handlers, cached, requests, history>>
  <2>1. now' \in 0 .. MaxDay
    BY <1>1, OrganizationAssumption DEF Tick, TypeOK
  <2>2. UNCHANGED <<org, failures, enforcer, mails, cleaner, data, staff, payment, external, mover,
                    cached, requests, stale, early, late>>
    BY Zenon, <1>1 DEF Tick, database, enforcement, cleaning, handlers, history
  <2> QED
    BY <2>1, <2>2 DEF TypeOK, EnforcerTypeOK, CleanerTypeOK
<1>2. CASE EnforceStep
  <2>1. org' \in Row /\ failures' \in 0 .. MaxEvents /\ EnforcerTypeOK'
    BY Zenon, <1>2, EnforceType DEF EnforceStep
  <2>2. stale' \in BOOLEAN
    BY Zenon, <1>2 DEF EnforceStep, TypeOK
  <2> QED
    BY <1>2, <2>1, <2>2 DEF EnforceStep, TypeOK, cleaning, handlers, CleanerTypeOK
<1>3. CASE CleanStep
  <2>1. org' \in Row /\ failures' \in 0 .. MaxEvents /\ CleanerTypeOK'
    BY Zenon, <1>3, CleanType DEF CleanStep
  <2>2. early' \in BOOLEAN
    BY Zenon, <1>3 DEF CleanStep, TypeOK
  <2> QED
    BY <1>3, <2>1, <2>2 DEF CleanStep, TypeOK, enforcement, handlers, EnforcerTypeOK
<1>4. CASE adminTrial \/ setOrgFeatureFlags \/ EnableBilling \/ extendOrgTrialPeriod
             \/ AllowAccess \/ AllowUpload
  <2>1. StaffOnly
    BY Zenon, <1>4 DEF adminTrial, setOrgFeatureFlags, EnableBilling, extendOrgTrialPeriod,
      AllowAccess, AllowUpload
  <2> QED
    BY <1>4, <2>1, StaffStepType DEF StaffOnly, TypeOK, StaffType, enforcement, cleaning,
      EnforcerTypeOK, CleanerTypeOK
<1>5. CASE CreateAccount \/ markOrganizationDutiful
  <2>1. PaymentOnly
    BY Zenon, <1>5 DEF CreateAccount, markOrganizationDutiful
  <2> QED
    BY <1>5, <2>1, PaymentStepType DEF PaymentOnly, TypeOK, enforcement, cleaning,
      EnforcerTypeOK, CleanerTypeOK
<1>6. CASE MoveOrg \/ RefreshAccess \/ RefreshUpload \/ RefreshFlags
  <2>1. MoverOnly
    BY Zenon, <1>6 DEF MoveOrg, RefreshAccess, RefreshUpload, RefreshFlags
  <2> QED
    BY <1>6, <2>1, MoverStepType DEF MoverOnly, TypeOK, MoverType, enforcement, cleaning,
      EnforcerTypeOK, CleanerTypeOK
<1>7. CASE deleteOrg
  <2>1. [org EXCEPT !.deleted = TRUE] \in Row
    BY Zenon, RowType DEF TypeOK
  <2>2. org' \in Row /\ failures' \in 0 .. MaxEvents /\ requests' \in 0 .. MaxEvents
    BY Zenon, <1>7, <2>1, DatabaseType, RequestType DEF deleteOrg, DeleteOrganization
  <2> QED
    BY <1>7, <2>2 DEF deleteOrg, TypeOK, enforcement, cleaning, handlers, history,
      EnforcerTypeOK, CleanerTypeOK
<1>8. CASE LookupUsingToken
  <2>1. late' \in BOOLEAN /\ data' \subseteq Urls
    BY Zenon, <1>8 DEF LookupUsingToken, TypeOK, CleanerTypeOK
  <2> QED
    BY <1>8, <2>1 DEF LookupUsingToken, TypeOK, database, enforcement, handlers,
      EnforcerTypeOK, CleanerTypeOK
<1>9. CASE Expiration \/ UNCHANGED vars
  BY ZenonT(60), <1>9 DEF Expiration, vars, TypeOK, database, enforcement, cleaning, handlers, history,
    EnforcerTypeOK, CleanerTypeOK
<1>10. CASE updateOrgFirstSeen
  <2>1. [org EXCEPT !.onboarded = TRUE] \in Row
    BY Zenon, RowType DEF TypeOK
  <2>2. org' \in Row /\ failures' \in 0 .. MaxEvents
    BY Zenon, <1>10, <2>1, DatabaseType
      DEF updateOrgFirstSeen, SetOrganizationFirstSeenConnectedAt
  <2> QED
    BY <1>10, <2>2 DEF updateOrgFirstSeen, TypeOK, enforcement, cleaning, handlers,
      history, EnforcerTypeOK, CleanerTypeOK
<1> QED
  BY Zenon, <1>1, <1>2, <1>3, <1>4, <1>5, <1>6, <1>7, <1>8, <1>9, <1>10 DEF Next

\* Every variable keeps its type, for any number of days, requests and services.
THEOREM TypeCorrect == Spec => []TypeOK
BY InitType, NextType, PTL DEF Spec

-----------------------------------------------------------------------------
(* Staff.                                                                  *)

\* A change of what the organization owes is marked if a job has read the row.
LEMMA StaleIsMarked ==
  ASSUME TypeOK, Changes
  PROVE  stale' <=> stale \/ enforcer.pc \in {"access", "upload"} \/ mover.pc # "idle"
BY Zenon DEF Changes, TypeOK

\* A call of a handler fails: of the mails and of the flags nothing is promised
\* any more, and neither the cleaner nor the enforcer is concerned.
LEMMA Inv_Failed ==
  ASSUME IndInv, Fails, UNCHANGED <<now, enforcer, cleaner, data, early, late>>
  PROVE  CleanInv' /\ JobInv' /\ MailInv' /\ RefusalInv'
<1>1. failures' # 0 /\ org' = org
  BY Zenon, FailsType DEF IndInv
<1> QED
  BY <1>1 DEF IndInv, CleanInv, JobInv, At, MailInv, RefusalInv, Undisturbed

\* A request to extend the trial is accepted.
LEMMA Inv_StaffBegins ==
  ASSUME IndInv, adminTrial \/ setOrgFeatureFlags
  PROVE  CleanInv' /\ JobInv' /\ MailInv' /\ RefusalInv'
<1>1. /\ staff.pc = "idle" /\ requests' = requests + 1
      /\ UNCHANGED <<org, failures, stale, now, enforcer, mails, cleaner, data, payment, external,
                     mover, cached, early, late>>
  BY Zenon DEF adminTrial, setOrgFeatureFlags, Request, database, StaffOnly, enforcement, cleaning
<1>2. staff'.pc \in {"trial", "flags"}
  BY DEF adminTrial, setOrgFeatureFlags
<1>3. CleanInv'
  BY Zenon, <1>1 DEF IndInv, CleanInv
<1>4. JobInv'
  BY Zenon, <1>1 DEF IndInv, JobInv, At
<1>5. MailInv'
  BY <1>1, <1>2 DEF IndInv, TypeOK, EnforcerTypeOK, Mails, MailInv, Clearing, One
<1>6. RefusalInv'
  BY <1>1, <1>2 DEF IndInv, RefusalInv, Undisturbed, JobSound, MoverSound, FlagsSound
<1> QED
  BY Zenon, <1>3, <1>4, <1>5, <1>6

\* Billing is enabled: what should be refused should be refused all the more.
LEMMA Inv_EnableBilling ==
  ASSUME IndInv, EnableBilling
  PROVE  CleanInv' /\ JobInv' /\ MailInv' /\ RefusalInv'
<1>1. /\ staff.pc = "flags"
      /\ UNCHANGED <<requests, now, enforcer, mails, cleaner, data, payment, external, mover, cached,
                     early, late>>
  BY Zenon DEF EnableBilling, StaffOnly, enforcement, cleaning
<1>2. staff'.pc \in {"trial", "idle"}
  BY Zenon DEF EnableBilling, StaffGoto, IndInv, TypeOK
<1>3. CASE Fails
  BY Zenon, <1>1, <1>3, Inv_Failed
<1>4. CASE SetFeatureFlags(TRUE) /\ Changes
  <2>1. /\ org' = [org EXCEPT !.billing = TRUE] /\ failures' = failures
        /\ stale' = (stale \/ enforcer.pc \in {"access", "upload"} \/ mover.pc # "idle")
    BY Zenon, <1>4 DEF SetFeatureFlags, Stores, Changes
  <2>2. org \in Row
    BY Zenon DEF IndInv, TypeOK
  <2>3. CleanInv'
    BY <1>1, <2>1, <2>2 DEF IndInv, CleanInv, Row
  <2>4. JobInv'
    BY <1>1, <2>1, <2>2 DEF IndInv, JobInv, At, Row
  <2>5. MailInv'
    BY <1>1, <1>2, <2>1, <2>2 DEF IndInv, TypeOK, EnforcerTypeOK, Mails, MailInv, Clearing, One, Row
  <2>6. RefusalInv'
    BY Zenon, <1>1, <1>2, <2>1, <2>2 DEF IndInv, RefusalInv, Undisturbed, JobSound, MoverSound, FlagsSound,
      ShouldRefuseDataAccess, ShouldRefuseDataUpload, isDelinquent, TrialExpiredBy, JobInv, Row
  <2> QED
    BY Zenon, <2>3, <2>4, <2>5, <2>6
<1> QED
  BY Zenon, <1>3, <1>4 DEF EnableBilling

\* The trial is extended: both flags are about to be cleared.
LEMMA Inv_extendOrgTrialPeriod ==
  ASSUME IndInv, extendOrgTrialPeriod
  PROVE  CleanInv' /\ JobInv' /\ MailInv' /\ RefusalInv'
<1>1. /\ staff.pc = "trial"
      /\ UNCHANGED <<requests, now, enforcer, mails, cleaner, data, payment, external, mover, cached,
                     early, late>>
  BY Zenon DEF extendOrgTrialPeriod, StaffOnly, enforcement, cleaning
<1>2. CASE Fails
  BY Zenon, <1>1, <1>2, Inv_Failed
<1>3. CASE org.deleted /\ UNCHANGED <<database, stale>> /\ StaffGoto("idle")
  <2>1. staff'.pc = "idle" /\ UNCHANGED <<org, failures, stale>>
    BY <1>3 DEF StaffGoto, database, IndInv, TypeOK
  <2>2. CleanInv' /\ JobInv'
    BY Zenon, <1>1, <2>1 DEF IndInv, CleanInv, JobInv, At
  <2>3. MailInv'
    BY <1>1, <1>3, <2>1 DEF IndInv, TypeOK, EnforcerTypeOK, Mails, MailInv, One
  <2>4. RefusalInv'
    BY Zenon, <1>3, <2>1 DEF RefusalInv, Undisturbed
  <2> QED
    BY Zenon, <2>2, <2>3, <2>4
<1>4. CASE /\ ~ org.deleted
           /\ Stores([org EXCEPT !.trialEnds = staff.until, !.expiredNotified = FALSE])
           /\ Changes
           /\ StaffGoto("access")
  <2>1. /\ org' = [org EXCEPT !.trialEnds = staff.until, !.expiredNotified = FALSE]
        /\ failures' = failures /\ ~ org.deleted
        /\ stale' = (stale \/ enforcer.pc \in {"access", "upload"} \/ mover.pc # "idle")
    BY Zenon, <1>4 DEF Stores, Changes
  <2>2. org \in Row /\ staff'.pc = "access" /\ staff.until \in Nat
    BY <1>4, OrganizationAssumption DEF IndInv, TypeOK, StaffGoto
  <2>3. CleanInv'
    BY <1>1, <2>1, <2>2 DEF IndInv, CleanInv, Row
  <2>4. JobInv'
    BY <1>1, <2>1, <2>2 DEF IndInv, JobInv, At, Row
  <2>5. MailInv'
    BY <1>1, <2>1, <2>2 DEF IndInv, TypeOK, EnforcerTypeOK, Mails, MailInv, Clearing, One, Row
  <2>6. RefusalInv'
    BY Zenon, <1>1, <2>1, <2>2 DEF IndInv, RefusalInv, Undisturbed, JobSound, MoverSound, FlagsSound,
      JobInv, At, Row
  <2> QED
    BY Zenon, <2>3, <2>4, <2>5, <2>6
<1> QED
  BY Zenon, <1>2, <1>3, <1>4 DEF extendOrgTrialPeriod

\* Access is allowed again.
LEMMA Inv_AllowAccess ==
  ASSUME IndInv, AllowAccess
  PROVE  CleanInv' /\ JobInv' /\ MailInv' /\ RefusalInv'
<1>1. /\ staff.pc = "access"
      /\ UNCHANGED <<stale, requests, now, enforcer, mails, cleaner, data, payment, external, mover,
                     cached, early, late>>
  BY Zenon DEF AllowAccess, StaffOnly, enforcement, cleaning
<1>2. CASE Fails
  BY Zenon, <1>1, <1>2, Inv_Failed
<1>3. CASE SetOrganizationRefuseDataAccess(FALSE) /\ StaffGoto("upload")
  <2>1. /\ org' = IF org.deleted THEN org ELSE [org EXCEPT !.refuseDataAccess = FALSE]
        /\ failures' = failures
    BY Zenon, <1>3 DEF SetOrganizationRefuseDataAccess, StoresIfLive, Stores
  <2>2. org \in Row /\ staff'.pc = "upload"
    BY <1>3 DEF IndInv, TypeOK, StaffGoto
  <2>3. CleanInv' /\ JobInv'
    BY <1>1, <2>1, <2>2 DEF IndInv, CleanInv, JobInv, At, Row
  <2>4. MailInv'
    BY <1>1, <2>1, <2>2 DEF IndInv, TypeOK, EnforcerTypeOK, Mails, MailInv, Clearing, One, Row
  <2>5. RefusalInv'
    BY <1>1, <2>1, <2>2 DEF IndInv, RefusalInv, Undisturbed, JobSound, MoverSound, FlagsSound,
      ShouldRefuseDataAccess, ShouldRefuseDataUpload, isDelinquent, TrialExpiredBy, Billed, Row
  <2> QED
    BY Zenon, <2>3, <2>4, <2>5
<1> QED
  BY Zenon, <1>2, <1>3 DEF AllowAccess

\* Uploads are allowed again.
LEMMA Inv_AllowUpload ==
  ASSUME IndInv, AllowUpload
  PROVE  CleanInv' /\ JobInv' /\ MailInv' /\ RefusalInv'
<1>1. /\ staff.pc = "upload"
      /\ UNCHANGED <<stale, requests, now, enforcer, mails, cleaner, data, payment, external, mover,
                     cached, early, late>>
  BY Zenon DEF AllowUpload, StaffOnly, enforcement, cleaning
<1>2. CASE Fails
  BY Zenon, <1>1, <1>2, Inv_Failed
<1>3. CASE SetOrganizationRefuseDataUpload(FALSE) /\ StaffGoto("idle")
  <2>1. /\ org' = IF org.deleted THEN org ELSE [org EXCEPT !.refuseDataUpload = FALSE]
        /\ failures' = failures
    BY Zenon, <1>3 DEF SetOrganizationRefuseDataUpload, StoresIfLive, Stores
  <2>2. org \in Row /\ staff'.pc = "idle"
    BY <1>3 DEF IndInv, TypeOK, StaffGoto
  <2>3. CleanInv' /\ JobInv'
    BY <1>1, <2>1, <2>2 DEF IndInv, CleanInv, JobInv, At, Row
  <2>4. MailInv'
    BY <1>1, <2>1, <2>2 DEF IndInv, TypeOK, EnforcerTypeOK, Mails, MailInv, Clearing, One, Row
  <2>5. RefusalInv'
    BY <1>1, <2>1, <2>2 DEF IndInv, RefusalInv, Undisturbed, JobSound, MoverSound, FlagsSound,
      ShouldRefuseDataAccess, ShouldRefuseDataUpload, isDelinquent, TrialExpiredBy, Billed, Row
  <2> QED
    BY Zenon, <2>3, <2>4, <2>5
<1> QED
  BY Zenon, <1>2, <1>3 DEF AllowUpload

-----------------------------------------------------------------------------
(* A billing account.                                                      *)

\* A request to create a billing account is accepted.
LEMMA Inv_CreateAccount ==
  ASSUME IndInv, CreateAccount
  PROVE  CleanInv' /\ JobInv' /\ MailInv' /\ RefusalInv'
<1>1. /\ payment = "idle" /\ payment' = "zuora" /\ requests' = requests + 1
      /\ UNCHANGED <<org, failures, stale, now, enforcer, mails, cleaner, data, staff, external,
                     mover, cached, early, late>>
  BY Zenon DEF CreateAccount, Request, database, PaymentOnly, enforcement, cleaning
<1>2. CleanInv' /\ JobInv'
  BY Zenon, <1>1 DEF IndInv, CleanInv, JobInv, At
<1>3. MailInv'
  BY <1>1 DEF IndInv, TypeOK, EnforcerTypeOK, Mails, MailInv, Clearing, One
<1>4. RefusalInv'
  BY <1>1 DEF IndInv, RefusalInv, Undisturbed, JobSound, MoverSound, FlagsSound
<1> QED
  BY Zenon, <1>2, <1>3, <1>4

\* Whoever has an account need not fear the flags: they are cleared after it is
\* recorded.
LEMMA Inv_markOrganizationDutiful ==
  ASSUME IndInv, markOrganizationDutiful
  PROVE  CleanInv' /\ JobInv' /\ MailInv' /\ RefusalInv'
<1>1. UNCHANGED <<requests, now, enforcer, mails, cleaner, data, staff, external, mover, cached,
                  early, late>>
  BY Zenon DEF markOrganizationDutiful, PaymentOnly, enforcement, cleaning
<1>2. org \in Row
  BY Zenon DEF IndInv, TypeOK
<1>3. CASE Fails
  BY Zenon, <1>1, <1>3, Inv_Failed
<1>4. CASE payment = "zuora" /\ payment' = "access" /\ SetOrganizationZuoraAccount
  <2>1. /\ org' = IF org.deleted THEN org ELSE [org EXCEPT !.zuora = TRUE]
        /\ failures' = failures
        /\ org'.zuora # org.zuora =>
             (stale' <=> stale \/ enforcer.pc \in {"access", "upload"} \/ mover.pc # "idle")
        /\ org'.zuora = org.zuora => stale' = stale
    BY Zenon, <1>4, StaleIsMarked DEF markOrganizationDutiful, SetOrganizationZuoraAccount,
      StoresIfLive, Stores, IndInv
  <2>2. CleanInv' /\ JobInv'
    BY <1>1, <1>2, <2>1 DEF IndInv, CleanInv, JobInv, At, Row
  <2>3. MailInv'
    BY <1>1, <1>2, <1>4, <2>1 DEF IndInv, TypeOK, EnforcerTypeOK, Mails, MailInv, Clearing, One, Row
  <2>4. RefusalInv'
    <3> SUFFICES ASSUME Undisturbed' PROVE JobSound' /\ MoverSound' /\ FlagsSound'
      BY Zenon DEF RefusalInv
    <3>0. ~ org.deleted /\ ~ stale /\ failures = 0
      <4>1. ~ org'.deleted /\ ~ stale' /\ failures' = 0
        BY Zenon DEF Undisturbed
      <4>2. ~ org.deleted
        BY Zenon, <2>1, <4>1
      <4>3. ~ stale
        BY Zenon, <2>1, <4>1
      <4>4. failures = 0
        BY Zenon, <2>1, <4>1
      <4> QED
        BY Zenon, <4>2, <4>3, <4>4
    <3>1. org' = [org EXCEPT !.zuora = TRUE] /\ org'.zuora /\ Undisturbed
      BY <1>2, <2>1, <3>0 DEF Undisturbed, Row
    <3>2. JobSound /\ MoverSound /\ FlagsSound
      BY Zenon, <3>1 DEF IndInv, RefusalInv
    <3>3. FlagsSound'
      BY Zenon, <1>4 DEF FlagsSound
    <3>4. CASE org.zuora
      <4>1. org' = org
        BY <1>2, <3>1, <3>4 DEF Row
      <4> QED
        BY Zenon, <1>1, <3>2, <3>3, <4>1 DEF JobSound, MoverSound
    <3>5. CASE ~ org.zuora
      <4>1. enforcer.pc \notin {"access", "upload"} /\ mover.pc = "idle"
        BY Zenon, <2>1, <3>1, <3>5 DEF Undisturbed
      <4>2. ~ enforcer.access /\ ~ enforcer.upload
        BY Zenon, <4>1 DEF IndInv, JobInv, At
      <4> QED
        BY <1>1, <3>3, <4>1, <4>2 DEF JobSound, MoverSound
    <3> QED
      BY Zenon, <3>4, <3>5
  <2> QED
    BY Zenon, <2>2, <2>3, <2>4
<1>5. CASE payment = "access" /\ payment' = "upload" /\ SetOrganizationRefuseDataAccess(FALSE)
  <2>1. /\ org' = IF org.deleted THEN org ELSE [org EXCEPT !.refuseDataAccess = FALSE]
        /\ failures' = failures
    BY Zenon, <1>5 DEF SetOrganizationRefuseDataAccess, StoresIfLive, Stores
  <2>2. stale' = stale
    BY <1>2, <2>1 DEF markOrganizationDutiful, Row
  <2>3. CleanInv' /\ JobInv'
    BY <1>1, <1>2, <2>1 DEF IndInv, CleanInv, JobInv, At, Row
  <2>4. MailInv'
    BY <1>1, <1>2, <1>5, <2>1 DEF IndInv, TypeOK, EnforcerTypeOK, Mails, MailInv, Clearing, One, Row
  <2>5. RefusalInv'
    BY <1>1, <1>2, <1>5, <2>1, <2>2 DEF IndInv, RefusalInv, Undisturbed, JobSound, MoverSound,
      FlagsSound, ShouldRefuseDataAccess, ShouldRefuseDataUpload, isDelinquent, TrialExpiredBy,
      Billed, Row
  <2> QED
    BY Zenon, <2>3, <2>4, <2>5
<1>6. CASE payment = "upload" /\ payment' = "idle" /\ SetOrganizationRefuseDataUpload(FALSE)
  <2>1. /\ org' = IF org.deleted THEN org ELSE [org EXCEPT !.refuseDataUpload = FALSE]
        /\ failures' = failures
    BY Zenon, <1>6 DEF SetOrganizationRefuseDataUpload, StoresIfLive, Stores
  <2>2. stale' = stale
    BY <1>2, <2>1 DEF markOrganizationDutiful, Row
  <2>3. CleanInv' /\ JobInv'
    BY <1>1, <1>2, <2>1 DEF IndInv, CleanInv, JobInv, At, Row
  <2>4. MailInv'
    BY <1>1, <1>2, <1>6, <2>1 DEF IndInv, TypeOK, EnforcerTypeOK, Mails, MailInv, Clearing, One, Row
  <2>5. RefusalInv'
    BY <1>1, <1>2, <1>6, <2>1, <2>2 DEF IndInv, RefusalInv, Undisturbed, JobSound, MoverSound,
      FlagsSound, ShouldRefuseDataAccess, ShouldRefuseDataUpload, isDelinquent, TrialExpiredBy,
      Billed, Row
  <2> QED
    BY Zenon, <2>3, <2>4, <2>5
<1> QED
  BY Zenon, <1>3, <1>4, <1>5, <1>6 DEF markOrganizationDutiful

-----------------------------------------------------------------------------
(* A move to another team.                                                 *)

\* A request to move the organization is accepted: what the move is to do is
\* decided on the row as it is.
LEMMA Inv_MoveOrg ==
  ASSUME IndInv, MoveOrg
  PROVE  CleanInv' /\ JobInv' /\ MailInv' /\ RefusalInv'
<1>1. /\ mover.pc = "idle" /\ requests' = requests + 1
      /\ UNCHANGED <<org, failures, stale, now, enforcer, mails, cleaner, data, staff, payment,
                     cached, early, late>>
  BY Zenon DEF MoveOrg, Request, database, MoverOnly, enforcement, cleaning
<1>2. CleanInv' /\ JobInv'
  BY Zenon, <1>1 DEF IndInv, CleanInv, JobInv, At
<1>3. CASE external
  <2>1. /\ mover'.pc = "flags" /\ ~ external'
        /\ mover'.access = ShouldRefuseDataAccess(Billed(org), now)
        /\ mover'.upload = ShouldRefuseDataUpload(Billed(org), now)
    BY Zenon, <1>3 DEF MoveOrg, Billed
  <2>2. MailInv'
    BY <1>1, <2>1 DEF IndInv, TypeOK, EnforcerTypeOK, Mails, MailInv, Clearing, One
  <2>3. RefusalInv'
    BY <1>1, <2>1 DEF IndInv, RefusalInv, Undisturbed, JobSound, MoverSound, FlagsSound
  <2> QED
    BY Zenon, <1>2, <2>2, <2>3
<1>4. CASE ~ external
  <2>1. /\ mover'.pc = "access" /\ external'
        /\ mover'.access = org.refuseDataAccess /\ mover'.upload = org.refuseDataUpload
    BY Zenon, <1>4 DEF MoveOrg
  <2>2. MailInv'
    BY <1>1, <2>1 DEF IndInv, TypeOK, EnforcerTypeOK, Mails, MailInv, Clearing, One
  <2>3. RefusalInv'
    BY <1>1, <2>1 DEF IndInv, RefusalInv, Undisturbed, JobSound, MoverSound, FlagsSound
  <2> QED
    BY Zenon, <1>2, <2>2, <2>3
<1> QED
  BY Zenon, <1>3, <1>4

\* The flag for access is cleared for a team that is billed elsewhere, and set
\* for one that is not if it was right to set it.
LEMMA Inv_RefreshAccess ==
  ASSUME IndInv, RefreshAccess
  PROVE  CleanInv' /\ JobInv' /\ MailInv' /\ RefusalInv'
<1>1. /\ mover.pc = "access"
      /\ UNCHANGED <<external, stale, requests, now, enforcer, mails, cleaner, data, staff, payment,
                     cached, early, late>>
  BY Zenon DEF RefreshAccess, MoverOnly, enforcement, cleaning
<1>2. /\ org \in Row /\ external \in BOOLEAN
      /\ mover'.pc = "upload" /\ UNCHANGED <<mover.access, mover.upload>>
  BY DEF RefreshAccess, IndInv, TypeOK
<1>3. CASE Fails
  BY Zenon, <1>1, <1>3, Inv_Failed
<1>4. CASE /\ failures' = failures
           /\ org' = IF mover.access /\ ~ org.deleted
                     THEN [org EXCEPT !.refuseDataAccess = ~ external] ELSE org
  <2>1. CleanInv' /\ JobInv'
    BY <1>1, <1>2, <1>4 DEF IndInv, CleanInv, JobInv, At, Row
  <2>2. MailInv'
    BY <1>1, <1>2, <1>4 DEF IndInv, TypeOK, EnforcerTypeOK, Mails, MailInv, Clearing, One, Row
  <2>3. RefusalInv'
    BY <1>1, <1>2, <1>4 DEF IndInv, RefusalInv, Undisturbed, JobSound, MoverSound, FlagsSound,
      ShouldRefuseDataAccess, ShouldRefuseDataUpload, isDelinquent, TrialExpiredBy, Billed, Row
  <2> QED
    BY Zenon, <2>1, <2>2, <2>3
<1> QED
  BY Zenon, <1>3, <1>4
    DEF RefreshAccess, SetOrganizationRefuseDataAccess, StoresIfLive, Stores, database

\* The flag for uploads is treated in the same way.
LEMMA Inv_RefreshUpload ==
  ASSUME IndInv, RefreshUpload
  PROVE  CleanInv' /\ JobInv' /\ MailInv' /\ RefusalInv'
<1>1. /\ mover.pc = "upload"
      /\ UNCHANGED <<external, stale, requests, now, enforcer, mails, cleaner, data, staff, payment,
                     cached, early, late>>
  BY Zenon DEF RefreshUpload, MoverOnly, enforcement, cleaning
<1>2. /\ org \in Row /\ external \in BOOLEAN
      /\ mover'.pc = IF external THEN "flags" ELSE "idle"
  BY DEF RefreshUpload, Rest, IndInv, TypeOK
<1>3. CASE Fails
  BY Zenon, <1>1, <1>3, Inv_Failed
<1>4. CASE /\ failures' = failures
           /\ org' = IF mover.upload /\ ~ org.deleted
                     THEN [org EXCEPT !.refuseDataUpload = ~ external] ELSE org
  <2>1. CleanInv' /\ JobInv'
    BY <1>1, <1>2, <1>4 DEF IndInv, CleanInv, JobInv, At, Row
  <2>2. MailInv'
    BY <1>1, <1>2, <1>4 DEF IndInv, TypeOK, EnforcerTypeOK, Mails, MailInv, Clearing, One, Row
  <2>3. RefusalInv'
    BY <1>1, <1>2, <1>4 DEF IndInv, RefusalInv, Undisturbed, JobSound, MoverSound, FlagsSound,
      ShouldRefuseDataAccess, ShouldRefuseDataUpload, isDelinquent, TrialExpiredBy, Billed, Row
  <2> QED
    BY Zenon, <2>1, <2>2, <2>3
<1> QED
  BY Zenon, <1>3, <1>4
    DEF RefreshUpload, SetOrganizationRefuseDataUpload, StoresIfLive, Stores, database

\* Billing is disabled when both flags are cleared, and enabled before they are set.
LEMMA Inv_RefreshFlags ==
  ASSUME IndInv, RefreshFlags
  PROVE  CleanInv' /\ JobInv' /\ MailInv' /\ RefusalInv'
<1>1. /\ mover.pc = "flags"
      /\ UNCHANGED <<external, requests, now, enforcer, mails, cleaner, data, staff, payment,
                     cached, early, late>>
  BY Zenon DEF RefreshFlags, MoverOnly, enforcement, cleaning
<1>2. org \in Row /\ external \in BOOLEAN
  BY Zenon DEF IndInv, TypeOK
<1>3. CASE Fails
  BY Zenon, <1>1, <1>3, Inv_Failed
<1>4. CASE /\ SetFeatureFlags(~ external)
           /\ stale' = (stale \/ enforcer.pc \in {"access", "upload"})
           /\ mover' = IF external THEN Rest("idle") ELSE [mover EXCEPT !.pc = "access"]
  <2>1. org' = [org EXCEPT !.billing = ~ external] /\ failures' = failures
    BY Zenon, <1>4 DEF SetFeatureFlags, Stores
  <2>2. /\ mover'.pc = IF external THEN "idle" ELSE "access"
        /\ ~ external => mover'.access = mover.access /\ mover'.upload = mover.upload
        /\ stale' <=> stale \/ enforcer.pc \in {"access", "upload"}
    BY Zenon, <1>4 DEF Rest, IndInv, TypeOK
  <2>3. CleanInv' /\ JobInv'
    BY <1>1, <1>2, <2>1 DEF IndInv, CleanInv, JobInv, At, Row
  <2>4. MailInv'
    BY <1>1, <1>2, <2>1, <2>2 DEF IndInv, TypeOK, EnforcerTypeOK, Mails, MailInv, Clearing, One, Row
  <2>5. RefusalInv'
    BY Zenon, <1>1, <1>2, <2>1, <2>2 DEF IndInv, RefusalInv, Undisturbed, JobSound, MoverSound, FlagsSound,
      ShouldRefuseDataAccess, ShouldRefuseDataUpload, isDelinquent, TrialExpiredBy, Billed, Row,
      JobInv, At
  <2> QED
    BY Zenon, <2>3, <2>4, <2>5
<1> QED
  BY Zenon, <1>3, <1>4 DEF RefreshFlags

-----------------------------------------------------------------------------
(* Members, probes and the passage of time.                                *)

\* The organization is deleted: nothing is promised of its flags any more.
LEMMA Inv_deleteOrg ==
  ASSUME IndInv, deleteOrg
  PROVE  CleanInv' /\ JobInv' /\ MailInv' /\ RefusalInv'
<1>1. /\ requests' = requests + 1
      /\ UNCHANGED <<stale, now, enforcer, mails, cleaner, data, staff, payment, external, mover,
                     cached, early, late>>
  BY Zenon DEF deleteOrg, Request, enforcement, cleaning, handlers, history
<1>2. CASE Fails
  BY Zenon, <1>1, <1>2, Inv_Failed
<1>3. CASE DeleteOrganization
  <2>1. org' = [org EXCEPT !.deleted = TRUE] /\ failures' = failures /\ org \in Row
    BY Zenon, <1>3 DEF DeleteOrganization, Stores, IndInv, TypeOK
  <2>2. CleanInv' /\ JobInv'
    BY <1>1, <2>1 DEF IndInv, CleanInv, JobInv, At, Row
  <2>3. MailInv'
    BY <1>1, <2>1 DEF IndInv, TypeOK, EnforcerTypeOK, Mails, MailInv, One, Row
  <2>4. RefusalInv'
    BY <2>1 DEF RefusalInv, Undisturbed, Row
  <2> QED
    BY Zenon, <2>2, <2>3, <2>4
<1> QED
  BY Zenon, <1>2, <1>3 DEF deleteOrg

\* Data comes in: while the answer is up to date the organization is neither
\* deleted nor, unless a clean-up began early, being cleaned.
LEMMA Inv_LookupUsingToken ==
  ASSUME IndInv, LookupUsingToken
  PROVE  CleanInv' /\ JobInv' /\ MailInv' /\ RefusalInv'
<1>1. UNCHANGED <<now, org, failures, enforcer, mails, cleaner, staff, payment, external, mover,
                  requests, stale, early>>
  BY Zenon DEF LookupUsingToken, database, enforcement, handlers
<1>2. ~ late' => ~ org.deleted
  BY Zenon DEF LookupUsingToken, authorizeAction
<1>3. CleanInv'
  BY <1>1, <1>2 DEF IndInv, CleanInv
<1>4. JobInv'
  BY Zenon, <1>1 DEF IndInv, JobInv, At
<1>5. MailInv'
  BY Zenon, <1>1 DEF IndInv, MailInv, Clearing
<1>6. RefusalInv'
  BY Zenon, <1>1 DEF IndInv, RefusalInv, Undisturbed, JobSound, MoverSound, FlagsSound
<1> QED
  BY Zenon, <1>3, <1>4, <1>5, <1>6

\* authfe forgets an answer.
LEMMA Inv_Expiration ==
  ASSUME IndInv, Expiration
  PROVE  CleanInv' /\ JobInv' /\ MailInv' /\ RefusalInv'
<1>1. UNCHANGED <<now, org, failures, enforcer, mails, cleaner, data, staff, payment, external,
                  mover, requests, stale, early, late>>
  BY Zenon DEF Expiration, database, enforcement, cleaning, handlers, history
<1>2. CleanInv' /\ JobInv'
  BY Zenon, <1>1 DEF IndInv, CleanInv, JobInv, At
<1>3. RefusalInv'
  BY Zenon, <1>1 DEF IndInv, RefusalInv, Undisturbed, JobSound, MoverSound, FlagsSound
<1>4. MailInv'
  BY Zenon, <1>1 DEF IndInv, MailInv, Clearing
<1> QED
  BY Zenon, <1>2, <1>3, <1>4

\* The first connection is recorded.
LEMMA Inv_updateOrgFirstSeen ==
  ASSUME IndInv, updateOrgFirstSeen
  PROVE  CleanInv' /\ JobInv' /\ MailInv' /\ RefusalInv'
<1>1. /\ org' = [org EXCEPT !.onboarded = TRUE] /\ org \in Row
      /\ UNCHANGED <<now, failures, enforcer, mails, cleaner, data, staff, payment, external, mover,
                     requests, stale, early, late>>
  BY Zenon DEF updateOrgFirstSeen, SetOrganizationFirstSeenConnectedAt, StoresIfLive, Stores,
    enforcement, cleaning, handlers, history, IndInv, TypeOK
<1>2. CleanInv' /\ JobInv'
  BY <1>1 DEF IndInv, CleanInv, JobInv, At, Row
<1>3. MailInv'
  BY <1>1 DEF IndInv, TypeOK, EnforcerTypeOK, Mails, MailInv, Clearing, One, Row
<1>4. RefusalInv'
  BY <1>1 DEF IndInv, RefusalInv, Undisturbed, JobSound, MoverSound, FlagsSound,
    ShouldRefuseDataAccess, ShouldRefuseDataUpload, isDelinquent, TrialExpiredBy, Billed, Row
<1> QED
  BY Zenon, <1>2, <1>3, <1>4

\* Who should be refused stays so as the days go by.
LEMMA Inv_Tick ==
  ASSUME IndInv, At("idle") /\ Tick,
         UNCHANGED <<enforcement, cleaning, handlers, cached, requests, history>>
  PROVE  CleanInv' /\ JobInv' /\ MailInv' /\ RefusalInv'
<1>1. /\ now' = now + 1
      /\ UNCHANGED <<org, failures, enforcer, mails, cleaner, data, staff, payment, external, mover,
                     requests, stale, early, late>>
  BY Zenon DEF Tick, database, enforcement, cleaning, handlers, history
<1>2. now \in Nat /\ org \in Row
  BY OrganizationAssumption DEF IndInv, TypeOK
<1>3. CleanInv'
  BY Zenon, <1>1 DEF IndInv, CleanInv
<1>4. JobInv'
  BY <1>1, <1>2, OrganizationAssumption DEF IndInv, TypeOK, EnforcerTypeOK, JobInv, At
<1>5. MailInv'
  BY Zenon, <1>1 DEF IndInv, MailInv, Clearing
<1>6. \A o \in Row : /\ ShouldRefuseDataAccess(o, now) => ShouldRefuseDataAccess(o, now')
                     /\ ShouldRefuseDataUpload(o, now) => ShouldRefuseDataUpload(o, now')
  BY <1>1, <1>2, OrganizationAssumption
    DEF Row, ShouldRefuseDataAccess, ShouldRefuseDataUpload, isDelinquent, TrialExpiredBy
<1>7. Billed(org) \in Row
  BY Zenon, <1>2, RowType DEF Billed
<1>8. RefusalInv'
  BY Zenon, <1>1, <1>2, <1>6, <1>7
    DEF IndInv, RefusalInv, Undisturbed, JobSound, MoverSound, FlagsSound
<1> QED
  BY Zenon, <1>3, <1>4, <1>5, <1>8

-----------------------------------------------------------------------------
(* The cleaner.                                                            *)

\* A step of the cleaner writes at most the mark.
LEMMA Inv_CleanStep ==
  ASSUME IndInv, CleanStep
  PROVE  CleanInv' /\ JobInv' /\ MailInv' /\ RefusalInv'
<1>1. UNCHANGED <<now, enforcer, mails, staff, payment, external, mover, requests, stale, late>>
  BY Zenon DEF CleanStep, enforcement, handlers
<1>2. /\ org \in Row /\ cleaner \in CleanupType
      /\ early' <=> early \/ (cleaner'.busy /\ ~ org.deleted)
  BY Zenon DEF CleanStep, IndInv, TypeOK, CleanerTypeOK, CleanupType
<1>3. \/ org' = org /\ failures' = failures
      \/ org' = org /\ failures' # 0
      \/ org' = [org EXCEPT !.cleanup = TRUE] /\ failures' = failures
  BY Zenon, FailsType DEF CleanStep, Clean, findAndClean, callEndpoint, clean, database,
    SetOrganizationCleanup, Stores, IndInv
<1>4. JobInv'
  BY <1>1, <1>2, <1>3 DEF IndInv, JobInv, At, Row
<1>5. MailInv'
  BY <1>1, <1>2, <1>3 DEF IndInv, TypeOK, EnforcerTypeOK, Mails, MailInv, Clearing, One, Row
<1>6. RefusalInv'
  BY <1>1, <1>2, <1>3 DEF IndInv, RefusalInv, Undisturbed, JobSound, MoverSound, FlagsSound,
    ShouldRefuseDataAccess, ShouldRefuseDataUpload, isDelinquent, TrialExpiredBy, Billed, Row
<1>7. CleanInv'
  <2>1. CASE findAndClean
    <3>1. /\ cleaner' = [busy |-> TRUE, todo |-> Urls, done |-> TRUE]
          /\ ~ org.cleanup /\ data \subseteq Urls /\ UNCHANGED <<org, data>>
      BY Zenon, <2>1 DEF findAndClean, Uncleaned, database, IndInv, TypeOK, CleanerTypeOK
    <3> QED
      BY <1>1, <1>2, <3>1 DEF IndInv, CleanInv
  <2>2. CASE callEndpoint
    <3>1. org' = org
      BY Zenon, <2>2 DEF callEndpoint, Fails, database
    <3>2. PICK u \in cleaner.todo :
            /\ \/ data' = data \ {u} /\ cleaner' = [cleaner EXCEPT !.todo = @ \ {u}]
               \/ cleaner' = [cleaner EXCEPT !.todo = @ \ {u}, !.done = FALSE]
            /\ data' = data \/ data' = data \ {u}
      BY Zenon, <2>2 DEF callEndpoint
    <3> QED
      BY Zenon, <1>1, <1>2, <3>1, <3>2 DEF IndInv, CleanInv, CleanupType
  <2>3. CASE clean
    <3>1. /\ cleaner.busy /\ cleaner.todo = {} /\ ~ cleaner'.busy /\ data' = data
          /\ org' = org \/ (cleaner.done /\ org' = [org EXCEPT !.cleanup = TRUE])
      BY Zenon, <2>3 DEF clean, Asleep, SetOrganizationCleanup, Stores, Fails, database
    <3> QED
      BY <1>1, <1>2, <3>1 DEF IndInv, CleanInv, Row
  <2> QED
    BY Zenon, <2>1, <2>2, <2>3 DEF CleanStep, Clean
<1> QED
  BY Zenon, <1>4, <1>5, <1>6, <1>7

-----------------------------------------------------------------------------
(* The enforcer.                                                           *)

\* The step a job goes on with is the first that it has to make.
LEMMA OnwardFacts ==
  ASSUME NEW j \in JobType
  PROVE  /\ Onward(j).access = j.access /\ Onward(j).upload = j.upload
         /\ Onward(j).tell = j.tell /\ Onward(j).expired = j.expired
         /\ Onward(j).at \in {j.at, 0}
         /\ Onward(j).pc = IF j.access THEN "access" ELSE IF j.upload THEN "upload"
                           ELSE IF j.tell THEN "refused" ELSE IF j.expired THEN "expired" ELSE "idle"
BY Zenon DEF JobType, Onward, Idle

\* Where a job is follows from what it has to do.
LEMMA OnwardJob ==
  ASSUME TypeOK, NEW j \in JobType, enforcer' = Onward(j), j.at <= now, now' = now,
         j.expired => ~ org'.expiredNotified
  PROVE  JobInv'
<1>1. now \in Nat
  BY OrganizationAssumption DEF TypeOK
<1> QED
  BY <1>1, OnwardFacts DEF JobInv, At, JobType

\* The enforcer asks who is to be told of the end of the trial.
LEMMA Inv_NotifyTrialOrganizations ==
  ASSUME IndInv, EnforceStep, NotifyTrialOrganizations \/ NotifyTrialOrganizationsFails
  PROVE  CleanInv' /\ JobInv' /\ MailInv' /\ RefusalInv'
<1>1. /\ UNCHANGED <<now, mails, cleaner, data, staff, payment, external, mover, requests, early, late>>
      /\ At("idle")
  BY Zenon DEF EnforceStep, cleaning, handlers, NotifyTrialOrganizations, NotifyTrialOrganizationsFails
<1>2. /\ enforcer'.pc \in {"pending", "delinquent"} /\ enforcer'.at = now
      /\ ~ enforcer'.access /\ ~ enforcer'.upload /\ ~ enforcer'.tell /\ ~ enforcer'.expired
      /\ enforcer'.pc = "pending" => ~ org.pendingNotified
  BY Zenon DEF NotifyTrialOrganizations, NotifyTrialOrganizationsFails, Idle, IsPending
<1>3. org' = org /\ (failures' = failures \/ failures' # 0)
  BY Zenon, FailsType DEF NotifyTrialOrganizations, NotifyTrialOrganizationsFails, database, IndInv
<1>4. now \in Nat /\ (stale' <=> stale)
  BY <1>3, OrganizationAssumption DEF IndInv, TypeOK, EnforceStep
<1>5. CleanInv'
  BY Zenon, <1>1, <1>3 DEF IndInv, CleanInv
<1>6. JobInv'
  BY <1>1, <1>2, <1>3, <1>4 DEF JobInv, At
<1>7. ~ enforcer.access /\ ~ enforcer.upload /\ ~ enforcer.tell
  BY <1>1 DEF IndInv, JobInv, At
<1>8. MailInv'
  BY <1>1, <1>2, <1>3, <1>7 DEF IndInv, TypeOK, EnforcerTypeOK, Mails, MailInv, Clearing, One
<1>9. RefusalInv'
  BY <1>1, <1>2, <1>3, <1>4 DEF IndInv, RefusalInv, Undisturbed, JobSound, MoverSound, FlagsSound
<1> QED
  BY Zenon, <1>5, <1>6, <1>8, <1>9

\* The enforcer asks who is delinquent and decides what to do.
LEMMA Inv_ProcessDelinquentOrganizations ==
  ASSUME IndInv, EnforceStep, ProcessDelinquentOrganizations
  PROVE  CleanInv' /\ JobInv' /\ MailInv' /\ RefusalInv'
<1>1. /\ UNCHANGED <<org, failures, now, mails, cleaner, data, staff, payment, external, mover,
                     requests, early, late>>
      /\ At("idle") \/ At("delinquent")
  BY Zenon DEF EnforceStep, cleaning, handlers, database, ProcessDelinquentOrganizations
<1>2. /\ now \in 0 .. MaxDay /\ now \in Nat /\ org \in Row /\ (stale' <=> stale)
      /\ enforcer.at \in 0 .. MaxDay /\ enforcer.at <= now
  BY <1>1, OrganizationAssumption DEF IndInv, TypeOK, EnforcerTypeOK, JobInv, EnforceStep
<1>3. PICK t \in {now, enforcer.at} : enforcer' \in {Onward(Decisions(org, t)), Idle}
  BY Zenon DEF ProcessDelinquentOrganizations
<1>4. t \in 0 .. MaxDay /\ t <= now
  BY <1>2, <1>3
<1> DEFINE d == Decisions(org, t)
<1>5. /\ d \in JobType /\ d.at = 0
      /\ d.access => ShouldRefuseDataAccess(org, t)
      /\ d.upload => ~ org.refuseDataUpload /\ ShouldRefuseDataUpload(org, t)
      /\ d.tell => d.upload
      /\ d.expired => ~ org.expiredNotified
  BY Zenon, <1>2, <1>4, DecisionsFacts
<1>6. /\ enforcer'.access => ShouldRefuseDataAccess(org, t)
      /\ enforcer'.upload => ~ org.refuseDataUpload /\ ShouldRefuseDataUpload(org, t)
      /\ enforcer'.tell => enforcer'.upload
  BY <1>3, <1>5, OnwardFacts DEF Idle
<1> HIDE DEF d
<1>7. CleanInv'
  BY Zenon, <1>1 DEF IndInv, CleanInv
<1>8. JobInv'
  <2>1. CASE enforcer' = Idle
    BY <1>1, <1>2, <2>1 DEF JobInv, At, Idle
  <2>2. CASE enforcer' = Onward(d)
    <3>1. d.at <= now /\ (d.expired => ~ org'.expiredNotified)
      BY <1>1, <1>2, <1>5
    <3> QED
      BY Zenon, <1>1, <1>5, <2>2, <3>1, OnwardJob DEF IndInv
  <2> QED
    BY Zenon, <1>3, <2>1, <2>2 DEF d
<1>9. ~ enforcer.access /\ ~ enforcer.upload /\ ~ enforcer.tell
  BY <1>1 DEF IndInv, JobInv, At
<1>10. MailInv'
  BY <1>1, <1>6, <1>9 DEF IndInv, TypeOK, EnforcerTypeOK, Mails, MailInv, Clearing, One
<1>11. /\ ShouldRefuseDataAccess(org, t) => ShouldRefuseDataAccess(org, now)
       /\ ShouldRefuseDataUpload(org, t) => ShouldRefuseDataUpload(org, now)
  BY <1>2, <1>4, OrganizationAssumption
    DEF Row, ShouldRefuseDataAccess, ShouldRefuseDataUpload, isDelinquent, TrialExpiredBy
<1>12. RefusalInv'
  BY Zenon, <1>1, <1>2, <1>6, <1>11
    DEF IndInv, RefusalInv, Undisturbed, JobSound, MoverSound, FlagsSound
<1> QED
  BY Zenon, <1>7, <1>8, <1>10, <1>12

\* A call of the enforcer fails.
LEMMA Inv_EnforcerFailed ==
  ASSUME IndInv, EnforceStep, Fails
  PROVE  CleanInv' /\ MailInv' /\ RefusalInv'
<1>1. failures' # 0 /\ org' = org /\ UNCHANGED <<cleaner, data, early, late>>
  BY Zenon, FailsType DEF IndInv, EnforceStep, cleaning
<1> QED
  BY Zenon, <1>1 DEF IndInv, CleanInv, MailInv, RefusalInv, Undisturbed

\* The list of those who are delinquent cannot be had: the job is over.
LEMMA Inv_ProcessDelinquentOrganizationsFails ==
  ASSUME IndInv, EnforceStep, ProcessDelinquentOrganizationsFails
  PROVE  CleanInv' /\ JobInv' /\ MailInv' /\ RefusalInv'
<1>1. Fails /\ enforcer' = Idle /\ now' = now
  BY Zenon DEF ProcessDelinquentOrganizationsFails, EnforceStep
<1>2. now \in Nat
  BY OrganizationAssumption DEF IndInv, TypeOK
<1>3. JobInv'
  BY <1>1, <1>2 DEF JobInv, At, Idle
<1> QED
  BY Zenon, <1>1, <1>3, Inv_EnforcerFailed

\* The members are told that the trial is about to end.
LEMMA Inv_NotifyTrialPendingExpiry ==
  ASSUME IndInv, EnforceStep, NotifyTrialPendingExpiry
  PROVE  CleanInv' /\ JobInv' /\ MailInv' /\ RefusalInv'
<1>1. /\ UNCHANGED <<now, cleaner, data, staff, payment, external, mover, requests, early, late>>
      /\ At("pending") /\ Notify("pending", [org EXCEPT !.pendingNotified = TRUE])
  BY Zenon DEF EnforceStep, cleaning, handlers, NotifyTrialPendingExpiry
<1>2. /\ enforcer'.pc = "delinquent" /\ enforcer'.at = enforcer.at
      /\ enforcer'.access = enforcer.access /\ enforcer'.upload = enforcer.upload
      /\ enforcer'.tell = enforcer.tell /\ enforcer'.expired = enforcer.expired
  BY DEF NotifyTrialPendingExpiry, IndInv, TypeOK, EnforcerTypeOK
<1>3. ~ enforcer.access /\ ~ enforcer.upload /\ ~ enforcer.tell /\ ~ enforcer.expired
  BY <1>1 DEF IndInv, JobInv, At
<1>4. JobInv'
  BY <1>1, <1>2, <1>3 DEF IndInv, JobInv, At
<1>5. CASE Fails
  BY Zenon, <1>4, <1>5, Inv_EnforcerFailed
<1>6. CASE ~ Fails
  <2>1. /\ failures' = failures
        /\ \/ /\ ~ org.deleted /\ org' = [org EXCEPT !.pendingNotified = TRUE]
              /\ mails' = [mails EXCEPT !["pending"] = @ + 1]
           \/ org.deleted /\ org' = org /\ mails' = mails
    BY Zenon, <1>1, <1>6 DEF Notify, Stores, database
  <2>2. org \in Row /\ (stale' <=> stale \/ (org' # org /\ mover.pc # "idle"))
    BY Zenon DEF IndInv, TypeOK, EnforceStep
  <2>3. CleanInv'
    BY <1>1, <2>1, <2>2 DEF IndInv, CleanInv, Row
  <2>4. MailInv'
    BY SMTT(30), <1>1, <1>2, <2>1, <2>2
      DEF IndInv, TypeOK, EnforcerTypeOK, Mails, JobInv, At, MailInv, Clearing, One, Row
  <2>5. RefusalInv'
    BY SMTT(30), <1>1, <1>2, <2>1, <2>2 DEF IndInv, RefusalInv, Undisturbed, JobSound, MoverSound, FlagsSound,
      ShouldRefuseDataAccess, ShouldRefuseDataUpload, isDelinquent, TrialExpiredBy, Billed, Row
  <2> QED
    BY Zenon, <1>4, <2>3, <2>4, <2>5
<1> QED
  BY Zenon, <1>5, <1>6

\* Access is refused.
LEMMA Inv_refuseDataAccess ==
  ASSUME IndInv, EnforceStep, refuseDataAccess
  PROVE  CleanInv' /\ JobInv' /\ MailInv' /\ RefusalInv'
<1>1. /\ UNCHANGED <<now, mails, cleaner, data, staff, payment, external, mover, requests, early, late>>
      /\ At("access")
  BY Zenon DEF EnforceStep, cleaning, handlers, refuseDataAccess
<1> DEFINE j == [enforcer EXCEPT !.access = FALSE]
<1>2. /\ org \in Row /\ enforcer \in JobType /\ j \in JobType /\ enforcer' = Onward(j)
      /\ j.upload = enforcer.upload /\ j.tell = enforcer.tell /\ j.expired = enforcer.expired
      /\ j.at = enforcer.at /\ ~ j.access
  BY Zenon DEF IndInv, TypeOK, EnforcerTypeOK, JobType, refuseDataAccess
<1> HIDE DEF j
<1>3. /\ ~ enforcer'.access /\ enforcer'.upload = enforcer.upload
      /\ enforcer'.tell = enforcer.tell /\ enforcer'.expired = enforcer.expired
  BY <1>2, OnwardFacts
<1>4. CASE Fails
  <2>1. j.at <= now /\ (j.expired => ~ org'.expiredNotified)
    BY <1>2, <1>4 DEF IndInv, JobInv, Fails
  <2>2. JobInv'
    BY Zenon, <1>1, <1>2, <2>1, OnwardJob DEF IndInv
  <2> QED
    BY Zenon, <1>4, <2>2, Inv_EnforcerFailed
<1>5. CASE SetOrganizationRefuseDataAccess(TRUE)
  <2>1. /\ org' = IF org.deleted THEN org ELSE [org EXCEPT !.refuseDataAccess = TRUE]
        /\ failures' = failures
    BY Zenon, <1>5 DEF SetOrganizationRefuseDataAccess, StoresIfLive, Stores
  <2>2. stale' <=> stale \/ (org' # org /\ mover.pc # "idle")
    BY Zenon DEF IndInv, TypeOK, EnforceStep
  <2>3. j.at <= now /\ (j.expired => ~ org'.expiredNotified)
    BY <1>2, <2>1 DEF IndInv, JobInv, Row
  <2>4. JobInv'
    BY Zenon, <1>1, <1>2, <2>3, OnwardJob DEF IndInv
  <2>5. CleanInv'
    BY <1>1, <1>2, <2>1 DEF IndInv, CleanInv, Row
  <2>6. MailInv'
    BY <1>1, <1>2, <1>3, <2>1
      DEF IndInv, TypeOK, EnforcerTypeOK, Mails, MailInv, Clearing, One, Row
  <2>7. RefusalInv'
    BY SMTT(30), <1>1, <1>2, <1>3, <2>1, <2>2 DEF IndInv, JobInv, At, RefusalInv, Undisturbed, JobSound,
      MoverSound, FlagsSound, ShouldRefuseDataAccess, ShouldRefuseDataUpload, isDelinquent,
      TrialExpiredBy, Billed, Row
  <2> QED
    BY Zenon, <2>4, <2>5, <2>6, <2>7
<1> QED
  BY Zenon, <1>4, <1>5 DEF refuseDataAccess

\* Uploads are refused.
LEMMA Inv_refuseDataUpload ==
  ASSUME IndInv, EnforceStep, refuseDataUpload
  PROVE  CleanInv' /\ JobInv' /\ MailInv' /\ RefusalInv'
<1>1. /\ UNCHANGED <<now, mails, cleaner, data, staff, payment, external, mover, requests, early, late>>
      /\ At("upload")
  BY Zenon DEF EnforceStep, cleaning, handlers, refuseDataUpload
<1> DEFINE j == [enforcer EXCEPT !.upload = FALSE]
<1>2. /\ org \in Row /\ enforcer \in JobType /\ j \in JobType /\ enforcer' = Onward(j)
      /\ j.access = enforcer.access /\ j.tell = enforcer.tell /\ j.expired = enforcer.expired
      /\ j.at = enforcer.at /\ ~ j.upload
  BY Zenon DEF IndInv, TypeOK, EnforcerTypeOK, JobType, refuseDataUpload
<1> HIDE DEF j
<1>3. /\ enforcer'.access = enforcer.access /\ ~ enforcer'.upload
      /\ enforcer'.tell = enforcer.tell /\ enforcer'.expired = enforcer.expired
  BY <1>2, OnwardFacts
<1>4. CASE Fails
  <2>1. j.at <= now /\ (j.expired => ~ org'.expiredNotified)
    BY <1>2, <1>4 DEF IndInv, JobInv, Fails
  <2>2. JobInv'
    BY Zenon, <1>1, <1>2, <2>1, OnwardJob DEF IndInv
  <2> QED
    BY Zenon, <1>4, <2>2, Inv_EnforcerFailed
<1>5. CASE SetOrganizationRefuseDataUpload(TRUE)
  <2>1. /\ org' = IF org.deleted THEN org ELSE [org EXCEPT !.refuseDataUpload = TRUE]
        /\ failures' = failures
    BY Zenon, <1>5 DEF SetOrganizationRefuseDataUpload, StoresIfLive, Stores
  <2>2. stale' <=> stale \/ (org' # org /\ mover.pc # "idle")
    BY Zenon DEF IndInv, TypeOK, EnforceStep
  <2>3. j.at <= now /\ (j.expired => ~ org'.expiredNotified)
    BY <1>2, <2>1 DEF IndInv, JobInv, Row
  <2>4. JobInv'
    BY Zenon, <1>1, <1>2, <2>3, OnwardJob DEF IndInv
  <2>5. CleanInv'
    BY <1>1, <1>2, <2>1 DEF IndInv, CleanInv, Row
  <2>6. MailInv'
    BY SMTT(30), <1>1, <1>2, <1>3, <2>1
      DEF IndInv, TypeOK, EnforcerTypeOK, Mails, JobInv, At, MailInv, Clearing, One, Row
  <2>7. RefusalInv'
    BY SMTT(30), <1>1, <1>2, <1>3, <2>1, <2>2 DEF IndInv, JobInv, At, RefusalInv, Undisturbed, JobSound,
      MoverSound, FlagsSound, ShouldRefuseDataAccess, ShouldRefuseDataUpload, isDelinquent,
      TrialExpiredBy, Billed, Row
  <2> QED
    BY Zenon, <2>4, <2>5, <2>6, <2>7
<1> QED
  BY Zenon, <1>4, <1>5 DEF refuseDataUpload

\* The members are told that uploads are refused.
LEMMA Inv_NotifyRefuseDataUpload ==
  ASSUME IndInv, EnforceStep, NotifyRefuseDataUpload
  PROVE  CleanInv' /\ JobInv' /\ MailInv' /\ RefusalInv'
<1>1. /\ UNCHANGED <<now, cleaner, data, staff, payment, external, mover, requests, early, late>>
      /\ At("refused") /\ Notify("refused", org)
  BY Zenon DEF EnforceStep, cleaning, handlers, NotifyRefuseDataUpload
<1> DEFINE j == [enforcer EXCEPT !.tell = FALSE]
<1>2. /\ org \in Row /\ enforcer \in JobType /\ j \in JobType /\ enforcer' = Onward(j)
      /\ j.access = enforcer.access /\ j.upload = enforcer.upload /\ j.expired = enforcer.expired
      /\ j.at = enforcer.at /\ ~ j.tell
  BY Zenon DEF IndInv, TypeOK, EnforcerTypeOK, JobType, NotifyRefuseDataUpload
<1> HIDE DEF j
<1>3. /\ enforcer'.access = enforcer.access /\ enforcer'.upload = enforcer.upload
      /\ ~ enforcer'.tell /\ enforcer'.expired = enforcer.expired
  BY <1>2, OnwardFacts
<1>4. org' = org
  BY Zenon, <1>1 DEF Notify, Stores, Fails, database
<1>5. JobInv'
  <2>1. j.at <= now /\ (j.expired => ~ org'.expiredNotified)
    BY <1>2, <1>4 DEF IndInv, JobInv
  <2> QED
    BY Zenon, <1>1, <1>2, <2>1, OnwardJob DEF IndInv
<1>6. CASE Fails
  BY Zenon, <1>5, <1>6, Inv_EnforcerFailed
<1>7. CASE ~ Fails
  <2>1. /\ failures' = failures
        /\ \/ ~ org.deleted /\ mails' = [mails EXCEPT !["refused"] = @ + 1]
           \/ org.deleted /\ mails' = mails
    BY Zenon, <1>1, <1>7 DEF Notify, Stores, database
  <2>2. stale' <=> stale
    BY <1>4 DEF IndInv, TypeOK, EnforceStep
  <2>3. CleanInv'
    BY Zenon, <1>1, <1>4 DEF IndInv, CleanInv
  <2>4. MailInv'
    BY SMTT(30), <1>1, <1>3, <1>4, <2>1
      DEF IndInv, TypeOK, EnforcerTypeOK, Mails, JobInv, At, MailInv, Clearing, One
  <2>5. RefusalInv'
    BY SMTT(30), <1>1, <1>3, <1>4, <2>1, <2>2
      DEF IndInv, RefusalInv, Undisturbed, JobSound, MoverSound, FlagsSound
  <2> QED
    BY Zenon, <1>5, <2>3, <2>4, <2>5
<1> QED
  BY Zenon, <1>6, <1>7

\* The members are told that the trial has ended, and that they were is stored.
LEMMA Inv_NotifyTrialExpired ==
  ASSUME IndInv, EnforceStep, NotifyTrialExpired
  PROVE  CleanInv' /\ JobInv' /\ MailInv' /\ RefusalInv'
<1>1. /\ UNCHANGED <<now, cleaner, data, staff, payment, external, mover, requests, early, late>>
      /\ At("expired") /\ Notify("expired", [org EXCEPT !.expiredNotified = TRUE])
      /\ enforcer' = Idle
  BY Zenon DEF EnforceStep, cleaning, handlers, NotifyTrialExpired
<1>2. /\ ~ enforcer.access /\ ~ enforcer.upload /\ ~ enforcer.tell /\ ~ org.expiredNotified
      /\ ~ enforcer'.access /\ ~ enforcer'.upload /\ ~ enforcer'.tell
  BY <1>1 DEF IndInv, JobInv, At, Idle
<1>3. JobInv'
  <2>1. now \in Nat
    BY OrganizationAssumption DEF IndInv, TypeOK
  <2> QED
    BY <1>1, <2>1 DEF JobInv, At, Idle
<1>4. CASE Fails
  BY Zenon, <1>3, <1>4, Inv_EnforcerFailed
<1>5. CASE ~ Fails
  <2>1. /\ failures' = failures
        /\ \/ /\ ~ org.deleted /\ org' = [org EXCEPT !.expiredNotified = TRUE]
              /\ mails' = [mails EXCEPT !["expired"] = @ + 1]
           \/ org.deleted /\ org' = org /\ mails' = mails
    BY Zenon, <1>1, <1>5 DEF Notify, Stores, database
  <2>2. org \in Row /\ (stale' <=> stale \/ (org' # org /\ mover.pc # "idle"))
    BY Zenon DEF IndInv, TypeOK, EnforceStep
  <2>3. CleanInv'
    BY <1>1, <2>1, <2>2 DEF IndInv, CleanInv, Row
  <2>4. MailInv'
    BY <1>1, <1>2, <2>1, <2>2
      DEF IndInv, TypeOK, EnforcerTypeOK, Mails, MailInv, Clearing, One, Row
  <2>5. RefusalInv'
    BY SMTT(30), <1>1, <1>2, <2>1, <2>2 DEF IndInv, RefusalInv, Undisturbed, JobSound, MoverSound, FlagsSound,
      ShouldRefuseDataAccess, ShouldRefuseDataUpload, isDelinquent, TrialExpiredBy, Billed, Row
  <2> QED
    BY Zenon, <1>3, <2>3, <2>4, <2>5
<1> QED
  BY Zenon, <1>4, <1>5

-----------------------------------------------------------------------------
(* The theorems.                                                           *)

\* A new organization owes nothing and nobody is about to do anything to it.
LEMMA InitIndInv == Init => IndInv
<1> SUFFICES ASSUME Init PROVE IndInv
  BY Zenon
<1>1. TypeOK
  BY Zenon, InitType
<1>2. PICK ends \in {0, 1}, billing \in BOOLEAN : org = NewRow(ends, billing)
  BY Zenon DEF Init
<1>3. /\ now = 0 /\ failures = 0 /\ requests = 0 /\ enforcer = Idle /\ mails = [m \in Mails |-> 0]
      /\ cleaner = Asleep /\ data = {} /\ staff.pc = "idle" /\ payment = "idle" /\ mover = Rest("idle")
  BY DEF Init, EnforcerInit, CleanerInit
<1>4. CleanInv
  BY <1>2, <1>3 DEF CleanInv, Asleep, NewRow
<1>5. JobInv
  BY <1>2, <1>3 DEF JobInv, At, Idle, NewRow
<1>6. MailInv
  BY <1>2, <1>3 DEF MailInv, One, Clearing, Idle, Rest, Mails, NewRow
<1>7. RefusalInv
  BY <1>2, <1>3 DEF RefusalInv, JobSound, MoverSound, FlagsSound, Idle, Rest, NewRow
<1> QED
  BY Zenon, <1>1, <1>4, <1>5, <1>6, <1>7 DEF IndInv

\* Every step keeps the inductive invariant.
LEMMA NextIndInv == IndInv /\ [Next]_vars => IndInv'
<1> SUFFICES ASSUME IndInv, [Next]_vars PROVE IndInv'
  BY Zenon
<1>1. TypeOK'
  BY Zenon, NextType DEF IndInv
<1> SUFFICES CleanInv' /\ JobInv' /\ MailInv' /\ RefusalInv'
  BY Zenon, <1>1 DEF IndInv
<1>2. CASE At("idle") /\ Tick
           /\ UNCHANGED <<enforcement, cleaning, handlers, cached, requests, history>>
  BY Zenon, <1>2, Inv_Tick
<1>3. CASE EnforceStep
  <2>1. Enforce
    BY Zenon, <1>3 DEF EnforceStep
  <2> QED
    BY Zenon, <1>3, <2>1, Inv_NotifyTrialOrganizations, Inv_NotifyTrialPendingExpiry,
      Inv_ProcessDelinquentOrganizations, Inv_ProcessDelinquentOrganizationsFails,
      Inv_refuseDataAccess, Inv_refuseDataUpload, Inv_NotifyRefuseDataUpload,
      Inv_NotifyTrialExpired DEF Enforce
<1>4. CASE CleanStep
  BY Zenon, <1>4, Inv_CleanStep
<1>5. CASE adminTrial \/ setOrgFeatureFlags \/ EnableBilling \/ extendOrgTrialPeriod
             \/ AllowAccess \/ AllowUpload
  BY Zenon, <1>5, Inv_StaffBegins, Inv_EnableBilling, Inv_extendOrgTrialPeriod, Inv_AllowAccess,
    Inv_AllowUpload
<1>6. CASE CreateAccount \/ markOrganizationDutiful
  BY Zenon, <1>6, Inv_CreateAccount, Inv_markOrganizationDutiful
<1>7. CASE MoveOrg \/ RefreshAccess \/ RefreshUpload \/ RefreshFlags
  BY Zenon, <1>7, Inv_MoveOrg, Inv_RefreshAccess, Inv_RefreshUpload, Inv_RefreshFlags
<1>8. CASE deleteOrg \/ LookupUsingToken \/ Expiration \/ updateOrgFirstSeen
  BY Zenon, <1>8, Inv_deleteOrg, Inv_LookupUsingToken, Inv_Expiration, Inv_updateOrgFirstSeen
<1>9. CASE UNCHANGED vars
  <2>1. UNCHANGED <<now, org, failures, enforcer, mails, cleaner, data, staff, payment, external,
                    mover, requests, stale, early, late>>
    BY Zenon, <1>9 DEF vars, database, enforcement, cleaning, handlers, history
  <2>2. CleanInv' /\ JobInv'
    BY Zenon, <2>1 DEF IndInv, CleanInv, JobInv, At
  <2>3. MailInv'
    BY Zenon, <2>1 DEF IndInv, MailInv, Clearing
  <2>4. RefusalInv'
    BY Zenon, <2>1 DEF IndInv, RefusalInv, Undisturbed, JobSound, MoverSound, FlagsSound
  <2> QED
    BY Zenon, <2>2, <2>3, <2>4
<1> QED
  BY Zenon, <1>2, <1>3, <1>4, <1>5, <1>6, <1>7, <1>8, <1>9 DEF Next

\* The inductive invariant holds in every state.
LEMMA Inductive == Spec => []IndInv
BY InitIndInv, NextIndInv, PTL DEF Spec

\* However the enforcer, staff, billing-api and moves interleave, an organization
\* that need not pay is refused nothing once the handlers are done, unless a call
\* failed or somebody wrote on an old copy of the row.
THEOREM RefusedRightly == Spec => []RefusedShouldPay
<1>1. IndInv => RefusedShouldPay
  BY Zenon DEF IndInv, RefusalInv, Undisturbed, FlagsSound, RefusedShouldPay, Quiet
<1> QED
  BY <1>1, Inductive, PTL

\* The flags and dates in the row keep the hourly job from mailing twice, except
\* once for each request that changes what the members owe.
THEOREM MailsAreFew == Spec => []MailedOnce
<1>1. IndInv => MailedOnce
  <2> SUFFICES ASSUME IndInv, failures = 0, NEW m \in Mails PROVE mails[m] <= 1 + requests
    BY Zenon DEF MailedOnce
  <2> QED
    BY DEF IndInv, MailInv, TypeOK, EnforcerTypeOK, Mails, One
<1> QED
  BY <1>1, Inductive, PTL

\* A deleted organization is marked as cleaned only when every service has removed
\* its data, whichever calls of the cleaner fail.
THEOREM CleanedRightly == Spec => []CleanedIsGone
<1>1. IndInv => CleanedIsGone
  BY Zenon DEF IndInv, CleanInv, CleanedIsGone
<1> QED
  BY <1>1, Inductive, PTL

=============================================================================
