---------------------------- MODULE BillingEnforcer ----------------------------
(***************************************************************************)
(* The hourly job of the billing-enforcer (billing-enforcer/job/enforce.go) *)
(* with the calls it makes to the users service (users/grpc/lookup.go): it  *)
(* tells the members of an organization that its trial is about to end or   *)
(* has ended and refuses the data of those that should pay and do not.      *)
(*                                                                         *)
(* What the job does with an organization it decides on the copy it was    *)
(* given with the list, so the decisions are taken when the list is read.  *)
(***************************************************************************)
EXTENDS Organization

CONSTANT NotifyPendingExpiryPeriod  \* days before the end of the trial

ASSUME EnforcerAssumption == NotifyPendingExpiryPeriod \in Nat

VARIABLES
  enforcer,  \* where the job is, the time it started, what it is about to do
  mails      \* mails of each kind sent so far

enforcement == <<enforcer, mails>>

Mails == {"pending", "expired", "refused"}
Steps == {"idle", "pending", "delinquent", "access", "upload", "refused", "expired"}

EnforcerTypeOK ==
  /\ enforcer \in [pc : Steps, at : 0 .. MaxDay, access : BOOLEAN, upload : BOOLEAN,
                   tell : BOOLEAN, expired : BOOLEAN]
  /\ mails \in [Mails -> Nat]

Idle == [pc |-> "idle", at |-> 0, access |-> FALSE, upload |-> FALSE,
         tell |-> FALSE, expired |-> FALSE]

EnforcerInit == enforcer = Idle /\ mails = [m \in Mails |-> 0]

At(pc) == enforcer.pc = pc

\* The next call the job has to make; what it need not do takes no step.
Onward(job) ==
  IF job.access THEN [job EXCEPT !.pc = "access"]
  ELSE IF job.upload THEN [job EXCEPT !.pc = "upload"]
  ELSE IF job.tell THEN [job EXCEPT !.pc = "refused"]
  ELSE IF job.expired THEN [job EXCEPT !.pc = "expired"]
  ELSE Idle

\* GetTrialOrganizations and the conditions of NotifyTrialOrganizations.
IsPending(o, t) ==
  /\ ~ o.deleted /\ TrialActiveAt(o, t) /\ o.billing
  /\ o.onboarded /\ ~ o.pendingNotified /\ ~ o.zuora
  /\ o.trialEnds - t <= NotifyPendingExpiryPeriod

NotifyTrialOrganizations ==
  /\ At("idle")
  /\ IsPending(org, now)
  /\ enforcer' = [Idle EXCEPT !.at = now, !.pc = "pending"]
  /\ UNCHANGED <<database, mails>>

NotifyTrialOrganizationsFails ==
  /\ At("idle")
  /\ Fails
  /\ enforcer' = [Idle EXCEPT !.at = now, !.pc = "delinquent"]
  /\ UNCHANGED mails

\* Mails the members and then stores that they were told, if it stores anything.
Notify(kind, row) ==
  \/ /\ ~ org.deleted
     /\ mails' = [mails EXCEPT ![kind] = @ + 1]
     /\ Stores(row) \/ (row # org /\ Fails)
  \/ org.deleted /\ UNCHANGED <<mails, database>>
  \/ Fails /\ UNCHANGED mails

NotifyTrialPendingExpiry ==
  /\ At("pending")
  /\ Notify("pending", [org EXCEPT !.pendingNotified = TRUE])
  /\ enforcer' = [enforcer EXCEPT !.pc = "delinquent"]

\* Mutant: access is refused in the run that tells the members, or never.
DecisionsOnce(o, t) ==
  LET upload == ~ o.refuseDataUpload /\ ShouldRefuseDataUpload(o, t) IN
  [Idle EXCEPT !.access = ~ o.expiredNotified /\ ShouldRefuseDataAccess(o, t),
               !.upload = upload,
               !.tell = upload /\ o.trialEnds > 0,
               !.expired = ~ o.expiredNotified]

\* The members are told of the refusal of uploads also if the flag is not set in
\* the end, and not if there never was a trial.
Decisions(o, t) ==
  LET upload == ~ o.refuseDataUpload /\ ShouldRefuseDataUpload(o, t) IN
  [Idle EXCEPT !.access = ~ o.refuseDataAccess /\ ShouldRefuseDataAccess(o, t),
               !.upload = upload,
               !.tell = upload /\ o.trialEnds > 0,
               !.expired = ~ o.expiredNotified]

\* GetDelinquentOrganizations, also when there was nobody to tell of the end of
\* the trial.
ProcessDelinquentOrganizations ==
  /\ At("delinquent") \/ (At("idle") /\ ~ IsPending(org, now))
  /\ LET t == IF At("idle") THEN now ELSE enforcer.at IN
     enforcer' = IF ~ org.deleted /\ isDelinquent(org, t) /\ org.onboarded
                 THEN Onward(Decisions(org, t)) ELSE Idle
  /\ UNCHANGED <<database, mails>>

ProcessDelinquentOrganizationsFails ==
  /\ At("delinquent")
  /\ Fails
  /\ enforcer' = Idle
  /\ UNCHANGED mails

refuseDataAccess ==
  /\ At("access")
  /\ SetOrganizationRefuseDataAccess(TRUE) \/ Fails
  /\ enforcer' = Onward([enforcer EXCEPT !.access = FALSE])
  /\ UNCHANGED mails

refuseDataUpload ==
  /\ At("upload")
  /\ SetOrganizationRefuseDataUpload(TRUE) \/ Fails
  /\ enforcer' = Onward([enforcer EXCEPT !.upload = FALSE])
  /\ UNCHANGED mails

NotifyRefuseDataUpload ==
  /\ At("refused")
  /\ Notify("refused", org)
  /\ enforcer' = Onward([enforcer EXCEPT !.tell = FALSE])

\* Mutant: that the members were told is not stored.
NotifyTrialExpiredUnstored ==
  /\ At("expired")
  /\ Notify("expired", org)
  /\ enforcer' = Idle

NotifyTrialExpired ==
  /\ At("expired")
  /\ Notify("expired", [org EXCEPT !.expiredNotified = TRUE])
  /\ enforcer' = Idle

Enforce ==
  \/ NotifyTrialOrganizations \/ NotifyTrialOrganizationsFails \/ NotifyTrialPendingExpiry
  \/ ProcessDelinquentOrganizations \/ ProcessDelinquentOrganizationsFails
  \/ refuseDataAccess \/ refuseDataUpload \/ NotifyRefuseDataUpload \/ NotifyTrialExpired

=============================================================================
