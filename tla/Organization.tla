----------------------------- MODULE Organization -----------------------------
(***************************************************************************)
(* The row of one organization in the users database, as far as its trial, *)
(* its billing and the refusal of its data are concerned, and the writes   *)
(* that the other services make to it through the users service.           *)
(*                                                                         *)
(* Time is counted in days since the organization was created.             *)
(***************************************************************************)
EXTENDS Naturals

CONSTANTS
  TrialRefuseDataUploadAfter,  \* days between the end of the trial and refusing uploads
  MaxDay,                      \* bound: days
  MaxEvents                    \* bound: requests made and calls that fail, together

ASSUME OrganizationAssumption ==
  TrialRefuseDataUploadAfter \in Nat /\ MaxDay \in Nat \ {0} /\ MaxEvents \in Nat

VARIABLES
  now,
  org,       \* the row
  requests,  \* requests of staff and members so far
  failures   \* calls that have failed so far

database == <<org, failures>>

Row ==
  [trialEnds : 0 .. MaxDay,
   billing : BOOLEAN,           \* feature flag "billing"
   zuora : BOOLEAN,             \* has a billing account
   refuseDataAccess : BOOLEAN, refuseDataUpload : BOOLEAN,
   pendingNotified : BOOLEAN, expiredNotified : BOOLEAN,
   onboarded : BOOLEAN,         \* FirstSeenConnectedAt is set
   deleted : BOOLEAN, cleanup : BOOLEAN]

NewRow(trialEnds, billing) ==
  [trialEnds |-> trialEnds, billing |-> billing, zuora |-> FALSE,
   refuseDataAccess |-> FALSE, refuseDataUpload |-> FALSE,
   pendingNotified |-> FALSE, expiredNotified |-> FALSE,
   onboarded |-> FALSE, deleted |-> FALSE, cleanup |-> FALSE]

TrialExpiredBy(o, t) == o.trialEnds < t
TrialActiveAt(o, t) == o.trialEnds > t

isDelinquent(o, t) == ~ o.zuora /\ TrialExpiredBy(o, t) /\ o.billing
ShouldRefuseDataAccess(o, t) == isDelinquent(o, t)
ShouldRefuseDataUpload(o, t) ==
  isDelinquent(o, t) /\ o.trialEnds + TrialRefuseDataUploadAfter < t

(***************************************************************************)
(* A statement fails, or it changes the row; most of them do not touch an  *)
(* organization that is deleted.                                           *)
(***************************************************************************)
Fails == failures + requests < MaxEvents /\ failures' = failures + 1 /\ UNCHANGED org

Stores(row) == org' = row /\ UNCHANGED failures
StoresIfLive(row) == Stores(IF org.deleted THEN org ELSE row)

SetOrganizationRefuseDataAccess(v) == StoresIfLive([org EXCEPT !.refuseDataAccess = v])
SetOrganizationRefuseDataUpload(v) == StoresIfLive([org EXCEPT !.refuseDataUpload = v])
SetOrganizationZuoraAccount == StoresIfLive([org EXCEPT !.zuora = TRUE])
SetFeatureFlags(billing) == Stores([org EXCEPT !.billing = billing])
SetOrganizationFirstSeenConnectedAt == StoresIfLive([org EXCEPT !.onboarded = TRUE])
SetOrganizationCleanup == Stores([org EXCEPT !.cleanup = TRUE])
DeleteOrganization == Stores([org EXCEPT !.deleted = TRUE])

Tick ==
  /\ now < MaxDay
  /\ now' = now + 1
  /\ UNCHANGED database

=============================================================================
