------------------------------ MODULE BillingDB ------------------------------
(***************************************************************************)
(* The state the billing jobs share: the tables of the billing database    *)
(* (billing-api/db/postgres.go), the columns of the users service's        *)
(* organizations that billing reads, and what each payment provider has    *)
(* been told to charge.  The jobs themselves are modules that EXTEND this  *)
(* one.                                                                    *)
(*                                                                         *)
(* Time is counted in hours, the width of an aggregation bucket.  A row of *)
(* `aggregates' is identified by its serial id, which is its position in   *)
(* aggs.                                                                   *)
(***************************************************************************)
EXTENDS Integers, Sequences, FiniteSets

CONSTANTS
  Orgs,         \* organizations (instances)
  Methods,      \* combinations of payment methods an organization may have
  Types,        \* values of aggregates.amount_type
  Units,        \* Units[u]: the amount types provider u charges for
  DayLength,    \* hours in a day (24)
  WeekLength,   \* how far back the uploader looks, in hours (7 * 24)
  LateHours,    \* how late an aggregate may be inserted, in hours (6)
  MaxHour,      \* bound: the clock stops here
  MaxRows,      \* bound: rows of `aggregates'
  MaxUploads    \* bound: rows ever inserted in `usage_uploads'

Uploaders == {"zuora", "gcp"}

ASSUME BillingDBAssumption ==
  /\ Methods \subseteq SUBSET Uploaders
  /\ Units \in [Uploaders -> SUBSET Types]
  /\ DayLength \in Nat \ {0}
  /\ WeekLength \in Nat
  /\ LateHours \in Nat
  /\ MaxHour \in Nat
  /\ MaxRows \in Nat
  /\ MaxUploads \in Nat

VARIABLES
  now,          \* the hour the clock shows
  org,          \* organizations: trial expiry and payment methods
  aggs,         \* aggregates: upload_id is 0 when NULL
  uploads,      \* usage_uploads
  lastUpload,   \* the last value of usage_uploads.id
  charged       \* charged[u][i]: how often provider u was told of row i

dbVars == <<now, org, aggs, uploads, lastUpload, charged>>

Hours == 0 .. MaxHour
RowIDs == 1 .. MaxRows
UploadIDs == 1 .. MaxUploads

\* "zuora" is a method when zuora_account_number is set, "gcp" when there is a
\* GCP account, which is active when it is activated and its subscription status
\* is ENTITLEMENT_ACTIVE.
Organization == [trial : Hours, methods : Methods, active : BOOLEAN]

Aggregate == [org : Orgs, bucket : Hours, type : Types,
              upload : 0 .. MaxUploads]

UsageUpload == [id : UploadIDs, uploader : Uploaders]

DBTypeOK ==
  /\ now \in Hours
  /\ org \in [Orgs -> Organization]
  /\ aggs \in Seq(Aggregate)
  /\ Len(aggs) <= MaxRows
  /\ uploads \in SUBSET UsageUpload
  /\ lastUpload \in 0 .. MaxUploads
  /\ charged \in [Uploaders -> [RowIDs -> Nat]]

-----------------------------------------------------------------------------
(* Queries.                                                                *)

\* filter.GCPSubscription
GCPSubscription(o) == "gcp" \in org[o].methods /\ org[o].active

\* GetBillableOrganizations: a payment method, and a trial that expired strictly
\* before t.
Billable(t) == {o \in Orgs : /\ "zuora" \in org[o].methods \/ GCPSubscription(o)
                             /\ org[o].trial < t}

\* GetAggregates: the rows of organization o with from <= bucket < through.
GetAggregates(o, from, through) ==
  {i \in DOMAIN aggs : /\ aggs[i].org = o
                       /\ aggs[i].bucket >= from
                       /\ aggs[i].bucket < through}

\* GetAggregatesToUpload: those of them whose upload_id is NULL.
GetAggregatesToUpload(o, from, through) ==
  {i \in GetAggregates(o, from, through) : aggs[i].upload = 0}

-----------------------------------------------------------------------------
(* Statements.                                                             *)

\* insert into aggregates: one row, not yet uploaded.
InsertAggregate(o, b, t) ==
  /\ Len(aggs) < MaxRows
  /\ aggs' = Append(aggs, [org |-> o, bucket |-> b, type |-> t, upload |-> 0])

\* update aggregates set upload_id = k where id in ids.
SetUpload(ids, k) ==
  aggs' = [i \in DOMAIN aggs |->
             IF i \in ids THEN [aggs[i] EXCEPT !.upload = k] ELSE aggs[i]]

\* The rows linked to upload k.
Linked(k) == {i \in DOMAIN aggs : aggs[i].upload = k}

-----------------------------------------------------------------------------
(* What happens to the tables while a job runs.                            *)

DBInit ==
  /\ now = 0
  /\ org \in [Orgs -> {x \in Organization : x.active => "gcp" \in x.methods}]
  /\ aggs = <<>>
  /\ uploads = {}
  /\ lastUpload = 0
  /\ charged = [u \in Uploaders |-> [i \in RowIDs |-> 0]]

\* The aggregator inserts the total, or a late delta, of an hour that has begun.
Aggregated ==
  /\ \E o \in Orgs, b \in Hours, t \in Types :
       /\ b <= now
       /\ now - b <= LateHours
       /\ InsertAggregate(o, b, t)
  /\ UNCHANGED <<now, org, uploads, lastUpload, charged>>

\* An administrator extends the trial of an organization.
TrialExtended ==
  /\ \E o \in Orgs, t \in Hours :
       /\ t > org[o].trial
       /\ org' = [org EXCEPT ![o].trial = t]
  /\ UNCHANGED <<now, aggs, uploads, lastUpload, charged>>

\* An organization without a payment method gets one: a Zuora account is
\* created for it, or it is attached to a GCP account.
MethodAdded ==
  /\ \E o \in Orgs, m \in Methods :
       /\ org[o].methods = {}
       /\ m # {}
       /\ org' = [org EXCEPT ![o].methods = m]
  /\ UNCHANGED <<now, aggs, uploads, lastUpload, charged>>

\* The entitlement of a GCP account is activated, suspended or cancelled.
EntitlementChanged ==
  /\ \E o \in Orgs :
       /\ "gcp" \in org[o].methods
       /\ org' = [org EXCEPT ![o].active = ~@]
  /\ UNCHANGED <<now, aggs, uploads, lastUpload, charged>>

\* An hour passes.
Tick ==
  /\ now < MaxHour
  /\ now' = now + 1
  /\ UNCHANGED <<org, aggs, uploads, lastUpload, charged>>

Environment ==
  Aggregated \/ TrialExtended \/ MethodAdded \/ EntitlementChanged \/ Tick

=============================================================================
