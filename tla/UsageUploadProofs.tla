-------------------------- MODULE UsageUploadProofs --------------------------
(* Theorems about UsageUpload, for every value of its constants.            *)
EXTENDS UsageUpload, TLAPS

\* Setting the upload of some rows changes neither their number nor anything
\* else about them.
LEMMA SetUploadType ==
  ASSUME NEW ids, NEW k \in 0 .. MaxUploads,
         aggs \in Seq(Aggregate), SetUpload(ids, k)
  PROVE  /\ aggs' \in Seq(Aggregate)
         /\ Len(aggs') = Len(aggs)
         /\ DOMAIN aggs' = DOMAIN aggs
         /\ \A i \in DOMAIN aggs :
              /\ aggs'[i].org = aggs[i].org /\ aggs'[i].type = aggs[i].type
              /\ aggs'[i].upload = IF i \in ids THEN k ELSE aggs[i].upload
<1> DEFINE n == Len(aggs)
<1>1. n \in Nat /\ DOMAIN aggs = 1 .. n
  OBVIOUS
<1>2. \A i \in 1 .. n : aggs[i] \in Aggregate
  BY <1>1
<1>3. \A i \in 1 .. n : aggs'[i] =
         IF i \in ids THEN [aggs[i] EXCEPT !.upload = k] ELSE aggs[i]
  BY Zenon, <1>1 DEF SetUpload
<1>4. \A i \in 1 .. n : aggs'[i] \in Aggregate
  BY Zenon, <1>2, <1>3 DEF Aggregate
<1>5. aggs' = [i \in 1 .. n |-> aggs'[i]]
  BY Zenon, <1>1 DEF SetUpload
<1>6. aggs' \in Seq(Aggregate) /\ Len(aggs') = n /\ DOMAIN aggs' = 1 .. n
  BY <1>1, <1>4, <1>5
<1> QED
  BY Zenon, <1>1, <1>2, <1>3, <1>6 DEF Aggregate

-----------------------------------------------------------------------------
(* Type correctness.                                                       *)

USE BillingDBAssumption, UsageUploadAssumption

\* The initial state is well typed.
LEMMA InitTypeOK == Init => TypeOK
<1> SUFFICES ASSUME Init PROVE TypeOK
  BY Zenon
<1>1. DBTypeOK
  BY DEF Init, DBInit, DBTypeOK, Hours, RowIDs
<1>2. Idle \in RunState
  BY DEF Idle, RunState, PCs, Hours
<1>3. run \in [Runs -> RunState]
  BY Zenon, <1>2 DEF Init
<1>4. report \in [Uploaders -> [RowIDs -> Nat]]
  BY Zenon DEF Init, NoReport
<1> QED
  BY Zenon, <1>1, <1>3, <1>4 DEF Init, TypeOK

\* Where an execution goes next is a run state again.
LEMMA RunStateType ==
  ASSUME run \in [Runs -> RunState], NEW r \in Runs
  PROVE  /\ run[r] \in RunState
         /\ Return(r) => run' \in [Runs -> RunState]
         /\ \A pc \in PCs : Goto(r, pc) => run' \in [Runs -> RunState]
         /\ \A x \in RunState : [run EXCEPT ![r] = x] \in [Runs -> RunState]
<1>1. Idle \in RunState
  BY DEF Idle, RunState, PCs, Hours
<1>2. ASSUME NEW pc \in PCs, Goto(r, pc)
      PROVE  run' \in [Runs -> RunState]
  BY SMTT(60), <1>2 DEF Goto, RunState
<1> QED
  BY Zenon, <1>1, <1>2 DEF Return

\* The end of the window is never in the future.
LEMMA ThroughTimeType ==
  ASSUME NEW u, NEW t \in Hours
  PROVE  ThroughTime(u, t) \in Hours
<1>1. t % DayLength \in 0 .. t
  <2>1. t \in Nat /\ DayLength \in Nat \ {0}
    BY DEF Hours
  <2>2. t % DayLength \in 0 .. (DayLength - 1)
    BY <2>1
  <2>3. t = DayLength * (t \div DayLength) + (t % DayLength)
    BY <2>1
  <2>4. t \div DayLength \in Nat
    BY <2>1
  <2>5. DayLength * (t \div DayLength) \in Nat
    BY <2>1, <2>4
  <2> HIDE DEF Hours
  <2> QED
    BY <2>1, <2>2, <2>3, <2>5
<1> QED
  BY <1>1 DEF ThroughTime, Hours

\* What the uploader does to its report and the provider to its ledger keeps
\* them well typed.
LEMMA LedgerType ==
  ASSUME TypeOK, NEW u \in Uploaders
  PROVE  /\ \A rows : AddTo(u, rows) => report' \in [Uploaders -> [RowIDs -> Nat]]
         /\ Receive(u) => charged' \in [Uploaders -> [RowIDs -> Nat]]
<1>1. ASSUME NEW rows, AddTo(u, rows)
      PROVE  report' \in [Uploaders -> [RowIDs -> Nat]]
  BY <1>1 DEF TypeOK, AddTo
<1>2. ASSUME Receive(u)
      PROVE  charged' \in [Uploaders -> [RowIDs -> Nat]]
  BY <1>2 DEF TypeOK, DBTypeOK, Receive
<1> QED
  BY Zenon, <1>1, <1>2

\* Every step of an execution of Do keeps the variables well typed.
LEMMA RunStepTypeOK ==
  ASSUME TypeOK, NEW r \in Runs, RunStep(r)
  PROVE  TypeOK'
<1> DEFINE u == UploaderOf[r]
<1>a. u \in Uploaders
  BY Zenon
<1>b. /\ run[r] \in RunState
      /\ Return(r) => run' \in [Runs -> RunState]
      /\ \A pc \in PCs : Goto(r, pc) => run' \in [Runs -> RunState]
      /\ \A x \in RunState : [run EXCEPT ![r] = x] \in [Runs -> RunState]
  BY Zenon, RunStateType DEF TypeOK
<1>c. {"collect", "link", "upload", "delete", "unlink"} \subseteq PCs
  BY Zenon DEF PCs
<1>1. CASE Start(r)
  <2> DEFINE t == ThroughTime(u, now)
             x == [pc |-> "collect", through |-> t,
                   todo |-> BillableOrganizations(u, t), ids |-> {}, id |-> 0]
  <2>1. t \in Hours
    BY Zenon, ThroughTimeType DEF TypeOK, DBTypeOK
  <2>2. BillableOrganizations(u, t) \in SUBSET [org : Orgs, trial : Hours]
    BY DEF BillableOrganizations, Billable, TypeOK, DBTypeOK, Organization
  <2>3. x \in RunState
    BY <2>1, <2>2, <1>c DEF RunState
  <2>4. run' = [run EXCEPT ![r] = x] \/ run' = run
    BY Zenon, <1>1 DEF Start
  <2>5. run' \in [Runs -> RunState]
    BY Zenon, <2>3, <2>4, <1>b DEF TypeOK
  <2>6. report' \in [Uploaders -> [RowIDs -> Nat]]
    BY Zenon, <1>1 DEF Start, TypeOK, NoReport
  <2> QED
    BY Zenon, <1>1, <2>5, <2>6 DEF Start, TypeOK, DBTypeOK, dbVars
<1>2. CASE Collect(r)
  <2>1. PICK o \in run[r].todo, rows \in SUBSET DOMAIN aggs :
          /\ AddTo(u, rows)
          /\ run' = [run EXCEPT ![r] = Recorded(@, o, rows)]
    BY Zenon, <1>2 DEF Collect, GetAggregatesToUpload, GetAggregates
  <2>2. rows \subseteq RowIDs
    BY DEF TypeOK, DBTypeOK, RowIDs
  <2>3. Recorded(run[r], o, rows) \in RunState
    BY Zenon, <1>b, <2>2 DEF RunState, Recorded
  <2>4. run' \in [Runs -> RunState]
    BY Zenon, <1>b, <2>1, <2>3
  <2>5. report' \in [Uploaders -> [RowIDs -> Nat]]
    BY Zenon, <1>a, <2>1, LedgerType
  <2> QED
    BY Zenon, <1>2, <2>4, <2>5 DEF Collect, TypeOK, DBTypeOK, dbVars
<1>3. CASE CollectFails(r) \/ NothingToUpload(r)
  BY Zenon, <1>3, <1>b DEF CollectFails, NothingToUpload, TypeOK, DBTypeOK, dbVars
<1>4. CASE InsertUpload(r)
  <2>1. lastUpload' \in 0 .. MaxUploads
    BY <1>4 DEF InsertUpload, TypeOK, DBTypeOK
  <2> DEFINE x == [run[r] EXCEPT !.pc = "link", !.id = lastUpload']
  <2>2. x \in RunState
    BY Zenon, <1>b, <1>c, <2>1 DEF RunState
  <2>5. run' = [run EXCEPT ![r] = x] \/ Return(r)
    BY Zenon, <1>4 DEF InsertUpload
  <2> HIDE DEF x
  <2>3. run' \in [Runs -> RunState]
    BY Zenon, <2>5, <1>b, <2>2
  <2>4. uploads' \in SUBSET UsageUpload
    BY <1>4, <1>a DEF InsertUpload, TypeOK, DBTypeOK, UsageUpload, UploadIDs
  <2> QED
    BY Zenon, <1>4, <2>1, <2>3, <2>4 DEF InsertUpload, TypeOK, DBTypeOK
<1>5. CASE LinkAggregates(r)
  <2>1. run' \in [Runs -> RunState]
    BY Zenon, <1>5, <1>b, <1>c DEF LinkAggregates
  <2>2. aggs' \in Seq(Aggregate) /\ Len(aggs') <= MaxRows
    BY Zenon, <1>5, <1>b, SetUploadType DEF LinkAggregates, RunState, TypeOK, DBTypeOK
  <2> QED
    BY Zenon, <1>5, <2>1, <2>2 DEF LinkAggregates, TypeOK, DBTypeOK
<1>6. CASE Upload(r) \/ UploadFails(r)
  <2>1. run' \in [Runs -> RunState]
    BY Zenon, <1>6, <1>b, <1>c DEF Upload, UploadFails
  <2>2. charged' \in [Uploaders -> [RowIDs -> Nat]]
    BY Zenon, <1>6, <1>a, LedgerType DEF Upload, UploadFails, TypeOK, DBTypeOK
  <2> QED
    BY Zenon, <1>6, <2>1, <2>2 DEF Upload, UploadFails, TypeOK, DBTypeOK
<1>7. CASE DeleteUpload(r)
  <2>1. run' \in [Runs -> RunState]
    BY Zenon, <1>7, <1>b, <1>c DEF DeleteUpload
  <2>2. uploads' \in SUBSET UsageUpload
    BY Zenon, <1>7 DEF DeleteUpload, TypeOK, DBTypeOK
  <2>3. abandoned' \in SUBSET (0 .. MaxUploads)
    BY Zenon, <1>7, <1>b DEF DeleteUpload, RunState, TypeOK
  <2> QED
    BY Zenon, <1>7, <2>1, <2>2, <2>3 DEF DeleteUpload, TypeOK, DBTypeOK
<1>8. CASE UnlinkAggregates(r)
  <2>1. run' \in [Runs -> RunState]
    BY Zenon, <1>8, <1>b DEF UnlinkAggregates
  <2>2. aggs' \in Seq(Aggregate) /\ Len(aggs') <= MaxRows
    <3>1. aggs \in Seq(Aggregate) /\ Len(aggs) <= MaxRows /\ 0 \in 0 .. MaxUploads
      BY DEF TypeOK, DBTypeOK
    <3>2. SetUpload(Linked(run[r].id), 0) \/ UNCHANGED aggs
      BY Zenon, <1>8 DEF UnlinkAggregates
    <3> QED
      BY Zenon, <3>1, <3>2, SetUploadType
  <2>3. abandoned' \in SUBSET (0 .. MaxUploads)
    BY Zenon, <1>8, <1>b DEF UnlinkAggregates, RunState, TypeOK
  <2> QED
    BY Zenon, <1>8, <2>1, <2>2, <2>3 DEF UnlinkAggregates, TypeOK, DBTypeOK
<1> QED
  BY Zenon, <1>1, <1>2, <1>3, <1>4, <1>5, <1>6, <1>7, <1>8 DEF RunStep

\* The variables always have their types.
THEOREM TypeCorrect == Spec => []TypeOK
<1>1. Init => TypeOK
  BY Zenon, InitTypeOK
<1>2. TypeOK /\ [Next]_vars => TypeOK'
  <2> SUFFICES ASSUME TypeOK, [Next]_vars PROVE TypeOK'
    BY Zenon
  <2>1. CASE \E r \in Runs : RunStep(r)
    BY Zenon, <2>1, RunStepTypeOK
  <2>2. CASE Crash
    <3>1. run' \in [Runs -> RunState]
      BY <2>2 DEF Crash, Idle, RunState, PCs, Hours
    <3>2. abandoned' \in SUBSET (0 .. MaxUploads)
      <4>1. \A r \in Runs : run[r].id \in 0 .. MaxUploads
        BY Zenon DEF TypeOK, RunState
      <4> QED
        BY ZenonT(120), <2>2, <4>1 DEF Crash, TypeOK
    <3> QED
      BY Zenon, <2>2, <3>1, <3>2 DEF Crash, TypeOK, DBTypeOK, dbVars, NoReport
  <2>3. CASE Environment /\ UNCHANGED runVars
    <3>1. ASSUME Aggregated PROVE DBTypeOK'
      <4>1. PICK x \in Aggregate : aggs' = Append(aggs, x) /\ Len(aggs) < MaxRows
        BY <3>1 DEF Aggregated, InsertAggregate, Aggregate
      <4> QED
        BY <3>1, <4>1 DEF Aggregated, TypeOK, DBTypeOK
    <3>2. ASSUME TrialExtended \/ MethodAdded \/ EntitlementChanged PROVE DBTypeOK'
      <4>a. org \in [Orgs -> Organization]
        BY Zenon DEF TypeOK, DBTypeOK
      <4>b. ASSUME TrialExtended PROVE org' \in [Orgs -> Organization]
        BY <4>a, <4>b DEF TrialExtended, Organization
      <4>c. ASSUME MethodAdded PROVE org' \in [Orgs -> Organization]
        BY ZenonT(120), <4>a, <4>c DEF MethodAdded, Organization
      <4>d. ASSUME EntitlementChanged PROVE org' \in [Orgs -> Organization]
        BY ZenonT(120), <4>a, <4>d DEF EntitlementChanged, Organization
      <4>1. org' \in [Orgs -> Organization]
        BY Zenon, <3>2, <4>b, <4>c, <4>d
      <4> QED
        BY Zenon, <3>2, <4>1 DEF TrialExtended, MethodAdded, EntitlementChanged, TypeOK,
                          DBTypeOK
    <3>3. ASSUME Tick PROVE DBTypeOK'
      BY <3>3 DEF Tick, TypeOK, DBTypeOK, Hours
    <3> QED
      BY Zenon, <2>3, <3>1, <3>2, <3>3 DEF Environment, runVars, TypeOK
  <2>4. CASE UNCHANGED vars
    BY Zenon, <2>4 DEF vars, dbVars, runVars, TypeOK, DBTypeOK
  <2> QED
    BY Zenon, <2>1, <2>2, <2>3, <2>4 DEF Next
<1> QED
  BY <1>1, <1>2, PTL DEF Spec

-----------------------------------------------------------------------------
(* Charges and records.                                                    *)

\* The hypotheses of the theorems below: an uploader object is used by one
\* execution at a time, an organization pays through one provider, and only
\* GCP, which recognises what it has seen, may act without our being told.
Deployment ==
  /\ OneRunPerUploader
  /\ OneMethodPerOrganization
  /\ LossyReply \subseteq {"gcp"}

\* The rows of the table are aggregates, and their ids are row ids.
LEMMA RowType ==
  ASSUME TypeOK
  PROVE  /\ \A i \in DOMAIN aggs : /\ aggs[i] \in Aggregate /\ aggs[i].upload \in Nat
                                  /\ aggs[i].org \in Orgs
         /\ DOMAIN aggs \subseteq RowIDs
<1>1. aggs \in Seq(Aggregate) /\ Len(aggs) <= MaxRows
  BY Zenon DEF TypeOK, DBTypeOK
<1>2. \A i \in DOMAIN aggs : aggs[i] \in Aggregate
  BY <1>1
<1> QED
  BY <1>1, <1>2 DEF Aggregate, RowIDs

\* What moving one execution changes.
LEMMA MoveFacts ==
  ASSUME run \in [Runs -> RunState], NEW r \in Runs
  PROVE  /\ Return(r) =>
              /\ run'[r] = Idle
              /\ \A q \in Runs : q # r => run'[q] = run[q]
         /\ \A pc \in PCs : Goto(r, pc) =>
              /\ run'[r].pc = pc /\ run'[r].id = run[r].id
              /\ run'[r].ids = run[r].ids /\ run'[r].todo = run[r].todo
              /\ \A q \in Runs : q # r => run'[q] = run[q]
<1>1. ASSUME NEW pc \in PCs, Goto(r, pc)
      PROVE  /\ run'[r].pc = pc /\ run'[r].id = run[r].id
             /\ run'[r].ids = run[r].ids /\ run'[r].todo = run[r].todo
             /\ \A q \in Runs : q # r => run'[q] = run[q]
  <2>1. run[r] \in RunState
    BY Zenon
  <2>2. run'[r] = [run[r] EXCEPT !.pc = pc]
    BY Zenon, <1>1 DEF Goto
  <2>3. \A q \in Runs : q # r => run'[q] = run[q]
    BY Zenon, <1>1 DEF Goto
  <2> QED
    BY Zenon, <2>1, <2>2, <2>3 DEF RunState
<1> QED
  BY Zenon, <1>1 DEF Return

\* An execution that gives up before its upload is recorded, or ends with
\* nothing to upload, leaves the invariant intact.
LEMMA GiveUp ==
  ASSUME TypeOK, IndInv, NEW r \in Runs, run[r].id = 0,
         Return(r), UNCHANGED <<dbVars, report, abandoned>>
  PROVE  IndInv'
<1>1. /\ run'[r] = Idle
      /\ \A q \in Runs : q # r => run'[q] = run[q]
  BY Zenon, MoveFacts DEF TypeOK
<1>2. /\ run'[r].pc = "idle" /\ run'[r].id = 0 /\ run'[r].ids = {} /\ run'[r].todo = {}
  BY <1>1 DEF Idle
<1>3. \A q \in Runs : run'[q].id = run[q].id
  BY Zenon, <1>1, <1>2
<1>4. IDsKnown' /\ OwnerUnique' /\ UploadListed' /\ LinkedHeld'
  <2>1. IDsKnown'
    BY ZenonT(120), <1>1, <1>2, <1>3 DEF IndInv, IDsKnown, dbVars
  <2>2. OwnerUnique'
    BY ZenonT(120), <1>3 DEF IndInv, OwnerUnique
  <2>3. UploadListed'
    BY Zenon, <1>1, <1>2 DEF IndInv, UploadListed, dbVars
  <2>4. LinkedHeld'
    BY Zenon, <1>1, <1>2 DEF IndInv, LinkedHeld, dbVars
  <2> QED
    BY Zenon, <2>1, <2>2, <2>3, <2>4
<1>5. RowsHeld' /\ TodoSound'
  <2>1. RowsHeld'
    BY <1>1, <1>2 DEF IndInv, RowsHeld, dbVars
  <2>2. TodoSound'
    BY <1>1, <1>2 DEF IndInv, TodoSound, dbVars
  <2> QED
    BY Zenon, <2>1, <2>2
<1>6. ReportMatches'
  BY ZenonT(120), <1>1, <1>2 DEF IndInv, ReportMatches, Working, dbVars
<1>7. ChargesFinal' /\ ChargedAtMostOnce' /\ ChargedIsRecorded'
  BY Zenon, <1>3 DEF IndInv, ChargesFinal, ChargedAtMostOnce, ChargedIsRecorded, dbVars
<1>8. RecordedIsCharged'
  BY Zenon, <1>3 DEF IndInv, RecordedIsCharged, Billed, dbVars
<1> QED
  BY Zenon, <1>4, <1>5, <1>6, <1>7, <1>8 DEF IndInv

\* A new execution begins with an empty report, which no other uses.
LEMMA StartInv ==
  ASSUME TypeOK, IndInv, Deployment, NEW r \in Runs, Start(r)
  PROVE  IndInv'
<1> DEFINE u == UploaderOf[r]
           t == ThroughTime(u, now)
<1>a. UNCHANGED <<now, org, aggs, uploads, lastUpload, charged, abandoned>>
  BY Zenon DEF Start, dbVars
<1>b. u \in Uploaders /\ \A q \in Runs : q # r => UploaderOf[q] # u
  BY Zenon DEF Deployment, OneRunPerUploader
<1>1. run[r].pc = "idle" /\ run[r].id = 0 /\ run[r].ids = {} /\ run[r].todo = {}
  BY Zenon DEF Start, IndInv, IDsKnown, RowsHeld
<1>2. /\ report'[u] = NoReport
      /\ \A v \in Uploaders : v # u => report'[v] = report[v]
  BY Zenon, <1>b DEF Start, TypeOK
<1>3. /\ run'[r].id = 0 /\ run'[r].ids = {}
      /\ run'[r].pc \in {"idle", "collect"}
      /\ run'[r].pc = "idle" => run'[r].todo = {}
      /\ run'[r].todo \subseteq BillableOrganizations(u, t)
      /\ \A q \in Runs : q # r => run'[q] = run[q]
  <2>1. CASE run' = run
    BY Zenon, <1>1, <2>1
  <2>2. CASE run' = [run EXCEPT ![r] =
               [pc |-> "collect", through |-> t,
                todo |-> BillableOrganizations(u, t), ids |-> {}, id |-> 0]]
    BY Zenon, <2>2 DEF TypeOK
  <2> QED
    BY Zenon, <2>1, <2>2 DEF Start
<1>4. \A q \in Runs : run'[q].id = run[q].id /\ run'[q].ids = run[q].ids
  BY Zenon, <1>1, <1>3
<1>5. IDsKnown' /\ OwnerUnique' /\ UploadListed' /\ LinkedHeld'
  <2>1. IDsKnown'
    BY ZenonT(120), <1>a, <1>1, <1>3, <1>4 DEF IndInv, IDsKnown
  <2>2. OwnerUnique'
    BY ZenonT(120), <1>4 DEF IndInv, OwnerUnique
  <2>3. UploadListed'
    BY Zenon, <1>a, <1>3 DEF IndInv, UploadListed
  <2>4. LinkedHeld'
    BY Zenon, <1>a, <1>4 DEF IndInv, LinkedHeld
  <2> QED
    BY Zenon, <2>1, <2>2, <2>3, <2>4
<1>6. RowsHeld'
  BY <1>a, <1>3 DEF IndInv, RowsHeld
<1>7. TodoSound'
  <2>1. \A x \in BillableOrganizations(u, t) : 
          /\ u \in org[x.org].methods
          /\ \A y \in BillableOrganizations(u, t) : x.org = y.org => x = y
    BY <1>b DEF BillableOrganizations, Billable, IsSupported, GCPSubscription, Uploaders
  <2> QED
    BY <1>a, <1>3, <2>1 DEF IndInv, TodoSound
<1>8. ReportMatches'
  <2>1. \A i \in RowIDs : report'[u][i] = 0
    BY Zenon, <1>2 DEF NoReport
  <2>2. ASSUME NEW q \in Runs, q # r
        PROVE  report'[UploaderOf[q]] = report[UploaderOf[q]] /\ run'[q] = run[q]
    BY Zenon, <1>b, <1>2, <1>3, <2>2
  <2> QED
    BY <1>a, <1>3, <2>1, <2>2 DEF IndInv, ReportMatches, Working
<1>9. ChargesFinal' /\ ChargedAtMostOnce' /\ ChargedIsRecorded' /\ RecordedIsCharged'
  BY ZenonT(120), <1>a, <1>4 DEF IndInv, ChargesFinal, ChargedAtMostOnce, ChargedIsRecorded,
                    RecordedIsCharged, Billed
<1> QED
  BY Zenon, <1>5, <1>6, <1>7, <1>8, <1>9 DEF IndInv

\* A turn of the loop takes rows that no upload has, of an organization that was
\* not visited.
LEMMA CollectInv ==
  ASSUME TypeOK, IndInv, Deployment, NEW r \in Runs, Collect(r)
  PROVE  IndInv'
<1> DEFINE u == UploaderOf[r]
<1>a. UNCHANGED <<now, org, aggs, uploads, lastUpload, charged, abandoned>>
  BY Zenon DEF Collect, dbVars
<1>b. u \in Uploaders /\ \A q \in Runs : q # r => UploaderOf[q] # u
  BY Zenon DEF Deployment, OneRunPerUploader
<1>1. PICK o \in run[r].todo, rows \in SUBSET DOMAIN aggs :
        /\ \A i \in rows : aggs[i].upload = 0 /\ aggs[i].org = o.org
        /\ AddTo(u, rows)
        /\ run' = [run EXCEPT ![r] = Recorded(@, o, rows)]
  BY Zenon DEF Collect, GetAggregatesToUpload, GetAggregates
<1>2. rows \subseteq RowIDs
  BY SMTT(60) DEF TypeOK, DBTypeOK, RowIDs
<1>3. /\ run'[r].pc = "collect" /\ run[r].pc = "collect" /\ run'[r].id = run[r].id
      /\ run'[r].ids = run[r].ids \union rows
      /\ run'[r].todo = run[r].todo \ {o}
      /\ \A q \in Runs : q # r => run'[q] = run[q]
  <2>1. run[r] \in RunState /\ run[r].pc = "collect"
    BY Zenon DEF TypeOK, Collect
  <2>2. run'[r] = Recorded(run[r], o, rows)
    BY Zenon, <1>1 DEF TypeOK
  <2>3. \A q \in Runs : q # r => run'[q] = run[q]
    BY Zenon, <1>1 DEF TypeOK
  <2> QED
    BY Zenon, <2>1, <2>2, <2>3 DEF Recorded, RunState
<1>4. \A q \in Runs : run'[q].id = run[q].id /\ run'[q].pc = run[q].pc
  BY Zenon, <1>3
<1>5. IDsKnown' /\ OwnerUnique' /\ UploadListed' /\ LinkedHeld'
  <2>1. IDsKnown' /\ OwnerUnique' /\ UploadListed'
    BY <1>a, <1>4 DEF IndInv, IDsKnown, OwnerUnique, UploadListed
  <2>2. LinkedHeld'
    BY ZenonT(120), <1>a, <1>3, <1>4 DEF IndInv, LinkedHeld
  <2> QED
    BY Zenon, <2>1, <2>2
<1>6. RowsHeld'
  <2>1. u \in org[o.org].methods
    BY Zenon DEF IndInv, TodoSound
  <2> QED
    BY SMTT(60), <1>a, <1>1, <1>2, <1>3, <2>1 DEF IndInv, RowsHeld
<1>7. TodoSound'
  BY <1>a, <1>1, <1>3 DEF IndInv, TodoSound
<1>8. ReportMatches'
  <2>1. \A i \in rows : i \notin run[r].ids
    BY Zenon, <1>1 DEF IndInv, TodoSound
  <2>2. ASSUME NEW i \in RowIDs
        PROVE  report'[u][i] = IF i \in run'[r].ids /\ aggs[i].type \in Units[u] THEN 1 ELSE 0
    <3>1. report[u][i] = IF i \in run[r].ids /\ aggs[i].type \in Units[u] THEN 1 ELSE 0
      BY <1>3 DEF IndInv, ReportMatches, Working
    <3>2. report'[u][i] = IF i \in rows /\ aggs[i].type \in Units[u]
                          THEN report[u][i] + 1 ELSE report[u][i]
      BY Zenon, <1>1, <1>b DEF AddTo, TypeOK
    <3> QED
      BY <1>3, <2>1, <3>1, <3>2
  <2>3. \A v \in Uploaders : v # u => report'[v] = report[v]
    BY Zenon, <1>1, <1>b DEF AddTo, TypeOK
  <2>4. ASSUME NEW q \in Runs, q # r
        PROVE  report'[UploaderOf[q]] = report[UploaderOf[q]] /\ run'[q] = run[q]
    BY Zenon, <1>b, <1>3, <2>3, <2>4
  <2> QED
    BY <1>a, <1>3, <2>2, <2>4 DEF IndInv, ReportMatches, Working
<1>9. ChargesFinal' /\ ChargedAtMostOnce' /\ ChargedIsRecorded' /\ RecordedIsCharged'
  BY ZenonT(120), <1>a, <1>4 DEF IndInv, ChargesFinal, ChargedAtMostOnce, ChargedIsRecorded,
                    RecordedIsCharged, Billed
<1> QED
  BY Zenon, <1>5, <1>6, <1>7, <1>8, <1>9 DEF IndInv

\* The id of a new upload is nobody's and no row's.
LEMMA InsertUploadInv ==
  ASSUME TypeOK, IndInv, Deployment, NEW r \in Runs, InsertUpload(r)
  PROVE  IndInv'
<1> DEFINE u == UploaderOf[r]
           k == lastUpload + 1
<1>1. run[r].pc = "collect" /\ run[r].id = 0
  BY Zenon DEF InsertUpload, IndInv, IDsKnown
<1>2. CASE Return(r) /\ UNCHANGED <<uploads, lastUpload>>
  BY Zenon, <1>1, <1>2, GiveUp DEF InsertUpload, dbVars
<1>3. CASE /\ lastUpload' = k
           /\ uploads' = uploads \union {[id |-> k, uploader |-> u]}
           /\ run' = [run EXCEPT ![r] = [@ EXCEPT !.pc = "link", !.id = k]]
  <2>a. UNCHANGED <<now, org, aggs, charged, report, abandoned>>
    BY Zenon DEF InsertUpload
  <2>1. /\ run'[r].pc = "link" /\ run'[r].id = k
        /\ run'[r].ids = run[r].ids /\ run'[r].todo = run[r].todo
        /\ \A q \in Runs : q # r => run'[q] = run[q]
    <3>1. run[r] \in RunState
      BY Zenon DEF TypeOK
    <3>2. run'[r] = [run[r] EXCEPT !.pc = "link", !.id = k]
      BY Zenon, <1>3 DEF TypeOK
    <3>3. \A q \in Runs : q # r => run'[q] = run[q]
      BY Zenon, <1>3 DEF TypeOK
    <3> QED
      BY Zenon, <3>1, <3>2, <3>3 DEF RunState
  <2>2. /\ lastUpload \in Nat /\ k # 0
        /\ \A q \in Runs : run[q].id \in Nat /\ run[q].id <= lastUpload
        /\ \A i \in DOMAIN aggs : aggs[i].upload \in Nat /\ aggs[i].upload <= lastUpload
    BY SMTT(60), RowType DEF TypeOK, DBTypeOK, RunState, IndInv, IDsKnown
  <2>3. /\ \A q \in Runs : run[q].id # k
        /\ \A i \in DOMAIN aggs : aggs[i].upload # k
    BY <2>2
  <2>4. IDsKnown'
    BY <1>3, <2>a, <2>1, <2>2 DEF IndInv, IDsKnown
  <2>5. OwnerUnique'
    BY <2>1, <2>3 DEF IndInv, OwnerUnique
  <2>6. UploadListed'
    BY <1>3, <2>1 DEF IndInv, UploadListed
  <2>7. LinkedHeld'
    BY <2>a, <2>1, <2>3 DEF IndInv, LinkedHeld
  <2>8. RowsHeld' /\ TodoSound'
    <3>1. RowsHeld'
      BY <1>1, <2>a, <2>1 DEF IndInv, RowsHeld
    <3>2. TodoSound'
      BY <2>a, <2>1 DEF IndInv, TodoSound
    <3> QED
      BY Zenon, <3>1, <3>2
  <2>9. ReportMatches'
    BY <1>1, <2>a, <2>1 DEF IndInv, ReportMatches, Working
  <2>10. ChargedAtMostOnce' /\ ChargedIsRecorded' /\ ChargesFinal'
    <3>1. ChargedAtMostOnce' /\ ChargedIsRecorded'
      BY Zenon, <1>3, <2>a DEF IndInv, ChargedAtMostOnce, ChargedIsRecorded
    <3>2. ChargesFinal'
      BY ZenonT(120), <2>a, <2>1, <2>3 DEF IndInv, ChargesFinal, ChargedIsRecorded
    <3> QED
      BY Zenon, <3>1, <3>2
  <2>11. RecordedIsCharged'
    BY <1>1, <1>3, <2>a, <2>1 DEF IndInv, RecordedIsCharged, Billed
  <2> QED
    BY Zenon, <2>4, <2>5, <2>6, <2>7, <2>8, <2>9, <2>10, <2>11 DEF IndInv
<1> QED
  BY Zenon, <1>2, <1>3 DEF InsertUpload

\* Two executions hold no row in common: its organization would pay both their
\* providers.
LEMMA RowsDisjoint ==
  ASSUME TypeOK, IndInv, Deployment, NEW r \in Runs, NEW q \in Runs, q # r
  PROVE  run[r].ids \intersect run[q].ids = {}
<1>1. UploaderOf[r] # UploaderOf[q]
  BY Zenon DEF Deployment, OneRunPerUploader
<1>2. ASSUME NEW i \in RowIDs, i \in run[r].ids, i \in run[q].ids
      PROVE  FALSE
  <2>1. i \in DOMAIN aggs
    BY Zenon, <1>2 DEF IndInv, RowsHeld
  <2>2. org[aggs[i].org].methods \in Methods
    BY Zenon, <2>1, RowType DEF TypeOK, DBTypeOK, Organization
  <2>3. {UploaderOf[r], UploaderOf[q]} \subseteq org[aggs[i].org].methods
    BY ZenonT(120), <1>2 DEF IndInv, RowsHeld
  <2> QED
    BY <1>1, <2>2, <2>3 DEF Deployment, OneMethodPerOrganization, Uploaders
<1>3. run[r].ids \subseteq RowIDs
  BY Zenon DEF TypeOK, RunState
<1> QED
  BY Zenon, <1>2, <1>3

\* Moving on to the deletion of an upload, when nothing was linked or nothing
\* was sent.
LEMMA GotoDeleteInv ==
  ASSUME TypeOK, IndInv, NEW r \in Runs, run[r].pc \in {"link", "upload"},
         Goto(r, "delete"),
         UNCHANGED <<now, org, aggs, uploads, lastUpload, charged, report, abandoned>>
  PROVE  IndInv'
<1>1. /\ run'[r].pc = "delete" /\ run'[r].id = run[r].id
      /\ run'[r].ids = run[r].ids /\ run'[r].todo = run[r].todo
      /\ \A q \in Runs : q # r => run'[q] = run[q]
  BY Zenon, MoveFacts DEF TypeOK, PCs
<1>2. \A q \in Runs : /\ run'[q].id = run[q].id /\ run'[q].ids = run[q].ids
                      /\ run'[q].todo = run[q].todo
  BY Zenon, <1>1
<1>3. IDsKnown'
  BY ZenonT(120), <1>1, <1>2 DEF IndInv, IDsKnown
<1>4. OwnerUnique' /\ LinkedHeld' /\ TodoSound'
  BY SMTT(60), <1>2 DEF IndInv, OwnerUnique, LinkedHeld, TodoSound
<1>5. UploadListed'
  BY Zenon, <1>1 DEF IndInv, UploadListed
<1>6. RowsHeld'
  BY SMTT(60), <1>1 DEF IndInv, RowsHeld
<1>7. ReportMatches'
  BY ZenonT(120), <1>1 DEF IndInv, ReportMatches, Working
<1>8. ChargesFinal' /\ ChargedAtMostOnce' /\ ChargedIsRecorded' /\ RecordedIsCharged'
  BY SMTT(60), <1>2 DEF IndInv, ChargesFinal, ChargedAtMostOnce, ChargedIsRecorded,
                RecordedIsCharged, Billed
<1> QED
  BY Zenon, <1>3, <1>4, <1>5, <1>6, <1>7, <1>8 DEF IndInv

\* Linking gives the rows held their upload, and touches no row that was charged.
LEMMA LinkInv ==
  ASSUME TypeOK, IndInv, Deployment, NEW r \in Runs, LinkAggregates(r)
  PROVE  IndInv'
<1>1. run[r].pc = "link" /\ run[r].id # 0 /\ run[r].id \in 0 .. MaxUploads
  BY Zenon DEF LinkAggregates, IndInv, IDsKnown, TypeOK, RunState
<1>2. CASE Goto(r, "delete") /\ UNCHANGED aggs
  BY Zenon, <1>1, <1>2, GotoDeleteInv DEF LinkAggregates
<1>3. CASE SetUpload(run[r].ids, run[r].id) /\ Goto(r, "upload")
  <2>a. UNCHANGED <<now, org, uploads, lastUpload, charged, report, abandoned>>
    BY Zenon DEF LinkAggregates
  <2>b. /\ run'[r].pc = "upload" /\ run'[r].id = run[r].id
        /\ run'[r].ids = run[r].ids /\ run'[r].todo = run[r].todo
        /\ \A q \in Runs : q # r => run'[q] = run[q]
    BY Zenon, <1>3, MoveFacts DEF TypeOK, PCs
  <2>c. \A q \in Runs : /\ run'[q].id = run[q].id /\ run'[q].ids = run[q].ids
                        /\ run'[q].todo = run[q].todo
    BY Zenon, <2>b
  <2>d. /\ DOMAIN aggs' = DOMAIN aggs
        /\ \A i \in DOMAIN aggs :
             /\ aggs'[i].org = aggs[i].org /\ aggs'[i].type = aggs[i].type
             /\ aggs'[i].upload = IF i \in run[r].ids THEN run[r].id ELSE aggs[i].upload
    BY ZenonT(120), <1>1, <1>3, SetUploadType DEF TypeOK, DBTypeOK
  <2>e. \A q \in Runs : run[q].ids \subseteq DOMAIN aggs
    BY Zenon DEF IndInv, RowsHeld
  <2>f. \A i \in run[r].ids : aggs[i].upload = 0
    BY Zenon, <1>1, <2>e, RowType DEF IndInv, RowsHeld
  <2>1. IDsKnown'
    BY ZenonT(120), <1>1, <2>a, <2>b, <2>c, <2>d DEF IndInv, IDsKnown
  <2>2. OwnerUnique'
    BY ZenonT(120), <2>c DEF IndInv, OwnerUnique
  <2>3. UploadListed'
    BY Zenon, <1>1, <2>a, <2>b DEF IndInv, UploadListed
  <2>4. LinkedHeld'
    BY <1>1, <2>c, <2>d DEF IndInv, LinkedHeld, OwnerUnique
  <2>5. RowsHeld'
    <3>1. \A q \in Runs, i \in RowIDs : i \in run'[q].ids =>
            UploaderOf[q] \in org'[aggs'[i].org].methods
      BY ZenonT(120), <2>a, <2>c, <2>d, <2>e DEF IndInv, RowsHeld
    <3>2. ASSUME NEW q \in Runs, q # r
          PROVE  \A i \in run[q].ids : aggs'[i].upload = aggs[i].upload
      BY Zenon, <2>d, <2>e, <3>2, RowsDisjoint
    <3>3. \A i \in run[r].ids : aggs'[i].upload = run[r].id
      BY Zenon, <2>d, <2>e
    <3> QED
      <4>1. \A q \in Runs : /\ run'[q].ids \subseteq DOMAIN aggs'
                            /\ run'[q].pc = "idle" => run'[q].ids = {} /\ run'[q].todo = {}
        <5>1. \A q \in Runs : run'[q].ids \subseteq DOMAIN aggs'
          BY Zenon, <2>c, <2>d, <2>e
        <5>2. \A q \in Runs : run[q].pc = "idle" => run[q].ids = {} /\ run[q].todo = {}
          BY Zenon DEF IndInv, RowsHeld
        <5>3. \A q \in Runs : run'[q].pc = "idle" => run[q].pc = "idle"
          BY Zenon, <2>b
        <5> QED
          BY Zenon, <2>c, <5>1, <5>2, <5>3
      <4>2. ASSUME NEW q \in Runs, NEW i \in RowIDs, i \in run'[q].ids
            PROVE  /\ run'[q].pc \in {"collect", "link"} => aggs'[i].upload = 0
                   /\ run'[q].pc = "upload" => aggs'[i].upload = run'[q].id
                   /\ aggs'[i].upload \in {0, run'[q].id}
        <5>1. CASE q = r
          BY Zenon, <2>b, <3>3, <4>2, <5>1
        <5>2. CASE q # r
          <6>1. run'[q] = run[q] /\ i \in run[q].ids /\ aggs'[i].upload = aggs[i].upload
            BY ZenonT(120), <2>b, <3>2, <4>2, <5>2
          <6>2. /\ UploaderOf[q] \in org[aggs[i].org].methods
                /\ run[q].pc \in {"collect", "link"} => aggs[i].upload = 0
                /\ run[q].pc = "upload" => aggs[i].upload = run[q].id
                /\ aggs[i].upload \in {0, run[q].id}
            BY Zenon, <6>1 DEF IndInv, RowsHeld
          <6> QED
            BY Zenon, <6>1, <6>2
        <5> QED
          BY Zenon, <5>1, <5>2
      <4> QED
        BY Zenon, <3>1, <4>1, <4>2 DEF RowsHeld
  <2>6. TodoSound'
    BY <2>a, <2>c, <2>d, <2>e DEF IndInv, TodoSound
  <2>7. ReportMatches'
    BY <1>1, <2>a, <2>b, <2>d, <2>e DEF IndInv, ReportMatches, Working
  <2>8. ChargedAtMostOnce'
    BY Zenon, <2>a DEF IndInv, ChargedAtMostOnce
  <2>9. ChargedIsRecorded' /\ ChargesFinal'
    <3>1. ASSUME NEW v \in Uploaders \ LossyReply, NEW i \in RowIDs, charged[v][i] > 0
          PROVE  i \in DOMAIN aggs /\ aggs'[i].upload = aggs[i].upload
      <4>1. i \in DOMAIN aggs /\ [id |-> aggs[i].upload, uploader |-> v] \in uploads
        BY Zenon, <3>1 DEF IndInv, ChargedIsRecorded
      <4>2. aggs[i].upload # 0
        BY <4>1 DEF TypeOK, DBTypeOK, UsageUpload, UploadIDs
      <4> QED
        BY Zenon, <4>1, <4>2, <2>d, <2>f
    <3> QED
      BY <2>a, <2>c, <2>d, <3>1 DEF IndInv, ChargedIsRecorded, ChargesFinal
  <2>10. RecordedIsCharged'
    BY <2>a, <2>c, <2>d DEF IndInv, RecordedIsCharged, Billed
  <2> QED
    BY Zenon, <2>1, <2>2, <2>3, <2>4, <2>5, <2>6, <2>7, <2>8, <2>9, <2>10 DEF IndInv
<1> QED
  BY Zenon, <1>2, <1>3 DEF LinkAggregates

\* The provider charges each row of the report once more, none of which it had
\* charged, unless it recognises it.
LEMMA ReceiveFacts ==
  ASSUME TypeOK, IndInv, Deployment, NEW r \in Runs, run[r].pc = "upload",
         Receive(UploaderOf[r])
  PROVE  /\ \A v \in Uploaders : v # UploaderOf[r] => charged'[v] = charged[v]
         /\ \A i \in RowIDs : charged'[UploaderOf[r]][i] <= 1
         /\ \A i \in RowIDs : charged'[UploaderOf[r]][i] > 0 =>
              charged[UploaderOf[r]][i] > 0 \/ i \in run[r].ids
         /\ \A i \in run[r].ids : aggs[i].type \in Units[UploaderOf[r]] =>
              charged'[UploaderOf[r]][i] > 0
         /\ \A v \in Uploaders, i \in RowIDs :
              charged[v][i] > 0 => charged'[v][i] > 0
<1> DEFINE u == UploaderOf[r]
<1>0. u \in Uploaders
  BY Zenon
<1>1. /\ charged \in [Uploaders -> [RowIDs -> Nat]]
      /\ report \in [Uploaders -> [RowIDs -> Nat]]
      /\ run[r].ids \subseteq RowIDs
  BY Zenon DEF TypeOK, DBTypeOK, RunState
<1>2. \A i \in RowIDs : charged'[u][i] =
        IF u = "gcp" /\ report[u][i] > 0 THEN 1 ELSE charged[u][i] + report[u][i]
  BY Zenon, <1>0, <1>1 DEF Receive
<1>3. \A v \in Uploaders : v # u => charged'[v] = charged[v]
  BY Zenon, <1>0, <1>1 DEF Receive
<1>4. \A i \in RowIDs : report[u][i] =
        IF i \in run[r].ids /\ aggs[i].type \in Units[u] THEN 1 ELSE 0
  BY Zenon DEF IndInv, ReportMatches, Working
<1>5. ASSUME NEW i \in RowIDs, i \in run[r].ids, u # "gcp"
      PROVE  charged[u][i] = 0
  <2>1. u \in Uploaders \ LossyReply
    BY Zenon, <1>0, <1>5 DEF Deployment
  <2>2. aggs[i].upload = run[r].id
    BY Zenon, <1>5 DEF IndInv, RowsHeld
  <2>3. ~(charged[u][i] > 0)
    BY Zenon, <2>1, <2>2 DEF IndInv, ChargesFinal
  <2>4. charged[u][i] \in Nat
    BY <1>0, <1>1
  <2> QED
    BY <2>3, <2>4
<1>6. \A i \in RowIDs : charged[u][i] <= 1 /\ charged[u][i] \in Nat
  BY <1>0, <1>1 DEF IndInv, ChargedAtMostOnce
<1>7. ASSUME NEW i \in RowIDs
      PROVE  /\ charged'[u][i] <= 1
             /\ charged'[u][i] > 0 => charged[u][i] > 0 \/ i \in run[r].ids
             /\ i \in run[r].ids /\ aggs[i].type \in Units[u] => charged'[u][i] > 0
             /\ charged[u][i] > 0 => charged'[u][i] > 0
  <2>1. CASE report[u][i] = 0
    <3>1. charged'[u][i] = charged[u][i]
      BY <1>2, <1>6, <2>1
    <3>2. ~(i \in run[r].ids /\ aggs[i].type \in Units[u])
      BY <1>4, <2>1
    <3> QED
      BY Zenon, <1>6, <3>1, <3>2
  <2>2. CASE report[u][i] # 0 /\ u = "gcp"
    <3>1. i \in run[r].ids
      BY Zenon, <1>4, <2>2
    <3>2. charged'[u][i] = 1
      BY <1>2, <1>4, <2>2
    <3> QED
      BY <3>1, <3>2
  <2>3. CASE report[u][i] # 0 /\ u # "gcp"
    <3>1. i \in run[r].ids /\ report[u][i] = 1
      BY Zenon, <1>4, <2>3
    <3>2. charged'[u][i] = charged[u][i] + report[u][i]
      BY Zenon, <1>2, <2>3
    <3> QED
      BY <1>5, <2>3, <3>1, <3>2
  <2> QED
    BY Zenon, <2>1, <2>2, <2>3
<1> QED
  BY Zenon, <1>1, <1>3, <1>7

\* Once the report is delivered its rows are charged and stay linked.
LEMMA UploadInv ==
  ASSUME TypeOK, IndInv, Deployment, NEW r \in Runs, Upload(r)
  PROVE  IndInv'
<1> DEFINE u == UploaderOf[r]
<1>a. UNCHANGED <<now, org, aggs, uploads, lastUpload, report, abandoned>>
  BY Zenon DEF Upload
<1>b. u \in Uploaders
  BY Zenon
<1>c. run[r].pc = "upload" /\ run[r].id # 0
  BY Zenon DEF Upload, IndInv, IDsKnown
<1>1. /\ run'[r].pc = "idle" /\ run'[r].id = 0 /\ run'[r].ids = {} /\ run'[r].todo = {}
      /\ \A q \in Runs : q # r => run'[q] = run[q]
  BY MoveFacts DEF Upload, TypeOK, Idle
<1>2. /\ \A v \in Uploaders : v # u => charged'[v] = charged[v]
      /\ \A i \in RowIDs : charged'[u][i] <= 1
      /\ \A i \in RowIDs : charged'[u][i] > 0 => charged[u][i] > 0 \/ i \in run[r].ids
      /\ \A i \in run[r].ids : aggs[i].type \in Units[u] => charged'[u][i] > 0
      /\ \A v \in Uploaders, i \in RowIDs : charged[v][i] > 0 => charged'[v][i] > 0
  BY Zenon, <1>c, ReceiveFacts DEF Upload
<1>3. IDsKnown'
  <2>1. 0 <= lastUpload
    BY DEF TypeOK, DBTypeOK
  <2>2. \A q \in Runs : run'[q].id <= lastUpload
    BY Zenon, <1>1, <2>1 DEF IndInv, IDsKnown
  <2>3. \A q \in Runs : run'[q].id = 0 <=> run'[q].pc \in {"idle", "collect"}
    BY ZenonT(120), <1>1 DEF IndInv, IDsKnown
  <2> QED
    BY Zenon, <1>a, <2>2, <2>3 DEF IndInv, IDsKnown
<1>4. OwnerUnique'
  <2>1. ASSUME NEW p \in Runs, NEW q \in Runs, run'[q].id = run'[p].id, run'[p].id # 0
        PROVE  q = p
    <3>1. p # r /\ q # r
      BY Zenon, <1>1, <2>1
    <3> QED
      BY ZenonT(120), <1>1, <2>1, <3>1 DEF IndInv, OwnerUnique
  <2> QED
    BY Zenon, <2>1 DEF OwnerUnique
<1>5. UploadListed' /\ LinkedHeld' /\ TodoSound'
  <2>1. UploadListed'
    BY Zenon, <1>a, <1>1 DEF IndInv, UploadListed
  <2>2. LinkedHeld'
    BY Zenon, <1>a, <1>1 DEF IndInv, LinkedHeld
  <2>3. TodoSound'
    BY <1>a, <1>1 DEF IndInv, TodoSound
  <2> QED
    BY Zenon, <2>1, <2>2, <2>3
<1>6. RowsHeld'
  BY <1>a, <1>1 DEF IndInv, RowsHeld
<1>7. ReportMatches'
  BY ZenonT(120), <1>a, <1>1 DEF IndInv, ReportMatches, Working
<1>8. ChargedAtMostOnce'
  BY Zenon, <1>2 DEF IndInv, ChargedAtMostOnce
<1>9. ASSUME NEW i \in run[r].ids
      PROVE  /\ i \in DOMAIN aggs /\ aggs[i].upload = run[r].id
             /\ [id |-> aggs[i].upload, uploader |-> u] \in uploads
  BY ZenonT(120), <1>c, <1>9, RowType DEF IndInv, RowsHeld, UploadListed
<1>10. ChargedIsRecorded'
  BY Zenon, <1>a, <1>2, <1>9 DEF IndInv, ChargedIsRecorded
<1>11. ChargesFinal'
  <2>1. ASSUME NEW v \in Uploaders \ LossyReply, NEW i \in RowIDs, charged'[v][i] > 0,
               NEW q \in Runs
        PROVE  run'[q].id # aggs[i].upload
    <3>1. CASE charged[v][i] > 0
      <4>1. run[q].id # aggs[i].upload
        BY Zenon, <3>1 DEF IndInv, ChargesFinal
      <4>2. i \in DOMAIN aggs /\ [id |-> aggs[i].upload, uploader |-> v] \in uploads
        BY Zenon, <3>1 DEF IndInv, ChargedIsRecorded
      <4>3. aggs[i].upload # 0
        BY <4>2 DEF TypeOK, DBTypeOK, UsageUpload, UploadIDs
      <4> QED
        BY Zenon, <1>1, <4>1, <4>3
    <3>2. CASE i \in run[r].ids
      <4>1. aggs[i].upload = run[r].id
        BY Zenon, <1>9, <3>2
      <4> QED
        BY ZenonT(120), <1>1, <1>c, <4>1 DEF IndInv, OwnerUnique
    <3> QED
      BY Zenon, <1>2, <2>1, <3>1, <3>2
  <2> QED
    BY Zenon, <1>a, <2>1 DEF ChargesFinal
<1>12. RecordedIsCharged'
  <2>1. ASSUME NEW i \in DOMAIN aggs, aggs[i].upload = run[r].id
        PROVE  Billed(i)'
    <3>1. i \in run[r].ids
      BY Zenon, <1>c, <2>1 DEF IndInv, LinkedHeld
    <3> QED
      BY Zenon, <1>a, <1>2, <1>9, <3>1 DEF Billed
  <2>2. ASSUME NEW i \in DOMAIN aggs, Billed(i)
        PROVE  Billed(i)'
    BY ZenonT(120), <1>a, <1>2, <2>2, RowType DEF Billed, TypeOK, DBTypeOK, UsageUpload
  <2>3. \A q \in Runs : q # r => run'[q].id = run[q].id
    BY Zenon, <1>1
  <2>4. ASSUME NEW i \in DOMAIN aggs, aggs[i].upload # 0
        PROVE  \/ Billed(i)'
               \/ aggs[i].upload \in {run'[q].id : q \in Runs} \union abandoned
    BY Zenon, <2>1, <2>2, <2>3, <2>4 DEF IndInv, RecordedIsCharged
  <2> QED
    BY Zenon, <1>a, <2>4 DEF RecordedIsCharged
<1> QED
  BY Zenon, <1>3, <1>4, <1>5, <1>6, <1>7, <1>8, <1>10, <1>11, <1>12 DEF IndInv

\* A failed upload charged nothing, or it went to GCP.
LEMMA UploadFailsInv ==
  ASSUME TypeOK, IndInv, Deployment, NEW r \in Runs, UploadFails(r)
  PROVE  IndInv'
<1> DEFINE u == UploaderOf[r]
<1>a. /\ run[r].pc = "upload" /\ Goto(r, "delete")
      /\ UNCHANGED <<now, org, aggs, uploads, lastUpload, report, abandoned>>
  BY Zenon DEF UploadFails
<1>1. CASE UNCHANGED charged
  BY Zenon, <1>a, <1>1, GotoDeleteInv
<1>2. CASE u \in LossyReply /\ Receive(u)
  <2>1. /\ \A v \in Uploaders \ LossyReply : charged'[v] = charged[v]
        /\ \A i \in RowIDs : charged'[u][i] <= 1
        /\ \A v \in Uploaders : v # u => charged'[v] = charged[v]
        /\ \A v \in Uploaders, i \in RowIDs : charged[v][i] > 0 => charged'[v][i] > 0
    BY Zenon, <1>a, <1>2, ReceiveFacts
  <2>2. /\ run'[r].pc = "delete" /\ run'[r].id = run[r].id
        /\ run'[r].ids = run[r].ids /\ run'[r].todo = run[r].todo
        /\ \A q \in Runs : q # r => run'[q] = run[q]
    BY Zenon, <1>a, MoveFacts DEF TypeOK, PCs
  <2>3. \A q \in Runs : /\ run'[q].id = run[q].id /\ run'[q].ids = run[q].ids
                        /\ run'[q].todo = run[q].todo
    BY Zenon, <2>2
  <2>4. IDsKnown'
    BY ZenonT(120), <1>a, <2>2, <2>3 DEF IndInv, IDsKnown
  <2>5. OwnerUnique' /\ LinkedHeld' /\ TodoSound'
    BY <1>a, <2>3 DEF IndInv, OwnerUnique, LinkedHeld, TodoSound
  <2>6. UploadListed'
    BY Zenon, <1>a, <2>2 DEF IndInv, UploadListed
  <2>7. RowsHeld'
    <3>1. \A q \in Runs : /\ run'[q].ids \subseteq DOMAIN aggs'
                          /\ run'[q].pc = "idle" => run'[q].ids = {} /\ run'[q].todo = {}
      <4>1. \A q \in Runs : /\ run[q].ids \subseteq DOMAIN aggs
                            /\ run[q].pc = "idle" => run[q].ids = {} /\ run[q].todo = {}
        BY Zenon DEF IndInv, RowsHeld
      <4>2. \A q \in Runs : run'[q].pc = "idle" => run[q].pc = "idle"
        BY Zenon, <2>2
      <4> QED
        BY Zenon, <1>a, <2>3, <4>1, <4>2
    <3>2. ASSUME NEW q \in Runs, NEW i \in RowIDs, i \in run'[q].ids
          PROVE  /\ UploaderOf[q] \in org'[aggs'[i].org].methods
                 /\ run'[q].pc \in {"collect", "link"} => aggs'[i].upload = 0
                 /\ run'[q].pc = "upload" => aggs'[i].upload = run'[q].id
                 /\ aggs'[i].upload \in {0, run'[q].id}
      <4>1. i \in run[q].ids /\ run'[q].id = run[q].id /\ org' = org /\ aggs' = aggs
        BY Zenon, <1>a, <2>2, <3>2
      <4>2. run'[q].pc \in {"collect", "link", "upload"} => run'[q].pc = run[q].pc
        BY Zenon, <2>2
      <4> QED
        BY ZenonT(120), <4>1, <4>2 DEF IndInv, RowsHeld
    <3> QED
      BY Zenon, <3>1, <3>2 DEF RowsHeld
  <2>8. ReportMatches'
    BY ZenonT(120), <1>a, <2>2 DEF IndInv, ReportMatches, Working
  <2>9. ChargesFinal' /\ ChargedAtMostOnce' /\ ChargedIsRecorded'
    BY <1>a, <2>1, <2>3 DEF IndInv, ChargesFinal, ChargedAtMostOnce, ChargedIsRecorded
  <2>10. RecordedIsCharged'
    <3>1. ASSUME NEW i \in DOMAIN aggs, Billed(i)
          PROVE  Billed(i)'
      BY Zenon, <1>a, <2>1, <3>1, RowType DEF Billed, TypeOK, DBTypeOK, UsageUpload
    <3>2. {run'[q].id : q \in Runs} = {run[q].id : q \in Runs}
      BY ZenonT(120), <2>3
    <3> QED
      BY Zenon, <1>a, <3>1, <3>2 DEF IndInv, RecordedIsCharged
  <2> QED
    BY Zenon, <2>4, <2>5, <2>6, <2>7, <2>8, <2>9, <2>10 DEF IndInv
<1> QED
  BY Zenon, <1>1, <1>2 DEF UploadFails

\* An execution that ends while its upload may be linked leaves the upload behind.
LEMMA AbandonInv ==
  ASSUME TypeOK, IndInv, NEW r \in Runs, run[r].id # 0,
         Return(r), abandoned' = abandoned \union {run[r].id},
         UNCHANGED <<now, org, aggs, uploads, lastUpload, charged, report>>
  PROVE  IndInv'
<1>1. /\ run'[r].pc = "idle" /\ run'[r].id = 0 /\ run'[r].ids = {} /\ run'[r].todo = {}
      /\ \A q \in Runs : q # r => run'[q] = run[q]
  BY MoveFacts DEF TypeOK, Idle
<1>2. /\ 0 <= lastUpload
      /\ \A v \in Uploaders \ LossyReply, i \in RowIDs : charged[v][i] > 0 =>
           aggs[i].upload # 0
  <2>1. ASSUME NEW v \in Uploaders \ LossyReply, NEW i \in RowIDs, charged[v][i] > 0
        PROVE  aggs[i].upload # 0
    <3>1. [id |-> aggs[i].upload, uploader |-> v] \in uploads
      BY Zenon, <2>1 DEF IndInv, ChargedIsRecorded
    <3> QED
      BY <3>1 DEF TypeOK, DBTypeOK, UsageUpload, UploadIDs
  <2> QED
    BY <2>1 DEF TypeOK, DBTypeOK
<1>3. IDsKnown'
  <2>1. \A q \in Runs : run'[q].id <= lastUpload
    BY Zenon, <1>1, <1>2 DEF IndInv, IDsKnown
  <2>2. \A q \in Runs : run'[q].id = 0 <=> run'[q].pc \in {"idle", "collect"}
    BY ZenonT(120), <1>1 DEF IndInv, IDsKnown
  <2> QED
    BY Zenon, <2>1, <2>2 DEF IndInv, IDsKnown
<1>4. OwnerUnique'
  <2>1. ASSUME NEW p \in Runs, NEW q \in Runs, run'[q].id = run'[p].id, run'[p].id # 0
        PROVE  q = p
    <3>1. p # r /\ q # r
      BY Zenon, <1>1, <2>1
    <3>2. run[q].id = run[p].id /\ run[p].id # 0
      BY Zenon, <1>1, <2>1, <3>1
    <3> QED
      BY Zenon, <3>2 DEF IndInv, OwnerUnique
  <2> QED
    BY Zenon, <2>1 DEF OwnerUnique
<1>5. UploadListed'
  BY Zenon, <1>1 DEF IndInv, UploadListed
<1>6. LinkedHeld'
  BY Zenon, <1>1 DEF IndInv, LinkedHeld
<1>7. RowsHeld'
  BY <1>1 DEF IndInv, RowsHeld
<1>8. TodoSound'
  BY <1>1 DEF IndInv, TodoSound
<1>9. ReportMatches'
  BY ZenonT(120), <1>1 DEF IndInv, ReportMatches, Working
<1>10. ChargedAtMostOnce' /\ ChargedIsRecorded'
  BY Zenon DEF IndInv, ChargedAtMostOnce, ChargedIsRecorded
<1>11. ChargesFinal'
  BY ZenonT(120), <1>1, <1>2 DEF IndInv, ChargesFinal
<1>12. RecordedIsCharged'
  <2>1. {run[q].id : q \in Runs} \subseteq {run'[q].id : q \in Runs} \union abandoned'
    BY ZenonT(120), <1>1
  <2>2. \A i \in DOMAIN aggs : Billed(i) => Billed(i)'
    BY Zenon DEF Billed
  <2> QED
    BY Zenon, <2>1, <2>2 DEF IndInv, RecordedIsCharged
<1> QED
  BY Zenon, <1>3, <1>4, <1>5, <1>6, <1>7, <1>8, <1>9, <1>10, <1>11, <1>12 DEF IndInv

\* The upload that is deleted is no charged row's and no other execution's.
LEMMA DeleteUploadInv ==
  ASSUME TypeOK, IndInv, NEW r \in Runs, DeleteUpload(r)
  PROVE  IndInv'
<1> DEFINE u == UploaderOf[r]
<1>1. run[r].pc = "delete" /\ run[r].id # 0
  BY Zenon DEF DeleteUpload, IndInv, IDsKnown
<1>2. CASE Return(r) /\ abandoned' = abandoned \union {run[r].id} /\ UNCHANGED uploads
  BY Zenon, <1>1, <1>2, AbandonInv DEF DeleteUpload
<1>3. CASE /\ uploads' = {x \in uploads : ~(x.id = run[r].id /\ x.uploader = u)}
           /\ Goto(r, "unlink")
           /\ UNCHANGED abandoned
  <2>a. UNCHANGED <<now, org, aggs, lastUpload, charged, report, abandoned>>
    BY Zenon, <1>3 DEF DeleteUpload
  <2>1. /\ run'[r].pc = "unlink" /\ run'[r].id = run[r].id
        /\ run'[r].ids = run[r].ids /\ run'[r].todo = run[r].todo
        /\ \A q \in Runs : q # r => run'[q] = run[q]
    BY Zenon, <1>3, MoveFacts DEF TypeOK, PCs
  <2>2. \A q \in Runs : /\ run'[q].id = run[q].id /\ run'[q].ids = run[q].ids
                        /\ run'[q].todo = run[q].todo
    BY Zenon, <2>1
  <2>3. \A x \in uploads : x.id # run[r].id => x \in uploads'
    BY Zenon, <1>3
  <2>4. IDsKnown'
    BY ZenonT(120), <1>1, <2>a, <2>1, <2>2 DEF IndInv, IDsKnown
  <2>5. OwnerUnique' /\ LinkedHeld' /\ TodoSound'
    BY <2>a, <2>2 DEF IndInv, OwnerUnique, LinkedHeld, TodoSound
  <2>6. UploadListed'
    <3>1. ASSUME NEW q \in Runs, run'[q].pc \in {"link", "upload"}
          PROVE  [id |-> run'[q].id, uploader |-> UploaderOf[q]] \in uploads'
      <4>1. q # r /\ run[q].pc \in {"link", "upload"}
        BY Zenon, <2>1, <3>1
      <4>2. run[q].id # run[r].id
        BY Zenon, <1>1, <4>1 DEF IndInv, OwnerUnique
      <4>3. [id |-> run[q].id, uploader |-> UploaderOf[q]] \in uploads
        BY Zenon, <4>1 DEF IndInv, UploadListed
      <4> QED
        BY Zenon, <2>2, <2>3, <4>2, <4>3
    <3> QED
      BY Zenon, <3>1 DEF UploadListed
  <2>7. RowsHeld'
    <3>1. \A q \in Runs : /\ run'[q].ids \subseteq DOMAIN aggs'
                          /\ run'[q].pc = "idle" => run'[q].ids = {} /\ run'[q].todo = {}
      <4>1. \A q \in Runs : /\ run[q].ids \subseteq DOMAIN aggs
                            /\ run[q].pc = "idle" => run[q].ids = {} /\ run[q].todo = {}
        BY Zenon DEF IndInv, RowsHeld
      <4>2. \A q \in Runs : run'[q].pc = "idle" => run[q].pc = "idle"
        BY Zenon, <2>1
      <4> QED
        BY Zenon, <2>a, <2>2, <4>1, <4>2
    <3>2. ASSUME NEW q \in Runs, NEW i \in RowIDs, i \in run'[q].ids
          PROVE  /\ UploaderOf[q] \in org'[aggs'[i].org].methods
                 /\ run'[q].pc \in {"collect", "link"} => aggs'[i].upload = 0
                 /\ run'[q].pc = "upload" => aggs'[i].upload = run'[q].id
                 /\ aggs'[i].upload \in {0, run'[q].id}
      <4>1. i \in run[q].ids /\ run'[q].id = run[q].id /\ org' = org /\ aggs' = aggs
        BY Zenon, <2>a, <2>1, <3>2
      <4>2. run'[q].pc \in {"collect", "link", "upload"} => run'[q].pc = run[q].pc
        BY Zenon, <2>1
      <4> QED
        BY ZenonT(120), <4>1, <4>2 DEF IndInv, RowsHeld
    <3> QED
      BY Zenon, <3>1, <3>2 DEF RowsHeld
  <2>8. ReportMatches'
    BY ZenonT(120), <2>a, <2>1 DEF IndInv, ReportMatches, Working
  <2>9. ChargesFinal' /\ ChargedAtMostOnce'
    BY ZenonT(120), <2>a, <2>2 DEF IndInv, ChargesFinal, ChargedAtMostOnce
  <2>10. ChargedIsRecorded'
    BY Zenon, <2>a, <2>3 DEF IndInv, ChargesFinal, ChargedIsRecorded
  <2>11. RecordedIsCharged'
    <3>1. \A i \in DOMAIN aggs : aggs[i].upload # run[r].id /\ Billed(i) => Billed(i)'
      BY Zenon, <2>a, <2>3 DEF Billed
    <3>2. {run'[q].id : q \in Runs} = {run[q].id : q \in Runs}
      BY ZenonT(120), <2>2
    <3> QED
      BY Zenon, <2>a, <2>2, <3>1, <3>2 DEF IndInv, RecordedIsCharged
  <2> QED
    BY Zenon, <2>4, <2>5, <2>6, <2>7, <2>8, <2>9, <2>10, <2>11 DEF IndInv
<1> QED
  BY Zenon, <1>2, <1>3 DEF DeleteUpload

\* The rows that are unlinked are the execution's own, and were not charged.
LEMMA UnlinkInv ==
  ASSUME TypeOK, IndInv, Deployment, NEW r \in Runs, UnlinkAggregates(r)
  PROVE  IndInv'
<1>1. run[r].pc = "unlink" /\ run[r].id # 0
  BY Zenon DEF UnlinkAggregates, IndInv, IDsKnown
<1>2. CASE abandoned' = abandoned \union {run[r].id} /\ UNCHANGED aggs
  BY Zenon, <1>1, <1>2, AbandonInv DEF UnlinkAggregates
<1>3. CASE SetUpload(Linked(run[r].id), 0) /\ UNCHANGED abandoned
  <2>a. UNCHANGED <<now, org, uploads, lastUpload, charged, report, abandoned>>
    BY Zenon, <1>3 DEF UnlinkAggregates
  <2>1. /\ run'[r].pc = "idle" /\ run'[r].id = 0 /\ run'[r].ids = {} /\ run'[r].todo = {}
        /\ \A q \in Runs : q # r => run'[q] = run[q]
    BY MoveFacts DEF UnlinkAggregates, TypeOK, Idle
  <2>2. /\ DOMAIN aggs' = DOMAIN aggs
        /\ \A i \in DOMAIN aggs :
             /\ aggs'[i].org = aggs[i].org /\ aggs'[i].type = aggs[i].type
             /\ aggs'[i].upload = IF aggs[i].upload = run[r].id THEN 0 ELSE aggs[i].upload
    <3>1. aggs \in Seq(Aggregate) /\ 0 \in 0 .. MaxUploads
      BY DEF TypeOK, DBTypeOK
    <3>2. SetUpload(Linked(run[r].id), 0)
      BY Zenon, <1>3
    <3> QED
      BY <3>1, <3>2, SetUploadType DEF Linked
  <2>3. /\ 0 <= lastUpload
        /\ \A q \in Runs : run[q].ids \subseteq DOMAIN aggs
    BY DEF IndInv, RowsHeld, TypeOK, DBTypeOK
  <2>4. ASSUME NEW v \in Uploaders \ LossyReply, NEW i \in RowIDs, charged[v][i] > 0
        PROVE  i \in DOMAIN aggs /\ aggs'[i].upload = aggs[i].upload /\ aggs[i].upload # 0
    <3>1. i \in DOMAIN aggs /\ [id |-> aggs[i].upload, uploader |-> v] \in uploads
      BY Zenon, <2>4 DEF IndInv, ChargedIsRecorded
    <3>2. aggs[i].upload # run[r].id
      BY Zenon, <2>4 DEF IndInv, ChargesFinal
    <3>3. aggs[i].upload # 0
      BY <3>1 DEF TypeOK, DBTypeOK, UsageUpload, UploadIDs
    <3> QED
      BY Zenon, <2>2, <3>1, <3>2, <3>3
  <2>5. IDsKnown'
    <3>1. \A q \in Runs : run'[q].id <= lastUpload
      BY Zenon, <2>1, <2>3 DEF IndInv, IDsKnown
    <3>2. \A q \in Runs : run'[q].id = 0 <=> run'[q].pc \in {"idle", "collect"}
      BY ZenonT(120), <2>1 DEF IndInv, IDsKnown
    <3>3. \A i \in DOMAIN aggs' : aggs'[i].upload <= lastUpload
      BY Zenon, <2>2, <2>3 DEF IndInv, IDsKnown
    <3> QED
      BY Zenon, <2>a, <3>1, <3>2, <3>3 DEF IDsKnown
  <2>6. OwnerUnique'
    <3>1. ASSUME NEW p \in Runs, NEW q \in Runs, run'[q].id = run'[p].id, run'[p].id # 0
          PROVE  q = p
      <4>1. p # r /\ q # r
        BY Zenon, <2>1, <3>1
      <4> QED
        BY ZenonT(120), <2>1, <3>1, <4>1 DEF IndInv, OwnerUnique
    <3> QED
      BY Zenon, <3>1 DEF OwnerUnique
  <2>7. UploadListed'
    BY Zenon, <2>a, <2>1 DEF IndInv, UploadListed
  <2>8. LinkedHeld'
    BY Zenon, <2>1, <2>2 DEF IndInv, LinkedHeld
  <2>9. RowsHeld'
    <3>1. ASSUME NEW q \in Runs, q # r
          PROVE  \A i \in run[q].ids : /\ aggs'[i].upload = aggs[i].upload
                                        /\ aggs'[i].org = aggs[i].org
      <4>1. \A i \in run[q].ids : aggs[i].upload # run[r].id
        BY Zenon, <1>1, <2>3, <3>1, RowsDisjoint DEF IndInv, LinkedHeld
      <4> QED
        BY Zenon, <2>2, <2>3, <3>1, <4>1
    <3> QED
      <4>1. \A q \in Runs : /\ run'[q].ids \subseteq DOMAIN aggs'
                            /\ run'[q].pc = "idle" => run'[q].ids = {} /\ run'[q].todo = {}
        BY ZenonT(120), <2>1, <2>2, <2>3 DEF IndInv, RowsHeld
      <4>2. ASSUME NEW q \in Runs, NEW i \in RowIDs, i \in run'[q].ids
            PROVE  /\ UploaderOf[q] \in org'[aggs'[i].org].methods
                   /\ run'[q].pc \in {"collect", "link"} => aggs'[i].upload = 0
                   /\ run'[q].pc = "upload" => aggs'[i].upload = run'[q].id
                   /\ aggs'[i].upload \in {0, run'[q].id}
        <5>1. q # r /\ run'[q] = run[q] /\ i \in run[q].ids
          BY Zenon, <2>1, <4>2
        <5>2. aggs'[i].upload = aggs[i].upload /\ aggs'[i].org = aggs[i].org /\ org' = org
          BY Zenon, <2>a, <3>1, <5>1
        <5>3. /\ UploaderOf[q] \in org[aggs[i].org].methods
              /\ run[q].pc \in {"collect", "link"} => aggs[i].upload = 0
              /\ run[q].pc = "upload" => aggs[i].upload = run[q].id
              /\ aggs[i].upload \in {0, run[q].id}
          BY Zenon, <5>1 DEF IndInv, RowsHeld
        <5> QED
          BY Zenon, <5>1, <5>2, <5>3
      <4> QED
        BY Zenon, <4>1, <4>2 DEF RowsHeld
  <2>10. TodoSound'
    <3> SUFFICES ASSUME NEW q \in Runs, NEW x \in run'[q].todo
                 PROVE  /\ UploaderOf[q] \in org'[x.org].methods
                        /\ \A y \in run'[q].todo : x.org = y.org => x = y
                        /\ \A i \in run'[q].ids : x.org # aggs'[i].org
      BY Zenon DEF TodoSound
    <3>1. run'[q] = run[q]
      BY Zenon, <2>1
    <3>2. \A i \in run[q].ids : aggs'[i].org = aggs[i].org
      BY Zenon, <2>2, <2>3
    <3>3. /\ UploaderOf[q] \in org[x.org].methods
          /\ \A y \in run[q].todo : x.org = y.org => x = y
          /\ \A i \in run[q].ids : x.org # aggs[i].org
      BY Zenon, <3>1 DEF IndInv, TodoSound
    <3> QED
      BY Zenon, <2>a, <3>1, <3>2, <3>3
  <2>11. ReportMatches'
    BY <2>a, <2>1, <2>2, <2>3 DEF IndInv, ReportMatches, Working
  <2>12. ChargedAtMostOnce' /\ ChargedIsRecorded'
    BY Zenon, <2>a, <2>2, <2>4 DEF IndInv, ChargedAtMostOnce, ChargedIsRecorded
  <2>13. ChargesFinal'
    BY ZenonT(120), <2>a, <2>1, <2>4 DEF IndInv, ChargesFinal
  <2>14. RecordedIsCharged'
    <3>1. ASSUME NEW i \in DOMAIN aggs, aggs'[i].upload # 0
          PROVE  aggs[i].upload # run[r].id /\ aggs'[i].upload = aggs[i].upload
      BY Zenon, <2>2, <3>1
    <3>2. \A i \in DOMAIN aggs : aggs'[i].upload # 0 /\ Billed(i) => Billed(i)'
      BY Zenon, <2>a, <2>2, <3>1 DEF Billed
    <3>3. \A q \in Runs : q # r => run'[q].id = run[q].id
      BY Zenon, <2>1
    <3>4. \A k : k # run[r].id /\ k \in {run[q].id : q \in Runs} =>
                 k \in {run'[q].id : q \in Runs}
      BY Zenon, <3>3
    <3> QED
      BY Zenon, <2>a, <2>2, <3>1, <3>2, <3>4 DEF IndInv, RecordedIsCharged
  <2> QED
    BY Zenon, <2>5, <2>6, <2>7, <2>8, <2>9, <2>10, <2>11, <2>12, <2>13, <2>14 DEF IndInv
<1> QED
  BY Zenon, <1>2, <1>3 DEF UnlinkAggregates

\* A crash leaves every upload in progress behind.
LEMMA CrashInv ==
  ASSUME TypeOK, IndInv, Crash
  PROVE  IndInv'
<1>a. UNCHANGED <<now, org, aggs, uploads, lastUpload, charged>>
  BY Zenon DEF Crash, dbVars
<1>1. \A r \in Runs : /\ run'[r].pc = "idle" /\ run'[r].id = 0
                      /\ run'[r].ids = {} /\ run'[r].todo = {}
  BY Zenon DEF Crash, Idle
<1>2. 0 <= lastUpload
  BY DEF TypeOK, DBTypeOK
<1>3. IDsKnown' /\ OwnerUnique' /\ UploadListed' /\ LinkedHeld'
  BY Zenon, <1>a, <1>1, <1>2 DEF IndInv, IDsKnown, OwnerUnique, UploadListed, LinkedHeld
<1>4. RowsHeld' /\ TodoSound' /\ ReportMatches'
  BY Zenon, <1>1 DEF RowsHeld, TodoSound, ReportMatches, Working
<1>5. ChargedAtMostOnce' /\ ChargedIsRecorded'
  BY Zenon, <1>a DEF IndInv, ChargedAtMostOnce, ChargedIsRecorded
<1>6. ChargesFinal'
  <2>1. ASSUME NEW v \in Uploaders \ LossyReply, NEW i \in RowIDs, charged[v][i] > 0
        PROVE  aggs[i].upload # 0
    <3>1. [id |-> aggs[i].upload, uploader |-> v] \in uploads
      BY Zenon, <2>1 DEF IndInv, ChargedIsRecorded
    <3> QED
      BY <3>1 DEF TypeOK, DBTypeOK, UsageUpload, UploadIDs
  <2> QED
    BY ZenonT(120), <1>a, <1>1, <2>1 DEF ChargesFinal
<1>7. RecordedIsCharged'
  <2>1. \A k : k # 0 /\ k \in {run[r].id : r \in Runs} => k \in abandoned'
    BY Zenon DEF Crash
  <2>2. abandoned \subseteq abandoned'
    BY Zenon DEF Crash
  <2>3. \A i \in DOMAIN aggs : Billed(i) => Billed(i)'
    BY Zenon, <1>a DEF Billed
  <2> QED
    BY Zenon, <1>a, <2>1, <2>2, <2>3 DEF IndInv, RecordedIsCharged
<1> QED
  BY Zenon, <1>3, <1>4, <1>5, <1>6, <1>7 DEF IndInv

\* What happens meanwhile adds rows that are not linked, and takes no payment
\* method away from an organization.
LEMMA EnvironmentInv ==
  ASSUME TypeOK, IndInv, Environment, UNCHANGED runVars
  PROVE  IndInv'
<1>a. UNCHANGED <<run, report, abandoned, uploads, lastUpload, charged>>
  BY Zenon DEF Environment, Aggregated, TrialExtended, MethodAdded, EntitlementChanged,
         Tick, runVars
<1>1. /\ DOMAIN aggs \subseteq DOMAIN aggs'
      /\ \A i \in DOMAIN aggs : aggs'[i] = aggs[i]
      /\ \A i \in DOMAIN aggs' : i \notin DOMAIN aggs => aggs'[i].upload = 0
  <2>1. CASE Aggregated
    <3>1. PICK x \in Aggregate : aggs' = Append(aggs, x) /\ x.upload = 0
      BY <2>1 DEF Aggregated, InsertAggregate, Aggregate
    <3> QED
      BY <3>1 DEF TypeOK, DBTypeOK
  <2>2. CASE UNCHANGED aggs
    BY Zenon, <2>2
  <2> QED
    BY Zenon, <2>1, <2>2 DEF Environment, TrialExtended, MethodAdded, EntitlementChanged, Tick
<1>2. \A o \in Orgs : org[o].methods \subseteq org'[o].methods
  <2>0. org \in [Orgs -> Organization]
    BY Zenon DEF TypeOK, DBTypeOK
  <2>1. CASE TrialExtended
    BY <2>0, <2>1 DEF TrialExtended, Organization
  <2>2. CASE MethodAdded
    BY Zenon, <2>0, <2>2 DEF MethodAdded, Organization
  <2>3. CASE EntitlementChanged
    BY <2>0, <2>3 DEF EntitlementChanged, Organization
  <2>4. CASE UNCHANGED org
    BY Zenon, <2>4
  <2> QED
    BY Zenon, <2>1, <2>2, <2>3, <2>4 DEF Environment, Aggregated, Tick
<1>3. \A r \in Runs : /\ run[r].ids \subseteq DOMAIN aggs
                      /\ \A x \in run[r].todo : x.org \in Orgs
  BY DEF IndInv, RowsHeld, TypeOK, RunState
<1>4. 0 <= lastUpload
  BY DEF TypeOK, DBTypeOK
<1>5. IDsKnown' /\ OwnerUnique' /\ UploadListed'
  BY Zenon, <1>a, <1>1, <1>4 DEF IndInv, IDsKnown, OwnerUnique, UploadListed
<1>6. LinkedHeld'
  BY Zenon, <1>a, <1>1 DEF IndInv, LinkedHeld
<1>7. RowsHeld'
  <2>1. \A r \in Runs, i \in RowIDs : i \in run[r].ids =>
          UploaderOf[r] \in org'[aggs'[i].org].methods
    BY Zenon, <1>1, <1>2, <1>3, RowType DEF IndInv, RowsHeld
  <2> QED
    <3>1. \A r \in Runs : /\ run'[r].ids \subseteq DOMAIN aggs'
                          /\ run'[r].pc = "idle" => run'[r].ids = {} /\ run'[r].todo = {}
      BY Zenon, <1>a, <1>1, <1>3 DEF IndInv, RowsHeld
    <3>2. ASSUME NEW r \in Runs, NEW i \in RowIDs, i \in run'[r].ids
          PROVE  /\ run'[r].pc \in {"collect", "link"} => aggs'[i].upload = 0
                 /\ run'[r].pc = "upload" => aggs'[i].upload = run'[r].id
                 /\ aggs'[i].upload \in {0, run'[r].id}
      <4>1. run' = run /\ i \in run[r].ids /\ aggs'[i] = aggs[i]
        BY Zenon, <1>a, <1>1, <1>3, <3>2
      <4>2. /\ run[r].pc \in {"collect", "link"} => aggs[i].upload = 0
            /\ run[r].pc = "upload" => aggs[i].upload = run[r].id
            /\ aggs[i].upload \in {0, run[r].id}
        BY Zenon, <4>1 DEF IndInv, RowsHeld
      <4>3. run'[r] = run[r]
        BY Zenon, <4>1
      <4> QED
        BY Zenon, <4>1, <4>2, <4>3
    <3> QED
      BY ZenonT(120), <1>a, <2>1, <3>1, <3>2 DEF RowsHeld
<1>8. TodoSound'
  <2> SUFFICES ASSUME NEW r \in Runs, NEW x \in run[r].todo
               PROVE  /\ UploaderOf[r] \in org'[x.org].methods
                      /\ \A y \in run[r].todo : x.org = y.org => x = y
                      /\ \A i \in run[r].ids : x.org # aggs'[i].org
    BY ZenonT(120), <1>a DEF TodoSound
  <2>1. /\ UploaderOf[r] \in org[x.org].methods
        /\ \A y \in run[r].todo : x.org = y.org => x = y
        /\ \A i \in run[r].ids : x.org # aggs[i].org
    BY Zenon DEF IndInv, TodoSound
  <2>2. x.org \in Orgs /\ run[r].ids \subseteq DOMAIN aggs
    BY Zenon, <1>3
  <2> QED
    BY Zenon, <1>1, <1>2, <2>1, <2>2
<1>9. ReportMatches'
  BY ZenonT(120), <1>a, <1>1, <1>3 DEF IndInv, ReportMatches, Working
<1>10. ChargedAtMostOnce' /\ ChargedIsRecorded'
  BY Zenon, <1>a, <1>1 DEF IndInv, ChargedAtMostOnce, ChargedIsRecorded
<1>11. ChargesFinal'
  BY Zenon, <1>a, <1>1 DEF IndInv, ChargesFinal, ChargedIsRecorded
<1>12. RecordedIsCharged'
  <2>1. \A i \in DOMAIN aggs : Billed(i) => Billed(i)'
    BY Zenon, <1>a, <1>1 DEF Billed
  <2> QED
    BY ZenonT(120), <1>a, <1>1, <2>1 DEF IndInv, RecordedIsCharged
<1> QED
  BY Zenon, <1>5, <1>6, <1>7, <1>8, <1>9, <1>10, <1>11, <1>12 DEF IndInv

\* The invariant holds in every reachable state.
THEOREM Invariance == Deployment => (Spec => []IndInv)
<1> SUFFICES ASSUME Deployment PROVE Spec => []IndInv
  BY Zenon
<1>1. Init => IndInv
  <2> SUFFICES ASSUME Init PROVE IndInv
    BY Zenon
  <2>1. /\ \A r \in Runs : /\ run[r].pc = "idle" /\ run[r].id = 0
                           /\ run[r].ids = {} /\ run[r].todo = {}
        /\ DOMAIN aggs = {}
        /\ lastUpload = 0
        /\ \A u \in Uploaders, i \in RowIDs : charged[u][i] = 0
    <3>1. \A r \in Runs : run[r] = Idle
      BY Zenon DEF Init
    <3>2. aggs = <<>> /\ lastUpload = 0
      BY Zenon DEF Init, DBInit
    <3>3. \A u \in Uploaders, i \in RowIDs : charged[u][i] = 0
      BY Zenon DEF Init, DBInit
    <3>4. DOMAIN aggs = {}
      BY SMTT(30), <3>2
    <3>5. Idle.pc = "idle" /\ Idle.id = 0 /\ Idle.ids = {} /\ Idle.todo = {}
      BY SMTT(30) DEF Idle
    <3> QED
      BY Zenon, <3>1, <3>2, <3>3, <3>4, <3>5
  <2>2. IDsKnown /\ OwnerUnique /\ UploadListed /\ LinkedHeld
    BY <2>1 DEF IDsKnown, OwnerUnique, UploadListed, LinkedHeld
  <2>3. RowsHeld /\ TodoSound /\ ReportMatches
    BY Zenon, <2>1 DEF RowsHeld, TodoSound, ReportMatches, Working
  <2>4. ChargesFinal /\ ChargedAtMostOnce /\ ChargedIsRecorded /\ RecordedIsCharged
    <3>1. ChargesFinal /\ ChargedIsRecorded
      BY SMTT(30), <2>1 DEF ChargesFinal, ChargedIsRecorded
    <3>2. ChargedAtMostOnce
      BY SMTT(30), <2>1 DEF ChargedAtMostOnce
    <3>3. RecordedIsCharged
      BY Zenon, <2>1 DEF RecordedIsCharged
    <3> QED
      BY Zenon, <3>1, <3>2, <3>3
  <2> QED
    BY Zenon, <2>2, <2>3, <2>4 DEF IndInv
<1>2. TypeOK /\ IndInv /\ [Next]_vars => IndInv'
  <2> SUFFICES ASSUME TypeOK, IndInv, [Next]_vars PROVE IndInv'
    BY Zenon
  <2>1. ASSUME NEW r \in Runs, RunStep(r) PROVE IndInv'
    <3>1. CASE CollectFails(r) \/ NothingToUpload(r)
      <4>1. run[r].id = 0
        BY Zenon, <3>1 DEF CollectFails, NothingToUpload, IndInv, IDsKnown
      <4> QED
        BY Zenon, <3>1, <4>1, GiveUp DEF CollectFails, NothingToUpload
    <3> QED
      BY Zenon, <2>1, <3>1, StartInv, CollectInv, InsertUploadInv, LinkInv, UploadInv,
         UploadFailsInv, DeleteUploadInv, UnlinkInv DEF RunStep
  <2>2. CASE UNCHANGED vars
    <3>1. UNCHANGED <<org, aggs, uploads, lastUpload, charged, run, report, abandoned>>
      BY Zenon, <2>2 DEF vars, dbVars, runVars
    <3>2. IDsKnown' /\ OwnerUnique' /\ UploadListed' /\ LinkedHeld'
      BY Zenon, <3>1 DEF IndInv, IDsKnown, OwnerUnique, UploadListed, LinkedHeld
    <3>3. RowsHeld' /\ TodoSound' /\ ReportMatches'
      <4>1. RowsHeld'
        BY ZenonT(60), <3>1 DEF IndInv, RowsHeld
      <4>2. TodoSound'
        <5>1. TodoSound
          BY Zenon DEF IndInv
        <5>2. run' = run /\ org' = org /\ aggs' = aggs
          BY Zenon, <3>1
        <5> QED
          BY SMT, <5>1, <5>2 DEF TodoSound
      <4>3. ReportMatches'
        BY ZenonT(60), <3>1 DEF IndInv, ReportMatches, Working
      <4> QED
        BY Zenon, <4>1, <4>2, <4>3
    <3>4. ChargesFinal' /\ ChargedAtMostOnce' /\ ChargedIsRecorded'
      BY Zenon, <3>1 DEF IndInv, ChargesFinal, ChargedAtMostOnce, ChargedIsRecorded
    <3>5. RecordedIsCharged'
      BY Zenon, <3>1 DEF IndInv, RecordedIsCharged, Billed
    <3> QED
      BY Zenon, <3>2, <3>3, <3>4, <3>5 DEF IndInv
  <2> QED
    BY Zenon, <2>1, <2>2, CrashInv, EnvironmentInv DEF Next
<1> QED
  BY <1>1, <1>2, TypeCorrect, PTL DEF Spec

\* No aggregate is charged twice by its provider, whatever calls fail, wherever
\* the job crashes and whatever changes around it, as long as Zuora's replies
\* arrive (a second delivery of a report to GCP is harmless).
THEOREM NoDoubleCharge == Deployment => (Spec => []ChargedAtMostOnce)
<1>1. IndInv => ChargedAtMostOnce
  BY Zenon DEF IndInv
<1> QED
  BY <1>1, Invariance, PTL

\* No aggregate is recorded as uploaded without having been charged, other than by
\* an upload in progress or one that is left for an operator to repair.
THEOREM NoLostUsage == Deployment => (Spec => []RecordedIsCharged)
<1>1. IndInv => RecordedIsCharged
  BY Zenon DEF IndInv
<1> QED
  BY <1>1, Invariance, PTL

\* Every charge whose reply arrives is on record.
THEOREM NoUnrecordedCharge == Deployment => (Spec => []ChargedIsRecorded)
<1>1. IndInv => ChargedIsRecorded
  BY Zenon DEF IndInv
<1> QED
  BY <1>1, Invariance, PTL

=============================================================================
