----------------------------- MODULE UsageUpload -----------------------------
(***************************************************************************)
(* The usage upload job (billing-uploader/job/usage.go) with the two       *)
(* uploaders it runs (usage/zuora.go, usage/gcp.go).  Each element of Runs *)
(* is an execution of UsageUpload.Do: the cron entry of an uploader, or    *)
(* the handler of POST /upload/<uploader>.  Executions for the same        *)
(* uploader share the uploader object, and with it the report under        *)
(* construction.                                                           *)
(***************************************************************************)
EXTENDS BillingDB

CONSTANTS
  Runs,         \* executions of Do that may overlap
  UploaderOf,   \* UploaderOf[r]: the uploader run r was created with
  Faults,       \* which faults occur: "call" (a call fails), "crash"
  LossyReply    \* uploaders whose provider may act and the reply be lost

ASSUME UsageUploadAssumption ==
  /\ UploaderOf \in [Runs -> Uploaders]
  /\ Faults \subseteq {"call", "crash"}
  /\ LossyReply \subseteq Uploaders

VARIABLES
  run,          \* the local variables of each execution
  report,       \* report[u]: how often each row is in uploader u's report
  abandoned     \* history: uploads left behind by a failed undo or a crash

runVars == <<run, report, abandoned>>
vars == <<dbVars, runVars>>

NoReport == [i \in RowIDs |-> 0]

Idle == [pc |-> "idle", through |-> 0, todo |-> {}, ids |-> {}, id |-> 0]

PCs == {"idle", "collect", "link", "upload", "delete", "unlink"}

\* todo: the organizations, as the users service described them, that the loop
\* has not reached.  ids: the rows collected.  id: the upload, 0 before it is
\* inserted.
RunState == [pc : PCs, through : Hours, todo : SUBSET [org : Orgs, trial : Hours],
             ids : SUBSET RowIDs, id : 0 .. MaxUploads]

\* Every variable has its type.
TypeOK ==
  /\ DBTypeOK
  /\ run \in [Runs -> RunState]
  /\ report \in [Uploaders -> [RowIDs -> Nat]]
  /\ abandoned \in SUBSET (0 .. MaxUploads)

Init ==
  /\ DBInit
  /\ run = [r \in Runs |-> Idle]
  /\ report = [u \in Uploaders |-> NoReport]
  /\ abandoned = {}

-----------------------------------------------------------------------------

Goto(r, pc) == run' = [run EXCEPT ![r].pc = pc]
Return(r) == run' = [run EXCEPT ![r] = Idle]

\* ThroughTime, truncated to the hour: the last midnight for Zuora, the
\* current hour for GCP.
ThroughTime(u, t) == IF u = "zuora" THEN t - (t % DayLength) ELSE t

\* IsSupported: Zuora takes organizations with an account number, GCP those
\* with an active subscription.
IsSupported(u, o) ==
  IF u = "zuora" THEN "zuora" \in org[o].methods ELSE GCPSubscription(o)

Later(s, t) == IF s < t THEN t ELSE s

\* Mutant: the job looks back a day less.
FromShort(through, trial) == Later(through - WeekLength + DayLength, trial)

\* Mutant: the window does not begin where the trial ends.
FromInTrial(through, trial) == through - WeekLength

\* The start of the window of an organization: at most a week back, and never
\* in the trial.
From(through, trial) == Later(through - WeekLength, trial)

\* The users service's answer: the billable organizations, as they are now, that
\* the uploader is interested in.
BillableOrganizations(u, t) ==
  {[org |-> o, trial |-> org[o].trial] :
     o \in {x \in Billable(t) : IsSupported(u, x)}}

\* Do up to the loop: reset the report, then ask for the billable organizations.
Start(r) ==
  LET u == UploaderOf[r]
      t == ThroughTime(u, now)
  IN  /\ run[r].pc = "idle"
      /\ report' = [report EXCEPT ![u] = NoReport]
      /\ \/ run' = [run EXCEPT ![r] =
                [pc |-> "collect", through |-> t,
                 todo |-> BillableOrganizations(u, t), ids |-> {}, id |-> 0]]
         \/ "call" \in Faults /\ UNCHANGED run
      /\ UNCHANGED <<dbVars, abandoned>>

\* Add: the rows of a type the provider charges for enter the report.
AddTo(u, rows) ==
  report' = [report EXCEPT ![u] = [i \in RowIDs |->
               IF i \in rows /\ aggs[i].type \in Units[u]
               THEN report[u][i] + 1 ELSE report[u][i]]]

\* record: organization o is done and its rows are part of the upload.
Recorded(s, o, rows) == [s EXCEPT !.todo = @ \ {o}, !.ids = @ \union rows]

\* Mutant: a turn of the loop does not look at upload_id.
CollectUploaded(r) ==
  /\ run[r].pc = "collect"
  /\ \E o \in run[r].todo :
       LET from == From(run[r].through, o.trial)
           rows == GetAggregates(o.org, from, run[r].through)
       IN  /\ AddTo(UploaderOf[r], rows)
           /\ run' = [run EXCEPT ![r] = Recorded(@, o, rows)]
  /\ UNCHANGED <<dbVars, abandoned>>

\* One turn of the loop over the organizations: read the rows to upload, add
\* them to the report, and remember their ids.
Collect(r) ==
  /\ run[r].pc = "collect"
  /\ \E o \in run[r].todo :
       LET from == From(run[r].through, o.trial)
           rows == GetAggregatesToUpload(o.org, from, run[r].through)
       IN  /\ AddTo(UploaderOf[r], rows)
           /\ run' = [run EXCEPT ![r] = Recorded(@, o, rows)]
  /\ UNCHANGED <<dbVars, abandoned>>

\* A query or an Add fails: Do returns and nothing was recorded.
CollectFails(r) ==
  /\ "call" \in Faults
  /\ run[r].pc = "collect"
  /\ run[r].todo # {}
  /\ Return(r)
  /\ UNCHANGED <<dbVars, report, abandoned>>

\* The loop is over and found nothing to upload.
NothingToUpload(r) ==
  /\ run[r].pc = "collect"
  /\ run[r].todo = {}
  /\ run[r].ids = {}
  /\ Return(r)
  /\ UNCHANGED <<dbVars, report, abandoned>>

\* InsertUsageUpload, first statement: a new row of usage_uploads.
InsertUpload(r) ==
  /\ run[r].pc = "collect"
  /\ run[r].todo = {}
  /\ run[r].ids # {}
  /\ \/ /\ lastUpload < MaxUploads
        /\ lastUpload' = lastUpload + 1
        /\ uploads' = uploads \union
             {[id |-> lastUpload + 1, uploader |-> UploaderOf[r]]}
        /\ run' = [run EXCEPT ![r] =
                    [@ EXCEPT !.pc = "link", !.id = lastUpload + 1]]
     \/ /\ "call" \in Faults
        /\ Return(r)
        /\ UNCHANGED <<uploads, lastUpload>>
  /\ UNCHANGED <<now, org, aggs, charged, report, abandoned>>

\* InsertUsageUpload, second statement: link the collected rows to it.  When
\* it fails the new row is deleted again.
LinkAggregates(r) ==
  /\ run[r].pc = "link"
  /\ \/ /\ SetUpload(run[r].ids, run[r].id)
        /\ Goto(r, "upload")
     \/ /\ "call" \in Faults
        /\ Goto(r, "delete")
        /\ UNCHANGED aggs
  /\ UNCHANGED <<now, org, uploads, lastUpload, charged, report, abandoned>>

\* What the provider charges once it has the report: Zuora adds every line
\* up, GCP drops an operation whose id, made of the row's id, it has seen.
Receive(u) ==
  charged' = [charged EXCEPT ![u] = [i \in RowIDs |->
    IF u = "gcp" /\ report[u][i] > 0 THEN 1 ELSE charged[u][i] + report[u][i]]]

\* Upload succeeds, and the job is done.
Upload(r) ==
  /\ run[r].pc = "upload"
  /\ Receive(UploaderOf[r])
  /\ Return(r)
  /\ UNCHANGED <<now, org, aggs, uploads, lastUpload, report, abandoned>>

\* Upload returns an error: the provider did not get the report or, when only
\* the reply was lost, did.
UploadFails(r) ==
  /\ run[r].pc = "upload"
  /\ \/ "call" \in Faults /\ UNCHANGED charged
     \/ UploaderOf[r] \in LossyReply /\ Receive(UploaderOf[r])
  /\ Goto(r, "delete")
  /\ UNCHANGED <<now, org, aggs, uploads, lastUpload, report, abandoned>>

\* Mutant: the rows of a deleted upload stay linked to it.
DeleteUploadOnly(r) ==
  /\ run[r].pc = "delete"
  /\ uploads' = {x \in uploads :
                    ~(x.id = run[r].id /\ x.uploader = UploaderOf[r])}
  /\ Return(r)
  /\ UNCHANGED <<now, org, aggs, lastUpload, charged, report, abandoned>>

\* DeleteUsageUpload, first statement.  When it fails the rows stay linked
\* until someone intervenes.
DeleteUpload(r) ==
  /\ run[r].pc = "delete"
  /\ \/ /\ uploads' = {x \in uploads :
                         ~(x.id = run[r].id /\ x.uploader = UploaderOf[r])}
        /\ Goto(r, "unlink")
        /\ UNCHANGED abandoned
     \/ /\ "call" \in Faults
        /\ Return(r)
        /\ abandoned' = abandoned \union {run[r].id}
        /\ UNCHANGED uploads
  /\ UNCHANGED <<now, org, aggs, lastUpload, charged, report>>

\* DeleteUsageUpload, second statement: the rows wait for the next run.
UnlinkAggregates(r) ==
  /\ run[r].pc = "unlink"
  /\ \/ /\ SetUpload(Linked(run[r].id), 0)
        /\ UNCHANGED abandoned
     \/ /\ "call" \in Faults
        /\ abandoned' = abandoned \union {run[r].id}
        /\ UNCHANGED aggs
  /\ Return(r)
  /\ UNCHANGED <<now, org, uploads, lastUpload, charged, report>>

\* The process dies: every execution is cut short and the reports are lost.
Crash ==
  /\ "crash" \in Faults
  /\ \E r \in Runs : run[r].pc # "idle"
  /\ abandoned' = abandoned \union
       {run[r].id : r \in {q \in Runs : run[q].id # 0}}
  /\ run' = [r \in Runs |-> Idle]
  /\ report' = [u \in Uploaders |-> NoReport]
  /\ UNCHANGED dbVars

RunStep(r) ==
  \/ Start(r) \/ Collect(r) \/ CollectFails(r) \/ NothingToUpload(r)
  \/ InsertUpload(r) \/ LinkAggregates(r) \/ Upload(r) \/ UploadFails(r)
  \/ DeleteUpload(r) \/ UnlinkAggregates(r)

Next ==
  \/ \E r \in Runs : RunStep(r)
  \/ Crash
  \/ Environment /\ UNCHANGED runVars

Spec == Init /\ [][Next]_vars

-----------------------------------------------------------------------------
(* Properties.                                                             *)

\* No usage is charged twice by the provider that bills it: the upload
\* record, written before the report is sent and removed after a failure,
\* makes a retried, interrupted or overlapping run skip what was sent.
ChargedAtMostOnce ==
  \A u \in Uploaders, i \in RowIDs : charged[u][i] <= 1

\* The upload row i is linked to is in the table and the row was charged, or is of
\* a type the provider does not charge for.
Billed(i) ==
  \E x \in uploads : /\ x.id = aggs[i].upload
                     /\ aggs[i].type \in Units[x.uploader] => charged[x.uploader][i] > 0

\* A row linked to an upload was billed, or the run that made the upload is still
\* at work, or the upload was left behind by a crash or a failed undo (the case
\* in which the code asks an operator to repair the tables).  Otherwise usage
\* would be recorded as sent, never be sent, and nobody be told.
RecordedIsCharged ==
  \A i \in DOMAIN aggs : aggs[i].upload # 0 =>
    Billed(i) \/ aggs[i].upload \in {run[r].id : r \in Runs} \union abandoned

\* Conversely a row that was charged is linked to an upload that stays in the
\* table, unless a lost reply or a crash hid from the job that it was charged:
\* the tables account for every charge.
ChargedIsRecorded ==
  \A u \in Uploaders \ LossyReply, i \in RowIDs : charged[u][i] > 0 =>
    /\ i \in DOMAIN aggs
    /\ [id |-> aggs[i].upload, uploader |-> u] \in uploads

-----------------------------------------------------------------------------
(* The argument.  Two things are asked of the deployment: no two executions *)
(* share an uploader, and no organization pays through both providers.      *)

OneRunPerUploader ==
  \A r, q \in Runs : UploaderOf[r] = UploaderOf[q] => r = q

OneMethodPerOrganization ==
  \A m \in Methods : ~("zuora" \in m /\ "gcp" \in m)

Working(r) == run[r].pc \in {"collect", "link", "upload"}

\* Upload ids come from the sequence, and an execution has one from its insert on.
IDsKnown ==
  /\ \A i \in DOMAIN aggs : aggs[i].upload <= lastUpload
  /\ \A r \in Runs : run[r].id <= lastUpload
  /\ \A r \in Runs : run[r].id = 0 <=> run[r].pc \in {"idle", "collect"}

\* No two executions have the same upload.
OwnerUnique ==
  \A r, q \in Runs : run[q].id = run[r].id /\ run[r].id # 0 => q = r

\* Until its report is sent, an execution's upload is in the table.
UploadListed ==
  \A r \in Runs : run[r].pc \in {"link", "upload"} =>
    [id |-> run[r].id, uploader |-> UploaderOf[r]] \in uploads

\* Only the rows an execution holds are linked to its upload.
LinkedHeld ==
  \A r \in Runs, i \in DOMAIN aggs :
    aggs[i].upload = run[r].id /\ run[r].id # 0 => i \in run[r].ids

\* The rows an execution holds are of organizations its provider bills.  They
\* are unlinked until it links them, and linked to nothing else afterwards.
RowsHeld ==
  /\ \A r \in Runs : run[r].ids \subseteq DOMAIN aggs
  /\ \A r \in Runs : run[r].pc = "idle" => run[r].ids = {} /\ run[r].todo = {}
  /\ \A r \in Runs, i \in RowIDs : i \in run[r].ids =>
       /\ UploaderOf[r] \in org[aggs[i].org].methods
       /\ run[r].pc \in {"collect", "link"} => aggs[i].upload = 0
       /\ run[r].pc = "upload" => aggs[i].upload = run[r].id
       /\ aggs[i].upload \in {0, run[r].id}

\* The organizations still to visit are distinct, billed by the provider, and
\* none of them was visited.
TodoSound ==
  \A r \in Runs : \A x \in run[r].todo :
    /\ UploaderOf[r] \in org[x.org].methods
    /\ \A y \in run[r].todo : x.org = y.org => x = y
    /\ \A i \in run[r].ids : x.org # aggs[i].org

\* While an execution works, its uploader's report lists exactly the rows it
\* holds that the provider charges for, each once.
ReportMatches ==
  \A r \in Runs : Working(r) =>
    \A i \in RowIDs :
      report[UploaderOf[r]][i] =
        IF i \in run[r].ids /\ aggs[i].type \in Units[UploaderOf[r]] THEN 1 ELSE 0

\* No execution can undo the upload of a row that was charged.
ChargesFinal ==
  \A u \in Uploaders \ LossyReply, i \in RowIDs : charged[u][i] > 0 =>
    \A r \in Runs : run[r].id # aggs[i].upload

IndInv ==
  /\ IDsKnown
  /\ OwnerUnique
  /\ UploadListed
  /\ LinkedHeld
  /\ RowsHeld
  /\ TodoSound
  /\ ReportMatches
  /\ ChargesFinal
  /\ ChargedAtMostOnce
  /\ ChargedIsRecorded
  /\ RecordedIsCharged

=============================================================================
