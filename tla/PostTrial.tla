------------------------------ MODULE PostTrial ------------------------------
(***************************************************************************)
(* Setting up billing after the trial: POST /accounts                      *)
(* (billing-api/routes/accounts.go) charges the usage since the trial      *)
(* ended, and a job of billing-uploader (job/invoice.go) has it invoiced.  *)
(* Both run beside the daily usage upload of UsageSchedule.                *)
(***************************************************************************)
EXTENDS UsageSchedule

CONSTANT Jobs   \* executions of InvoiceUpload.Do that may overlap

VARIABLES
  request,      \* request[o]: the createAccount request of organization o
  accounts,     \* organizations with an account at Zuora
  invoices,     \* post_trial_invoices: the organizations with a row
  todo,         \* todo[j]: the rows job j has read and not processed
  billing,      \* billing[j]: the row whose invoice job j has just created
  broken        \* history: organizations whose request returned an error

postTrialVars == <<request, accounts, invoices, todo, billing, broken>>
postVars == <<allVars, postTrialVars>>

NoRequest == [pc |-> "none", trial |-> 0, today |-> 0, ids |-> {}]

RequestState ==
  [pc : {"none", "create", "dutiful", "fetch", "send", "record", "done"},
   trial : Hours, today : Hours, ids : SUBSET RowIDs]

PostTypeOK ==
  /\ ScheduleTypeOK
  /\ request \in [Orgs -> RequestState]
  /\ accounts \subseteq Orgs
  /\ invoices \subseteq accounts
  /\ todo \in [Jobs -> SUBSET accounts]
  /\ billing \in [Jobs -> SUBSET accounts]
  /\ broken \subseteq Orgs

PostInit ==
  /\ ScheduleInit
  /\ \A o \in Orgs : org[o].methods = {}
  /\ request = [o \in Orgs |-> NoRequest]
  /\ accounts = {}
  /\ invoices = {}
  /\ todo = [j \in Jobs |-> {}]
  /\ billing = [j \in Jobs |-> {}]
  /\ broken = {}

-----------------------------------------------------------------------------
(* createAccount.                                                          *)

At(o, pc) == request[o].pc = pc

Move(o, pc) == request' = [request EXCEPT ![o].pc = pc]

\* The handler returns an error.
Abort(o) ==
  /\ "call" \in Faults
  /\ Move(o, "done")
  /\ broken' = broken \union {o}

\* getOrganization: the trial's end is read once, at the beginning.
GetOrganization(o) ==
  /\ At(o, "none")
  /\ request' = [request EXCEPT ![o] =
                  [@ EXCEPT !.pc = "create", !.trial = org[o].trial]]
  /\ UNCHANGED <<allVars, accounts, invoices, todo, billing, broken>>

\* createZuoraAccount: the account's number is a function of the organization,
\* so there can only ever be one.
CreateZuoraAccount(o) ==
  /\ At(o, "create")
  /\ \/ /\ accounts' = accounts \union {o}
        /\ Move(o, "dutiful")
        /\ UNCHANGED broken
     \/ Abort(o) /\ UNCHANGED accounts
  /\ UNCHANGED <<allVars, invoices, todo, billing>>

\* markOrganizationDutiful: the users service learns the number; a failure is
\* only logged.  Then the handler is done unless the trial ended before today.
MarkOrganizationDutiful(o) ==
  /\ At(o, "dutiful")
  /\ LET today == now - (now % DayLength)
     IN  request' = [request EXCEPT ![o] =
           [@ EXCEPT !.pc = IF today >= request[o].trial THEN "fetch" ELSE "done",
                     !.today = today]]
  /\ \/ org' = [org EXCEPT ![o].methods = @ \union {"zuora"}]
     \/ "call" \in Faults /\ UNCHANGED org
  /\ UNCHANGED <<now, aggs, uploads, lastUpload, charged, runVars, scheduleVars,
                 accounts, invoices, todo, billing, broken>>

\* Mutant: only the week the daily upload looks back is sent.
FetchUsageWeek(o) ==
  /\ At(o, "fetch")
  /\ LET ids == GetAggregates(o, From(request[o].today, request[o].trial), request[o].today)
     IN  request' = [request EXCEPT ![o] =
           [@ EXCEPT !.pc = IF ids = {} THEN "done" ELSE "send", !.ids = ids]]
  /\ UNCHANGED <<allVars, accounts, invoices, todo, billing, broken>>

\* getPostTrialChargeableUsage.
FetchUsage(o) ==
  /\ At(o, "fetch")
  /\ \/ LET ids == GetAggregates(o, request[o].trial, request[o].today)
        IN  /\ request' = [request EXCEPT ![o] =
                 [@ EXCEPT !.pc = IF ids = {} THEN "done" ELSE "send", !.ids = ids]]
            /\ UNCHANGED broken
     \/ Abort(o)
  /\ UNCHANGED <<allVars, accounts, invoices, todo, billing>>

\* uploadUsage: Zuora gets a report of the rows of a type it charges for.
UploadUsage(o) ==
  /\ At(o, "send")
  /\ \/ /\ charged' = [charged EXCEPT !["zuora"] = [i \in RowIDs |->
               IF i \in request[o].ids /\ aggs[i].type \in Units["zuora"]
               THEN charged["zuora"][i] + 1 ELSE charged["zuora"][i]]]
        /\ Move(o, "record")
        /\ UNCHANGED broken
     \/ Abort(o) /\ UNCHANGED charged
  /\ UNCHANGED <<now, org, aggs, uploads, lastUpload, runVars, scheduleVars,
                 accounts, invoices, todo, billing>>

\* InsertPostTrialInvoice.
RecordInvoice(o) ==
  /\ At(o, "record")
  /\ \/ /\ invoices' = invoices \union {o}
        /\ Move(o, "done")
        /\ UNCHANGED broken
     \/ Abort(o) /\ UNCHANGED invoices
  /\ UNCHANGED <<allVars, accounts, todo, billing>>

CreateAccount(o) ==
  \/ GetOrganization(o) \/ CreateZuoraAccount(o) \/ MarkOrganizationDutiful(o)
  \/ FetchUsage(o) \/ UploadUsage(o) \/ RecordInvoice(o)

-----------------------------------------------------------------------------
(* InvoiceUpload.Do.                                                       *)

\* GetPostTrialInvoices.
ListInvoices(j) ==
  /\ todo[j] = {} /\ billing[j] = {}
  /\ todo' = [todo EXCEPT ![j] = invoices]
  /\ UNCHANGED <<allVars, request, accounts, invoices, billing, broken>>

Visited(j, o) == todo' = [todo EXCEPT ![j] = @ \ {o}]

\* The import is not completed, the users service does not answer, or Zuora
\* reports an error: the row is left for the next run.
SkipInvoice(j) ==
  /\ billing[j] = {}
  /\ \E o \in todo[j] :
       /\ "call" \in Faults \/ "zuora" \notin org[o].methods
       /\ Visited(j, o)
  /\ UNCHANGED <<allVars, request, accounts, invoices, billing, broken>>

\* CreateInvoice, for the account number the users service has, succeeds or says
\* that there is nothing, or too little, to invoice.
CreateInvoice(j) ==
  /\ billing[j] = {}
  /\ \E o \in todo[j] :
       /\ "zuora" \in org[o].methods
       /\ Visited(j, o)
       /\ billing' = [billing EXCEPT ![j] = {o}]
  /\ UNCHANGED <<allVars, request, accounts, invoices, broken>>

\* Mutant: the row outlives its invoice.
DeleteInvoiceSkipped(j) ==
  /\ billing[j] # {}
  /\ billing' = [billing EXCEPT ![j] = {}]
  /\ UNCHANGED <<allVars, request, accounts, invoices, todo, broken>>

\* DeletePostTrialInvoice; when it fails the invoice is created again.
DeleteInvoice(j) ==
  /\ billing[j] # {}
  /\ \/ invoices' = invoices \ billing[j]
     \/ "call" \in Faults /\ UNCHANGED invoices
  /\ billing' = [billing EXCEPT ![j] = {}]
  /\ UNCHANGED <<allVars, request, accounts, todo, broken>>

InvoiceUpload(j) ==
  ListInvoices(j) \/ SkipInvoice(j) \/ CreateInvoice(j) \/ DeleteInvoice(j)

-----------------------------------------------------------------------------

PostNext ==
  \/ \E o \in Orgs : CreateAccount(o)
  \/ \E j \in Jobs : InvoiceUpload(j)
  \/ ScheduleNext /\ UNCHANGED postTrialVars

PostSpec == PostInit /\ [][PostNext]_postVars

\* The invoice job runs every minute, and its calls succeed if they are made
\* often enough.
PostFairness ==
  \A j \in Jobs : /\ WF_postVars(InvoiceUpload(j))
                  /\ SF_postVars(CreateInvoice(j))
                  /\ SF_postVars(DeleteInvoice(j) /\ invoices' # invoices)

FairPostSpec == PostSpec /\ PostFairness

-----------------------------------------------------------------------------

\* No usage is lost between the post-trial upload and the week the daily upload
\* looks back: usage since the trial's end of an organization whose account was
\* set up without an error is charged by the time the daily upload no longer
\* looks at it, whenever the account was set up and however late the usage came.
NoGap ==
  \A i \in DOMAIN aggs : LET o == aggs[i].org IN
    /\ At(o, "done") /\ o \notin broken
    /\ "zuora" \in org[o].methods
    /\ aggs[i].bucket >= org[o].trial
    /\ aggs[i].bucket < ThroughTime("zuora", now) - WeekLength
    => charged["zuora"][i] > 0

\* The post-trial usage of an organization the users service knows the account
\* of is invoiced in the end.
EventuallyInvoiced ==
  \A o \in Orgs :
    (o \in invoices /\ "zuora" \in org[o].methods) ~> (o \notin invoices)

=============================================================================
