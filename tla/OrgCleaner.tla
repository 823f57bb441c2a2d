------------------------------ MODULE OrgCleaner ------------------------------
(***************************************************************************)
(* The cleaner of users-sync (users-sync/cleaner/org.go): every so often,  *)
(* and when an organization is deleted, it asks every service to remove    *)
(* the data of the organizations that are deleted or refused uploads, and  *)
(* marks those of which everything is gone.                                *)
(***************************************************************************)
EXTENDS Organization, FiniteSets

CONSTANT Urls  \* the clean-up endpoints, one for each service that keeps data

VARIABLES
  cleaner,  \* the clean-up in progress: endpoints to call, have all been done
  data      \* the services that have data of the organization

cleaning == <<cleaner, data>>

CleanerTypeOK ==
  /\ cleaner \in [busy : BOOLEAN, todo : SUBSET Urls, done : BOOLEAN]
  /\ data \subseteq Urls

Asleep == [busy |-> FALSE, todo |-> {}, done |-> FALSE]

CleanerInit == cleaner = Asleep /\ data = {}

\* Mutant: deleted organizations are not listed.
UncleanedRefused(o) == ~ o.cleanup /\ o.refuseDataUpload

\* FindUncleanedOrgIDs: deleted, or refused uploads, and not marked yet.
Uncleaned(o) == ~ o.cleanup /\ (o.deleted \/ o.refuseDataUpload)

\* One turn of Start, woken by the ticker or by Trigger.  Without endpoints
\* there is nothing to run and the organization is left for later.
findAndClean ==
  /\ ~ cleaner.busy
  /\ Uncleaned(org) /\ Urls # {}
  /\ cleaner' = [busy |-> TRUE, todo |-> Urls, done |-> TRUE]
  /\ UNCHANGED <<database, data>>

\* The service removes the data and says so, says that it has not finished,
\* or does not answer in time, whatever it has done.
callEndpoint ==
  \E u \in cleaner.todo :
    \/ /\ data' = data \ {u}
       /\ cleaner' = [cleaner EXCEPT !.todo = @ \ {u}]
       /\ UNCHANGED database
    \/ /\ data' = data \/ data' = data \ {u}
       /\ Fails
       /\ cleaner' = [cleaner EXCEPT !.todo = @ \ {u}, !.done = FALSE]

\* Mutant: the mark is set although a service failed.
cleanAlways ==
  /\ cleaner.busy /\ cleaner.todo = {}
  /\ SetOrganizationCleanup \/ Fails
  /\ cleaner' = Asleep
  /\ UNCHANGED data

clean ==
  /\ cleaner.busy /\ cleaner.todo = {}
  /\ \/ cleaner.done /\ (SetOrganizationCleanup \/ Fails)
     \/ ~ cleaner.done /\ UNCHANGED database
  /\ cleaner' = Asleep
  /\ UNCHANGED data

Clean == findAndClean \/ callEndpoint \/ clean

=============================================================================
