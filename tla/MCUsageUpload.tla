---------------------------- MODULE MCUsageUpload ----------------------------
(* Small instances of UsageUpload for TLC.                                 *)
EXTENDS UsageUpload, TLC

\* Zuora and GCP both charge for node-seconds; only Zuora for "other".
MCUnits == [u \in Uploaders |->
              IF u = "gcp" THEN Types \ {"other"} ELSE Types]

AnyMethod == {{}, {"zuora"}, {"gcp"}}

\* One cron entry for each uploader.
CronRuns == [r \in Runs |-> r]

Symmetry == Permutations(Orgs)

=============================================================================
