---------------------------- MODULE UsageSchedule ----------------------------
(***************************************************************************)
(* UsageUpload run by its cron entries (billing-uploader/main.go): each    *)
(* run fires at its due hour, once, and is over before the hour is.  The   *)
(* question is whether the week the job looks back is enough for usage     *)
(* that arrives late and for runs that fail.                               *)
(***************************************************************************)
EXTENDS UsageUpload

CONSTANTS
  Period,       \* Period[u]: hours between two runs of uploader u
  Phase,        \* Phase[u]: the hour of the period a run fires in
  MaxFailed     \* bound: how many runs of an uploader fail in a row

ASSUME UsageScheduleAssumption ==
  /\ Period \in [Uploaders -> Nat \ {0}]
  /\ Phase \in [Uploaders -> Nat]
  /\ MaxFailed \in Nat

VARIABLES
  fired,        \* the runs that have fired this hour
  failed        \* failed[r]: how many of the last runs failed, in a row

scheduleVars == <<fired, failed>>
allVars == <<vars, scheduleVars>>

ScheduleTypeOK ==
  /\ TypeOK
  /\ fired \subseteq Runs
  /\ failed \in [Runs -> 0 .. MaxFailed]

Due(r) == LET u == UploaderOf[r] IN now % Period[u] = Phase[u] % Period[u]

ScheduleInit ==
  /\ Init
  /\ fired = {}
  /\ failed = [r \in Runs |-> 0]

Succeeded(r) == failed' = [failed EXCEPT ![r] = 0]

Failed(r) ==
  /\ failed[r] < MaxFailed
  /\ failed' = [failed EXCEPT ![r] = @ + 1]

\* The entry fires; the users service may fail it at once.
Fire(r) ==
  /\ Due(r)
  /\ r \notin fired
  /\ fired' = fired \union {r}
  /\ Start(r)
  /\ IF run'[r].pc = "idle" THEN Failed(r) ELSE UNCHANGED failed

\* A step of a run: the step that ends it decides whether it failed.
Step(r) ==
  /\ \/ Collect(r) \/ CollectFails(r) \/ NothingToUpload(r)
     \/ InsertUpload(r) \/ LinkAggregates(r) \/ Upload(r) \/ UploadFails(r)
     \/ DeleteUpload(r) \/ UnlinkAggregates(r)
  /\ CASE run'[r].pc # "idle"                                      -> UNCHANGED failed
       [] run'[r].pc = "idle" /\ (NothingToUpload(r) \/ Upload(r)) -> Succeeded(r)
       [] OTHER                                                    -> Failed(r)
  /\ UNCHANGED fired

\* The process dies and every run in progress with it.
ScheduleCrash ==
  LET broken == {r \in Runs : run[r].pc # "idle"}
  IN  /\ Crash
      /\ \A r \in broken : failed[r] < MaxFailed
      /\ failed' = [r \in Runs |-> IF r \in broken THEN failed[r] + 1 ELSE failed[r]]
      /\ UNCHANGED fired

\* The hour ends when the runs due in it are over.
NextHour ==
  /\ Tick
  /\ \A r \in Runs : run[r].pc = "idle" /\ (Due(r) => r \in fired)
  /\ fired' = {}
  /\ UNCHANGED <<runVars, failed>>

ScheduleNext ==
  \/ \E r \in Runs : Fire(r) \/ Step(r)
  \/ ScheduleCrash
  \/ Aggregated /\ UNCHANGED <<runVars, scheduleVars>>
  \/ NextHour

ScheduleSpec == ScheduleInit /\ [][ScheduleNext]_allVars

-----------------------------------------------------------------------------

\* The provider of run r has to bill row i: its organization pays that way, and
\* the usage is not of the trial.
ToBill(r, i) ==
  /\ IsSupported(UploaderOf[r], aggs[i].org)
  /\ aggs[i].bucket >= org[aggs[i].org].trial

\* Usage does not slip out of the week the job looks back on before it is
\* uploaded: by the time no later run will read a row's bucket the row is linked
\* to an upload, although it may have arrived late and some runs failed.
NothingSlips ==
  \A r \in Runs, i \in DOMAIN aggs :
    /\ ToBill(r, i)
    /\ aggs[i].bucket < ThroughTime(UploaderOf[r], now) - WeekLength
    => aggs[i].upload # 0

\* Usage of the trial, and of an hour that is not over, is never linked to an
\* upload, however the trial's end and the bounds of the window fall.
OnlyDueUsage ==
  \A i \in DOMAIN aggs : aggs[i].upload # 0 =>
    /\ aggs[i].bucket >= org[aggs[i].org].trial
    /\ aggs[i].bucket < now

=============================================================================
