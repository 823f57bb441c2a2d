------------------------- MODULE AggregationSchedule -------------------------
(***************************************************************************)
(* Aggregation run by its cron entry (billing-aggregator/main.go): once an *)
(* hour, looking back the default number of hours.                         *)
(***************************************************************************)
EXTENDS Aggregation

CONSTANT MaxFailed     \* bound: how many runs fail in a row

ASSUME AggregationScheduleAssumption == MaxFailed \in Nat

VARIABLES
  fired,        \* the executions started this hour
  failed        \* how many of the last runs failed, in a row

allVars == <<vars, fired, failed>>

ScheduleInit == Init /\ fired = {} /\ failed = 0

Fire(j) ==
  /\ j \notin fired
  /\ Query(j, now - LookBack)
  /\ fired' = fired \union {j}
  /\ UNCHANGED failed

Work(j) ==
  /\ ReadBatch(j) \/ InsertBatch(j)
  /\ UNCHANGED <<fired, failed>>

Succeed(j) ==
  /\ Finish(j)
  /\ failed' = 0
  /\ UNCHANGED fired

\* The run fails, or the process dies under it.
Break(j) ==
  /\ job[j].pc # "idle"
  /\ Fail(j) \/ Crash
  /\ failed < MaxFailed
  /\ failed' = failed + 1
  /\ UNCHANGED fired

\* The hour ends when its run is over.
NextHour ==
  /\ \A j \in Jobs : j \in fired /\ job[j].pc = "idle"
  /\ Tick
  /\ fired' = {}
  /\ UNCHANGED failed

ScheduleNext ==
  \/ \E j \in Jobs : Fire(j) \/ Work(j) \/ Succeed(j) \/ Break(j)
  \/ (\E x \in Totals : Record(x)) /\ UNCHANGED <<fired, failed>>
  \/ NextHour

ScheduleSpec == ScheduleInit /\ [][ScheduleNext]_allVars

\* By the time no run looks back to an hour any more the database has all the
\* usage of it, although events came late and runs failed half-way.
NothingMissed ==
  \A x \in Totals : x[2] < now - LookBack => stored[x] = events[x]

=============================================================================
