----------------------------- MODULE Aggregation -----------------------------
(***************************************************************************)
(* The aggregation job (billing-aggregator/job/aggregate.go): it compares  *)
(* the hourly totals of usage events in BigQuery with what the billing     *)
(* database has of them, and inserts the differences.  Jobs are the        *)
(* executions of Aggregate.Do that may overlap: the cron entry, the one    *)
(* started with the process, and POST /aggregate.                          *)
(*                                                                         *)
(* A key stands for an instance and an amount type.  Of the rows of        *)
(* `aggregates' only their sum per key and hour matters here.              *)
(***************************************************************************)
EXTENDS Integers, FiniteSets

CONSTANTS
  Keys,         \* instance and amount type
  Jobs,         \* executions of Do
  LookBack,     \* how far back a run looks by default, in hours (6)
  BatchSize,    \* totals handled at a time (100)
  LateHours,    \* how late an event may reach BigQuery, in hours
  Faults,       \* which faults occur: "call" (a call fails), "crash"
  MaxAmount,    \* bound: the total of an hour
  MaxHour       \* bound: the clock stops here

ASSUME AggregationAssumption ==
  /\ LookBack \in Nat
  /\ BatchSize \in Nat \ {0}
  /\ LateHours \in Nat
  /\ MaxAmount \in Nat
  /\ MaxHour \in Nat

VARIABLES
  now,          \* the hour the clock shows
  events,       \* events[x]: the total BigQuery has for key and hour x
  stored,       \* stored[x]: the sum of the rows the database has for x
  job           \* the local variables of each execution

vars == <<now, events, stored, job>>

Hours == 0 .. MaxHour
Totals == Keys \X Hours      \* what there is a total of: a key and an hour

Idle == [pc |-> "idle", aggs |-> [x \in Totals |-> 0], todo |-> {},
         batch |-> {}, sums |-> [x \in Totals |-> 0]]

\* aggs: BigQuery's answer.  todo: the totals of it the loop has not reached.
\* batch, sums: the batch at hand, and what the database had of it.
JobState == [pc : {"idle", "read", "insert"}, aggs : [Totals -> Nat],
             todo : SUBSET Totals, batch : SUBSET Totals, sums : [Totals -> Nat]]

\* Every variable has its type.
TypeOK ==
  /\ now \in Hours
  /\ events \in [Totals -> Nat]
  /\ stored \in [Totals -> Nat]
  /\ job \in [Jobs -> JobState]

Init ==
  /\ now = 0
  /\ events = [x \in Totals |-> 0]
  /\ stored = [x \in Totals |-> 0]
  /\ job = [j \in Jobs |-> Idle]

-----------------------------------------------------------------------------

Return(j) == job' = [job EXCEPT ![j] = Idle]

\* Mutant: the hour the run looks back to is left out.
SinceStrict(since) == {x \in Totals : x[2] > since /\ events[x] > 0}

\* The totals BigQuery reports from an hour on.
Since(since) == {x \in Totals : x[2] >= since /\ events[x] > 0}

\* Do: query BigQuery, from the default hour or the one asked for.
Query(j, since) ==
  /\ job[j].pc = "idle"
  /\ job' = [job EXCEPT ![j] =
       [Idle EXCEPT !.pc = "read", !.aggs = events, !.todo = Since(since)]]
  /\ UNCHANGED <<now, events, stored>>

\* A batch: BatchSize of the totals left, or the last ones.
Batches(todo) ==
  {b \in SUBSET todo : /\ Cardinality(b) <= BatchSize
                       /\ b = todo \/ Cardinality(b) = BatchSize}

\* GetAggregatesFrom for the next batch, summed by key and hour.
ReadBatch(j) ==
  /\ job[j].pc = "read"
  /\ job[j].todo # {}
  /\ \E b \in Batches(job[j].todo) :
       job' = [job EXCEPT ![j] =
         [job[j] EXCEPT !.pc = "insert", !.batch = b, !.todo = job[j].todo \ b,
                        !.sums = [x \in Totals |-> IF x \in b THEN stored[x] ELSE 0]]]
  /\ UNCHANGED <<now, events, stored>>

\* subtract: what is missing, and never a negative amount.
Difference(j, x) ==
  IF job[j].aggs[x] > job[j].sums[x] THEN job[j].aggs[x] - job[j].sums[x] ELSE 0

\* Mutant: BigQuery's totals are inserted as they are.
InsertTotals(j) ==
  /\ job[j].pc = "insert"
  /\ stored' = [x \in Totals |->
       IF x \in job[j].batch THEN stored[x] + job[j].aggs[x] ELSE stored[x]]
  /\ job' = [job EXCEPT ![j] = [job[j] EXCEPT !.pc = "read"]]
  /\ UNCHANGED <<now, events>>

\* InsertAggregates for the batch.
InsertBatch(j) ==
  /\ job[j].pc = "insert"
  /\ stored' = [x \in Totals |->
       IF x \in job[j].batch THEN stored[x] + Difference(j, x) ELSE stored[x]]
  /\ job' = [job EXCEPT ![j] = [job[j] EXCEPT !.pc = "read"]]
  /\ UNCHANGED <<now, events>>

\* The last batch is in.
Finish(j) ==
  /\ job[j].pc = "read"
  /\ job[j].todo = {}
  /\ Return(j)
  /\ UNCHANGED <<now, events, stored>>

\* BigQuery or the database fails: the batches inserted so far stay.
Fail(j) ==
  /\ "call" \in Faults
  /\ job[j].pc # "idle"
  /\ Return(j)
  /\ UNCHANGED <<now, events, stored>>

\* The process dies; all executions are in it.
Crash ==
  /\ "crash" \in Faults
  /\ job' = [j \in Jobs |-> Idle]
  /\ UNCHANGED <<now, events, stored>>

\* Usage of an hour that began is recorded, possibly late.
Record(x) ==
  /\ x[2] <= now
  /\ now - x[2] <= LateHours
  /\ events[x] < MaxAmount
  /\ events' = [events EXCEPT ![x] = events[x] + 1]
  /\ UNCHANGED <<now, stored, job>>

Tick ==
  /\ now < MaxHour
  /\ now' = now + 1
  /\ UNCHANGED <<events, stored, job>>

Step(j) == ReadBatch(j) \/ InsertBatch(j) \/ Finish(j) \/ Fail(j)

Next ==
  \/ \E j \in Jobs : Step(j) \/ \E h \in Hours : Query(j, h)
  \/ Crash
  \/ \E x \in Totals : Record(x)
  \/ Tick

Spec == Init /\ [][Next]_vars

-----------------------------------------------------------------------------

\* The database never has more usage than was recorded, whatever hours the runs
\* look back to, wherever they fail, and although events arrive while a run
\* compares: the differences it inserts are not inserted by anyone else.
NeverOverCounted == \A x \in Totals : stored[x] <= events[x]

\* No two executions overlap.
OneJob == \A i, j \in Jobs : i = j

\* While a batch is at hand the sums read for it are still what is stored, and
\* BigQuery's answer is at most what it would answer now.
KnowledgeSound ==
  \A j \in Jobs : \A x \in Totals :
    /\ job[j].aggs[x] <= events[x]
    /\ job[j].pc = "insert" /\ x \in job[j].batch => job[j].sums[x] = stored[x]

IndInv == NeverOverCounted /\ KnowledgeSound

=============================================================================
