-------------------------- MODULE AggregationProofs --------------------------
(***************************************************************************)
(* Aggregation keeps its types, and a single run at a time never counts    *)
(* usage twice; run every hour it misses none either, if a run looks back  *)
(* far enough for the lateness of the events and the runs that may fail.   *)
(***************************************************************************)
EXTENDS AggregationSchedule, TLAPS

\* An execution returns to the state it began in.
LEMMA IdleType == Idle \in JobState
BY Zenon, AggregationAssumption DEF Idle, JobState

\* Init gives every variable its type.
LEMMA InitTypeOK == Init => TypeOK
BY IdleType, AggregationAssumption DEF Init, TypeOK, Hours

\* Querying BigQuery leaves a well-typed execution.
LEMMA QueryType ==
  ASSUME TypeOK, NEW j \in Jobs, NEW h \in Int, Query(j, h)
  PROVE  job' \in [Jobs -> JobState]
<1>1. Since(h) \in SUBSET Totals
  BY Zenon DEF Since
<1>2. [Idle EXCEPT !.pc = "read", !.aggs = events, !.todo = Since(h)] \in JobState
  BY Zenon, <1>1, IdleType DEF TypeOK, JobState
<1> QED
  BY Zenon, <1>2 DEF TypeOK, Query

\* Reading a batch leaves a well-typed execution.
LEMMA ReadBatchType ==
  ASSUME TypeOK, NEW j \in Jobs, ReadBatch(j)
  PROVE  job' \in [Jobs -> JobState]
<1>1. PICK b \in Batches(job[j].todo) :
        job' = [job EXCEPT ![j] =
          [job[j] EXCEPT !.pc = "insert", !.batch = b, !.todo = job[j].todo \ b,
                         !.sums = [x \in Totals |-> IF x \in b THEN stored[x] ELSE 0]]]
  BY Zenon DEF ReadBatch
<1>2. job[j] \in JobState
  BY Zenon DEF TypeOK
<1>3. b \in SUBSET Totals /\ job[j].todo \ b \in SUBSET Totals
  BY Zenon, <1>2 DEF Batches, JobState
<1>4. [x \in Totals |-> IF x \in b THEN stored[x] ELSE 0] \in [Totals -> Nat]
  BY Zenon DEF TypeOK
<1>5. [job[j] EXCEPT !.pc = "insert", !.batch = b, !.todo = job[j].todo \ b,
                     !.sums = [x \in Totals |-> IF x \in b THEN stored[x] ELSE 0]] \in JobState
  BY Zenon, <1>2, <1>3, <1>4 DEF JobState
<1> QED
  BY Zenon, <1>1, <1>5 DEF TypeOK

\* What a batch lacks is a number, and at most what was reported.
LEMMA DifferenceType ==
  ASSUME TypeOK, NEW j \in Jobs, NEW x \in Totals
  PROVE  /\ Difference(j, x) \in Nat
         /\ job[j].sums[x] <= job[j].aggs[x]
              => job[j].sums[x] + Difference(j, x) = job[j].aggs[x]
         /\ job[j].sums[x] > job[j].aggs[x] => Difference(j, x) = 0
<1>1. job[j].aggs[x] \in Nat /\ job[j].sums[x] \in Nat
  BY DEF TypeOK, JobState
<1> QED
  BY <1>1 DEF Difference

\* Inserting a batch keeps the sums numbers.
LEMMA InsertBatchType ==
  ASSUME TypeOK, NEW j \in Jobs, InsertBatch(j)
  PROVE  stored' \in [Totals -> Nat] /\ job' \in [Jobs -> JobState]
<1>1. stored' \in [Totals -> Nat]
  BY DifferenceType DEF TypeOK, InsertBatch
<1>2. [job[j] EXCEPT !.pc = "read"] \in JobState
  BY Zenon DEF TypeOK, JobState
<1> QED
  BY Zenon, <1>1, <1>2 DEF TypeOK, InsertBatch

\* Whatever hour a run looks back to, a step keeps the types.
LEMMA StepType ==
  ASSUME TypeOK,
         \/ \E j \in Jobs : Step(j) \/ \E h \in Int : Query(j, h)
         \/ Crash \/ (\E x \in Totals : Record(x)) \/ Tick \/ UNCHANGED vars
  PROVE  TypeOK'
<1>1. ASSUME NEW j \in Jobs, NEW h \in Int, Query(j, h) PROVE TypeOK'
  BY Zenon, <1>1, QueryType DEF TypeOK, Query
<1>2. ASSUME NEW j \in Jobs, ReadBatch(j) PROVE TypeOK'
  BY Zenon, <1>2, ReadBatchType DEF TypeOK, ReadBatch
<1>3. ASSUME NEW j \in Jobs, InsertBatch(j) PROVE TypeOK'
  BY Zenon, <1>3, InsertBatchType DEF TypeOK, InsertBatch
<1>4. ASSUME NEW j \in Jobs, Finish(j) \/ Fail(j) PROVE TypeOK'
  BY Zenon, <1>4, IdleType DEF TypeOK, Finish, Fail, Return
<1>5. CASE Crash
  BY Zenon, <1>5, IdleType DEF TypeOK, Crash
<1>6. ASSUME NEW x \in Totals, Record(x) PROVE TypeOK'
  BY <1>6 DEF TypeOK, Record
<1>7. CASE Tick
  BY <1>7, AggregationAssumption DEF TypeOK, Tick, Hours
<1>8. CASE UNCHANGED vars
  BY Zenon, <1>8 DEF TypeOK, vars
<1> QED
  BY Zenon, <1>1, <1>2, <1>3, <1>4, <1>5, <1>6, <1>7, <1>8 DEF Step

\* Every variable keeps its type, whatever the keys, hours and executions.
THEOREM TypeCorrect == Spec => []TypeOK
<1>1. TypeOK /\ [Next]_vars => TypeOK'
  <2>1. Hours \subseteq Int
    BY AggregationAssumption DEF Hours
  <2> QED
    BY Zenon, <2>1, StepType DEF Next
<1> QED
  BY <1>1, InitTypeOK, PTL DEF Spec

-----------------------------------------------------------------------------

\* Init satisfies the inductive invariant.
LEMMA InitIndInv == Init => IndInv
BY DEF Init, IndInv, NeverOverCounted, KnowledgeSound, Idle

\* Inserting a batch brings the totals of it up to what BigQuery answered.
LEMMA InsertBatchInv ==
  ASSUME TypeOK, IndInv, OneJob, NEW j \in Jobs, InsertBatch(j)
  PROVE  IndInv'
<1>1. ASSUME NEW x \in Totals PROVE stored'[x] <= events'[x]
  <2>1. /\ stored[x] \in Nat /\ events[x] \in Nat
        /\ job[j].aggs[x] \in Nat /\ job[j].sums[x] \in Nat
        /\ stored[x] <= events[x] /\ job[j].aggs[x] <= events[x]
        /\ x \in job[j].batch => job[j].sums[x] = stored[x]
    BY Zenon DEF TypeOK, JobState, IndInv, NeverOverCounted, KnowledgeSound, InsertBatch
  <2>2. stored'[x] = IF x \in job[j].batch THEN stored[x] + Difference(j, x) ELSE stored[x]
    BY Zenon DEF InsertBatch
  <2>3. events'[x] = events[x]
    BY Zenon DEF InsertBatch
  <2> QED
    BY <2>1, <2>2, <2>3, DifferenceType
<1>2. \A i \in Jobs : i = j
  BY Zenon DEF OneJob
<1>3. job'[j].pc = "read" /\ job'[j].aggs = job[j].aggs
  BY Zenon DEF InsertBatch, TypeOK, JobState
<1>4. KnowledgeSound'
  BY ZenonT(60), <1>2, <1>3 DEF KnowledgeSound, IndInv, InsertBatch
<1> QED
  BY Zenon, <1>1, <1>4 DEF IndInv, NeverOverCounted

\* Reading a batch tells the execution what is stored.
LEMMA ReadBatchInv ==
  ASSUME TypeOK, IndInv, OneJob, NEW j \in Jobs, ReadBatch(j)
  PROVE  IndInv'
<1>1. PICK b \in Batches(job[j].todo) :
        job' = [job EXCEPT ![j] =
          [job[j] EXCEPT !.pc = "insert", !.batch = b, !.todo = job[j].todo \ b,
                         !.sums = [x \in Totals |-> IF x \in b THEN stored[x] ELSE 0]]]
  BY Zenon DEF ReadBatch
<1>2. job'[j].aggs = job[j].aggs /\ job'[j].batch = b
      /\ job'[j].sums = [x \in Totals |-> IF x \in b THEN stored[x] ELSE 0]
  BY Zenon, <1>1 DEF TypeOK, JobState
<1>3. \A i \in Jobs : i = j
  BY Zenon DEF OneJob
<1>4. UNCHANGED <<events, stored>>
  BY Zenon DEF ReadBatch
<1> QED
  BY Zenon, <1>2, <1>3, <1>4 DEF IndInv, NeverOverCounted, KnowledgeSound

\* Querying tells the execution what BigQuery has.
LEMMA QueryInv ==
  ASSUME TypeOK, IndInv, OneJob, NEW j \in Jobs, NEW h \in Int, Query(j, h)
  PROVE  IndInv'
<1>1. job'[j].aggs = events /\ job'[j].pc = "read"
  BY Zenon DEF Query, TypeOK, Idle
<1>2. \A i \in Jobs : i = j
  BY Zenon DEF OneJob
<1>3. UNCHANGED <<events, stored>>
  BY Zenon DEF Query
<1>4. \A x \in Totals : events[x] \in Nat
  BY Zenon DEF TypeOK
<1> QED
  BY <1>1, <1>2, <1>3, <1>4 DEF IndInv, NeverOverCounted, KnowledgeSound

\* An execution that ends knows nothing any more.
LEMMA IdleInv ==
  ASSUME TypeOK, IndInv, UNCHANGED <<events, stored>>,
         \A i \in Jobs : job'[i] = Idle \/ job'[i] = job[i]
  PROVE  IndInv'
<1>1. \A x \in Totals : events[x] \in Nat
  BY Zenon DEF TypeOK
<1>2. Idle.pc = "idle" /\ \A x \in Totals : Idle.aggs[x] = 0
  BY Zenon DEF Idle
<1>3. ASSUME NEW i \in Jobs, NEW x \in Totals
      PROVE  /\ job'[i].aggs[x] <= events'[x]
             /\ job'[i].pc = "insert" /\ x \in job'[i].batch => job'[i].sums[x] = stored'[x]
  <2>1. CASE job'[i] = Idle
    BY <1>1, <1>2, <2>1
  <2>2. CASE job'[i] = job[i]
    BY Zenon, <2>2 DEF IndInv, KnowledgeSound
  <2> QED
    BY Zenon, <2>1, <2>2
<1> QED
  BY Zenon, <1>3 DEF IndInv, NeverOverCounted, KnowledgeSound

\* Usage that is recorded while an execution is at work only widens the gap.
LEMMA RecordInv ==
  ASSUME TypeOK, IndInv, NEW x \in Totals, Record(x)
  PROVE  IndInv'
<1>1. \A y \in Totals : events'[y] \in Nat /\ events[y] \in Nat /\ events'[y] >= events[y]
  BY DEF TypeOK, Record
<1>2. UNCHANGED <<stored, job>>
  BY Zenon DEF Record
<1>3. \A y \in Totals : stored[y] \in Nat /\ \A j \in Jobs : job[j].aggs[y] \in Nat
  BY DEF TypeOK, JobState
<1>4. NeverOverCounted'
  BY <1>1, <1>2, <1>3 DEF IndInv, NeverOverCounted
<1>5. KnowledgeSound'
  BY <1>1, <1>2, <1>3 DEF IndInv, KnowledgeSound
<1> QED
  BY Zenon, <1>4, <1>5 DEF IndInv

\* Whatever hour a run looks back to, a step keeps the inductive invariant.
LEMMA StepInv ==
  ASSUME TypeOK, IndInv, OneJob,
         \/ \E j \in Jobs : Step(j) \/ \E h \in Int : Query(j, h)
         \/ Crash \/ (\E x \in Totals : Record(x)) \/ Tick \/ UNCHANGED vars
  PROVE  IndInv'
<1>1. ASSUME NEW j \in Jobs, NEW h \in Int, Query(j, h) PROVE IndInv'
  BY Zenon, <1>1, QueryInv
<1>2. ASSUME NEW j \in Jobs, ReadBatch(j) PROVE IndInv'
  BY Zenon, <1>2, ReadBatchInv
<1>3. ASSUME NEW j \in Jobs, InsertBatch(j) PROVE IndInv'
  BY Zenon, <1>3, InsertBatchInv
<1>4. ASSUME NEW j \in Jobs, Finish(j) \/ Fail(j) PROVE IndInv'
  <2>1. UNCHANGED <<events, stored>> /\ \A i \in Jobs : job'[i] = Idle \/ job'[i] = job[i]
    BY Zenon, <1>4 DEF Finish, Fail, Return, TypeOK
  <2> QED
    BY Zenon, <2>1, IdleInv
<1>5. CASE Crash
  BY Zenon, <1>5, IdleInv DEF Crash
<1>6. ASSUME NEW x \in Totals, Record(x) PROVE IndInv'
  BY Zenon, <1>6, RecordInv
<1>7. CASE Tick \/ UNCHANGED vars
  BY Zenon, <1>7 DEF IndInv, NeverOverCounted, KnowledgeSound, Tick, vars
<1> QED
  BY Zenon, <1>1, <1>2, <1>3, <1>4, <1>5, <1>6, <1>7 DEF Step

\* With one execution at a time the database never has more usage than BigQuery:
\* no failure, restart, late event or choice of the hour to look back to makes
\* the job insert a difference twice.
THEOREM CountedOnce == OneJob => (Spec => []NeverOverCounted)
<1> SUFFICES ASSUME OneJob PROVE Spec => []NeverOverCounted
  BY Zenon
<1>1. TypeOK /\ IndInv /\ [Next]_vars => IndInv'
  <2>1. Hours \subseteq Int
    BY AggregationAssumption DEF Hours
  <2> QED
    BY Zenon, <2>1, StepInv DEF Next
<1>2. IndInv => NeverOverCounted
  BY Zenon DEF IndInv
<1> QED
  BY <1>1, <1>2, InitIndInv, TypeCorrect, PTL DEF Spec

-----------------------------------------------------------------------------
(* The hourly schedule.                                                    *)

\* A step of the schedule is a step of the executions, whose default hour to look
\* back to may lie before the first.
LEMMA ScheduleStep ==
  ASSUME TypeOK, [ScheduleNext]_allVars
  PROVE  \/ \E j \in Jobs : Step(j) \/ \E h \in Int : Query(j, h)
         \/ Crash \/ (\E x \in Totals : Record(x)) \/ Tick \/ UNCHANGED vars
<1>1. now - LookBack \in Int
  BY AggregationAssumption DEF TypeOK, Hours
<1> QED
  BY Zenon, <1>1 DEF ScheduleNext, allVars, Fire, Work, Succeed, Break, NextHour, Step

\* Run every hour, one execution at a time never counts usage twice either.
THEOREM CountedOnceHourly == OneJob => (ScheduleSpec => []NeverOverCounted)
<1> SUFFICES ASSUME OneJob PROVE ScheduleSpec => []NeverOverCounted
  BY Zenon
<1>1. TypeOK /\ IndInv /\ [ScheduleNext]_allVars => (TypeOK /\ IndInv)'
  BY Zenon, ScheduleStep, StepType, StepInv
<1>2. ScheduleInit => TypeOK /\ IndInv
  BY Zenon, InitTypeOK, InitIndInv DEF ScheduleInit
<1>3. IndInv => NeverOverCounted
  BY Zenon DEF IndInv
<1> QED
  BY <1>1, <1>2, <1>3, PTL DEF ScheduleSpec

\* No more events of an hour arrive, and the runs that have ended since.
Settled(x) == x[2] + LateHours < now
RunsSince(x) == now - 1 - x[2] - LateHours

\* The run of this hour is over.
Over(j) == IF j \in fired /\ job[j].pc = "idle" THEN 1 ELSE 0

\* The run at work knows a total as it is and has yet to store what is missing.
InHand(j, x) ==
  /\ job[j].aggs[x] = events[x]
  /\ x \in job[j].todo \/ (job[j].pc = "insert" /\ x \in job[j].batch)

\* Usage of a settled hour that is not stored was missed by failed runs only, and
\* the run at work is about to store it.
MissingInv ==
  \A x \in Totals, j \in Jobs :
    Settled(x) /\ stored[x] # events[x] =>
      /\ RunsSince(x) + Over(j) <= failed
      /\ job[j].pc # "idle" => InHand(j, x)

FiredInv ==
  /\ failed \in 0 .. MaxFailed
  /\ \A j \in Jobs : job[j].pc # "idle" => j \in fired

\* A run looks back past the hours of late events as often as runs may fail.
LooksFarEnough == OneJob /\ Jobs # {} /\ LookBack > LateHours + MaxFailed

\* The hour of a total is a number, and so are its amounts.
LEMMA TotalType ==
  ASSUME TypeOK, NEW x \in Totals
  PROVE  /\ x[2] \in Nat /\ stored[x] \in Nat /\ events[x] \in Nat /\ now \in Nat
         /\ \A j \in Jobs : job[j].aggs[x] \in Nat /\ job[j].sums[x] \in Nat
<1>1. x[2] \in Nat /\ now \in Nat
  BY AggregationAssumption DEF Totals, Hours, TypeOK
<1>2. stored[x] \in Nat /\ events[x] \in Nat
  BY Zenon DEF TypeOK
<1>3. ASSUME NEW j \in Jobs PROVE job[j].aggs[x] \in Nat /\ job[j].sums[x] \in Nat
  BY DEF TypeOK, JobState
<1> QED
  BY Zenon, <1>1, <1>2, <1>3

\* Only the run of this hour is at work, and few runs in a row have failed.
LEMMA FiredStep ==
  ASSUME TypeOK, FiredInv, [ScheduleNext]_allVars
  PROVE  FiredInv'
<1>1. failed \in Nat /\ failed <= MaxFailed /\ 0 \in 0 .. MaxFailed
  BY AggregationScheduleAssumption DEF FiredInv
<1>2. ASSUME NEW j \in Jobs, Fire(j) PROVE FiredInv'
  BY Zenon, <1>2 DEF FiredInv, Fire, Query, TypeOK
<1>3. ASSUME NEW j \in Jobs, Work(j) PROVE FiredInv'
  <2>1. /\ UNCHANGED <<fired, failed>> /\ job[j].pc # "idle"
        /\ \A i \in Jobs \ {j} : job'[i] = job[i]
    BY Zenon, <1>3 DEF Work, ReadBatch, InsertBatch, TypeOK
  <2> QED
    BY Zenon, <2>1 DEF FiredInv
<1>4. ASSUME NEW j \in Jobs, Succeed(j) \/ Break(j) PROVE FiredInv'
  <2>1. fired' = fired /\ \A i \in Jobs : job'[i] = Idle \/ job'[i] = job[i]
    BY Zenon, <1>4 DEF Succeed, Break, Finish, Fail, Crash, Return, TypeOK
  <2>2. failed' \in 0 .. MaxFailed
    BY <1>1, <1>4, AggregationScheduleAssumption DEF Succeed, Break
  <2>3. Idle.pc = "idle"
    BY Zenon DEF Idle
  <2> QED
    BY Zenon, <2>1, <2>2, <2>3 DEF FiredInv
<1>5. CASE NextHour
  BY Zenon, <1>5 DEF FiredInv, NextHour, Tick
<1>6. CASE UNCHANGED <<job, fired, failed>>
  BY Zenon, <1>6 DEF FiredInv
<1> QED
  BY Zenon, <1>2, <1>3, <1>4, <1>5, <1>6 DEF ScheduleNext, Record, allVars, vars

\* A run begins: it looks back to everything that is missing.
LEMMA FireMissing ==
  ASSUME TypeOK, IndInv, FiredInv, MissingInv, LooksFarEnough, NEW j \in Jobs, Fire(j)
  PROVE  MissingInv'
<1>1. /\ UNCHANGED <<now, events, stored, failed>> /\ j \notin fired
      /\ job'[j].pc = "read" /\ job'[j].aggs = events /\ job'[j].todo = Since(now - LookBack)
  BY Zenon DEF Fire, Query, TypeOK, Idle
<1> SUFFICES ASSUME NEW x \in Totals, Settled(x), stored[x] # events[x]
             PROVE  RunsSince(x) + Over(j)' <= failed /\ InHand(j, x)'
  BY Zenon, <1>1 DEF MissingInv, Settled, RunsSince, LooksFarEnough, OneJob
<1>2. Over(j) = 0 /\ Over(j)' = 0
  BY <1>1 DEF Over
<1>3. RunsSince(x) + Over(j) <= failed
  BY Zenon DEF MissingInv
<1>4. failed \in Nat /\ failed <= MaxFailed
  BY AggregationScheduleAssumption DEF FiredInv
<1>5. x[2] >= now - LookBack
  BY <1>2, <1>3, <1>4, TotalType, AggregationAssumption, AggregationScheduleAssumption
    DEF RunsSince, LooksFarEnough
<1>6. events[x] > 0
  BY TotalType DEF IndInv, NeverOverCounted
<1> QED
  BY Zenon, <1>1, <1>2, <1>3, <1>5, <1>6 DEF Since, InHand

\* A run takes up a batch, or inserts it: what the batch lacked is stored.
LEMMA WorkMissing ==
  ASSUME TypeOK, IndInv, MissingInv, LooksFarEnough, NEW j \in Jobs, Work(j)
  PROVE  MissingInv'
<1>1. UNCHANGED <<now, events, fired, failed>> /\ job[j].pc # "idle" /\ job'[j].pc # "idle"
  <2>1. CASE ReadBatch(j)
    <3>1. PICK b : job' = [job EXCEPT ![j] =
            [job[j] EXCEPT !.pc = "insert", !.batch = b, !.todo = job[j].todo \ b,
                           !.sums = [y \in Totals |-> IF y \in b THEN stored[y] ELSE 0]]]
      BY Zenon, <2>1 DEF ReadBatch
    <3>2. job'[j].pc = "insert"
      BY Zenon, <3>1 DEF TypeOK, JobState
    <3> QED
      BY Zenon, <2>1, <3>2 DEF Work, ReadBatch
  <2>2. CASE InsertBatch(j)
    <3>1. job'[j].pc = "read"
      BY Zenon, <2>2 DEF InsertBatch, TypeOK, JobState
    <3> QED
      BY Zenon, <2>2, <3>1 DEF Work, InsertBatch
  <2> QED
    BY Zenon, <2>1, <2>2 DEF Work
<1> SUFFICES ASSUME NEW x \in Totals, Settled(x), stored'[x] # events[x]
             PROVE  RunsSince(x) + Over(j)' <= failed /\ InHand(j, x)'
  BY Zenon, <1>1 DEF MissingInv, Settled, RunsSince, LooksFarEnough, OneJob
<1>2. Over(j)' = Over(j)
  BY Zenon, <1>1 DEF Over
<1>3. CASE ReadBatch(j)
  <2>1. PICK b \in Batches(job[j].todo) :
          job' = [job EXCEPT ![j] =
            [job[j] EXCEPT !.pc = "insert", !.batch = b, !.todo = job[j].todo \ b,
                           !.sums = [y \in Totals |-> IF y \in b THEN stored[y] ELSE 0]]]
    BY Zenon, <1>3 DEF ReadBatch
  <2>2. /\ job'[j].pc = "insert" /\ job'[j].batch = b /\ job'[j].todo = job[j].todo \ b
        /\ job'[j].aggs = job[j].aggs /\ job[j].pc = "read" /\ stored' = stored
    BY ZenonT(30), <1>3, <2>1 DEF TypeOK, JobState, ReadBatch
  <2>3. RunsSince(x) + Over(j) <= failed /\ InHand(j, x)
    BY Zenon, <1>1, <2>2 DEF MissingInv
  <2>4. InHand(j, x)'
    BY <1>1, <2>2, <2>3 DEF InHand
  <2> QED
    BY Zenon, <1>2, <2>3, <2>4
<1>4. CASE InsertBatch(j)
  <2>1. /\ job'[j].pc = "read" /\ job'[j].todo = job[j].todo /\ job'[j].aggs = job[j].aggs
        /\ job[j].pc = "insert"
        /\ stored'[x] = IF x \in job[j].batch THEN stored[x] + Difference(j, x) ELSE stored[x]
    BY Zenon, <1>4 DEF InsertBatch, TypeOK, JobState
  <2>2. CASE stored[x] = events[x]
    <3>1. x \in job[j].batch => job[j].sums[x] = stored[x]
      BY Zenon, <2>1 DEF IndInv, KnowledgeSound
    <3>2. job[j].aggs[x] <= events[x]
      BY Zenon DEF IndInv, KnowledgeSound
    <3> QED
      BY <2>1, <2>2, <3>1, <3>2, TotalType, DifferenceType
  <2>3. CASE stored[x] # events[x]
    <3>1. RunsSince(x) + Over(j) <= failed /\ InHand(j, x)
      BY Zenon, <1>1, <2>3 DEF MissingInv
    <3>2. x \notin job[j].batch
      <4> SUFFICES ASSUME x \in job[j].batch PROVE FALSE
        BY Zenon
      <4>1. job[j].sums[x] = stored[x] /\ stored[x] <= events[x]
        BY Zenon, <2>1 DEF IndInv, KnowledgeSound, NeverOverCounted
      <4>2. job[j].aggs[x] = events[x]
        BY Zenon, <3>1 DEF InHand
      <4> QED
        BY <2>1, <4>1, <4>2, TotalType, DifferenceType
    <3>3. InHand(j, x)'
      BY Zenon, <1>1, <2>1, <3>1, <3>2 DEF InHand
    <3> QED
      BY Zenon, <1>2, <3>1, <3>3
  <2> QED
    BY Zenon, <2>2, <2>3
<1> QED
  BY Zenon, <1>3, <1>4 DEF Work

\* A run that ends well has left nothing behind.
LEMMA SucceedMissing ==
  ASSUME TypeOK, MissingInv, LooksFarEnough, NEW j \in Jobs, Succeed(j)
  PROVE  MissingInv'
<1>1. /\ UNCHANGED <<now, events, stored>> /\ job[j].pc = "read" /\ job[j].todo = {}
  BY Zenon DEF Succeed, Finish
<1>2. ASSUME NEW x \in Totals, Settled(x) PROVE stored[x] = events[x]
  BY <1>1, <1>2 DEF MissingInv, InHand
<1> QED
  BY Zenon, <1>1, <1>2 DEF MissingInv, Settled

\* A run that fails has missed what it has not stored.
LEMMA BreakMissing ==
  ASSUME TypeOK, FiredInv, MissingInv, LooksFarEnough, NEW j \in Jobs, Break(j)
  PROVE  MissingInv'
<1>1. /\ UNCHANGED <<now, events, stored, fired>> /\ job[j].pc # "idle" /\ job'[j] = Idle
      /\ failed' = failed + 1
  BY Zenon DEF Break, Fail, Crash, Return, TypeOK
<1>2. Over(j) = 0 /\ Over(j)' = 1 /\ job'[j].pc = "idle"
  BY <1>1 DEF FiredInv, Over, Idle
<1> SUFFICES ASSUME NEW x \in Totals, Settled(x), stored[x] # events[x]
             PROVE  RunsSince(x) + Over(j)' <= failed + 1
  BY Zenon, <1>1, <1>2 DEF MissingInv, Settled, RunsSince, LooksFarEnough, OneJob
<1>3. RunsSince(x) + Over(j) <= failed
  BY Zenon DEF MissingInv
<1>4. failed \in Nat
  BY AggregationScheduleAssumption DEF FiredInv
<1> QED
  BY <1>2, <1>3, <1>4, TotalType, AggregationAssumption DEF RunsSince

\* An event that arrives is of an hour that is not settled.
LEMMA RecordMissing ==
  ASSUME TypeOK, MissingInv, NEW y \in Totals, Record(y), UNCHANGED <<fired, failed>>
  PROVE  MissingInv'
<1>1. UNCHANGED <<now, stored, job>> /\ now - y[2] <= LateHours
      /\ events' = [events EXCEPT ![y] = events[y] + 1]
  BY Zenon DEF Record
<1>2. ASSUME NEW x \in Totals, Settled(x) PROVE events'[x] = events[x]
  <2>1. x # y
    BY <1>1, <1>2, TotalType, AggregationAssumption DEF Settled
  <2> QED
    BY Zenon, <1>1, <2>1 DEF TypeOK
<1> QED
  BY ZenonT(30), <1>1, <1>2 DEF MissingInv, Settled, RunsSince, Over, InHand

\* The hour ends: its run is one of those that have ended.
LEMMA HourMissing ==
  ASSUME TypeOK, FiredInv, MissingInv, NextHour
  PROVE  MissingInv'
<1>1. /\ UNCHANGED <<events, stored, job, failed>> /\ now' = now + 1 /\ fired' = {}
      /\ \A j \in Jobs : j \in fired /\ job[j].pc = "idle"
  BY Zenon DEF NextHour, Tick
<1>2. failed \in Nat
  BY AggregationScheduleAssumption DEF FiredInv
<1> SUFFICES ASSUME NEW x \in Totals, NEW j \in Jobs, Settled(x)', stored[x] # events[x]
             PROVE  RunsSince(x)' + Over(j)' <= failed
  BY Zenon, <1>1 DEF MissingInv
<1>3. Over(j) = 1 /\ Over(j)' = 0
  BY <1>1 DEF Over
<1>4. CASE Settled(x)
  <2>1. RunsSince(x) + Over(j) <= failed
    BY Zenon, <1>4 DEF MissingInv
  <2> QED
    BY <1>1, <1>2, <1>3, <2>1, TotalType, AggregationAssumption DEF RunsSince
<1>5. CASE ~ Settled(x)
  BY <1>1, <1>2, <1>3, <1>5, TotalType, AggregationAssumption DEF RunsSince, Settled
<1> QED
  BY Zenon, <1>4, <1>5

\* If a run looks back far enough for the lateness of the events and the runs that
\* may fail in a row, all the usage of an hour is stored by the time no run looks
\* back to it any more, wherever the failed runs stopped.
THEOREM NoneMissed == LooksFarEnough => (ScheduleSpec => []NothingMissed)
<1> SUFFICES ASSUME LooksFarEnough PROVE ScheduleSpec => []NothingMissed
  BY Zenon
<1> DEFINE Inv == TypeOK /\ IndInv /\ FiredInv /\ MissingInv
<1>1. ScheduleInit => Inv
  <2> SUFFICES ASSUME ScheduleInit PROVE Inv
    BY Zenon
  <2>1. FiredInv
    BY AggregationScheduleAssumption DEF ScheduleInit, Init, FiredInv, Idle
  <2>2. MissingInv
    BY Zenon DEF ScheduleInit, Init, MissingInv
  <2> QED
    BY Zenon, <2>1, <2>2, InitTypeOK, InitIndInv DEF ScheduleInit
<1>2. Inv /\ [ScheduleNext]_allVars => Inv'
  <2> SUFFICES ASSUME Inv, [ScheduleNext]_allVars PROVE Inv'
    BY Zenon
  <2>1. TypeOK' /\ IndInv' /\ FiredInv'
    BY Zenon, ScheduleStep, StepType, StepInv, FiredStep DEF LooksFarEnough
  <2>2. ASSUME UNCHANGED allVars PROVE MissingInv'
    BY ZenonT(30), <2>2 DEF allVars, vars, MissingInv, Settled, RunsSince, Over, InHand
  <2>3. ASSUME ScheduleNext PROVE MissingInv'
    BY Zenon, <2>3, FireMissing, WorkMissing, SucceedMissing, BreakMissing, RecordMissing, HourMissing
      DEF ScheduleNext
  <2> QED
    BY Zenon, <2>1, <2>2, <2>3
<1>3. Inv => NothingMissed
  <2> SUFFICES ASSUME Inv, NEW x \in Totals, x[2] < now - LookBack, stored[x] # events[x]
               PROVE  FALSE
    BY Zenon DEF NothingMissed
  <2>1. PICK j \in Jobs : TRUE
    BY Zenon DEF LooksFarEnough
  <2>2. Settled(x)
    BY TotalType, AggregationAssumption, AggregationScheduleAssumption DEF Settled, LooksFarEnough
  <2>3. RunsSince(x) + Over(j) <= failed
    BY Zenon, <2>2 DEF MissingInv
  <2>4. Over(j) \in Nat /\ failed \in Nat /\ failed <= MaxFailed
    BY AggregationScheduleAssumption DEF FiredInv, Over
  <2> QED
    BY <2>3, <2>4, TotalType, AggregationAssumption, AggregationScheduleAssumption
      DEF RunsSince, LooksFarEnough
<1> QED
  BY <1>1, <1>2, <1>3, PTL DEF ScheduleSpec

=============================================================================
