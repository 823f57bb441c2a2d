------------------------- MODULE UsageScheduleProofs -------------------------
(* Theorems about the scheduled upload job, for every value of its          *)
(* constants.                                                               *)
EXTENDS UsageSchedule, UsageUploadProofs

USE BillingDBAssumption, UsageUploadAssumption, UsageScheduleAssumption

-----------------------------------------------------------------------------
(* The cron entries only choose when UsageUpload.Do runs.                  *)

\* A step of the scheduled job is a step of UsageUpload.Do, or of its tables.
LEMMA ScheduledStep == [ScheduleNext]_allVars => [Next]_vars
<1> SUFFICES ASSUME [ScheduleNext]_allVars PROVE [Next]_vars
  BY Zenon
<1>1. CASE \E r \in Runs : Fire(r) \/ Step(r)
  BY Zenon, <1>1 DEF Fire, Step, Next, RunStep
<1>2. CASE ScheduleCrash
  BY Zenon, <1>2 DEF ScheduleCrash, Next
<1>3. CASE Aggregated /\ UNCHANGED <<runVars, scheduleVars>>
  BY Zenon, <1>3 DEF Next, Environment
<1>4. CASE NextHour
  BY Zenon, <1>4 DEF NextHour, Next, Environment
<1>5. CASE UNCHANGED allVars
  BY Zenon, <1>5 DEF allVars
<1> QED
  BY Zenon, <1>1, <1>2, <1>3, <1>4, <1>5 DEF ScheduleNext

\* What the cron entries do is a behaviour of the upload job: whatever holds of
\* UsageUpload.Do run at any time, in any order, holds of it under the schedule.
THEOREM ScheduleImplementsUpload == ScheduleSpec => Spec
<1>1. ScheduleInit => Init
  BY Zenon DEF ScheduleInit
<1> QED
  BY <1>1, ScheduledStep, PTL DEF ScheduleSpec, Spec

-----------------------------------------------------------------------------
(* Only due usage is uploaded.                                             *)

\* Row i is of an hour that is over and past its organization's trial.
DueRow(i) ==
  /\ i \in DOMAIN aggs
  /\ aggs[i].bucket >= org[aggs[i].org].trial
  /\ aggs[i].bucket < now

\* An execution's window is not in the future, the trials it was told of are the
\* ones on record, and the rows it holds are due.
HeldIsDue ==
  /\ \A r \in Runs : run[r].through <= now
  /\ \A r \in Runs : \A x \in run[r].todo : x.trial = org[x.org].trial
  /\ \A r \in Runs : \A i \in run[r].ids : DueRow(i)

DueInv == HeldIsDue /\ OnlyDueUsage

\* Rows keep their organization and their hour, so a row that is due stays due.
LEMMA DueKept ==
  ASSUME TypeOK, TypeOK', UNCHANGED org, now <= now', DOMAIN aggs \subseteq DOMAIN aggs',
         \A i \in DOMAIN aggs :
           aggs'[i].org = aggs[i].org /\ aggs'[i].bucket = aggs[i].bucket,
         NEW i, DueRow(i)
  PROVE  DueRow(i)'
<1>1. i \in DOMAIN aggs /\ aggs[i] \in Aggregate
  BY Zenon, RowType DEF DueRow
<1>2. aggs[i].bucket \in Int
  BY <1>1 DEF Aggregate, Hours
<1>3. now \in Int /\ now' \in Int
  BY DEF TypeOK, DBTypeOK, Hours
<1>4. aggs[i].bucket < now'
  BY <1>2, <1>3 DEF DueRow
<1>5. /\ i \in DOMAIN aggs'
      /\ aggs'[i].org = aggs[i].org /\ aggs'[i].bucket = aggs[i].bucket
  BY Zenon, <1>1
<1> QED
  BY Zenon, <1>4, <1>5 DEF DueRow

\* While no execution takes up a window, an organization or a row, what each holds
\* stays due.
LEMMA HeldKept ==
  ASSUME TypeOK, TypeOK', HeldIsDue, UNCHANGED org, now <= now',
         \A i : DueRow(i) => DueRow(i)',
         \A q \in Runs : /\ run'[q].through \in {0, run[q].through}
                         /\ run'[q].todo \subseteq run[q].todo
                         /\ run'[q].ids \subseteq run[q].ids
  PROVE  HeldIsDue'
<1>1. now \in Nat /\ now' \in Nat
  BY DEF TypeOK, DBTypeOK, Hours
<1>2. ASSUME NEW q \in Runs PROVE run'[q].through <= now'
  <2>1. run[q].through \in Nat
    BY DEF TypeOK, RunState, Hours
  <2>2. run[q].through <= now
    BY Zenon DEF HeldIsDue
  <2> QED
    BY <1>1, <2>1, <2>2
<1>3. \A q \in Runs : \A x \in run'[q].todo : x.trial = org'[x.org].trial
  BY Zenon DEF HeldIsDue
<1>4. \A q \in Runs : \A i \in run'[q].ids : DueRow(i)'
  BY Zenon DEF HeldIsDue
<1> QED
  BY Zenon, <1>2, <1>3, <1>4 DEF HeldIsDue

\* A row that is due may be linked to an upload; the others stay as they were.
LEMMA LinksKept ==
  ASSUME OnlyDueUsage, \A i : DueRow(i) => DueRow(i)',
         \A i \in DOMAIN aggs' : aggs'[i].upload # 0 =>
           DueRow(i) \/ (i \in DOMAIN aggs /\ aggs[i].upload # 0)
  PROVE  OnlyDueUsage'
<1> SUFFICES ASSUME NEW i \in DOMAIN aggs', aggs'[i].upload # 0
             PROVE  DueRow(i)'
  BY Zenon DEF OnlyDueUsage, DueRow
<1>1. DueRow(i)
  BY Zenon DEF OnlyDueUsage, DueRow
<1> QED
  BY Zenon, <1>1

\* UPDATE aggregates SET upload_id leaves a row's organization and hour alone.
LEMMA SetUploadBucket ==
  ASSUME TypeOK, NEW ids, NEW k, SetUpload(ids, k)
  PROVE  /\ DOMAIN aggs' = DOMAIN aggs
         /\ \A i \in DOMAIN aggs :
              /\ aggs'[i].org = aggs[i].org /\ aggs'[i].bucket = aggs[i].bucket
              /\ aggs'[i].upload = IF i \in ids THEN k ELSE aggs[i].upload
<1>1. \A i \in DOMAIN aggs : aggs[i] \in Aggregate
  BY Zenon, RowType
<1>2. DOMAIN aggs' = DOMAIN aggs
  BY Zenon DEF SetUpload
<1>3. \A i \in DOMAIN aggs : aggs'[i] =
        IF i \in ids THEN [aggs[i] EXCEPT !.upload = k] ELSE aggs[i]
  BY Zenon DEF SetUpload
<1> QED
  BY Zenon, <1>1, <1>2, <1>3 DEF Aggregate

\* An execution that returns, or moves on to its next statement, takes up nothing.
LEMMA MoveShrinks ==
  ASSUME TypeOK, NEW r \in Runs, NEW pc, Return(r) \/ Goto(r, pc), NEW q \in Runs
  PROVE  /\ run'[q].through \in {0, run[q].through}
         /\ run'[q].todo \subseteq run[q].todo
         /\ run'[q].ids \subseteq run[q].ids
<1>1. run \in [Runs -> RunState] /\ run[r] \in RunState
  BY Zenon DEF TypeOK
<1>2. CASE q # r
  <2>1. run'[q] = run[q]
    BY Zenon, <1>1, <1>2 DEF Return, Goto
  <2> QED
    BY Zenon, <2>1
<1>3. CASE q = r /\ Return(r)
  <2>1. run'[q] = Idle
    BY Zenon, <1>1, <1>3 DEF Return
  <2> QED
    BY <2>1 DEF Idle
<1>4. CASE q = r /\ Goto(r, pc)
  <2>1. run'[q] = [run[r] EXCEPT !.pc = pc]
    BY Zenon, <1>1, <1>4 DEF Goto
  <2>2. /\ run'[q].through = run[r].through
        /\ run'[q].todo = run[r].todo
        /\ run'[q].ids = run[r].ids
    BY Zenon, <1>1, <2>1 DEF RunState
  <2> QED
    BY Zenon, <1>4, <2>2
<1> QED
  BY Zenon, <1>2, <1>3, <1>4

\* A step that leaves the tables' rows alone and takes up nothing.
LEMMA QuietDue ==
  ASSUME TypeOK, TypeOK', DueInv, UNCHANGED <<org, aggs>>, now <= now',
         \A q \in Runs : /\ run'[q].through \in {0, run[q].through}
                         /\ run'[q].todo \subseteq run[q].todo
                         /\ run'[q].ids \subseteq run[q].ids
  PROVE  DueInv'
<1>1. \A i : DueRow(i) => DueRow(i)'
  BY Zenon, DueKept
<1>2. HeldIsDue'
  BY Zenon, <1>1, HeldKept DEF DueInv
<1>3. OnlyDueUsage'
  BY Zenon, <1>1, LinksKept DEF DueInv
<1> QED
  BY Zenon, <1>2, <1>3 DEF DueInv

\* A run's window ends no later than the hour it starts in.
LEMMA ThroughTimePast ==
  ASSUME NEW u, NEW t \in Hours
  PROVE  ThroughTime(u, t) <= t
<1>1. t \in Nat /\ DayLength \in Nat \ {0}
  BY DEF Hours
<1>2. t % DayLength \in 0 .. (DayLength - 1)
  BY <1>1
<1> QED
  BY <1>1, <1>2 DEF ThroughTime

\* A run starts with the trials on record and no rows.
LEMMA StartDue ==
  ASSUME TypeOK, TypeOK', DueInv, NEW r \in Runs, Start(r)
  PROVE  DueInv'
<1> DEFINE u == UploaderOf[r]
           t == ThroughTime(u, now)
<1>1. UNCHANGED <<now, org, aggs>>
  BY Zenon DEF Start, dbVars
<1>2. now \in Hours /\ now <= now'
  BY <1>1 DEF TypeOK, DBTypeOK, Hours
<1>3. CASE UNCHANGED run
  BY Zenon, <1>1, <1>2, <1>3, QuietDue
<1>4. CASE run' = [run EXCEPT ![r] =
                [pc |-> "collect", through |-> t,
                 todo |-> BillableOrganizations(u, t), ids |-> {}, id |-> 0]]
  <2>1. /\ run'[r] = [pc |-> "collect", through |-> t,
                      todo |-> BillableOrganizations(u, t), ids |-> {}, id |-> 0]
        /\ \A q \in Runs : q # r => run'[q] = run[q]
    BY Zenon, <1>4 DEF TypeOK
  <2>2. /\ run'[r].through = t /\ run'[r].todo = BillableOrganizations(u, t)
        /\ run'[r].ids = {}
    BY <2>1
  <2>3. \A i : DueRow(i) => DueRow(i)'
    BY Zenon, <1>1 DEF DueRow
  <2>4. t <= now'
    BY Zenon, <1>1, <1>2, ThroughTimePast
  <2>5. \A x \in BillableOrganizations(u, t) : x.trial = org[x.org].trial
    BY DEF BillableOrganizations
  <2>6. HeldIsDue'
    <3>1. \A q \in Runs : run'[q].through <= now'
      BY Zenon, <1>1, <2>1, <2>2, <2>4 DEF DueInv, HeldIsDue
    <3>2. ASSUME NEW q \in Runs, NEW x \in run'[q].todo
          PROVE  x.trial = org'[x.org].trial
      <4>1. x.trial = org[x.org].trial
        <5>1. CASE q = r
          BY Zenon, <2>2, <2>5, <3>2, <5>1
        <5>2. CASE q # r
          BY Zenon, <2>1, <3>2, <5>2 DEF DueInv, HeldIsDue
        <5> QED
          BY Zenon, <5>1, <5>2
      <4> QED
        BY Zenon, <1>1, <4>1
    <3>3. \A q \in Runs : \A i \in run'[q].ids : DueRow(i)'
      BY Zenon, <2>1, <2>2, <2>3 DEF DueInv, HeldIsDue
    <3> QED
      BY Zenon, <3>1, <3>2, <3>3 DEF HeldIsDue
  <2>7. OnlyDueUsage'
    BY Zenon, <1>1, <2>3, LinksKept DEF DueInv
  <2> QED
    BY Zenon, <2>6, <2>7 DEF DueInv
<1> QED
  BY Zenon, <1>3, <1>4 DEF Start

\* GetAggregatesToUpload reads rows from the end of the trial on and of the hours
\* before the end of the window.
LEMMA CollectDue ==
  ASSUME TypeOK, TypeOK', DueInv, NEW r \in Runs, Collect(r)
  PROVE  DueInv'
<1>1. UNCHANGED <<now, org, aggs>>
  BY Zenon DEF Collect, dbVars
<1>2. PICK x \in run[r].todo :
        run' = [run EXCEPT ![r] = Recorded(run[r], x,
          GetAggregatesToUpload(x.org, From(run[r].through, x.trial), run[r].through))]
  BY Zenon DEF Collect
<1> DEFINE from == From(run[r].through, x.trial)
           rows == GetAggregatesToUpload(x.org, from, run[r].through)
<1>3. run \in [Runs -> RunState] /\ run[r] \in RunState
  BY Zenon DEF TypeOK
<1>4. /\ run'[r] = Recorded(run[r], x, rows)
      /\ \A q \in Runs : q # r => run'[q] = run[q]
  BY Zenon, <1>2, <1>3
<1>5. /\ run'[r].through = run[r].through
      /\ run'[r].todo = run[r].todo \ {x}
      /\ run'[r].ids = run[r].ids \union rows
  <2> HIDE DEF rows
  <2> QED
    BY <1>3, <1>4 DEF Recorded, RunState
<1>6. ASSUME NEW i \in rows PROVE DueRow(i)
  <2>1. /\ i \in DOMAIN aggs /\ aggs[i].org = x.org
        /\ aggs[i].bucket >= from /\ aggs[i].bucket < run[r].through
    BY Zenon, <1>6 DEF GetAggregatesToUpload, GetAggregates
  <2>2. aggs[i].bucket \in Nat
    BY <2>1, RowType DEF Aggregate, Hours
  <2>3. x.trial \in Nat /\ run[r].through \in Nat /\ now \in Nat
    BY <1>3 DEF RunState, Hours, TypeOK, DBTypeOK
  <2>4. run[r].through <= now /\ x.trial = org[x.org].trial
    BY Zenon DEF DueInv, HeldIsDue
  <2>5. from >= x.trial /\ from \in Int
    BY <2>3 DEF From, Later
  <2>6. aggs[i].bucket >= x.trial /\ aggs[i].bucket < now
    <3> HIDE DEF from
    <3> QED
      BY <2>1, <2>2, <2>3, <2>4, <2>5
  <2> QED
    BY Zenon, <2>1, <2>4, <2>6 DEF DueRow
<1>7. \A i : DueRow(i) => DueRow(i)'
  BY Zenon, <1>1 DEF DueRow
<1>8. HeldIsDue'
  <2> HIDE DEF rows
  <2>1. \A q \in Runs : run'[q].through <= now'
    BY Zenon, <1>1, <1>4, <1>5 DEF DueInv, HeldIsDue
  <2>2. \A q \in Runs : \A y \in run'[q].todo : y.trial = org'[y.org].trial
    BY Zenon, <1>1, <1>4, <1>5 DEF DueInv, HeldIsDue
  <2>3. \A q \in Runs : \A i \in run'[q].ids : DueRow(i)'
    BY Zenon, <1>4, <1>5, <1>6, <1>7 DEF DueInv, HeldIsDue
  <2> QED
    BY Zenon, <2>1, <2>2, <2>3 DEF HeldIsDue
<1>9. OnlyDueUsage'
  BY Zenon, <1>1, <1>7, LinksKept DEF DueInv
<1> QED
  BY Zenon, <1>8, <1>9 DEF DueInv

\* A new upload has no rows yet; the execution takes up nothing.
LEMMA InsertDue ==
  ASSUME TypeOK, TypeOK', DueInv, NEW r \in Runs, InsertUpload(r)
  PROVE  DueInv'
<1>1. UNCHANGED <<now, org, aggs>>
  BY Zenon DEF InsertUpload
<1>2. now <= now'
  BY <1>1 DEF TypeOK, DBTypeOK, Hours
<1>3. CASE Return(r)
  <2>1. \A q \in Runs : /\ run'[q].through \in {0, run[q].through}
                        /\ run'[q].todo \subseteq run[q].todo
                        /\ run'[q].ids \subseteq run[q].ids
    BY Zenon, <1>3, MoveShrinks
  <2> QED
    BY Zenon, <1>1, <1>2, <2>1, QuietDue
<1>4. CASE run' = [run EXCEPT ![r] =
                     [run[r] EXCEPT !.pc = "link", !.id = lastUpload + 1]]
  <2>1. run \in [Runs -> RunState] /\ run[r] \in RunState
    BY Zenon DEF TypeOK
  <2>2. /\ run'[r] = [run[r] EXCEPT !.pc = "link", !.id = lastUpload + 1]
        /\ \A q \in Runs : q # r => run'[q] = run[q]
    BY Zenon, <1>4, <2>1
  <2>3. /\ run'[r].through = run[r].through
        /\ run'[r].todo = run[r].todo
        /\ run'[r].ids = run[r].ids
    BY <2>1, <2>2 DEF RunState
  <2>4. \A q \in Runs : /\ run'[q].through \in {0, run[q].through}
                        /\ run'[q].todo \subseteq run[q].todo
                        /\ run'[q].ids \subseteq run[q].ids
    BY Zenon, <2>2, <2>3
  <2> QED
    BY Zenon, <1>1, <1>2, <2>4, QuietDue
<1> QED
  BY Zenon, <1>3, <1>4 DEF InsertUpload

\* The statements that set upload_id name rows that are due, or clear it.
LEMMA LinkDue ==
  ASSUME TypeOK, TypeOK', DueInv, NEW r \in Runs,
         LinkAggregates(r) \/ UnlinkAggregates(r)
  PROVE  DueInv'
<1>1. UNCHANGED <<now, org>>
  BY Zenon DEF LinkAggregates, UnlinkAggregates
<1>2. now <= now'
  BY <1>1 DEF TypeOK, DBTypeOK, Hours
<1>3. \E pc : Return(r) \/ Goto(r, pc)
  BY Zenon DEF LinkAggregates, UnlinkAggregates
<1>4. \A q \in Runs : /\ run'[q].through \in {0, run[q].through}
                      /\ run'[q].todo \subseteq run[q].todo
                      /\ run'[q].ids \subseteq run[q].ids
  BY Zenon, <1>3, MoveShrinks
<1>5. CASE UNCHANGED aggs
  BY Zenon, <1>1, <1>2, <1>4, <1>5, QuietDue
<1>6. ASSUME NEW ids, NEW k, SetUpload(ids, k), k = 0 \/ \A i \in ids : DueRow(i)
      PROVE  DueInv'
  <2>1. /\ DOMAIN aggs' = DOMAIN aggs
        /\ \A i \in DOMAIN aggs :
             /\ aggs'[i].org = aggs[i].org /\ aggs'[i].bucket = aggs[i].bucket
             /\ aggs'[i].upload = IF i \in ids THEN k ELSE aggs[i].upload
    BY Zenon, <1>6, SetUploadBucket
  <2>2. \A i : DueRow(i) => DueRow(i)'
    BY Zenon, <1>1, <1>2, <2>1, DueKept
  <2>3. HeldIsDue'
    BY Zenon, <1>1, <1>2, <1>4, <2>2, HeldKept DEF DueInv
  <2>4. OnlyDueUsage'
    BY Zenon, <1>6, <2>1, <2>2, LinksKept DEF DueInv
  <2> QED
    BY Zenon, <2>3, <2>4 DEF DueInv
<1>7. \A i \in run[r].ids : DueRow(i)
  BY Zenon DEF DueInv, HeldIsDue
<1> QED
  BY Zenon, <1>5, <1>6, <1>7 DEF LinkAggregates, UnlinkAggregates

\* A row inserted by the aggregator is linked to nothing.
LEMMA AggregatedDue ==
  ASSUME TypeOK, TypeOK', DueInv, Aggregated, UNCHANGED runVars
  PROVE  DueInv'
<1>1. UNCHANGED <<now, org, run>>
  BY Zenon DEF Aggregated, runVars
<1>2. now <= now'
  BY <1>1 DEF TypeOK, DBTypeOK, Hours
<1>3. PICK o \in Orgs, b \in Hours, t \in Types :
        aggs' = Append(aggs, [org |-> o, bucket |-> b, type |-> t, upload |-> 0])
  BY Zenon DEF Aggregated, InsertAggregate
<1>4. aggs \in Seq(Aggregate)
  BY Zenon DEF TypeOK, DBTypeOK
<1>5. [org |-> o, bucket |-> b, type |-> t, upload |-> 0] \in Aggregate
  BY DEF Aggregate
<1>6. /\ DOMAIN aggs' = DOMAIN aggs \union {Len(aggs) + 1}
      /\ \A i \in DOMAIN aggs : aggs'[i] = aggs[i]
      /\ aggs'[Len(aggs) + 1] = [org |-> o, bucket |-> b, type |-> t, upload |-> 0]
  BY <1>3, <1>4, <1>5
<1>7. aggs'[Len(aggs) + 1].upload = 0
  BY <1>6
<1>8. \A i : DueRow(i) => DueRow(i)'
  BY Zenon, <1>1, <1>2, <1>6, DueKept
<1>9. HeldIsDue'
  BY Zenon, <1>1, <1>2, <1>8, HeldKept DEF DueInv
<1>10. OnlyDueUsage'
  BY Zenon, <1>6, <1>7, <1>8, LinksKept DEF DueInv
<1> QED
  BY Zenon, <1>9, <1>10 DEF DueInv

\* Every step of the scheduled job keeps the invariant.
LEMMA ScheduleNextDue ==
  ASSUME TypeOK, TypeOK', DueInv, [ScheduleNext]_allVars
  PROVE  DueInv'
<1>a. ASSUME UNCHANGED now PROVE now <= now'
  BY <1>a DEF TypeOK, DBTypeOK, Hours
<1>1. ASSUME NEW r \in Runs, Fire(r) PROVE DueInv'
  BY Zenon, <1>1, StartDue DEF Fire
<1>2. ASSUME NEW r \in Runs, Step(r) PROVE DueInv'
  <2>1. CASE Collect(r)
    BY Zenon, <2>1, CollectDue
  <2>2. CASE InsertUpload(r)
    BY Zenon, <2>2, InsertDue
  <2>3. CASE LinkAggregates(r) \/ UnlinkAggregates(r)
    BY Zenon, <2>3, LinkDue
  <2>4. CASE \/ CollectFails(r) \/ NothingToUpload(r)
             \/ Upload(r) \/ UploadFails(r) \/ DeleteUpload(r)
    <3>1. UNCHANGED <<now, org, aggs>>
      BY Zenon, <2>4 DEF CollectFails, NothingToUpload, Upload, UploadFails, DeleteUpload,
                         dbVars
    <3>2. \E pc : Return(r) \/ Goto(r, pc)
      BY Zenon, <2>4 DEF CollectFails, NothingToUpload, Upload, UploadFails, DeleteUpload
    <3>3. \A q \in Runs : /\ run'[q].through \in {0, run[q].through}
                          /\ run'[q].todo \subseteq run[q].todo
                          /\ run'[q].ids \subseteq run[q].ids
      BY Zenon, <3>2, MoveShrinks
    <3> QED
      BY Zenon, <1>a, <3>1, <3>3, QuietDue
  <2> QED
    BY Zenon, <1>2, <2>1, <2>2, <2>3, <2>4 DEF Step
<1>3. CASE ScheduleCrash
  <2>1. UNCHANGED <<now, org, aggs>> /\ run' = [r \in Runs |-> Idle]
    BY Zenon, <1>3 DEF ScheduleCrash, Crash, dbVars
  <2>2. \A q \in Runs : /\ run'[q].through \in {0, run[q].through}
                        /\ run'[q].todo \subseteq run[q].todo
                        /\ run'[q].ids \subseteq run[q].ids
    BY <2>1 DEF Idle
  <2> QED
    BY Zenon, <1>a, <2>1, <2>2, QuietDue
<1>4. CASE Aggregated /\ UNCHANGED <<runVars, scheduleVars>>
  BY Zenon, <1>4, AggregatedDue
<1>5. CASE NextHour
  <2>1. UNCHANGED <<org, aggs, run>> /\ now' = now + 1
    BY Zenon, <1>5 DEF NextHour, Tick, runVars
  <2>2. now <= now'
    BY <2>1 DEF TypeOK, DBTypeOK, Hours
  <2> QED
    BY Zenon, <2>1, <2>2, QuietDue
<1>6. CASE UNCHANGED allVars
  <2>1. UNCHANGED <<now, org, aggs, run>>
    BY Zenon, <1>6 DEF allVars, vars, dbVars, runVars
  <2> QED
    BY Zenon, <1>a, <2>1, QuietDue
<1> QED
  BY Zenon, <1>1, <1>2, <1>3, <1>4, <1>5, <1>6 DEF ScheduleNext

\* What a scheduled run holds, and what is linked to an upload, is always due.
LEMMA DueInvariance == ScheduleSpec => []DueInv
<1>1. ScheduleInit => DueInv
  <2> SUFFICES ASSUME ScheduleInit PROVE DueInv
    BY Zenon
  <2>1. aggs = <<>> /\ now = 0 /\ \A r \in Runs : run[r] = Idle
    BY DEF ScheduleInit, Init, DBInit
  <2> QED
    BY <2>1 DEF DueInv, HeldIsDue, OnlyDueUsage, Idle
<1>2. ScheduleSpec => []TypeOK
  BY ScheduleImplementsUpload, TypeCorrect, PTL
<1>3. TypeOK /\ TypeOK' /\ DueInv /\ [ScheduleNext]_allVars => DueInv'
  BY Zenon, ScheduleNextDue
<1> QED
  BY <1>1, <1>2, <1>3, PTL DEF ScheduleSpec

\* The scheduled job never uploads usage of the trial or of an hour that is not
\* over: From and ThroughTime bound the window whatever the hour it runs in.
THEOREM UploadedIsDue == ScheduleSpec => []OnlyDueUsage
<1>1. DueInv => OnlyDueUsage
  BY Zenon DEF DueInv
<1> QED
  BY <1>1, DueInvariance, PTL

-----------------------------------------------------------------------------
(* The hours a cron entry fires in.                                        *)

\* A remainder is determined by the multiple it is left over from.
LEMMA ModUnique ==
  ASSUME NEW P \in Nat \ {0}, NEW a \in Int, NEW q \in Int, NEW s \in 0 .. P - 1,
         a = P * q + s
  PROVE  a % P = s
<1> DEFINE p == a \div P
           m == a % P
<1>1. p \in Int /\ m \in 0 .. P - 1 /\ a = P * p + m
  OBVIOUS
<1> HIDE DEF p, m
<1>2. P * (p - q) = s - m
  BY <1>1
<1>3. ASSUME p - q >= 1 PROVE FALSE
  <2>1. P * (p - q) >= P
    BY <1>1, <1>3
  <2> QED
    BY <1>1, <1>2, <2>1
<1>4. ASSUME q - p >= 1 PROVE FALSE
  <2>1. P * (q - p) >= P
    BY <1>1, <1>4
  <2>2. P * (q - p) = m - s
    BY <1>1
  <2> QED
    BY <1>1, <2>1, <2>2
<1>5. p = q
  BY <1>1, <1>3, <1>4
<1> QED
  BY <1>1, <1>5 DEF m

\* An entry that fires in hour t fired a period earlier.
LEMMA PeriodEarlier ==
  ASSUME NEW P \in Nat \ {0}, NEW t \in Nat
  PROVE  (t - P) % P = t % P
<1> DEFINE q == t \div P
           s == t % P
<1>1. q \in Int /\ s \in 0 .. P - 1 /\ t = P * q + s
  OBVIOUS
<1> HIDE DEF q, s
<1>2. t - P = P * (q - 1) + s
  BY <1>1
<1>3. (t - P) % P = s
  BY <1>1, <1>2, ModUnique
<1> QED
  BY <1>3 DEF s

\* An entry fires once in every period: in one of any P hours in a row.
LEMMA FiresInPeriod ==
  ASSUME NEW P \in Nat \ {0}, NEW n \in Nat, NEW ph \in Nat
  PROVE  \E t \in (n - P) .. (n - 1) : t % P = ph % P
<1> DEFINE d == (n - 1 - ph) % P
           k == (n - 1 - ph) \div P
           q == ph \div P
           s == ph % P
           t == n - 1 - d
<1>1. d \in 0 .. P - 1 /\ k \in Int /\ n - 1 - ph = P * k + d
  OBVIOUS
<1>2. q \in Int /\ s \in 0 .. P - 1 /\ ph = P * q + s
  OBVIOUS
<1> HIDE DEF d, k, q, s
<1>3. t \in (n - P) .. (n - 1) /\ t \in Int
  BY <1>1
<1>4. t = P * (k + q) + s
  BY <1>1, <1>2
<1> HIDE DEF t
<1>5. t % P = s
  BY <1>1, <1>2, <1>3, <1>4, ModUnique
<1> QED
  BY Zenon, <1>3, <1>5 DEF s

-----------------------------------------------------------------------------
(* No usage slips out of the week.                                         *)

\* A row is read by every run that fires more than so many hours after its hour:
\* it has arrived by then, and for Zuora, whose window ends at midnight, the day
\* is over.
Settle(u) == IF u = "zuora" THEN Later(LateHours, DayLength - 1) ELSE LateHours

\* The week leaves room for one run more than may fail in a row.
LooksFarEnough ==
  \A r \in Runs :
    Settle(UploaderOf[r]) + (MaxFailed + 1) * Period[UploaderOf[r]] <= WeekLength

\* Row i is for run r to upload, and no run has finished with it.
Pending(r, i) ==
  ToBill(r, i) /\ (aggs[i].upload = 0 \/ i \in run[r].ids)

\* t is an hour run r was due in, and that run is over.
Over(r, t) ==
  /\ t % Period[UploaderOf[r]] = Phase[UploaderOf[r]] % Period[UploaderOf[r]]
  /\ t < now \/ (t = now /\ r \in fired /\ run[r].pc = "idle")

\* The runs that could read a pending row and are over all failed.
PendingOf(r) ==
  \A i \in DOMAIN aggs : Pending(r, i) =>
    \A t \in Hours : Over(r, t) =>
      t <= aggs[i].bucket + Settle(UploaderOf[r]) + failed[r] * Period[UploaderOf[r]]

\* A run in progress fired this hour, and its loop is over once it has an upload.
FiredOf(r) ==
  run[r].pc # "idle" =>
    /\ r \in fired
    /\ Due(r)
    /\ run[r].through = ThroughTime(UploaderOf[r], now)
    /\ run[r].pc \in {"link", "upload"} => run[r].todo = {}

\* Row i is in the hands of run r: it was read, or its organization is still to do.
InHand(r, i) == i \in run[r].ids \/ \E x \in run[r].todo : x.org = aggs[i].org

\* A run in progress has in hand every pending row it can read.
HandOf(r) ==
  \A i \in DOMAIN aggs :
    Working(r) /\ Pending(r, i) /\ aggs[i].bucket + Settle(UploaderOf[r]) < now =>
      InHand(r, i)

FailedOK == failed \in [Runs -> 0 .. MaxFailed]

SlipInv == FailedOK /\ \A r \in Runs : PendingOf(r) /\ FiredOf(r) /\ HandOf(r)

\* The constants of a run's cron entry are numbers.
LEMMA EntryType ==
  ASSUME NEW r \in Runs
  PROVE  /\ Period[UploaderOf[r]] \in Nat \ {0} /\ Phase[UploaderOf[r]] \in Nat
         /\ Settle(UploaderOf[r]) \in Nat
<1>1. UploaderOf[r] \in Uploaders
  BY Zenon
<1>2. Period[UploaderOf[r]] \in Nat \ {0} /\ Phase[UploaderOf[r]] \in Nat
  BY Zenon, <1>1
<1>3. Settle(UploaderOf[r]) \in Nat
  BY DEF Settle, Later
<1> QED
  BY Zenon, <1>2, <1>3

\* The hours of the rows and of the clock are numbers.
LEMMA RowHours ==
  ASSUME TypeOK, NEW i \in DOMAIN aggs
  PROVE  now \in Nat /\ now <= MaxHour /\ aggs[i].bucket \in Nat
<1>1. aggs[i] \in Aggregate
  BY Zenon, RowType
<1>2. aggs[i].bucket \in Hours
  BY Zenon, <1>1 DEF Aggregate
<1>3. now \in Hours
  BY Zenon DEF TypeOK, DBTypeOK
<1> QED
  BY <1>2, <1>3 DEF Hours

\* No pending row is older than the week: the entry fires every period, so more
\* runs than may fail in a row would have read it.
LEMMA PendingIsRecent ==
  ASSUME TypeOK, FailedOK, LooksFarEnough, NEW r \in Runs, PendingOf(r),
         NEW i \in DOMAIN aggs, Pending(r, i)
  PROVE  now <= aggs[i].bucket + WeekLength
<1> DEFINE P == Period[UploaderOf[r]]
           S == Settle(UploaderOf[r])
           b == aggs[i].bucket
           f == failed[r]
<1> SUFFICES ASSUME now > b + WeekLength PROVE FALSE
  <2>1. now \in Int /\ b \in Int
    BY RowHours
  <2> QED
    BY <2>1
<1>1. P \in Nat \ {0} /\ Phase[UploaderOf[r]] \in Nat /\ S \in Nat
  BY Zenon, EntryType
<1>2. now \in 0 .. MaxHour /\ b \in Nat
  BY RowHours
<1>3. f \in 0 .. MaxFailed
  BY Zenon DEF FailedOK
<1>4. S + (MaxFailed + 1) * P <= WeekLength
  BY Zenon DEF LooksFarEnough
<1>5. PICK t \in (now - P) .. (now - 1) : t % P = Phase[UploaderOf[r]] % P
  <2>1. now \in Nat
    BY <1>2
  <2> HIDE DEF P
  <2> QED
    BY Zenon, <1>1, <2>1, FiresInPeriod
<1>6. /\ f * P <= MaxFailed * P /\ f * P \in Nat /\ MaxFailed * P \in Nat
      /\ (MaxFailed + 1) * P = MaxFailed * P + P
  <2> HIDE DEF P, f
  <2> QED
    BY <1>1, <1>3
<1>7. t \in Hours /\ t < now
  <2> HIDE DEF P, S, b, f
  <2> QED
    BY <1>1, <1>2, <1>4, <1>5, <1>6 DEF Hours
<1>8. t <= b + S + f * P
  <2>1. Over(r, t)
    BY Zenon, <1>5, <1>7 DEF Over
  <2> QED
    BY Zenon, <1>7, <2>1 DEF PendingOf
<1> HIDE DEF P, S, b, f
<1> QED
  BY <1>1, <1>2, <1>3, <1>4, <1>5, <1>6, <1>8

\* The table has the same rows, whatever they are linked to.
RowsKept ==
  /\ UNCHANGED <<now, org>>
  /\ DOMAIN aggs' = DOMAIN aggs
  /\ \A i \in DOMAIN aggs : aggs'[i].org = aggs[i].org /\ aggs'[i].bucket = aggs[i].bucket

\* What a run has to bill does not depend on uploads.
LEMMA ToBillKept ==
  ASSUME TypeOK, RowsKept, NEW r \in Runs, NEW i \in DOMAIN aggs
  PROVE  ToBill(r, i)' <=> ToBill(r, i)
BY Zenon DEF RowsKept, ToBill, IsSupported, GCPSubscription

\* A step that ends no run of the entry's: what is pending stays so.
LEMMA PendingQuiet ==
  ASSUME TypeOK, RowsKept, NEW r \in Runs, PendingOf(r), failed'[r] = failed[r],
         r \in fired' /\ run'[r].pc = "idle" => r \in fired /\ run[r].pc = "idle",
         \A i \in DOMAIN aggs : Pending(r, i)' => Pending(r, i)
  PROVE  PendingOf(r)'
BY Zenon DEF RowsKept, PendingOf, Over, Hours

\* A run that succeeds leaves no row behind that it could read.
LEMMA PendingSuccess ==
  ASSUME TypeOK, RowsKept, NEW r \in Runs, failed'[r] = 0,
         \A i \in DOMAIN aggs : Pending(r, i)' =>
           now <= aggs[i].bucket + Settle(UploaderOf[r])
  PROVE  PendingOf(r)'
<1> SUFFICES ASSUME NEW i \in DOMAIN aggs, Pending(r, i)', NEW t \in Hours, Over(r, t)'
             PROVE  t <= aggs[i].bucket + Settle(UploaderOf[r])
                           + failed'[r] * Period[UploaderOf[r]]
  BY Zenon DEF PendingOf, RowsKept, Hours
<1>1. t <= now /\ now \in Nat /\ t \in Nat
  BY DEF Over, RowsKept, TypeOK, DBTypeOK, Hours
<1>2. now <= aggs[i].bucket + Settle(UploaderOf[r])
  BY Zenon
<1>3. aggs[i].bucket \in Nat
  BY Zenon, RowHours
<1>4. Settle(UploaderOf[r]) \in Nat /\ Period[UploaderOf[r]] \in Nat
  BY EntryType
<1>5. failed'[r] * Period[UploaderOf[r]] = 0
  BY <1>4
<1> QED
  BY <1>1, <1>2, <1>3, <1>4, <1>5

\* A run that fails is one failure more, a period after the last.
LEMMA PendingFailure ==
  ASSUME TypeOK, FailedOK, RowsKept, NEW r \in Runs, PendingOf(r), Due(r),
         failed'[r] = failed[r] + 1,
         \A i \in DOMAIN aggs : Pending(r, i)' => Pending(r, i)
  PROVE  PendingOf(r)'
<1> SUFFICES ASSUME NEW i \in DOMAIN aggs, Pending(r, i), NEW t \in Hours, Over(r, t)'
             PROVE  t <= aggs[i].bucket + Settle(UploaderOf[r])
                           + (failed[r] + 1) * Period[UploaderOf[r]]
  BY Zenon DEF PendingOf, RowsKept, Hours
<1> DEFINE P == Period[UploaderOf[r]]
           S == Settle(UploaderOf[r])
           b == aggs[i].bucket
           f == failed[r]
<1>1. P \in Nat \ {0} /\ S \in Nat
  BY Zenon, EntryType
<1>2. f \in Nat
  BY DEF FailedOK
<1>3. b \in Nat
  BY Zenon, RowHours
<1>4. f * P \in Nat /\ (f + 1) * P = f * P + P
  <2> HIDE DEF f, P
  <2> QED
    BY <1>1, <1>2
<1>5. t \in Nat /\ t <= MaxHour /\ now \in Nat /\ t <= now
  BY DEF Over, RowsKept, TypeOK, DBTypeOK, Hours
<1>6. \A h \in Hours : h % P = Phase[UploaderOf[r]] % P /\ h < now => h <= b + S + f * P
  BY Zenon DEF PendingOf, Over
<1>7. t % P = Phase[UploaderOf[r]] % P
  BY Zenon DEF Over
<1>8. (t - P) % P = t % P
  <2> HIDE DEF P
  <2> QED
    BY Zenon, <1>1, <1>5, PeriodEarlier
<1> HIDE DEF P, S, b, f
<1>9. CASE t - P >= 0
  <2>1. t - P \in Hours /\ t - P < now
    BY <1>1, <1>5, <1>9 DEF Hours
  <2>2. t - P <= b + S + f * P
    BY Zenon, <1>6, <1>7, <1>8, <2>1
  <2> QED
    BY <1>1, <1>2, <1>3, <1>4, <1>5, <2>2 DEF P, S, b, f
<1>10. CASE t - P < 0
  BY <1>1, <1>2, <1>3, <1>4, <1>5, <1>10 DEF P, S, b, f
<1> QED
  BY <1>1, <1>5, <1>9, <1>10

\* A run at work keeps what it can read in hand.
LEMMA HandKept ==
  ASSUME RowsKept, NEW r \in Runs, HandOf(r), Working(r)' => Working(r),
         \A i \in DOMAIN aggs : Pending(r, i)' => Pending(r, i),
         \A i \in DOMAIN aggs :
           Working(r)' /\ Pending(r, i) /\ InHand(r, i) => InHand(r, i)'
  PROVE  HandOf(r)'
BY Zenon DEF HandOf, RowsKept

\* The steps of the other runs leave a run's part of the invariant alone.
LEMMA OtherRun ==
  ASSUME TypeOK, RowsKept, NEW r \in Runs, PendingOf(r) /\ FiredOf(r) /\ HandOf(r),
         run'[r] = run[r], failed'[r] = failed[r], r \in fired' <=> r \in fired,
         \A i \in DOMAIN aggs : Pending(r, i)' => Pending(r, i)
  PROVE  PendingOf(r)' /\ FiredOf(r)' /\ HandOf(r)'
<1>1. PendingOf(r)'
  BY Zenon, PendingQuiet
<1>2. FiredOf(r)'
  BY Zenon DEF FiredOf, Due, RowsKept
<1>3. HandOf(r)'
  <2>1. \A i \in DOMAIN aggs : InHand(r, i) => InHand(r, i)'
    BY Zenon DEF InHand, RowsKept
  <2> QED
    BY Zenon, <2>1, HandKept DEF Working
<1> QED
  BY Zenon, <1>1, <1>2, <1>3

\* An organization pays through one provider, and a provider has one run: the rows
\* a run holds are for it alone.
LEMMA OneBiller ==
  ASSUME TypeOK, IndInv, Deployment, NEW r \in Runs, NEW q \in Runs,
         NEW i \in DOMAIN aggs, i \in run[r].ids, ToBill(q, i)
  PROVE  q = r
<1>1. i \in RowIDs /\ aggs[i].org \in Orgs
  BY Zenon, RowType
<1>2. UploaderOf[r] \in org[aggs[i].org].methods
  BY Zenon, <1>1 DEF IndInv, RowsHeld
<1>3. UploaderOf[q] \in Uploaders /\ UploaderOf[r] \in Uploaders
  BY Zenon
<1>4. UploaderOf[q] \in org[aggs[i].org].methods
  BY <1>3 DEF ToBill, IsSupported, GCPSubscription, Uploaders
<1>5. org[aggs[i].org].methods \in Methods
  BY Zenon, <1>1 DEF TypeOK, DBTypeOK, Organization
<1>6. UploaderOf[q] = UploaderOf[r]
  BY <1>2, <1>3, <1>4, <1>5 DEF Deployment, OneMethodPerOrganization, Uploaders
<1> QED
  BY Zenon, <1>6 DEF Deployment, OneRunPerUploader

\* Run r is the only one to move.
OthersKept(r) == \A q \in Runs : q # r => run'[q] = run[q]

\* A run takes up only rows that are not linked, and unlinks only its own: no row
\* becomes pending that was not.
LEMMA PendingShrinks ==
  ASSUME TypeOK, IndInv, Deployment, RowsKept, NEW r \in Runs, OthersKept(r),
         \A i \in run'[r].ids : i \in run[r].ids \/ aggs[i].upload = 0,
         \A i \in DOMAIN aggs :
           aggs'[i].upload = 0 => aggs[i].upload = 0 \/ i \in run[r].ids,
         NEW q \in Runs, NEW i \in DOMAIN aggs, Pending(q, i)'
  PROVE  Pending(q, i)
<1>1. ToBill(q, i)
  BY Zenon, ToBillKept DEF Pending
<1>2. aggs[i].upload = 0 \/ i \in run[r].ids \/ i \in run[q].ids
  BY Zenon DEF Pending, OthersKept
<1>3. i \in run[r].ids => q = r
  BY Zenon, <1>1, OneBiller
<1> QED
  BY Zenon, <1>1, <1>2, <1>3 DEF Pending

\* A step of run r keeps the invariant when it keeps r's part of it.
LEMMA OneRunMoves ==
  ASSUME TypeOK, SlipInv, RowsKept, NEW r \in Runs, OthersKept(r),
         \A q \in Runs, i \in DOMAIN aggs : Pending(q, i)' => Pending(q, i),
         FailedOK', \A q \in Runs : q # r => failed'[q] = failed[q],
         fired' = fired \/ fired' = fired \union {r},
         PendingOf(r)' /\ FiredOf(r)' /\ HandOf(r)'
  PROVE  SlipInv'
<1>1. ASSUME NEW q \in Runs, q # r
      PROVE  PendingOf(q)' /\ FiredOf(q)' /\ HandOf(q)'
  <2>1. PendingOf(q) /\ FiredOf(q) /\ HandOf(q)
    BY Zenon DEF SlipInv
  <2>2. run'[q] = run[q] /\ failed'[q] = failed[q] /\ (q \in fired' <=> q \in fired)
    BY Zenon, <1>1 DEF OthersKept
  <2> QED
    BY Zenon, <2>1, <2>2, OtherRun
<1> QED
  BY Zenon, <1>1 DEF SlipInv

\* A run that ends in failure.
LEMMA RunFails ==
  ASSUME TypeOK, SlipInv, RowsKept, NEW r \in Runs, OthersKept(r), run'[r].pc = "idle",
         \A q \in Runs, i \in DOMAIN aggs : Pending(q, i)' => Pending(q, i),
         Due(r), Failed(r), fired' = fired \/ fired' = fired \union {r}
  PROVE  SlipInv'
<1>1. failed \in [Runs -> 0 .. MaxFailed]
  BY Zenon DEF SlipInv, FailedOK
<1>2. /\ failed'[r] = failed[r] + 1 /\ failed[r] < MaxFailed
      /\ \A q \in Runs : q # r => failed'[q] = failed[q]
  BY Zenon, <1>1 DEF Failed
<1>3. FailedOK'
  <2>1. failed[r] + 1 \in 0 .. MaxFailed
    BY <1>1, <1>2
  <2> QED
    BY Zenon, <1>1, <2>1 DEF FailedOK, Failed
<1>4. PendingOf(r)'
  BY Zenon, <1>2, PendingFailure DEF SlipInv
<1>5. FiredOf(r)' /\ HandOf(r)'
  BY DEF FiredOf, HandOf, Working
<1> QED
  BY Zenon, <1>2, <1>3, <1>4, <1>5, OneRunMoves

\* A run that succeeds.
LEMMA RunSucceeds ==
  ASSUME TypeOK, SlipInv, RowsKept, NEW r \in Runs, OthersKept(r), run'[r].pc = "idle",
         \A q \in Runs, i \in DOMAIN aggs : Pending(q, i)' => Pending(q, i),
         \A i \in DOMAIN aggs : Pending(r, i)' =>
           now <= aggs[i].bucket + Settle(UploaderOf[r]),
         Succeeded(r), UNCHANGED fired
  PROVE  SlipInv'
<1>1. failed \in [Runs -> 0 .. MaxFailed]
  BY Zenon DEF SlipInv, FailedOK
<1>2. failed'[r] = 0 /\ \A q \in Runs : q # r => failed'[q] = failed[q]
  BY Zenon, <1>1 DEF Succeeded
<1>3. FailedOK'
  <2>1. 0 \in 0 .. MaxFailed
    OBVIOUS
  <2> QED
    BY Zenon, <1>1, <2>1 DEF FailedOK, Succeeded
<1>4. PendingOf(r)'
  BY Zenon, <1>2, PendingSuccess
<1>5. FiredOf(r)' /\ HandOf(r)'
  BY DEF FiredOf, HandOf, Working
<1> QED
  BY Zenon, <1>2, <1>3, <1>4, <1>5, OneRunMoves

\* A run that goes on.
LEMMA RunGoesOn ==
  ASSUME TypeOK, SlipInv, RowsKept, NEW r \in Runs, OthersKept(r), run'[r].pc # "idle",
         \A q \in Runs, i \in DOMAIN aggs : Pending(q, i)' => Pending(q, i),
         UNCHANGED failed, fired' = fired \/ fired' = fired \union {r},
         FiredOf(r)', HandOf(r)'
  PROVE  SlipInv'
<1>1. FailedOK'
  BY Zenon DEF SlipInv, FailedOK
<1>2. PendingOf(r)'
  BY Zenon, PendingQuiet DEF SlipInv
<1> QED
  BY Zenon, <1>1, <1>2, OneRunMoves

\* A row that has settled is before the end of the window.
LEMMA SettledInWindow ==
  ASSUME TypeOK, NEW r \in Runs, NEW i \in DOMAIN aggs,
         aggs[i].bucket + Settle(UploaderOf[r]) < now
  PROVE  aggs[i].bucket < ThroughTime(UploaderOf[r], now)
<1>1. now \in Nat /\ aggs[i].bucket \in Nat
  BY Zenon, RowHours
<1>2. now % DayLength \in 0 .. (DayLength - 1)
  BY <1>1
<1> QED
  BY <1>1, <1>2 DEF Settle, Later, ThroughTime

\* A run starts with every organization in hand whose rows it can read.
LEMMA FireSlip ==
  ASSUME TypeOK, IndInv, Deployment, SlipInv, NEW r \in Runs, Fire(r)
  PROVE  SlipInv'
<1> DEFINE u == UploaderOf[r]
           t == ThroughTime(u, now)
<1>1. /\ UNCHANGED <<now, org, aggs>> /\ run[r].pc = "idle"
      /\ Due(r) /\ fired' = fired \union {r}
  BY Zenon DEF Fire, Start, dbVars
<1>2. RowsKept
  BY Zenon, <1>1 DEF RowsKept
<1>3. CASE UNCHANGED run
  <2>1. OthersKept(r) /\ run'[r].pc = "idle"
    BY Zenon, <1>1, <1>3 DEF OthersKept
  <2>2. Failed(r)
    BY Zenon, <2>1 DEF Fire
  <2>3. \A q \in Runs, i \in DOMAIN aggs : Pending(q, i)' => Pending(q, i)
    BY Zenon, <1>1, <1>2, <1>3, ToBillKept DEF Pending
  <2> QED
    BY Zenon, <1>1, <1>2, <2>1, <2>2, <2>3, RunFails
<1>4. CASE run' = [run EXCEPT ![r] =
                [pc |-> "collect", through |-> t,
                 todo |-> BillableOrganizations(u, t), ids |-> {}, id |-> 0]]
  <2>1. /\ run'[r] = [pc |-> "collect", through |-> t,
                      todo |-> BillableOrganizations(u, t), ids |-> {}, id |-> 0]
        /\ OthersKept(r)
    BY Zenon, <1>4 DEF TypeOK, OthersKept
  <2>2. /\ run'[r].through = t /\ run'[r].todo = BillableOrganizations(u, t)
        /\ run'[r].ids = {} /\ run'[r].pc = "collect"
    BY <2>1
  <2>3. \A q \in Runs, i \in DOMAIN aggs : Pending(q, i)' => Pending(q, i)
    BY Zenon, <1>1, <1>2, <2>1, <2>2, PendingShrinks
  <2>4. run'[r].pc # "idle" /\ UNCHANGED failed
    <3>1. run'[r].pc # "idle"
      BY <2>2
    <3> QED
      BY Zenon, <3>1 DEF Fire
  <2>5. FiredOf(r)'
    BY <1>1, <2>2 DEF FiredOf, Due
  <2>6. HandOf(r)'
    <3> SUFFICES ASSUME NEW i \in DOMAIN aggs, Pending(r, i), aggs[i].bucket + Settle(u) < now
                 PROVE  \E x \in BillableOrganizations(u, t) : x.org = aggs[i].org
      BY ZenonT(60), <1>1, <2>2, <2>3 DEF HandOf, InHand
    <3>1. aggs[i].bucket < t
      BY Zenon, SettledInWindow
    <3>2. /\ aggs[i].org \in Orgs /\ org[aggs[i].org].trial \in Nat /\ aggs[i].bucket \in Nat
          /\ t \in Nat
      <4>1. aggs[i].org \in Orgs /\ aggs[i] \in Aggregate
        BY Zenon, RowType
      <4>2. org[aggs[i].org] \in Organization
        BY Zenon, <4>1 DEF TypeOK, DBTypeOK
      <4>3. t \in Hours
        BY Zenon, ThroughTimeType DEF TypeOK, DBTypeOK
      <4> HIDE DEF t
      <4> QED
        BY <4>1, <4>2, <4>3 DEF Organization, Aggregate, Hours
    <3>3. IsSupported(u, aggs[i].org) /\ aggs[i].bucket >= org[aggs[i].org].trial
      BY Zenon DEF Pending, ToBill
    <3> HIDE DEF t
    <3>4. org[aggs[i].org].trial < t
      BY <3>1, <3>2, <3>3
    <3>5. aggs[i].org \in Billable(t)
      BY Zenon, <3>2, <3>3, <3>4 DEF Billable, IsSupported
    <3>6. [org |-> aggs[i].org, trial |-> org[aggs[i].org].trial] \in BillableOrganizations(u, t)
      BY Zenon, <3>3, <3>5 DEF BillableOrganizations
    <3> QED
      BY <3>6
  <2> QED
    BY Zenon, <1>1, <1>2, <2>1, <2>3, <2>4, <2>5, <2>6, RunGoesOn
<1> QED
  BY Zenon, <1>3, <1>4 DEF Fire, Start

\* How a step of a run is counted.
LEMMA StepOutcome ==
  ASSUME NEW r \in Runs, Step(r)
  PROVE  /\ UNCHANGED fired
         /\ run'[r].pc # "idle" => UNCHANGED failed
         /\ run'[r].pc = "idle" /\ (NothingToUpload(r) \/ Upload(r)) => Succeeded(r)
         /\ run'[r].pc = "idle" /\ ~NothingToUpload(r) /\ ~Upload(r) => Failed(r)
BY Zenon DEF Step

\* A turn of the loop takes up the rows of one organization that are in the week
\* and not linked, and so every pending row of it that has settled.
LEMMA CollectSlip ==
  ASSUME TypeOK, IndInv, Deployment, DueInv, SlipInv, LooksFarEnough,
         NEW r \in Runs, Collect(r), Step(r)
  PROVE  SlipInv'
<1>1. UNCHANGED <<now, org, aggs>> /\ run[r].pc = "collect"
  BY Zenon DEF Collect, dbVars
<1>2. PICK x \in run[r].todo :
        run' = [run EXCEPT ![r] = Recorded(run[r], x,
          GetAggregatesToUpload(x.org, From(run[r].through, x.trial), run[r].through))]
  BY Zenon DEF Collect
<1> DEFINE from == From(run[r].through, x.trial)
           rows == GetAggregatesToUpload(x.org, from, run[r].through)
<1>3. run \in [Runs -> RunState] /\ run[r] \in RunState
  BY Zenon DEF TypeOK
<1>4. run'[r] = Recorded(run[r], x, rows) /\ OthersKept(r)
  BY Zenon, <1>2, <1>3 DEF OthersKept
<1>5. /\ run'[r].through = run[r].through /\ run'[r].pc = "collect"
      /\ run'[r].todo = run[r].todo \ {x}
      /\ run'[r].ids = run[r].ids \union rows
  <2> HIDE DEF rows
  <2> QED
    BY <1>1, <1>3, <1>4 DEF Recorded, RunState
<1>6. RowsKept
  BY Zenon, <1>1 DEF RowsKept
<1>7. \A q \in Runs, i \in DOMAIN aggs : Pending(q, i)' => Pending(q, i)
  <2>1. \A i \in rows : aggs[i].upload = 0
    BY Zenon DEF GetAggregatesToUpload
  <2> HIDE DEF rows
  <2> QED
    BY Zenon, <1>1, <1>4, <1>5, <1>6, <2>1, PendingShrinks
<1>8. run'[r].pc # "idle" /\ UNCHANGED <<failed, fired>>
  <2>1. run'[r].pc # "idle"
    BY <1>5
  <2> QED
    BY Zenon, <2>1, StepOutcome
<1>9. FiredOf(r)'
  BY <1>1, <1>5, <1>8 DEF SlipInv, FiredOf, Due
<1>10. ASSUME NEW i \in DOMAIN aggs, Pending(r, i), x.org = aggs[i].org,
              aggs[i].bucket + Settle(UploaderOf[r]) < now
       PROVE  i \in run[r].ids \union rows
  <2>1. CASE i \in run[r].ids
    BY Zenon, <2>1
  <2>2. CASE aggs[i].upload = 0
    <3>1. /\ run[r].through = ThroughTime(UploaderOf[r], now)
          /\ PendingOf(r) /\ FailedOK
      BY <1>1 DEF SlipInv, FiredOf
    <3>2. aggs[i].bucket < run[r].through
      <4>1. aggs[i].bucket < ThroughTime(UploaderOf[r], now)
        BY Zenon, <1>10, SettledInWindow
      <4> QED
        BY <3>1, <4>1
    <3>3. now <= aggs[i].bucket + WeekLength
      BY Zenon, <1>10, <3>1, PendingIsRecent
    <3>4. x.trial = org[aggs[i].org].trial /\ run[r].through <= now
      BY Zenon, <1>10 DEF DueInv, HeldIsDue
    <3>5. aggs[i].bucket >= x.trial
      BY Zenon, <1>10, <3>4 DEF Pending, ToBill
    <3>6. /\ now \in Nat /\ aggs[i].bucket \in Nat /\ run[r].through \in Nat
          /\ x.trial \in Nat
      <4>1. now \in Nat
        BY DEF TypeOK, DBTypeOK, Hours
      <4>2. aggs[i].bucket \in Nat
        BY Zenon, RowHours
      <4>3. run[r].through \in Nat /\ x.trial \in Nat
        BY <1>3 DEF RunState, Hours
      <4> QED
        BY Zenon, <4>1, <4>2, <4>3
    <3>7. aggs[i].bucket >= from
      BY <3>3, <3>4, <3>5, <3>6 DEF From, Later
    <3> QED
      BY Zenon, <1>10, <2>2, <3>2, <3>7 DEF GetAggregatesToUpload, GetAggregates
  <2> QED
    BY Zenon, <1>10, <2>1, <2>2 DEF Pending
<1>11. HandOf(r)'
  <2> HIDE DEF rows
  <2> SUFFICES ASSUME NEW i \in DOMAIN aggs, Pending(r, i),
                      aggs[i].bucket + Settle(UploaderOf[r]) < now
               PROVE  InHand(r, i)'
    BY Zenon, <1>1, <1>7 DEF HandOf
  <2>1. InHand(r, i)
    BY Zenon, <1>1 DEF SlipInv, HandOf, Working
  <2>2. i \in run[r].ids \union rows \/ \E y \in run[r].todo \ {x} : y.org = aggs[i].org
    BY Zenon, <1>10, <2>1 DEF InHand
  <2> QED
    BY Zenon, <1>1, <1>5, <2>2 DEF InHand
<1> QED
  BY Zenon, <1>4, <1>6, <1>7, <1>8, <1>9, <1>11, RunGoesOn

\* A run that returns before its report was sent is counted as failed.
LEMMA ReturnFails ==
  ASSUME TypeOK, IndInv, Deployment, SlipInv, NEW r \in Runs, Step(r), Return(r),
         run[r].pc # "idle", ~NothingToUpload(r), ~Upload(r), RowsKept,
         \A i \in DOMAIN aggs :
           aggs'[i].upload = 0 => aggs[i].upload = 0 \/ i \in run[r].ids
  PROVE  SlipInv'
<1>1. run'[r] = Idle /\ OthersKept(r)
  BY Zenon, MoveFacts DEF TypeOK, OthersKept
<1>2. run'[r].pc = "idle" /\ run'[r].ids = {}
  BY <1>1 DEF Idle
<1>3. \A q \in Runs, i \in DOMAIN aggs : Pending(q, i)' => Pending(q, i)
  BY Zenon, <1>1, <1>2, PendingShrinks
<1>4. Due(r)
  BY Zenon DEF SlipInv, FiredOf
<1>5. Failed(r) /\ UNCHANGED fired
  BY Zenon, <1>2, StepOutcome
<1> QED
  BY Zenon, <1>1, <1>2, <1>3, <1>4, <1>5, RunFails

\* A run that goes on to undo its upload has still to return.
LEMMA GotoUndo ==
  ASSUME TypeOK, IndInv, Deployment, SlipInv, NEW r \in Runs, Step(r),
         NEW pc \in {"delete", "unlink"}, Goto(r, pc),
         run[r].pc # "idle", UNCHANGED <<now, org, aggs>>
  PROVE  SlipInv'
<1>1. /\ run'[r].pc = pc /\ run'[r].ids = run[r].ids /\ OthersKept(r)
  BY MoveFacts DEF TypeOK, OthersKept, PCs
<1>2. run'[r].through = run[r].through
  <2>1. run \in [Runs -> RunState] /\ run[r] \in RunState
    BY Zenon DEF TypeOK
  <2>2. run'[r] = [run[r] EXCEPT !.pc = pc]
    BY Zenon, <2>1 DEF Goto
  <2> QED
    BY <2>1, <2>2 DEF RunState
<1>3. RowsKept
  BY Zenon DEF RowsKept
<1>4. \A q \in Runs, i \in DOMAIN aggs : Pending(q, i)' => Pending(q, i)
  BY Zenon, <1>1, <1>3, PendingShrinks
<1>5. run'[r].pc # "idle" /\ UNCHANGED <<failed, fired>>
  <2>1. run'[r].pc # "idle"
    BY <1>1
  <2> QED
    BY Zenon, <2>1, StepOutcome
<1>6. FiredOf(r)'
  BY <1>1, <1>2, <1>5 DEF SlipInv, FiredOf, Due
<1>7. HandOf(r)'
  BY <1>1 DEF HandOf, Working
<1> QED
  BY Zenon, <1>1, <1>3, <1>4, <1>5, <1>6, <1>7, RunGoesOn

\* A run that ends well: what it did not have in hand has not settled.
LEMMA ReturnSucceeds ==
  ASSUME TypeOK, IndInv, Deployment, SlipInv, NEW r \in Runs, Step(r),
         NothingToUpload(r) \/ Upload(r)
  PROVE  SlipInv'
<1>1. Return(r) /\ UNCHANGED <<now, org, aggs>>
  BY Zenon DEF NothingToUpload, Upload, dbVars
<1>2. run'[r] = Idle /\ OthersKept(r)
  BY Zenon, <1>1, MoveFacts DEF TypeOK, OthersKept
<1>3. run'[r].pc = "idle" /\ run'[r].ids = {}
  BY <1>2 DEF Idle
<1>4. RowsKept
  BY Zenon, <1>1 DEF RowsKept
<1>5. \A q \in Runs, i \in DOMAIN aggs : Pending(q, i)' => Pending(q, i)
  BY Zenon, <1>1, <1>2, <1>3, <1>4, PendingShrinks
<1>6. Succeeded(r) /\ UNCHANGED fired
  BY Zenon, <1>3, StepOutcome
<1>7. Working(r) /\ run[r].todo = {} /\ (run[r].ids = {} \/ run[r].pc = "upload")
  <2>1. CASE NothingToUpload(r)
    BY <2>1 DEF NothingToUpload, Working
  <2>2. CASE Upload(r)
    BY <2>2 DEF Upload, Working, SlipInv, FiredOf
  <2> QED
    BY Zenon, <2>1, <2>2
<1>8. ASSUME NEW i \in DOMAIN aggs, Pending(r, i)'
      PROVE  now <= aggs[i].bucket + Settle(UploaderOf[r])
  <2>1. Pending(r, i) /\ aggs[i].upload = 0 /\ i \in RowIDs
    BY Zenon, <1>1, <1>3, <1>5, <1>8, RowType DEF Pending
  <2>2. ~InHand(r, i)
    <3>1. ASSUME i \in run[r].ids, run[r].pc = "upload" PROVE FALSE
      <4>1. aggs[i].upload = run[r].id
        BY Zenon, <2>1, <3>1 DEF IndInv, RowsHeld
      <4>2. run[r].id # 0
        BY <3>1 DEF IndInv, IDsKnown
      <4> QED
        BY Zenon, <2>1, <4>1, <4>2
    <3> QED
      BY Zenon, <1>7, <3>1 DEF InHand
  <2>3. ~(aggs[i].bucket + Settle(UploaderOf[r]) < now)
    BY Zenon, <1>7, <2>1, <2>2 DEF SlipInv, HandOf
  <2>4. now \in Nat /\ aggs[i].bucket \in Nat /\ Settle(UploaderOf[r]) \in Nat
    BY Zenon, RowHours, EntryType
  <2> QED
    BY <2>3, <2>4
<1> QED
  BY Zenon, <1>2, <1>3, <1>4, <1>5, <1>6, <1>8, RunSucceeds

\* Recording the upload keeps the rows in hand.
LEMMA InsertSlip ==
  ASSUME TypeOK, IndInv, Deployment, SlipInv, NEW r \in Runs, Step(r), InsertUpload(r)
  PROVE  SlipInv'
<1>1. /\ run[r].pc = "collect" /\ run[r].todo = {} /\ run[r].ids # {}
      /\ UNCHANGED <<now, org, aggs>>
  BY Zenon DEF InsertUpload
<1>2. RowsKept
  BY Zenon, <1>1 DEF RowsKept
<1>3. CASE Return(r)
  <2>1. run[r].pc # "idle" /\ ~NothingToUpload(r) /\ ~Upload(r)
    BY <1>1 DEF NothingToUpload, Upload
  <2> QED
    BY Zenon, <1>1, <1>2, <1>3, <2>1, ReturnFails
<1>4. CASE run' = [run EXCEPT ![r] =
                     [run[r] EXCEPT !.pc = "link", !.id = lastUpload + 1]]
  <2>1. run \in [Runs -> RunState] /\ run[r] \in RunState
    BY Zenon DEF TypeOK
  <2>2. /\ run'[r] = [run[r] EXCEPT !.pc = "link", !.id = lastUpload + 1]
        /\ OthersKept(r)
    BY Zenon, <1>4, <2>1 DEF OthersKept
  <2>3. /\ run'[r].through = run[r].through /\ run'[r].pc = "link"
        /\ run'[r].todo = run[r].todo /\ run'[r].ids = run[r].ids
    BY <2>1, <2>2 DEF RunState
  <2>4. \A q \in Runs, i \in DOMAIN aggs : Pending(q, i)' => Pending(q, i)
    BY Zenon, <1>1, <1>2, <2>2, <2>3, PendingShrinks
  <2>5. run'[r].pc # "idle" /\ UNCHANGED <<failed, fired>>
    <3>1. run'[r].pc # "idle"
      BY <2>3
    <3> QED
      BY Zenon, <3>1, StepOutcome
  <2>6. FiredOf(r)'
    BY <1>1, <2>3, <2>5 DEF SlipInv, FiredOf, Due
  <2>7. HandOf(r)'
    <3>1. Working(r) /\ HandOf(r)
      BY <1>1 DEF Working, SlipInv
    <3>2. \A i \in DOMAIN aggs : InHand(r, i) => InHand(r, i)'
      BY Zenon, <1>1, <2>3 DEF InHand
    <3> QED
      BY Zenon, <1>2, <2>4, <3>1, <3>2, HandKept
  <2> QED
    BY Zenon, <1>2, <2>2, <2>4, <2>5, <2>6, <2>7, RunGoesOn
<1> QED
  BY Zenon, <1>3, <1>4 DEF InsertUpload

\* Linking the rows to the upload keeps them in hand.
LEMMA LinkSlip ==
  ASSUME TypeOK, IndInv, Deployment, SlipInv, NEW r \in Runs, Step(r), LinkAggregates(r)
  PROVE  SlipInv'
<1>1. run[r].pc = "link" /\ UNCHANGED <<now, org>>
  BY Zenon DEF LinkAggregates
<1>2. run[r].pc # "idle" /\ Working(r) /\ run[r].id # 0
  BY <1>1 DEF Working, IndInv, IDsKnown
<1>3. CASE Goto(r, "delete") /\ UNCHANGED aggs
  BY Zenon, <1>1, <1>2, <1>3, GotoUndo
<1>4. CASE Goto(r, "upload") /\ SetUpload(run[r].ids, run[r].id)
  <2>1. /\ DOMAIN aggs' = DOMAIN aggs
        /\ \A i \in DOMAIN aggs :
             /\ aggs'[i].org = aggs[i].org /\ aggs'[i].bucket = aggs[i].bucket
             /\ aggs'[i].upload = IF i \in run[r].ids THEN run[r].id ELSE aggs[i].upload
    BY ZenonT(60), <1>4, SetUploadBucket
  <2>2. RowsKept
    BY Zenon, <1>1, <2>1 DEF RowsKept
  <2>3. /\ run'[r].pc = "upload" /\ OthersKept(r)
        /\ run'[r].ids = run[r].ids /\ run'[r].todo = run[r].todo
    BY <1>4, MoveFacts DEF TypeOK, OthersKept, PCs
  <2>4. run'[r].through = run[r].through
    <3>1. run \in [Runs -> RunState] /\ run[r] \in RunState
      BY Zenon DEF TypeOK
    <3>2. run'[r] = [run[r] EXCEPT !.pc = "upload"]
      BY Zenon, <1>4, <3>1 DEF Goto
    <3> QED
      BY <3>1, <3>2 DEF RunState
  <2>5. \A q \in Runs, i \in DOMAIN aggs : Pending(q, i)' => Pending(q, i)
    BY Zenon, <1>2, <2>1, <2>2, <2>3, PendingShrinks
  <2>6. run'[r].pc # "idle" /\ UNCHANGED <<failed, fired>>
    <3>1. run'[r].pc # "idle"
      BY <2>3
    <3> QED
      BY Zenon, <3>1, StepOutcome
  <2>7. FiredOf(r)'
    BY <1>1, <2>3, <2>4, <2>6 DEF SlipInv, FiredOf, Due
  <2>8. HandOf(r)'
    <3>1. \A i \in DOMAIN aggs : InHand(r, i) => InHand(r, i)'
      BY Zenon, <2>1, <2>3 DEF InHand
    <3> QED
      BY Zenon, <1>2, <2>2, <2>5, <3>1, HandKept DEF SlipInv
  <2> QED
    BY Zenon, <2>2, <2>3, <2>5, <2>6, <2>7, <2>8, RunGoesOn
<1> QED
  BY Zenon, <1>3, <1>4 DEF LinkAggregates

\* A run unlinks only rows it holds, and is counted as failed.
LEMMA UnlinkSlip ==
  ASSUME TypeOK, IndInv, Deployment, SlipInv, NEW r \in Runs, Step(r), UnlinkAggregates(r)
  PROVE  SlipInv'
<1>1. run[r].pc = "unlink" /\ UNCHANGED <<now, org>> /\ Return(r)
  BY Zenon DEF UnlinkAggregates
<1>2. run[r].pc # "idle" /\ ~NothingToUpload(r) /\ ~Upload(r) /\ run[r].id # 0
  BY <1>1 DEF NothingToUpload, Upload, IndInv, IDsKnown
<1>3. CASE UNCHANGED aggs
  <2>1. RowsKept
    BY Zenon, <1>1, <1>3 DEF RowsKept
  <2> QED
    BY Zenon, <1>1, <1>2, <1>3, <2>1, ReturnFails
<1>4. CASE SetUpload(Linked(run[r].id), 0)
  <2>1. /\ DOMAIN aggs' = DOMAIN aggs
        /\ \A i \in DOMAIN aggs :
             /\ aggs'[i].org = aggs[i].org /\ aggs'[i].bucket = aggs[i].bucket
             /\ aggs'[i].upload = IF i \in Linked(run[r].id) THEN 0 ELSE aggs[i].upload
    BY ZenonT(60), <1>4, SetUploadBucket
  <2>2. RowsKept
    BY Zenon, <1>1, <2>1 DEF RowsKept
  <2>3. \A i \in DOMAIN aggs : i \in Linked(run[r].id) => i \in run[r].ids
    BY Zenon, <1>2 DEF Linked, IndInv, LinkedHeld
  <2> QED
    BY Zenon, <1>1, <1>2, <2>1, <2>2, <2>3, ReturnFails
<1> QED
  BY Zenon, <1>3, <1>4 DEF UnlinkAggregates

\* Every step of a run keeps the invariant.
LEMMA StepSlip ==
  ASSUME TypeOK, IndInv, Deployment, DueInv, SlipInv, LooksFarEnough, NEW r \in Runs, Step(r)
  PROVE  SlipInv'
<1>1. CASE Collect(r)
  BY Zenon, <1>1, CollectSlip
<1>2. CASE CollectFails(r)
  <2>1. /\ run[r].pc = "collect" /\ run[r].todo # {} /\ Return(r)
        /\ UNCHANGED <<now, org, aggs>>
    BY Zenon, <1>2 DEF CollectFails, dbVars
  <2>2. run[r].pc # "idle" /\ ~NothingToUpload(r) /\ ~Upload(r) /\ RowsKept
    BY <2>1 DEF NothingToUpload, Upload, RowsKept
  <2> QED
    BY Zenon, <2>1, <2>2, ReturnFails
<1>3. CASE NothingToUpload(r) \/ Upload(r)
  BY Zenon, <1>3, ReturnSucceeds
<1>4. CASE InsertUpload(r)
  BY Zenon, <1>4, InsertSlip
<1>5. CASE LinkAggregates(r)
  BY Zenon, <1>5, LinkSlip
<1>6. CASE UploadFails(r)
  <2>1. run[r].pc # "idle" /\ Goto(r, "delete") /\ UNCHANGED <<now, org, aggs>>
    BY <1>6 DEF UploadFails
  <2> QED
    BY Zenon, <2>1, GotoUndo
<1>7. CASE DeleteUpload(r)
  <2>1. run[r].pc = "delete" /\ UNCHANGED <<now, org, aggs>>
    BY Zenon, <1>7 DEF DeleteUpload
  <2>2. run[r].pc # "idle" /\ ~NothingToUpload(r) /\ ~Upload(r) /\ RowsKept
    BY <2>1 DEF NothingToUpload, Upload, RowsKept
  <2>3. CASE Goto(r, "unlink")
    BY Zenon, <2>1, <2>2, <2>3, GotoUndo
  <2>4. CASE Return(r)
    BY Zenon, <2>1, <2>2, <2>4, ReturnFails
  <2> QED
    BY Zenon, <1>7, <2>3, <2>4 DEF DeleteUpload
<1>8. CASE UnlinkAggregates(r)
  BY Zenon, <1>8, UnlinkSlip
<1> QED
  BY Zenon, <1>1, <1>2, <1>3, <1>4, <1>5, <1>6, <1>7, <1>8 DEF Step

\* The process dies: the runs in progress fail, with what they held.
LEMMA CrashSlip ==
  ASSUME TypeOK, SlipInv, ScheduleCrash
  PROVE  SlipInv'
<1>1. /\ UNCHANGED <<now, org, aggs, fired>> /\ run' = [r \in Runs |-> Idle]
      /\ \A r \in Runs : run[r].pc # "idle" => failed[r] < MaxFailed
      /\ failed' = [r \in Runs |-> IF r \in {q \in Runs : run[q].pc # "idle"}
                                   THEN failed[r] + 1 ELSE failed[r]]
  BY Zenon DEF ScheduleCrash, Crash, dbVars
<1>2. \A r \in Runs : run'[r].pc = "idle" /\ run'[r].ids = {}
  BY <1>1 DEF Idle
<1>3. RowsKept
  BY Zenon, <1>1 DEF RowsKept
<1>4. \A r \in Runs, i \in DOMAIN aggs : Pending(r, i)' => Pending(r, i)
  BY Zenon, <1>1, <1>2, <1>3, ToBillKept DEF Pending
<1>5. FailedOK
  BY Zenon DEF SlipInv
<1>6. FailedOK'
  BY <1>1, <1>5 DEF FailedOK
<1>7. ASSUME NEW r \in Runs PROVE PendingOf(r)' /\ FiredOf(r)' /\ HandOf(r)'
  <2>1. FiredOf(r)' /\ HandOf(r)'
    BY <1>2 DEF FiredOf, HandOf, Working
  <2>2. PendingOf(r) /\ FiredOf(r)
    BY Zenon DEF SlipInv
  <2>3. CASE run[r].pc # "idle"
    <3>1. failed'[r] = failed[r] + 1
      BY Zenon, <1>1, <2>3
    <3>2. Due(r)
      BY Zenon, <2>2, <2>3 DEF FiredOf
    <3> QED
      BY Zenon, <1>3, <1>4, <1>5, <2>1, <2>2, <3>1, <3>2, PendingFailure
  <2>4. CASE run[r].pc = "idle"
    <3>1. failed'[r] = failed[r]
      BY Zenon, <1>1, <2>4
    <3> QED
      BY Zenon, <1>1, <1>3, <1>4, <2>1, <2>2, <2>4, <3>1, PendingQuiet
  <2> QED
    BY Zenon, <2>3, <2>4
<1> QED
  BY Zenon, <1>6, <1>7 DEF SlipInv

\* A row inserted by the aggregator has not settled.
LEMMA AggregatedSlip ==
  ASSUME TypeOK, SlipInv, Aggregated, UNCHANGED <<runVars, scheduleVars>>
  PROVE  SlipInv'
<1>1. UNCHANGED <<now, org, run, fired, failed>>
  BY Zenon DEF Aggregated, runVars, scheduleVars
<1>2. PICK o \in Orgs, b \in Hours, a \in Types :
        /\ now - b <= LateHours
        /\ aggs' = Append(aggs, [org |-> o, bucket |-> b, type |-> a, upload |-> 0])
  BY Zenon DEF Aggregated, InsertAggregate
<1> DEFINE n == Len(aggs) + 1
<1>3. /\ DOMAIN aggs' = DOMAIN aggs \union {n}
      /\ \A i \in DOMAIN aggs : aggs'[i] = aggs[i]
      /\ aggs'[n] = [org |-> o, bucket |-> b, type |-> a, upload |-> 0]
  <2>1. aggs \in Seq(Aggregate)
    BY Zenon DEF TypeOK, DBTypeOK
  <2>2. [org |-> o, bucket |-> b, type |-> a, upload |-> 0] \in Aggregate
    BY DEF Aggregate
  <2> QED
    BY <1>2, <2>1, <2>2
<1>4. aggs'[n].bucket = b
  BY <1>3
<1> HIDE DEF n
<1>5. \A r \in Runs, i \in DOMAIN aggs : Pending(r, i)' <=> Pending(r, i)
  BY Zenon, <1>1, <1>3 DEF Pending, ToBill, IsSupported, GCPSubscription
<1>6. now \in Nat /\ b \in Nat
  BY DEF TypeOK, DBTypeOK, Hours
<1>7. ASSUME NEW r \in Runs PROVE now <= b + Settle(UploaderOf[r])
  BY <1>2, <1>6 DEF Settle, Later
<1>8. ASSUME NEW r \in Runs PROVE PendingOf(r)' /\ FiredOf(r)' /\ HandOf(r)'
  <2>1. PendingOf(r) /\ FiredOf(r) /\ HandOf(r) /\ FailedOK
    BY Zenon DEF SlipInv
  <2>2. FiredOf(r)'
    BY Zenon, <1>1, <2>1 DEF FiredOf, Due
  <2>3. PendingOf(r)'
    <3> SUFFICES ASSUME NEW i \in DOMAIN aggs', Pending(r, i)', NEW t \in Hours, Over(r, t)'
                 PROVE  t <= aggs'[i].bucket + Settle(UploaderOf[r])
                               + failed[r] * Period[UploaderOf[r]]
      BY Zenon, <1>1 DEF PendingOf, Hours
    <3>1. Over(r, t)
      BY Zenon, <1>1 DEF Over
    <3>2. CASE i \in DOMAIN aggs
      BY Zenon, <1>3, <1>5, <2>1, <3>1, <3>2 DEF PendingOf
    <3>3. CASE i = n
      <4>1. t <= now /\ t \in Nat
        BY <1>6, <3>1 DEF Over, Hours
      <4>2. now <= b + Settle(UploaderOf[r])
        BY Zenon, <1>7
      <4>3. failed[r] \in Nat
        BY <2>1 DEF FailedOK
      <4>4. Period[UploaderOf[r]] \in Nat /\ Settle(UploaderOf[r]) \in Nat
        BY EntryType
      <4>5. failed[r] * Period[UploaderOf[r]] \in Nat
        BY <4>3, <4>4
      <4> QED
        BY <1>4, <1>6, <3>3, <4>1, <4>2, <4>4, <4>5
    <3> QED
      BY Zenon, <1>3, <3>2, <3>3
  <2>4. HandOf(r)'
    <3> SUFFICES ASSUME NEW i \in DOMAIN aggs', Working(r), Pending(r, i)',
                        aggs'[i].bucket + Settle(UploaderOf[r]) < now
                 PROVE  InHand(r, i)'
      BY Zenon, <1>1 DEF HandOf, Working
    <3>1. CASE i \in DOMAIN aggs
      BY Zenon, <1>1, <1>3, <1>5, <2>1, <3>1 DEF HandOf, InHand
    <3>2. CASE i = n
      <4>1. now <= b + Settle(UploaderOf[r]) /\ Settle(UploaderOf[r]) \in Nat
        BY Zenon, <1>7, EntryType
      <4> QED
        BY <1>4, <1>6, <3>2, <4>1
    <3> QED
      BY Zenon, <1>3, <3>1, <3>2
  <2> QED
    BY Zenon, <2>2, <2>3, <2>4
<1> QED
  BY Zenon, <1>1, <1>8 DEF SlipInv, FailedOK

\* The hour ends when the runs due in it are over, and they are counted.
LEMMA NextHourSlip ==
  ASSUME TypeOK, SlipInv, NextHour
  PROVE  SlipInv'
<1>1. /\ UNCHANGED <<org, aggs, run, failed>> /\ now' = now + 1 /\ fired' = {}
      /\ \A r \in Runs : run[r].pc = "idle" /\ (Due(r) => r \in fired)
  BY Zenon DEF NextHour, Tick, runVars
<1>2. \A r \in Runs, i \in DOMAIN aggs : Pending(r, i)' <=> Pending(r, i)
  BY Zenon, <1>1 DEF Pending, ToBill, IsSupported, GCPSubscription
<1>3. ASSUME NEW r \in Runs PROVE PendingOf(r)' /\ FiredOf(r)' /\ HandOf(r)'
  <2>1. FiredOf(r)' /\ HandOf(r)'
    BY <1>1 DEF FiredOf, HandOf, Working
  <2>2. ASSUME NEW t \in Hours, Over(r, t)' PROVE Over(r, t)
    <3>1. now \in Nat /\ t \in Nat
      BY DEF TypeOK, DBTypeOK, Hours
    <3>2. t < now'
      BY Zenon, <1>1, <2>2 DEF Over
    <3>3. t < now \/ t = now
      BY <1>1, <3>1, <3>2
    <3> QED
      BY Zenon, <1>1, <2>2, <3>3 DEF Over, Due
  <2>3. PendingOf(r)
    BY Zenon DEF SlipInv
  <2>4. PendingOf(r)'
    BY Zenon, <1>1, <1>2, <2>2, <2>3 DEF PendingOf, Hours
  <2> QED
    BY Zenon, <2>1, <2>4
<1> QED
  BY Zenon, <1>1, <1>3 DEF SlipInv, FailedOK

\* Every step of the scheduled job keeps the invariant.
LEMMA ScheduleNextSlip ==
  ASSUME TypeOK, IndInv, Deployment, DueInv, SlipInv, LooksFarEnough, [ScheduleNext]_allVars
  PROVE  SlipInv'
<1>1. ASSUME NEW r \in Runs, Fire(r) \/ Step(r) PROVE SlipInv'
  BY Zenon, <1>1, FireSlip, StepSlip
<1>2. CASE ScheduleCrash
  BY Zenon, <1>2, CrashSlip
<1>3. CASE Aggregated /\ UNCHANGED <<runVars, scheduleVars>>
  BY Zenon, <1>3, AggregatedSlip
<1>4. CASE NextHour
  BY Zenon, <1>4, NextHourSlip
<1>5. CASE UNCHANGED allVars
  <2>1. UNCHANGED <<now, org, aggs, run, fired, failed>>
    BY Zenon, <1>5 DEF allVars, vars, dbVars, runVars, scheduleVars
  <2>2. RowsKept
    BY Zenon, <2>1 DEF RowsKept
  <2>3. \A r \in Runs, i \in DOMAIN aggs : Pending(r, i)' => Pending(r, i)
    BY Zenon, <2>1, <2>2, ToBillKept DEF Pending
  <2>4. \A r \in Runs : PendingOf(r)' /\ FiredOf(r)' /\ HandOf(r)'
    BY Zenon, <2>1, <2>2, <2>3, OtherRun DEF SlipInv
  <2> QED
    BY Zenon, <2>1, <2>4 DEF SlipInv, FailedOK
<1> QED
  BY Zenon, <1>1, <1>2, <1>3, <1>4, <1>5 DEF ScheduleNext

\* The week that UsageUpload.Do looks back is enough: when it leaves room for one
\* run more than fail in a row, no usage to bill is ever too old to be uploaded and
\* not linked to an upload.
THEOREM WeekIsEnough ==
  Deployment /\ LooksFarEnough => (ScheduleSpec => []NothingSlips)
<1> SUFFICES ASSUME Deployment, LooksFarEnough PROVE ScheduleSpec => []NothingSlips
  BY Zenon
<1>1. ScheduleInit => SlipInv
  <2> SUFFICES ASSUME ScheduleInit PROVE SlipInv
    BY Zenon
  <2>1. aggs = <<>> /\ (\A r \in Runs : run[r].pc = "idle") /\ FailedOK
    BY DEF ScheduleInit, Init, DBInit, Idle, FailedOK
  <2> QED
    BY <2>1 DEF SlipInv, PendingOf, FiredOf, HandOf, Working
<1>2. ScheduleSpec => []TypeOK /\ []IndInv
  BY ScheduleImplementsUpload, TypeCorrect, Invariance, PTL
<1>3. TypeOK /\ IndInv /\ DueInv /\ SlipInv /\ [ScheduleNext]_allVars => SlipInv'
  BY Zenon, ScheduleNextSlip
<1>4. TypeOK /\ SlipInv => NothingSlips
  <2> SUFFICES ASSUME TypeOK, SlipInv, NEW r \in Runs, NEW i \in DOMAIN aggs, ToBill(r, i),
                      aggs[i].bucket < ThroughTime(UploaderOf[r], now) - WeekLength,
                      aggs[i].upload = 0
               PROVE  FALSE
    BY Zenon DEF NothingSlips
  <2>1. now <= aggs[i].bucket + WeekLength
    BY Zenon, PendingIsRecent DEF SlipInv, Pending
  <2>2. now \in Hours
    BY Zenon DEF TypeOK, DBTypeOK
  <2>3. ThroughTime(UploaderOf[r], now) <= now /\ ThroughTime(UploaderOf[r], now) \in Hours
    BY Zenon, <2>2, ThroughTimePast, ThroughTimeType
  <2>4. aggs[i].bucket \in Hours
    BY Zenon, RowType DEF Aggregate
  <2> QED
    BY <2>1, <2>2, <2>3, <2>4 DEF Hours
<1> QED
  BY <1>1, <1>2, <1>3, <1>4, DueInvariance, PTL DEF ScheduleSpec

=============================================================================
