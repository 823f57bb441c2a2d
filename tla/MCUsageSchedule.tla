--------------------------- MODULE MCUsageSchedule ---------------------------
(* A small instance of UsageSchedule for TLC: days of two hours, weeks of  *)
(* three days.                                                             *)
EXTENDS UsageSchedule

MCUnits == [u \in Uploaders |-> Types]
OneMethod == {{"zuora"}}
CronRuns == [r \in Runs |-> r]

\* Zuora's run fires once a day, after midnight.
MCPeriod == [u \in Uploaders |-> DayLength]
MCPhase == [u \in Uploaders |-> 0]

=============================================================================
