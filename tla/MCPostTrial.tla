----------------------------- MODULE MCPostTrial -----------------------------
(* A small instance of PostTrial for TLC: organizations without a payment  *)
(* method that may get a Zuora account.                                    *)
EXTENDS PostTrial

MCUnits == [u \in Uploaders |-> Types]
MaybeZuora == {{}, {"zuora"}}
CronRuns == [r \in Runs |-> r]

\* Zuora's run fires once a day, after midnight.
MCPeriod == [u \in Uploaders |-> DayLength]
MCPhase == [u \in Uploaders |-> 0]

=============================================================================
