----------------------------- MODULE MCUsersDB -----------------------------
(***************************************************************************)
(* UsersPostgres for TLC: a run makes a few calls of one group.            *)
(***************************************************************************)
EXTENDS UsersPostgres

CONSTANT MaxCalls    \* how many calls a run makes, for each group

VARIABLES group, left

MCInit ==
    /\ Init
    /\ group \in DOMAIN MaxCalls
    /\ left = MaxCalls[group]

\* A call of the group, while there are some left.
CallOf(g, Group) ==
    /\ group = g
    /\ left > 0
    /\ left' = left - 1
    /\ Group
    /\ UNCHANGED group

MCNext ==
    \/ CallOf("users", Calls!UserCalls)
    \/ CallOf("teams", Calls!TeamCalls)
    \/ CallOf("instances", Calls!InstanceCalls)
    \/ CallOf("settings", Calls!SettingCalls)
    \/ CallOf("gcp", Calls!GCPCalls)
    \/ CallOf("webhooks", Calls!WebhookCalls)
    \/ Calls!Return /\ UNCHANGED <<group, left>>

MCMaxCalls ==
    [users |-> 3, teams |-> 3, instances |-> 3, settings |-> 2, gcp |-> 4, webhooks |-> 6]

MCSpec == MCInit /\ [][MCNext]_<<vars, group, left>>
=============================================================================
