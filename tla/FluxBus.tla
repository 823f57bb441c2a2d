------------------------------- MODULE FluxBus -------------------------------
(***************************************************************************)
(* The connections of the flux daemons of one instance to flux-api:        *)
(* RegisterDaemon (flux-api/server/server.go), the subscription on the     *)
(* NATS message bus (flux-api/bus/nats/bus.go) and the row that records    *)
(* whether the instance is connected (flux-api/instance/sql/db.go).        *)
(*                                                                         *)
(* Several connections for one instance overlap when a daemon reconnects   *)
(* or its pod is replaced, each on any replica of flux-api.  A connection  *)
(* subscribes, then publishes a kick that makes the older ones leave.      *)
(*                                                                         *)
(* A message is named by what it is: the kick of a connection or the       *)
(* request of a caller.  A subscription hands every message to a goroutine *)
(* of its own, so the order in which messages arrive is not kept.          *)
(***************************************************************************)
EXTENDS Naturals, FiniteSets

CONSTANTS
  N,             \* bound: connections, each a call of RegisterDaemon
  Calls,         \* requests to the daemon, each a call of a natsPlatform method
  MaxFaults,     \* bound: errors, crashes and dropped messages together
  None

\* A connection is named by the time it reads, which also names it in the row.
Conns == 1 .. N

ASSUME FluxAssumption ==
  /\ N \in Nat /\ MaxFaults \in Nat
  /\ Conns \intersect Calls = {}
  /\ None \notin Conns

VARIABLES
  pc,         \* where RegisterDaemon is
  connected,  \* the gauge of connected daemons, over all replicas
  record,     \* the config row: time of the last connection, is it connected
  recorder,   \* history: the connection that last wrote its time to the row
  subs,       \* subscriptions
  inbox,      \* messages on their way to the subscription
  loop,       \* the goroutine of Subscribe: is it in its select
  running,    \* messages with a processRequest goroutine
  dead,       \* connections whose daemon is gone
  call,       \* what the caller of a request has got
  done,       \* the daemons that have executed a request
  calm,       \* history: requests made while the bus was quiet
  failures,   \* database errors, failed subscriptions and crashes so far
  dropped     \* messages and errors nobody was waiting for so far

registration == <<pc, connected>>
row == <<record, recorder>>
bus == <<subs, inbox, loop, running>>
calls == <<call, done, calm>>
vars == <<registration, row, bus, calls, dead, failures, dropped>>

Messages == Conns \union Calls

TypeOK ==
  /\ pc \in [Conns -> {"new", "timed", "recorded", "subscribed", "waiting", "stuck",
                   "leaving", "gone"}]
  /\ connected \in Nat
  /\ record \in [last : Nat, connected : BOOLEAN]
  /\ recorder \in Conns \union {None}
  /\ subs \subseteq Conns
  /\ inbox \in [Conns -> SUBSET Messages]
  /\ loop \in [Conns -> {"none", "busy", "select", "returned"}]
  /\ running \in [Conns -> SUBSET Messages]
  /\ dead \subseteq Conns
  /\ call \in [Calls -> {"new", "sent", "ok", "error", "timeout", "offline"}]
  /\ done \in [Calls -> SUBSET Conns]
  /\ calm \subseteq Calls
  /\ failures \in Nat /\ dropped \in Nat

Init ==
  /\ pc = [c \in Conns |-> "new"]
  /\ connected = 0
  /\ record = [last |-> 0, connected |-> FALSE]
  /\ recorder = None
  /\ subs = {}
  /\ inbox = [c \in Conns |-> {}]
  /\ loop = [c \in Conns |-> "none"]
  /\ running = [c \in Conns |-> {}]
  /\ dead = {}
  /\ call = [r \in Calls |-> "new"]
  /\ done = [r \in Calls |-> {}]
  /\ calm = {}
  /\ failures = 0
  /\ dropped = 0

Goto(c, from, to) == pc[c] = from /\ pc' = [pc EXCEPT ![c] = to]
Failed == failures + dropped < MaxFaults /\ failures' = failures + 1
Dropped == failures + dropped < MaxFaults /\ dropped' = dropped + 1

Publish(m) == inbox' = [c \in Conns |-> IF c \in subs THEN inbox[c] \union {m} ELSE inbox[c]]

\* Every kick that was published has been dealt with.
Quiet ==
  /\ \A c \in subs : pc[c] = "waiting"
  /\ \A c \in subs : (inbox[c] \union running[c]) \intersect Conns = {}

(***************************************************************************)
(* RegisterDaemon.                                                         *)
(***************************************************************************)
RegisterDaemon(c) ==
  /\ Goto(c, "new", "timed")
  /\ connected' = connected + 1
  /\ UNCHANGED <<row, bus, calls, dead, failures, dropped>>

doRegister(c) ==
  /\ \A d \in 1 .. c - 1 : pc[d] # "new"
  /\ RegisterDaemon(c)

Connect(c) ==
  /\ Goto(c, "timed", "recorded")
  /\ record' = [last |-> c, connected |-> TRUE]
  /\ recorder' = c
  /\ UNCHANGED <<connected, bus, calls, dead, failures, dropped>>

\* The registration goes on if the database is only read-only for a while
\* (42501) and is given up on any other error.
ConnectFails(c) ==
  /\ Goto(c, "timed", "recorded") \/ Goto(c, "timed", "leaving")
  /\ Failed
  /\ UNCHANGED <<connected, row, bus, calls, dead, dropped>>

\* Mutant: Disconnect does not look at who is connected.
DisconnectAlways(c) ==
  /\ Goto(c, "leaving", "gone")
  /\ connected' = connected - 1
  /\ \/ record' = [record EXCEPT !.connected = FALSE] /\ UNCHANGED failures
     \/ UNCHANGED record /\ Failed
  /\ UNCHANGED <<recorder, bus, calls, dead, dropped>>

Disconnect(c) ==
  /\ Goto(c, "leaving", "gone")
  /\ connected' = connected - 1
  /\ \/ /\ record' = IF record = [last |-> c, connected |-> TRUE]
                     THEN [last |-> c, connected |-> FALSE] ELSE record
        /\ UNCHANGED failures
     \/ UNCHANGED record /\ Failed
  /\ UNCHANGED <<recorder, bus, calls, dead, dropped>>

(***************************************************************************)
(* Subscribe: the subscription, the kick, and the loop that waits for      *)
(* requests and errors.                                                    *)
(***************************************************************************)
Subscribe(c) ==
  /\ Goto(c, "recorded", "subscribed")
  /\ subs' = subs \union {c}
  /\ UNCHANGED <<connected, row, inbox, loop, running, calls, dead, failures, dropped>>

\* Subscribe puts the error on the channel done, from which its caller would
\* read only after Subscribe has returned.
SubscribeFails(c) ==
  /\ Goto(c, "recorded", "stuck")
  /\ Failed
  /\ UNCHANGED <<connected, row, bus, calls, dead, dropped>>

Kick(c) ==
  /\ Goto(c, "subscribed", "waiting")
  /\ Publish(c)
  /\ loop' = [loop EXCEPT ![c] = "busy"]
  /\ UNCHANGED <<connected, row, subs, running, calls, dead, failures, dropped>>

Select(c) ==
  /\ loop[c] = "busy"
  /\ loop' = [loop EXCEPT ![c] = "select"]
  /\ UNCHANGED <<registration, row, subs, inbox, running, calls, dead, failures, dropped>>

\* The loop ends: it unsubscribes and hands the error to RegisterDaemon.
Unsubscribe(c) ==
  /\ Goto(c, "waiting", "leaving")
  /\ subs' = subs \ {c}
  /\ inbox' = [inbox EXCEPT ![c] = {}]
  /\ loop' = [loop EXCEPT ![c] = "returned"]

\* Mutant: RegisterDaemon is not told.
ForceReconnectSilently(c) ==
  /\ loop[c] = "select"
  /\ subs' = subs \ {c}
  /\ inbox' = [inbox EXCEPT ![c] = {}]
  /\ loop' = [loop EXCEPT ![c] = "returned"]
  /\ UNCHANGED <<registration, row, running, calls, dead, failures, dropped>>

\* The connection is maxAge old, or its context is done.
ForceReconnect(c) ==
  /\ loop[c] = "select"
  /\ Unsubscribe(c)
  /\ UNCHANGED <<connected, row, running, calls, dead, failures, dropped>>

\* The NATS client offers a message to the channel of the subscription, which
\* has no buffer: unless the loop is in its select the message is dropped.
Deliver(c) ==
  \E m \in inbox[c] :
    /\ inbox' = [inbox EXCEPT ![c] = inbox[c] \ {m}]
    /\ \/ /\ loop[c] = "select"
          /\ loop' = [loop EXCEPT ![c] = "busy"]
          /\ running' = [running EXCEPT ![c] = running[c] \union {m}]
          /\ UNCHANGED dropped
       \/ /\ loop[c] # "select"
          /\ Dropped
          /\ UNCHANGED <<loop, running>>
    /\ UNCHANGED <<registration, row, subs, calls, dead, failures>>

\* The error of a goroutine ends the loop if the loop waits for it.
FatalError(c) ==
  \/ /\ loop[c] = "select"
     /\ Unsubscribe(c)
     /\ UNCHANGED dropped
  \/ /\ loop[c] # "select"
     /\ IF loop[c] = "returned" THEN UNCHANGED dropped ELSE Dropped
     /\ UNCHANGED <<pc, subs, inbox, loop>>

NoError == UNCHANGED <<pc, subs, inbox, loop, dropped>>

\* Mutant: a kick is ignored by the connections that came after it.
processKickOlder(c) ==
  \E m \in running[c] \intersect Conns :
    /\ running' = [running EXCEPT ![c] = running[c] \ {m}]
    /\ IF m <= c THEN NoError ELSE FatalError(c)
    /\ UNCHANGED <<connected, row, calls, dead, failures>>

processKick(c) ==
  \E m \in running[c] \intersect Conns :
    /\ running' = [running EXCEPT ![c] = running[c] \ {m}]
    /\ IF m = c THEN NoError ELSE FatalError(c)
    /\ UNCHANGED <<connected, row, calls, dead, failures>>

Reply(r, answer) == call' = IF call[r] = "sent" THEN [call EXCEPT ![r] = answer] ELSE call

\* A daemon that is gone makes the request fail for good, though it may have
\* executed it before; one that is there answers, with a result or with an
\* error of its own.
processRequest(c) ==
  \E r \in running[c] \intersect Calls :
    /\ running' = [running EXCEPT ![c] = running[c] \ {r}]
    /\ \/ /\ c \in dead
          /\ Reply(r, "error")
          /\ FatalError(c)
          /\ UNCHANGED done \/ done' = [done EXCEPT ![r] = done[r] \union {c}]
       \/ /\ c \notin dead
          /\ Reply(r, "ok")
          /\ NoError
          /\ done' = [done EXCEPT ![r] = done[r] \union {c}]
    /\ UNCHANGED <<connected, row, calm, dead, failures>>

(***************************************************************************)
(* The callers, the daemons and crashes.                                   *)
(***************************************************************************)
RequestWithContext(r) ==
  /\ call' = [call EXCEPT ![r] = "sent"]
  /\ Publish(r)
  /\ calm' = IF Quiet /\ dropped = 0 THEN calm \union {r} ELSE calm
  /\ UNCHANGED <<registration, row, subs, loop, running, done, dead, failures, dropped>>

\* A method of Server that asks the daemon for something.
CallDaemon(r) == call[r] = "new" /\ RequestWithContext(r)

\* Status does not ask a daemon that is not recorded as connected.
Status(r) ==
  /\ call[r] = "new"
  /\ \/ record.connected /\ RequestWithContext(r)
     \/ /\ ~ record.connected
        /\ call' = [call EXCEPT ![r] = "offline"]
        /\ UNCHANGED <<registration, row, bus, done, calm, dead, failures, dropped>>

Timeout(r) ==
  /\ call[r] = "sent"
  /\ call' = [call EXCEPT ![r] = "timeout"]
  /\ UNCHANGED <<registration, row, bus, done, calm, dead, failures, dropped>>

\* Only a request that is processed finds out.
DaemonDies(c) ==
  /\ pc[c] = "waiting" /\ c \notin dead
  /\ dead' = dead \union {c}
  /\ UNCHANGED <<registration, row, bus, calls, failures, dropped>>

\* A replica of flux-api stops: nothing it deferred is run.
Crash(c) ==
  /\ pc[c] \notin {"new", "gone"}
  /\ Failed
  /\ pc' = [pc EXCEPT ![c] = "gone"]
  /\ connected' = connected - 1
  /\ subs' = subs \ {c}
  /\ inbox' = [inbox EXCEPT ![c] = {}]
  /\ loop' = [loop EXCEPT ![c] = "returned"]
  /\ running' = [running EXCEPT ![c] = {}]
  /\ UNCHANGED <<row, calls, dead, dropped>>

Next ==
  \/ \E c \in Conns :
       \/ doRegister(c) \/ Connect(c) \/ ConnectFails(c) \/ Disconnect(c)
       \/ Subscribe(c) \/ SubscribeFails(c) \/ Kick(c) \/ Select(c) \/ ForceReconnect(c)
       \/ Deliver(c) \/ processKick(c) \/ processRequest(c)
       \/ DaemonDies(c) \/ Crash(c)
  \/ \E r \in Calls : CallDaemon(r) \/ Status(r) \/ Timeout(r)

Spec == Init /\ [][Next]_vars

(***************************************************************************)
(* Goroutines are scheduled, messages are read from the connection, the    *)
(* timer of the loop fires and so does the timeout of a call.  Nobody need *)
(* connect or call, no daemon need die and nothing need fail.  No step can *)
(* be repeated for ever, so it is enough that something goes on.           *)
(***************************************************************************)
Progress ==
  \/ \E c \in Conns :
       \/ Connect(c) \/ Disconnect(c) \/ Subscribe(c) \/ Kick(c) \/ Select(c)
       \/ ForceReconnect(c) \/ Deliver(c) \/ processKick(c) \/ processRequest(c)
  \/ \E r \in Calls : Timeout(r)

FairSpec == Spec /\ WF_vars(Progress)

(***************************************************************************)
(* Properties.                                                             *)
(***************************************************************************)
\* The row tells of the connection that was recorded last: Disconnect of any
\* other leaves it alone, and its own Disconnect is not lost unless the
\* database fails or flux-api crashes.
RowTellsOfLatest ==
  recorder # None =>
    /\ record.last = recorder
    /\ pc[recorder] # "gone" => record.connected
    /\ pc[recorder] = "gone" /\ failures = 0 => ~ record.connected

\* When every kick has been dealt with one subscription is left at most: of
\* two, the one that kicked later had subscribed before, and the kick of Subscribe
\* made the other one leave.
OneSubscription ==
  Quiet /\ dropped = 0 => \A c, d \in subs : c = d

\* A request made when every kick has been dealt with is executed by one daemon
\* at most, whoever subscribes, leaves or is kicked while natsPlatform waits for
\* the answer.
CalmCallOnce == \A r \in calm : \A c, d \in done[r] : c = d

\* Every registration comes to its end and is no longer counted, also if the
\* daemon is gone and nobody notices; only one whose subscription failed stays
\* blocked in Subscribe.
EverybodyLeaves ==
  connected > 0 ~> connected = Cardinality({c \in Conns : pc[c] = "stuck"})

=============================================================================
