---------------------------- MODULE FluxBusProofs ----------------------------
(***************************************************************************)
(* What FluxBus promises, for any number of connections, requests and      *)
(* faults: the row tells of the connection that was recorded last, the     *)
(* kicks leave one subscription, a request made in a quiet moment is       *)
(* executed once, and the gauge counts the registrations in progress.      *)
(***************************************************************************)
EXTENDS FluxBus, FiniteSetTheorems, TLAPS

\* The types of what a connection is on the bus, a part of TypeOK.
BusTypeOK ==
  /\ pc \in [Conns -> {"new", "timed", "recorded", "subscribed", "waiting", "stuck",
                       "leaving", "gone"}]
  /\ subs \subseteq Conns
  /\ inbox \in [Conns -> SUBSET Messages]
  /\ loop \in [Conns -> {"none", "busy", "select", "returned"}]
  /\ running \in [Conns -> SUBSET Messages]

\* Registrations between the increment and the deferred decrement of the gauge.
Registered == {c \in Conns : pc[c] \notin {"new", "gone"}}

\* The gauge of connected daemons counts them.
GaugeCounts == connected = Cardinality(Registered)

\* A connection is subscribed from Subscribe to the end of its loop, and the
\* loop runs while RegisterDaemon waits for it.
SubsMatch ==
  \A c \in Conns :
    /\ c \in subs <=> pc[c] \in {"subscribed", "waiting"}
    /\ loop[c] \in {"busy", "select"} <=> pc[c] = "waiting"

\* The kick of c is on its way to d or being processed there.
Kicks(c, d) == c \in inbox[d] \union running[d]

\* Of two connections that have both published their kick one has the kick of
\* the other before it.
OneIsKicked ==
  dropped = 0 =>
    \A c, d \in Conns :
      c # d /\ pc[c] = "waiting" /\ pc[d] = "waiting" => Kicks(c, d) \/ Kicks(d, c)

\* Connection c will execute request r, or has.
Holds(c, r) == r \in inbox[c] \union running[c] \/ c \in done[r]

\* A request is held by nobody before it is made, and by one connection at most
\* if it was made in a quiet moment.
HeldOnce ==
  \A r \in Calls :
    /\ call[r] = "new" => r \notin calm /\ \A c \in Conns : ~ Holds(c, r)
    /\ r \in calm => \A c, d \in Conns : Holds(c, r) /\ Holds(d, r) => c = d

IndInv == TypeOK /\ GaugeCounts /\ RowTellsOfLatest /\ SubsMatch /\ OneIsKicked /\ HeldOnce

-----------------------------------------------------------------------------
(* What a step that leaves a part of the state alone does to the invariant. *)

\* The connections are finitely many, so those that are counted are too.
LEMMA RegisteredFinite == IsFiniteSet(Registered) /\ Cardinality(Registered) \in Nat
<1>1. IsFiniteSet(Conns)
  BY FS_Interval, FluxAssumption DEF Conns
<1>2. Registered \subseteq Conns
  BY Zenon DEF Registered
<1> QED
  BY Zenon, <1>1, <1>2, FS_Subset, FS_CardinalityType

\* RegisterDaemon counts the daemon when it begins.
LEMMA GaugeUp ==
  ASSUME TypeOK, GaugeCounts, NEW c \in Conns, Goto(c, "new", "timed"),
         connected' = connected + 1
  PROVE  GaugeCounts' /\ connected' \in Nat
<1>1. Registered' = Registered \union {c} /\ c \notin Registered
  BY DEF Registered, Goto, TypeOK
<1>2. Cardinality(Registered') = Cardinality(Registered) + 1
  BY Zenon, <1>1, FS_AddElement, RegisteredFinite
<1> QED
  BY <1>2 DEF GaugeCounts, TypeOK

\* However the registration ends, the daemon is no longer counted.
LEMMA GaugeDown ==
  ASSUME TypeOK, GaugeCounts, NEW c \in Conns, pc[c] \notin {"new", "gone"},
         pc' = [pc EXCEPT ![c] = "gone"], connected' = connected - 1
  PROVE  GaugeCounts' /\ connected' \in Nat
<1>1. Registered' = Registered \ {c} /\ c \in Registered
  BY Zenon DEF Registered, TypeOK
<1>2. /\ IsFiniteSet(Registered') /\ Cardinality(Registered') = Cardinality(Registered) - 1
  BY Zenon, <1>1, FS_RemoveElement, RegisteredFinite
<1>3. Cardinality(Registered') \in Nat
  BY Zenon, <1>2, FS_CardinalityType
<1> QED
  BY Zenon, <1>2, <1>3 DEF GaugeCounts

\* Between its ends a registration stays counted.
LEMMA GaugeStays ==
  ASSUME GaugeCounts, UNCHANGED connected,
         \A c \in Conns : pc'[c] \in {"new", "gone"} <=> pc[c] \in {"new", "gone"}
  PROVE  GaugeCounts'
<1>1. Registered' = Registered
  BY Zenon DEF Registered
<1> QED
  BY Zenon, <1>1 DEF GaugeCounts

\* The row and the registrations that have ended are left alone.
LEMMA RowStays ==
  ASSUME TypeOK, RowTellsOfLatest, UNCHANGED row, failures' = 0 => failures = 0,
         \A c \in Conns : pc'[c] = "gone" <=> pc[c] = "gone"
  PROVE  RowTellsOfLatest'
<1>1. recorder # None => recorder \in Conns
  BY Zenon DEF TypeOK
<1> QED
  BY Zenon, <1>1 DEF RowTellsOfLatest, row

\* Nobody publishes a kick for the first time, and no kick is taken from a
\* connection that stays.
LEMMA KickStays ==
  ASSUME OneIsKicked, dropped' = 0 => dropped = 0,
         \A c \in Conns : pc'[c] = "waiting" => pc[c] = "waiting",
         \A c, d \in Conns : pc'[d] = "waiting" /\ c # d /\ Kicks(c, d) => Kicks(c, d)'
  PROVE  OneIsKicked'
BY Zenon DEF OneIsKicked

\* Nobody gets a request that did not have it.
LEMMA HeldStays ==
  ASSUME HeldOnce, UNCHANGED calm,
         \A r \in Calls : call'[r] = "new" => call[r] = "new",
         \A c \in Conns, r \in Calls : Holds(c, r)' => Holds(c, r)
  PROVE  HeldOnce'
BY Zenon DEF HeldOnce

-----------------------------------------------------------------------------
(* One lemma for every action.                                             *)

\* A step of RegisterDaemon that keeps its distance from the bus: the
\* subscriptions, the loops and the requests are those of before.
LEMMA OffTheBus ==
  ASSUME IndInv, UNCHANGED <<bus, calls>>, dropped' = dropped, NEW c \in Conns,
         pc[c] \notin {"subscribed", "waiting"},
         NEW to \in {"timed", "recorded", "stuck", "leaving", "gone"},
         pc' = [pc EXCEPT ![c] = to]
  PROVE  SubsMatch' /\ OneIsKicked' /\ HeldOnce'
<1>1. /\ pc'[c] = to
      /\ \A d \in Conns : d # c => pc'[d] = pc[d]
  BY Zenon DEF IndInv, TypeOK
<1>2. SubsMatch'
  BY <1>1 DEF IndInv, SubsMatch, bus
<1>3. OneIsKicked'
  <2>1. \A d \in Conns : pc'[d] = "waiting" => pc[d] = "waiting"
    BY <1>1
  <2>2. \A d, e \in Conns : Kicks(d, e) <=> Kicks(d, e)'
    BY Zenon DEF Kicks, bus
  <2> QED
    BY Zenon, <2>1, <2>2, KickStays DEF IndInv
<1>4. HeldOnce'
  BY Zenon, HeldStays DEF Holds, IndInv, bus, calls
<1> QED
  BY Zenon, <1>2, <1>3, <1>4

\* RegisterDaemon begins.
LEMMA Inv_doRegister ==
  ASSUME IndInv, NEW c \in Conns, doRegister(c)
  PROVE  IndInv'
<1>1. /\ pc[c] = "new" /\ pc' = [pc EXCEPT ![c] = "timed"] /\ Goto(c, "new", "timed")
      /\ connected' = connected + 1
      /\ UNCHANGED <<row, bus, calls, dead, failures, dropped>>
  BY Zenon DEF doRegister, RegisterDaemon, Goto
<1>2. GaugeCounts' /\ connected' \in Nat
  BY Zenon, <1>1, GaugeUp DEF IndInv
<1>3. TypeOK'
  BY <1>1, <1>2 DEF IndInv, TypeOK, row, bus, calls
<1>4. RowTellsOfLatest'
  BY <1>1, RowStays DEF IndInv, TypeOK
<1>5. SubsMatch' /\ OneIsKicked' /\ HeldOnce'
  BY Zenon, <1>1, OffTheBus
<1> QED
  BY Zenon, <1>2, <1>3, <1>4, <1>5 DEF IndInv

\* Connect makes the row tell of the connection.
LEMMA Inv_Connect ==
  ASSUME IndInv, NEW c \in Conns, Connect(c)
  PROVE  IndInv'
<1>1. /\ pc[c] = "timed" /\ pc' = [pc EXCEPT ![c] = "recorded"]
      /\ record' = [last |-> c, connected |-> TRUE] /\ recorder' = c
      /\ UNCHANGED <<connected, bus, calls, dead, failures, dropped>>
  BY Zenon DEF Connect, Goto
<1>2. GaugeCounts'
  BY <1>1, GaugeStays DEF IndInv, TypeOK
<1>3. TypeOK'
  BY <1>1, FluxAssumption DEF IndInv, TypeOK, bus, calls, Conns
<1>4. RowTellsOfLatest'
  BY <1>1 DEF IndInv, TypeOK, RowTellsOfLatest
<1>5. SubsMatch' /\ OneIsKicked' /\ HeldOnce'
  BY Zenon, <1>1, OffTheBus
<1> QED
  BY Zenon, <1>2, <1>3, <1>4, <1>5 DEF IndInv

\* The database fails: the registration goes on or is given up.
LEMMA Inv_ConnectFails ==
  ASSUME IndInv, NEW c \in Conns, ConnectFails(c)
  PROVE  IndInv'
<1>1. PICK to \in {"recorded", "leaving"} : pc' = [pc EXCEPT ![c] = to]
  BY Zenon DEF ConnectFails, Goto
<1>2. /\ pc[c] = "timed" /\ failures' = failures + 1
      /\ UNCHANGED <<connected, row, bus, calls, dead, dropped>>
  BY Zenon DEF ConnectFails, Goto, Failed
<1>3. GaugeCounts'
  BY <1>1, <1>2, GaugeStays DEF IndInv, TypeOK
<1>4. TypeOK'
  BY <1>1, <1>2 DEF IndInv, TypeOK, row, bus, calls
<1>5. RowTellsOfLatest'
  BY <1>1, <1>2, RowStays DEF IndInv, TypeOK
<1>6. SubsMatch' /\ OneIsKicked' /\ HeldOnce'
  BY Zenon, <1>1, <1>2, OffTheBus
<1> QED
  BY Zenon, <1>3, <1>4, <1>5, <1>6 DEF IndInv

\* The row is taken back by the connection that it tells of, and by no other.
LEMMA Inv_Disconnect ==
  ASSUME IndInv, NEW c \in Conns, Disconnect(c)
  PROVE  IndInv'
<1>1. /\ pc[c] = "leaving" /\ pc' = [pc EXCEPT ![c] = "gone"]
      /\ connected' = connected - 1
      /\ UNCHANGED <<recorder, bus, calls, dead, dropped>>
      /\ \/ /\ record' = IF record = [last |-> c, connected |-> TRUE]
                         THEN [last |-> c, connected |-> FALSE] ELSE record
            /\ UNCHANGED failures
         \/ UNCHANGED record /\ failures' = failures + 1
  BY Zenon DEF Disconnect, Goto, Failed
<1>2. GaugeCounts' /\ connected' \in Nat
  BY Zenon, <1>1, GaugeDown DEF IndInv
<1>3. failures \in Nat /\ failures' \in Nat /\ (failures' = 0 => failures = 0 /\ failures' = failures)
  BY <1>1 DEF IndInv, TypeOK
<1>4. TypeOK'
  <2>0. c \in Nat
    BY FluxAssumption DEF Conns
  <2>1. record' \in [last : Nat, connected : BOOLEAN]
    <3>1. record' \in {record, [last |-> c, connected |-> FALSE]}
      BY Zenon, <1>1
    <3>2. [last |-> c, connected |-> FALSE] \in [last : Nat, connected : BOOLEAN]
      BY Zenon, <2>0
    <3> QED
      BY Zenon, <3>1, <3>2 DEF IndInv, TypeOK
  <2> QED
    BY <1>1, <1>2, <1>3, <2>1 DEF IndInv, TypeOK, bus, calls
<1>5. RowTellsOfLatest'
  <2> SUFFICES ASSUME recorder # None
               PROVE  /\ record'.last = recorder
                      /\ pc'[recorder] # "gone" => record'.connected
                      /\ pc'[recorder] = "gone" /\ failures' = 0 => ~ record'.connected
    BY Zenon, <1>1 DEF RowTellsOfLatest
  <2>1. /\ recorder \in Conns /\ record \in [last : Nat, connected : BOOLEAN]
        /\ record.last = recorder
        /\ pc[recorder] # "gone" => record.connected
        /\ pc[recorder] = "gone" /\ failures = 0 => ~ record.connected
    BY Zenon DEF IndInv, TypeOK, RowTellsOfLatest
  <2>2. CASE c = recorder
    <3>1. record = [last |-> c, connected |-> TRUE]
      BY <1>1, <2>1, <2>2
    <3>2. pc'[recorder] = "gone"
      BY Zenon, <1>1, <2>1, <2>2 DEF IndInv, TypeOK
    <3>3. record'.last = c /\ (failures' = 0 => ~ record'.connected)
      BY <1>1, <1>3, <3>1
    <3> QED
      BY Zenon, <2>2, <3>2, <3>3
  <2>3. CASE c # recorder
    <3>1. record # [last |-> c, connected |-> TRUE]
      BY <2>1, <2>3
    <3>2. record' = record
      BY Zenon, <1>1, <3>1
    <3>3. pc'[recorder] = pc[recorder]
      BY Zenon, <1>1, <2>1, <2>3 DEF IndInv, TypeOK
    <3> QED
      BY Zenon, <1>3, <2>1, <3>2, <3>3
  <2> QED
    BY Zenon, <2>2, <2>3
<1>6. SubsMatch' /\ OneIsKicked' /\ HeldOnce'
  BY Zenon, <1>1, OffTheBus
<1> QED
  BY Zenon, <1>2, <1>4, <1>5, <1>6 DEF IndInv

\* A step of the bus: neither the gauge nor the row changes, and no registration
\* begins or ends.
LEMMA OnTheBus ==
  ASSUME IndInv, UNCHANGED <<connected, row>>, failures' = 0 => failures = 0,
         \A d \in Conns : pc'[d] \in {"new", "gone"} \/ pc[d] \in {"new", "gone"}
                            => pc'[d] = pc[d]
  PROVE  GaugeCounts' /\ RowTellsOfLatest'
<1>1. GaugeCounts'
  BY Zenon, GaugeStays DEF IndInv
<1>2. RowTellsOfLatest'
  BY Zenon, RowStays DEF IndInv
<1> QED
  BY Zenon, <1>1, <1>2

\* The connection subscribes; its kick is yet to come.
LEMMA Inv_Subscribe ==
  ASSUME IndInv, NEW c \in Conns, Subscribe(c)
  PROVE  IndInv'
<1>1. /\ pc[c] = "recorded" /\ pc' = [pc EXCEPT ![c] = "subscribed"]
      /\ subs' = subs \union {c}
      /\ UNCHANGED <<connected, row, inbox, loop, running, calls, dead, failures, dropped>>
  BY Zenon DEF Subscribe, Goto
<1>2. /\ pc'[c] = "subscribed"
      /\ \A d \in Conns : d # c => pc'[d] = pc[d]
  BY Zenon, <1>1 DEF IndInv, TypeOK
<1>3. TypeOK'
  BY <1>1 DEF IndInv, TypeOK, row, calls
<1>4. GaugeCounts' /\ RowTellsOfLatest'
  BY <1>1, <1>2, OnTheBus
<1>5. SubsMatch'
  BY <1>1, <1>2 DEF IndInv, SubsMatch
<1>6. OneIsKicked'
  BY <1>1, <1>2, KickStays DEF IndInv, Kicks
<1>7. HeldOnce'
  BY Zenon, <1>1, HeldStays DEF Holds, IndInv, calls
<1> QED
  BY Zenon, <1>3, <1>4, <1>5, <1>6, <1>7 DEF IndInv

\* Subscribe fails and RegisterDaemon is stuck in it.
LEMMA Inv_SubscribeFails ==
  ASSUME IndInv, NEW c \in Conns, SubscribeFails(c)
  PROVE  IndInv'
<1>1. /\ pc[c] = "recorded" /\ pc' = [pc EXCEPT ![c] = "stuck"] /\ failures' = failures + 1
      /\ UNCHANGED <<connected, row, bus, calls, dead, dropped>>
  BY Zenon DEF SubscribeFails, Goto, Failed
<1>2. GaugeCounts'
  BY <1>1, GaugeStays DEF IndInv, TypeOK
<1>3. TypeOK'
  BY <1>1 DEF IndInv, TypeOK, row, bus, calls
<1>4. RowTellsOfLatest'
  BY <1>1, RowStays DEF IndInv, TypeOK
<1>5. SubsMatch' /\ OneIsKicked' /\ HeldOnce'
  BY Zenon, <1>1, OffTheBus
<1> QED
  BY Zenon, <1>2, <1>3, <1>4, <1>5 DEF IndInv

\* The kick reaches every subscription there is.
LEMMA Inv_Kick ==
  ASSUME IndInv, NEW c \in Conns, Kick(c)
  PROVE  IndInv'
<1>1. /\ pc[c] = "subscribed" /\ pc' = [pc EXCEPT ![c] = "waiting"]
      /\ inbox' = [d \in Conns |-> IF d \in subs THEN inbox[d] \union {c} ELSE inbox[d]]
      /\ loop' = [loop EXCEPT ![c] = "busy"]
      /\ UNCHANGED <<connected, row, subs, running, calls, dead, failures, dropped>>
  BY Zenon DEF Kick, Goto, Publish
<1>2. /\ pc'[c] = "waiting" /\ loop'[c] = "busy"
      /\ \A d \in Conns : d # c => pc'[d] = pc[d] /\ loop'[d] = loop[d]
  BY Zenon, <1>1 DEF IndInv, TypeOK
<1>3. \A d \in Conns : inbox'[d] = inbox[d] \/ inbox'[d] = inbox[d] \union {c}
  BY Zenon, <1>1
<1>4. TypeOK'
  <2>1. inbox' \in [Conns -> SUBSET Messages]
    BY ZenonT(60), <1>1 DEF IndInv, TypeOK, Messages
  <2> QED
    BY <1>1, <2>1 DEF IndInv, TypeOK, row, calls
<1>5. GaugeCounts' /\ RowTellsOfLatest'
  BY <1>1, <1>2, OnTheBus
<1>6. SubsMatch'
  BY <1>1, <1>2 DEF IndInv, SubsMatch
<1>7. OneIsKicked'
  <2> SUFFICES ASSUME dropped = 0, NEW d \in Conns, NEW e \in Conns, d # e,
                      pc'[d] = "waiting", pc'[e] = "waiting"
               PROVE  Kicks(d, e)' \/ Kicks(e, d)'
    BY Zenon, <1>1 DEF OneIsKicked
  <2>1. \A f, g \in Conns : Kicks(f, g) => Kicks(f, g)'
    BY Zenon, <1>1, <1>3 DEF Kicks
  <2>2. \A f \in Conns : f # c /\ pc'[f] = "waiting" => Kicks(c, f)'
    <3>1. \A f \in Conns : f # c /\ pc'[f] = "waiting" => f \in subs
      BY Zenon, <1>2 DEF IndInv, SubsMatch
    <3> QED
      BY Zenon, <1>1, <3>1 DEF Kicks
  <2>3. CASE d = c \/ e = c
    BY Zenon, <2>2, <2>3
  <2>4. CASE d # c /\ e # c
    BY Zenon, <1>2, <2>1, <2>4 DEF IndInv, OneIsKicked
  <2> QED
    BY Zenon, <2>3, <2>4
<1>8. HeldOnce'
  <2>1. \A r \in Calls : r # c
    BY Zenon, FluxAssumption
  <2>2. \A d \in Conns, r \in Calls : Holds(d, r)' => Holds(d, r)
    BY Zenon, <1>1, <1>3, <2>1 DEF Holds, calls
  <2> QED
    BY Zenon, <1>1, <2>2, HeldStays DEF IndInv, calls
<1> QED
  BY Zenon, <1>4, <1>5, <1>6, <1>7, <1>8 DEF IndInv

\* The loop is back in its select.
LEMMA Inv_Select ==
  ASSUME IndInv, NEW c \in Conns, Select(c)
  PROVE  IndInv'
<1>1. /\ loop[c] = "busy" /\ loop' = [loop EXCEPT ![c] = "select"]
      /\ UNCHANGED <<registration, row, subs, inbox, running, calls, dead, failures, dropped>>
  BY Zenon DEF Select
<1>2. TypeOK'
  BY <1>1 DEF IndInv, TypeOK, registration, row, calls
<1>3. GaugeCounts' /\ RowTellsOfLatest'
  BY Zenon, <1>1, OnTheBus DEF registration
<1>4. SubsMatch'
  BY <1>1 DEF IndInv, TypeOK, SubsMatch, registration
<1>5. OneIsKicked'
  BY Zenon, <1>1, KickStays DEF IndInv, Kicks, registration
<1>6. HeldOnce'
  BY Zenon, <1>1, HeldStays DEF Holds, IndInv, calls
<1> QED
  BY Zenon, <1>2, <1>3, <1>4, <1>5, <1>6 DEF IndInv

\* The loop ends and the connection leaves the bus; what its goroutines still
\* hold is at most what they held.
LEMMA Leaves ==
  ASSUME IndInv, NEW c \in Conns, NEW to \in {"leaving", "gone"},
         pc' = [pc EXCEPT ![c] = to], subs' = subs \ {c},
         inbox' = [inbox EXCEPT ![c] = {}], loop' = [loop EXCEPT ![c] = "returned"],
         NEW rest \in SUBSET running[c], running' = [running EXCEPT ![c] = rest],
         UNCHANGED dropped
  PROVE  /\ BusTypeOK'
         /\ pc'[c] = to /\ \A d \in Conns : d # c => pc'[d] = pc[d]
         /\ \A d \in Conns : inbox'[d] \subseteq inbox[d] /\ running'[d] \subseteq running[d]
         /\ SubsMatch' /\ OneIsKicked'
<1>1. /\ pc'[c] = to /\ loop'[c] = "returned" /\ inbox'[c] = {} /\ running'[c] = rest
      /\ \A d \in Conns : d # c => /\ pc'[d] = pc[d] /\ loop'[d] = loop[d]
                                   /\ inbox'[d] = inbox[d] /\ running'[d] = running[d]
  BY Zenon DEF IndInv, TypeOK
<1>2. /\ pc' \in [Conns -> {"new", "timed", "recorded", "subscribed", "waiting", "stuck",
                            "leaving", "gone"}]
      /\ loop' \in [Conns -> {"none", "busy", "select", "returned"}]
      /\ subs' \subseteq Conns
  BY DEF IndInv, TypeOK
<1>3. /\ inbox' \in [Conns -> SUBSET Messages]
      /\ running' \in [Conns -> SUBSET Messages]
  BY Zenon DEF IndInv, TypeOK
<1>4. \A d \in Conns : inbox'[d] \subseteq inbox[d] /\ running'[d] \subseteq running[d]
  BY Zenon, <1>1
<1>5. SubsMatch'
  BY <1>1 DEF IndInv, SubsMatch
<1>6. OneIsKicked'
  <2>1. \A d \in Conns : pc'[d] = "waiting" => d # c /\ pc[d] = "waiting"
    BY <1>1
  <2>2. \A d, e \in Conns : e # c /\ Kicks(d, e) => Kicks(d, e)'
    BY Zenon, <1>1 DEF Kicks
  <2> QED
    BY Zenon, <2>1, <2>2, KickStays DEF IndInv
<1> QED
  BY Zenon, <1>1, <1>2, <1>3, <1>4, <1>5, <1>6 DEF BusTypeOK

\* The connection has reached its age, or its context is done.
LEMMA Inv_ForceReconnect ==
  ASSUME IndInv, NEW c \in Conns, ForceReconnect(c)
  PROVE  IndInv'
<1>1. /\ pc[c] = "waiting" /\ pc' = [pc EXCEPT ![c] = "leaving"] /\ subs' = subs \ {c}
      /\ inbox' = [inbox EXCEPT ![c] = {}] /\ loop' = [loop EXCEPT ![c] = "returned"]
      /\ UNCHANGED <<connected, row, running, calls, dead, failures, dropped>>
  BY Zenon DEF ForceReconnect, Unsubscribe, Goto
<1>2. running' = [running EXCEPT ![c] = running[c]]
  BY Zenon, <1>1 DEF IndInv, TypeOK
<1>3. /\ BusTypeOK'
      /\ pc'[c] = "leaving" /\ \A d \in Conns : d # c => pc'[d] = pc[d]
      /\ \A d \in Conns : inbox'[d] \subseteq inbox[d] /\ running'[d] \subseteq running[d]
      /\ SubsMatch' /\ OneIsKicked'
  BY Zenon, <1>1, <1>2, Leaves
<1>4. TypeOK'
  BY Zenon, <1>1, <1>3 DEF IndInv, TypeOK, BusTypeOK, row, calls
<1>5. GaugeCounts' /\ RowTellsOfLatest'
  BY <1>1, <1>3, OnTheBus
<1>6. HeldOnce'
  BY Zenon, <1>1, <1>3, HeldStays DEF Holds, IndInv, calls
<1> QED
  BY Zenon, <1>3, <1>4, <1>5, <1>6 DEF IndInv

\* A message goes to a goroutine of its own, or is dropped.
LEMMA Inv_Deliver ==
  ASSUME IndInv, NEW c \in Conns, Deliver(c)
  PROVE  IndInv'
<1>1. PICK m \in inbox[c] :
        /\ inbox' = [inbox EXCEPT ![c] = inbox[c] \ {m}]
        /\ \/ /\ loop[c] = "select"
              /\ loop' = [loop EXCEPT ![c] = "busy"]
              /\ running' = [running EXCEPT ![c] = running[c] \union {m}]
              /\ UNCHANGED dropped
           \/ /\ loop[c] # "select"
              /\ dropped' = dropped + 1
              /\ UNCHANGED <<loop, running>>
        /\ UNCHANGED <<registration, row, subs, calls, dead, failures>>
  BY Zenon DEF Deliver, Dropped
<1>2. m \in Messages
  BY Zenon DEF IndInv, TypeOK
<1>3. /\ inbox' \in [Conns -> SUBSET Messages] /\ running' \in [Conns -> SUBSET Messages]
      /\ inbox'[c] = inbox[c] \ {m} /\ running'[c] \subseteq running[c] \union {m}
      /\ \A d \in Conns : d # c => inbox'[d] = inbox[d] /\ running'[d] = running[d]
  <2>1. /\ inbox \in [Conns -> SUBSET Messages] /\ running \in [Conns -> SUBSET Messages]
        /\ inbox[c] \ {m} \in SUBSET Messages /\ running[c] \union {m} \in SUBSET Messages
    BY Zenon, <1>2 DEF IndInv, TypeOK
  <2>2. inbox' \in [Conns -> SUBSET Messages] /\ inbox'[c] = inbox[c] \ {m}
        /\ \A d \in Conns : d # c => inbox'[d] = inbox[d]
    BY Zenon, <1>1, <2>1
  <2>3. CASE running' = [running EXCEPT ![c] = running[c] \union {m}]
    BY Zenon, <2>1, <2>2, <2>3
  <2>4. CASE running' = running
    BY Zenon, <2>1, <2>2, <2>4
  <2> QED
    BY Zenon, <1>1, <2>3, <2>4
<1>4. /\ dropped \in Nat /\ dropped' \in Nat
      /\ dropped' = 0 => dropped' = dropped
  BY <1>1 DEF IndInv, TypeOK
<1>5. TypeOK'
  BY <1>1, <1>3, <1>4 DEF IndInv, TypeOK, registration, row, calls
<1>6. GaugeCounts' /\ RowTellsOfLatest'
  BY Zenon, <1>1, OnTheBus DEF registration
<1>7. SubsMatch'
  BY <1>1 DEF IndInv, TypeOK, SubsMatch, registration
<1>8. dropped' = 0 => dropped = 0 /\ \A d \in Conns :
        inbox'[d] \union running'[d] = inbox[d] \union running[d]
  <2> SUFFICES ASSUME dropped' = 0, NEW d \in Conns
               PROVE  dropped = 0 /\ inbox'[d] \union running'[d] = inbox[d] \union running[d]
    BY Zenon
  <2>1. dropped' # dropped + 1 /\ dropped = 0
    BY <1>4
  <2>2. /\ inbox' = [inbox EXCEPT ![c] = inbox[c] \ {m}]
        /\ running' = [running EXCEPT ![c] = running[c] \union {m}]
    BY Zenon, <1>1, <2>1
  <2>3. CASE d = c
    <3>1. running'[c] = running[c] \union {m}
      BY Zenon, <2>2 DEF IndInv, TypeOK
    <3>2. inbox'[c] = inbox[c] \ {m} /\ m \in inbox[c]
      BY Zenon, <1>3
    <3>3. inbox'[c] \union running'[c] = inbox[c] \union running[c]
      BY Zenon, <3>1, <3>2
    <3> QED
      BY Zenon, <2>1, <2>3, <3>3
  <2>4. CASE d # c
    BY Zenon, <1>3, <2>1, <2>4
  <2> QED
    BY Zenon, <2>3, <2>4
<1>9. OneIsKicked'
  BY Zenon, <1>1, <1>8 DEF IndInv, OneIsKicked, Kicks, registration
<1>10. HeldOnce'
  <2>1. \A d \in Conns : inbox'[d] \union running'[d] \subseteq inbox[d] \union running[d]
    BY Zenon, <1>1, <1>3
  <2>2. \A d \in Conns, r \in Calls : Holds(d, r)' => Holds(d, r)
    BY Zenon, <1>1, <2>1 DEF Holds, calls
  <2> QED
    BY Zenon, <1>1, <2>2, HeldStays DEF IndInv, calls
<1> QED
  BY Zenon, <1>5, <1>6, <1>7, <1>9, <1>10 DEF IndInv

\* The goroutine of a message m ends, with an error that the loop of c hears of
\* or without one, which a kick of somebody else does not allow.
LEMMA GoroutineEnds ==
  ASSUME IndInv, NEW c \in Conns, NEW m \in running[c],
         running' = [running EXCEPT ![c] = running[c] \ {m}],
         FatalError(c) \/ (NoError /\ m \notin Conns \ {c}),
         UNCHANGED <<connected, row, failures>>
  PROVE  /\ BusTypeOK'
         /\ dropped' \in Nat
         /\ \A d \in Conns : inbox'[d] \subseteq inbox[d] /\ running'[d] \subseteq running[d]
         /\ GaugeCounts' /\ RowTellsOfLatest' /\ SubsMatch' /\ OneIsKicked'
<1>1. CASE Unsubscribe(c) /\ UNCHANGED dropped
  <2>1. /\ pc[c] = "waiting" /\ pc' = [pc EXCEPT ![c] = "leaving"] /\ subs' = subs \ {c}
        /\ inbox' = [inbox EXCEPT ![c] = {}] /\ loop' = [loop EXCEPT ![c] = "returned"]
        /\ running[c] \ {m} \in SUBSET running[c]
    BY Zenon, <1>1 DEF Unsubscribe, Goto
  <2>2. /\ BusTypeOK'
        /\ pc'[c] = "leaving" /\ \A d \in Conns : d # c => pc'[d] = pc[d]
        /\ \A d \in Conns : inbox'[d] \subseteq inbox[d] /\ running'[d] \subseteq running[d]
        /\ SubsMatch' /\ OneIsKicked'
    BY Zenon, <1>1, <2>1, Leaves
  <2>3. GaugeCounts' /\ RowTellsOfLatest'
    BY <2>1, <2>2, OnTheBus
  <2>4. dropped' \in Nat
    BY Zenon, <1>1 DEF IndInv, TypeOK
  <2> QED
    BY Zenon, <2>2, <2>3, <2>4
<1>2. CASE UNCHANGED <<pc, subs, inbox, loop>>
  <2>1. /\ running' \in [Conns -> SUBSET Messages] /\ running'[c] = running[c] \ {m}
        /\ \A d \in Conns : d # c => running'[d] = running[d]
    <3>1. running[c] \ {m} \in SUBSET Messages
      BY Zenon DEF IndInv, TypeOK
    <3> QED
      BY Zenon, <3>1 DEF IndInv, TypeOK
  <2>2. GaugeCounts' /\ RowTellsOfLatest'
    BY Zenon, <1>2, OnTheBus
  <2>3. SubsMatch'
    BY Zenon, <1>2 DEF IndInv, SubsMatch
  <2>4. dropped' \in Nat /\ (dropped' = 0 => dropped = 0)
    <3>1. UNCHANGED dropped \/ dropped' = dropped + 1
      BY Zenon DEF FatalError, NoError, Dropped
    <3> QED
      BY <3>1 DEF IndInv, TypeOK
  <2>5. dropped' = 0 => pc[c] # "waiting" \/ m \notin Conns \ {c}
    <3>1. ASSUME FatalError(c), dropped' = 0 PROVE pc[c] # "waiting"
      <4>1. loop[c] # "select"
        BY <1>2, <3>1 DEF FatalError, Unsubscribe, Goto, IndInv, TypeOK
      <4>2. loop[c] = "returned"
        BY <3>1, <4>1 DEF FatalError, Dropped, IndInv, TypeOK
      <4> QED
        BY <4>2 DEF IndInv, SubsMatch
    <3> QED
      BY Zenon, <3>1
  <2>6. OneIsKicked'
    <3> SUFFICES ASSUME dropped' = 0 PROVE OneIsKicked'
      BY Zenon DEF OneIsKicked
    <3>1. \A d, e \in Conns : pc'[e] = "waiting" /\ d # e /\ Kicks(d, e) => Kicks(d, e)'
      <4> SUFFICES ASSUME NEW d \in Conns, NEW e \in Conns, pc[e] = "waiting", d # e, Kicks(d, e)
                   PROVE  Kicks(d, e)'
        BY Zenon, <1>2
      <4>1. CASE e = c
        <5>1. d # m
          BY Zenon, <2>5, <4>1
        <5> QED
          BY Zenon, <1>2, <2>1, <4>1, <5>1 DEF Kicks
      <4>2. CASE e # c
        BY Zenon, <1>2, <2>1, <4>2 DEF Kicks
      <4> QED
        BY Zenon, <4>1, <4>2
    <3> QED
      BY Zenon, <1>2, <2>4, <3>1, KickStays DEF IndInv
  <2>7. \A d \in Conns : inbox'[d] \subseteq inbox[d] /\ running'[d] \subseteq running[d]
    BY Zenon, <1>2, <2>1
  <2>8. /\ pc' \in [Conns -> {"new", "timed", "recorded", "subscribed", "waiting", "stuck",
                              "leaving", "gone"}]
        /\ subs' \subseteq Conns
        /\ inbox' \in [Conns -> SUBSET Messages]
        /\ loop' \in [Conns -> {"none", "busy", "select", "returned"}]
    BY Zenon, <1>2 DEF IndInv, TypeOK
  <2> QED
    BY Zenon, <2>1, <2>2, <2>3, <2>4, <2>6, <2>7, <2>8 DEF BusTypeOK
<1> QED
  BY Zenon, <1>1, <1>2 DEF FatalError, NoError

\* A connection leaves when it is kicked by another one.
LEMMA Inv_processKick ==
  ASSUME IndInv, NEW c \in Conns, processKick(c)
  PROVE  IndInv'
<1>1. PICK m \in running[c] \intersect Conns :
        /\ running' = [running EXCEPT ![c] = running[c] \ {m}]
        /\ IF m = c THEN NoError ELSE FatalError(c)
        /\ UNCHANGED <<connected, row, calls, dead, failures>>
  BY Zenon DEF processKick
<1>2. m \in running[c] /\ (FatalError(c) \/ (NoError /\ m \notin Conns \ {c}))
  BY Zenon, <1>1
<1>3. /\ BusTypeOK'
      /\ dropped' \in Nat
      /\ \A d \in Conns : inbox'[d] \subseteq inbox[d] /\ running'[d] \subseteq running[d]
      /\ GaugeCounts' /\ RowTellsOfLatest' /\ SubsMatch' /\ OneIsKicked'
  BY Zenon, <1>1, <1>2, GoroutineEnds
<1>4. TypeOK'
  BY Zenon, <1>1, <1>3 DEF IndInv, TypeOK, BusTypeOK, row, calls
<1>5. HeldOnce'
  BY Zenon, <1>1, <1>3, HeldStays DEF Holds, IndInv, calls
<1> QED
  BY Zenon, <1>3, <1>4, <1>5 DEF IndInv

\* A request is executed by the connection that holds it.
LEMMA Inv_processRequest ==
  ASSUME IndInv, NEW c \in Conns, processRequest(c)
  PROVE  IndInv'
<1>1. PICK r \in running[c] \intersect Calls :
        /\ running' = [running EXCEPT ![c] = running[c] \ {r}]
        /\ FatalError(c) \/ NoError
        /\ call' = call \/ \E a \in {"ok", "error"} : call' = [call EXCEPT ![r] = a]
        /\ done' = done \/ done' = [done EXCEPT ![r] = done[r] \union {c}]
        /\ UNCHANGED <<connected, row, calm, dead, failures>>
  BY Zenon DEF processRequest, Reply
<1>2. r \in running[c] /\ r \in Calls /\ r \notin Conns
  BY Zenon, <1>1, FluxAssumption
<1>3. /\ BusTypeOK'
      /\ dropped' \in Nat
      /\ \A d \in Conns : inbox'[d] \subseteq inbox[d] /\ running'[d] \subseteq running[d]
      /\ GaugeCounts' /\ RowTellsOfLatest' /\ SubsMatch' /\ OneIsKicked'
  BY Zenon, <1>1, <1>2, GoroutineEnds
<1>4. call' \in [Calls -> {"new", "sent", "ok", "error", "timeout", "offline"}]
      /\ \A q \in Calls : call'[q] = "new" => call[q] = "new"
  <2>1. call \in [Calls -> {"new", "sent", "ok", "error", "timeout", "offline"}]
    BY Zenon DEF IndInv, TypeOK
  <2>2. ASSUME NEW a \in {"ok", "error"}, call' = [call EXCEPT ![r] = a]
        PROVE  call' \in [Calls -> {"new", "sent", "ok", "error", "timeout", "offline"}]
               /\ \A q \in Calls : call'[q] = "new" => call[q] = "new"
    BY <2>1, <2>2
  <2> QED
    BY Zenon, <1>1, <2>1, <2>2
<1>5. /\ done' \in [Calls -> SUBSET Conns]
      /\ \A q \in Calls, d \in Conns : d \in done'[q] => d \in done[q] \/ (d = c /\ q = r)
  <2>1. done \in [Calls -> SUBSET Conns] /\ done[r] \union {c} \in SUBSET Conns
    BY Zenon, <1>2 DEF IndInv, TypeOK
  <2>2. CASE done' = [done EXCEPT ![r] = done[r] \union {c}]
    <3>1. done'[r] = done[r] \union {c} /\ \A q \in Calls : q # r => done'[q] = done[q]
      BY Zenon, <1>2, <2>1, <2>2
    <3> QED
      BY Zenon, <2>1, <2>2, <3>1
  <2> QED
    BY Zenon, <1>1, <2>1, <2>2
<1>6. TypeOK'
  BY Zenon, <1>1, <1>3, <1>4, <1>5 DEF IndInv, TypeOK, BusTypeOK, row
<1>7. HeldOnce'
  <2>1. \A d \in Conns, q \in Calls : Holds(d, q)' => Holds(d, q)
    BY Zenon, <1>2, <1>3, <1>5 DEF Holds
  <2> QED
    BY Zenon, <1>1, <1>4, <2>1, HeldStays DEF IndInv
<1> QED
  BY Zenon, <1>3, <1>6, <1>7 DEF IndInv

\* When all is quiet there is at most one subscription: of two, one would have
\* the kick of the other before it.
LEMMA QuietIsAlone == IndInv => OneSubscription
<1> SUFFICES ASSUME IndInv, Quiet, dropped = 0, NEW c \in subs, NEW d \in subs, c # d
             PROVE  FALSE
  BY Zenon DEF OneSubscription
<1>1. /\ c \in Conns /\ d \in Conns /\ pc[c] = "waiting" /\ pc[d] = "waiting"
      /\ ~ Kicks(c, d) /\ ~ Kicks(d, c)
  BY Zenon DEF IndInv, TypeOK, Quiet, Kicks
<1> QED
  BY Zenon, <1>1 DEF IndInv, OneIsKicked

\* A request reaches every subscription there is, which is one if all is quiet.
LEMMA Inv_RequestWithContext ==
  ASSUME IndInv, NEW r \in Calls, call[r] = "new", RequestWithContext(r)
  PROVE  IndInv'
<1>1. /\ call' = [call EXCEPT ![r] = "sent"]
      /\ inbox' = [d \in Conns |-> IF d \in subs THEN inbox[d] \union {r} ELSE inbox[d]]
      /\ calm' = IF Quiet /\ dropped = 0 THEN calm \union {r} ELSE calm
      /\ UNCHANGED <<registration, row, subs, loop, running, done, dead, failures, dropped>>
  BY Zenon DEF RequestWithContext, Publish
<1>2. inbox' \in [Conns -> SUBSET Messages]
  BY Zenon, <1>1 DEF IndInv, TypeOK, Messages
<1>3. /\ call' \in [Calls -> {"new", "sent", "ok", "error", "timeout", "offline"}]
      /\ call'[r] = "sent" /\ \A q \in Calls : q # r => call'[q] = call[q]
  BY <1>1 DEF IndInv, TypeOK
<1>4. calm' \subseteq Calls /\ \A q \in Calls : q # r => (q \in calm' <=> q \in calm)
  BY Zenon, <1>1 DEF IndInv, TypeOK
<1>5. TypeOK'
  BY Zenon, <1>1, <1>2, <1>3, <1>4 DEF IndInv, TypeOK, registration, row
<1>6. GaugeCounts' /\ RowTellsOfLatest'
  BY Zenon, <1>1, OnTheBus DEF registration
<1>7. SubsMatch'
  BY Zenon, <1>1 DEF IndInv, SubsMatch, registration
<1>8. OneIsKicked'
  <2>1. \A c, d \in Conns : Kicks(c, d) => Kicks(c, d)'
    BY Zenon, <1>1 DEF Kicks
  <2> QED
    BY Zenon, <1>1, <2>1, KickStays DEF IndInv, registration
<1>9. HeldOnce'
  <2>1. \A c \in Conns, q \in Calls : q # r => (Holds(c, q)' <=> Holds(c, q))
    BY Zenon, <1>1 DEF Holds
  <2>2. \A c \in Conns : Holds(c, r)' => c \in subs
    <3>1. \A c \in Conns : ~ Holds(c, r)
      BY Zenon DEF IndInv, HeldOnce
    <3> QED
      BY Zenon, <1>1, <3>1 DEF Holds
  <2>3. ASSUME NEW q \in Calls, q # r
        PROVE  /\ call'[q] = "new" => q \notin calm' /\ \A c \in Conns : ~ Holds(c, q)'
               /\ q \in calm' => \A c, d \in Conns : Holds(c, q)' /\ Holds(d, q)' => c = d
    BY Zenon, <1>3, <1>4, <2>1, <2>3 DEF IndInv, HeldOnce
  <2>4. r \in calm' => \A c, d \in Conns : Holds(c, r)' /\ Holds(d, r)' => c = d
    <3>1. r \notin calm
      BY Zenon DEF IndInv, HeldOnce
    <3>2. r \in calm' => \A c, d \in subs : c = d
      BY Zenon, <1>1, <3>1, QuietIsAlone DEF OneSubscription
    <3> QED
      BY Zenon, <2>2, <3>2
  <2>5. call'[r] # "new"
    BY <1>3
  <2> QED
    BY Zenon, <2>3, <2>4, <2>5 DEF HeldOnce
<1> QED
  BY Zenon, <1>5, <1>6, <1>7, <1>8, <1>9 DEF IndInv

\* A caller gets its answer without the bus: the row says that nobody is there,
\* or the time is up.
LEMMA Inv_AnsweredHere ==
  ASSUME IndInv, NEW r \in Calls, NEW a \in {"offline", "timeout"},
         call' = [call EXCEPT ![r] = a],
         UNCHANGED <<registration, row, bus, done, calm, dead, failures, dropped>>
  PROVE  IndInv'
<1>1. /\ call' \in [Calls -> {"new", "sent", "ok", "error", "timeout", "offline"}]
      /\ \A q \in Calls : call'[q] = "new" => call[q] = "new"
  BY DEF IndInv, TypeOK
<1>2. TypeOK'
  BY Zenon, <1>1 DEF IndInv, TypeOK, registration, row, bus
<1>3. GaugeCounts' /\ RowTellsOfLatest'
  BY Zenon, OnTheBus DEF registration
<1>4. SubsMatch'
  BY Zenon DEF IndInv, SubsMatch, registration, bus
<1>5. OneIsKicked'
  BY Zenon, KickStays DEF IndInv, Kicks, registration, bus
<1>6. HeldOnce'
  BY Zenon, <1>1, HeldStays DEF Holds, IndInv, bus
<1> QED
  BY Zenon, <1>2, <1>3, <1>4, <1>5, <1>6 DEF IndInv

\* A daemon dies and nobody notices.
LEMMA Inv_DaemonDies ==
  ASSUME IndInv, NEW c \in Conns, DaemonDies(c)
  PROVE  IndInv'
<1>1. /\ dead' = dead \union {c}
      /\ UNCHANGED <<registration, row, bus, calls, failures, dropped>>
  BY Zenon DEF DaemonDies
<1>2. TypeOK'
  BY Zenon, <1>1 DEF IndInv, TypeOK, registration, row, bus, calls
<1>3. GaugeCounts' /\ RowTellsOfLatest'
  BY Zenon, <1>1, OnTheBus DEF registration
<1>4. SubsMatch'
  BY Zenon, <1>1 DEF IndInv, SubsMatch, registration, bus
<1>5. OneIsKicked'
  BY Zenon, <1>1, KickStays DEF IndInv, Kicks, registration, bus
<1>6. HeldOnce'
  BY Zenon, <1>1, HeldStays DEF Holds, IndInv, bus, calls
<1> QED
  BY Zenon, <1>2, <1>3, <1>4, <1>5, <1>6 DEF IndInv

\* A replica stops: the connection is gone from the bus, and the row may stay.
LEMMA Inv_Crash ==
  ASSUME IndInv, NEW c \in Conns, Crash(c)
  PROVE  IndInv'
<1>1. /\ pc[c] \notin {"new", "gone"} /\ failures' = failures + 1
      /\ pc' = [pc EXCEPT ![c] = "gone"] /\ connected' = connected - 1 /\ subs' = subs \ {c}
      /\ inbox' = [inbox EXCEPT ![c] = {}] /\ loop' = [loop EXCEPT ![c] = "returned"]
      /\ running' = [running EXCEPT ![c] = {}]
      /\ UNCHANGED <<row, calls, dead, dropped>>
  BY Zenon DEF Crash, Failed
<1>2. {} \in SUBSET running[c]
  BY Zenon
<1>3. /\ BusTypeOK'
      /\ pc'[c] = "gone" /\ \A d \in Conns : d # c => pc'[d] = pc[d]
      /\ \A d \in Conns : inbox'[d] \subseteq inbox[d] /\ running'[d] \subseteq running[d]
      /\ SubsMatch' /\ OneIsKicked'
  BY Zenon, <1>1, <1>2, Leaves
<1>4. GaugeCounts' /\ connected' \in Nat
  BY Zenon, <1>1, GaugeDown DEF IndInv
<1>5. failures' \in Nat /\ failures' # 0
  BY <1>1 DEF IndInv, TypeOK
<1>6. TypeOK'
  BY Zenon, <1>1, <1>3, <1>4, <1>5 DEF IndInv, TypeOK, BusTypeOK, row, calls
<1>7. RowTellsOfLatest'
  <2>1. recorder # None => recorder \in Conns
    BY Zenon DEF IndInv, TypeOK
  <2> QED
    BY Zenon, <1>1, <1>3, <1>5, <2>1 DEF IndInv, RowTellsOfLatest, row
<1>8. HeldOnce'
  BY Zenon, <1>1, <1>3, HeldStays DEF Holds, IndInv, calls
<1> QED
  BY Zenon, <1>3, <1>4, <1>6, <1>7, <1>8 DEF IndInv

-----------------------------------------------------------------------------
(* The theorems.                                                           *)

\* Nobody is connected and nothing is on the bus.
LEMMA InitIndInv == Init => IndInv
<1> SUFFICES ASSUME Init PROVE IndInv
  BY Zenon
<1>1. TypeOK
  BY DEF Init, TypeOK
<1>2. GaugeCounts
  <2>1. Registered = {}
    BY Zenon DEF Init, Registered
  <2> QED
    BY Zenon, <2>1, FS_EmptySet DEF Init, GaugeCounts
<1>3. RowTellsOfLatest
  BY Zenon DEF Init, RowTellsOfLatest
<1>4. SubsMatch
  BY DEF Init, SubsMatch
<1>5. OneIsKicked
  BY DEF Init, OneIsKicked
<1>6. HeldOnce
  BY Zenon DEF Init, HeldOnce, Holds
<1> QED
  BY Zenon, <1>1, <1>2, <1>3, <1>4, <1>5, <1>6 DEF IndInv

\* Every step keeps the inductive invariant.
LEMMA NextIndInv == IndInv /\ [Next]_vars => IndInv'
<1> SUFFICES ASSUME IndInv, [Next]_vars PROVE IndInv'
  BY Zenon
<1>1. ASSUME NEW c \in Conns,
             doRegister(c) \/ Connect(c) \/ ConnectFails(c) \/ Disconnect(c) \/ Crash(c)
      PROVE  IndInv'
  BY Zenon, <1>1, Inv_doRegister, Inv_Connect, Inv_ConnectFails, Inv_Disconnect, Inv_Crash
<1>2. ASSUME NEW c \in Conns,
             Subscribe(c) \/ SubscribeFails(c) \/ Kick(c) \/ Select(c) \/ ForceReconnect(c)
      PROVE  IndInv'
  BY Zenon, <1>2, Inv_Subscribe, Inv_SubscribeFails, Inv_Kick, Inv_Select, Inv_ForceReconnect
<1>3. ASSUME NEW c \in Conns,
             Deliver(c) \/ processKick(c) \/ processRequest(c) \/ DaemonDies(c)
      PROVE  IndInv'
  BY Zenon, <1>3, Inv_Deliver, Inv_processKick, Inv_processRequest, Inv_DaemonDies
<1>4. ASSUME NEW r \in Calls, CallDaemon(r) PROVE IndInv'
  BY Zenon, <1>4, Inv_RequestWithContext DEF CallDaemon
<1>5. ASSUME NEW r \in Calls, Status(r) PROVE IndInv'
  BY Zenon, <1>5, Inv_RequestWithContext, Inv_AnsweredHere DEF Status
<1>6. ASSUME NEW r \in Calls, Timeout(r) PROVE IndInv'
  BY Zenon, <1>6, Inv_AnsweredHere DEF Timeout
<1>7. CASE UNCHANGED vars
  <2>1. /\ UNCHANGED <<registration, row, bus, calls, dead, failures, dropped>>
    BY Zenon, <1>7 DEF vars
  <2>2. TypeOK'
    BY Zenon, <2>1 DEF IndInv, TypeOK, registration, row, bus, calls
  <2>3. GaugeCounts' /\ RowTellsOfLatest'
    BY Zenon, <2>1, OnTheBus DEF registration
  <2>4. SubsMatch'
    BY Zenon, <2>1 DEF IndInv, SubsMatch, registration, bus
  <2>5. OneIsKicked'
    BY Zenon, <2>1, KickStays DEF IndInv, Kicks, registration, bus
  <2>6. HeldOnce'
    BY Zenon, <2>1, HeldStays DEF Holds, IndInv, bus, calls
  <2> QED
    BY Zenon, <2>2, <2>3, <2>4, <2>5, <2>6 DEF IndInv
<1> QED
  BY Zenon, <1>1, <1>2, <1>3, <1>4, <1>5, <1>6, <1>7 DEF Next

\* The invariant holds of every behaviour.
LEMMA Invariance == Spec => []IndInv
BY InitIndInv, NextIndInv, PTL DEF Spec

\* Every variable keeps its type; the gauge in particular never falls below zero,
\* although it is counted down by whoever leaves, on any replica.
THEOREM TypeCorrect == Spec => []TypeOK
<1>1. IndInv => TypeOK
  BY Zenon DEF IndInv
<1> QED
  BY <1>1, Invariance, PTL

\* The gauge of connected daemons is the number of registrations in progress,
\* whichever way they end.
THEOREM GaugeIsRight == Spec => []GaugeCounts
<1>1. IndInv => GaugeCounts
  BY Zenon DEF IndInv
<1> QED
  BY <1>1, Invariance, PTL

\* The row tells of the connection that was recorded last, however the
\* connections of an instance overlap: a late Disconnect of an older one does not
\* mark the instance as disconnected.
THEOREM RowIsRight == Spec => []RowTellsOfLatest
<1>1. IndInv => RowTellsOfLatest
  BY Zenon DEF IndInv
<1> QED
  BY <1>1, Invariance, PTL

\* The kicks leave at most one subscription, whatever the order in which
\* connections subscribe and kick, unless a message was dropped.
THEOREM KicksLeaveOne == Spec => []OneSubscription
BY QuietIsAlone, Invariance, PTL

\* A request made when all kicks had been dealt with is executed by one daemon at
\* most, whatever happens to the connections afterwards.
THEOREM CalmIsOnce == Spec => []CalmCallOnce
<1>1. IndInv => CalmCallOnce
  <2> SUFFICES ASSUME IndInv, NEW r \in calm, NEW c \in done[r], NEW d \in done[r]
               PROVE  c = d
    BY Zenon DEF CalmCallOnce
  <2>1. r \in Calls /\ c \in Conns /\ d \in Conns
    BY Zenon DEF IndInv, TypeOK
  <2> QED
    BY Zenon, <2>1 DEF IndInv, HeldOnce, Holds
<1> QED
  BY <1>1, Invariance, PTL

=============================================================================
