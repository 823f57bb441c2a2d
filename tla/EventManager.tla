---------------------------- MODULE EventManager ----------------------------
(* The event manager (notification-eventmanager/eventmanager): requests on            *)
(* receivers and events, each a process that takes its database transactions and        *)
(* calls of other services one by one.  An event is stored, then a notification for       *)
(* every subscribed receiver goes to the queue in batches, from goroutines that           *)
(* outlive the request.                                                                    *)
EXTENDS Receivers

CONSTANTS
  Requests,                                       \* requests ever made
  MonitorType, ConfigChangedType, UserTestType,   \* names of event types the code knows
  TypeLists,                                      \* lists of types clients may send
  Files,                                          \* files of event types a replica may start with
  BatchSize,                                      \* batchSize: notifications per message batch
  Budgets                                         \* bounds on what happens, one of them for each behaviour

ASSUME EventManagerAssumption ==
  /\ {MonitorType, ConfigChangedType, UserTestType} \subseteq Names
  /\ TypeLists \subseteq SUBSET Names
  /\ \A file \in Files : DOMAIN file \subseteq Names

VARIABLES
  req,         \* request -> what it does and how far it is
  events,      \* requests whose event is in the table events
  batches,     \* batches that goroutines are about to send
  budget,      \* bound: requests, events, failed calls, batches and sockets still to come
  history      \* what the properties look back at

manager == <<req, events, batches, budget, history>>

idle == [op |-> "idle", pc |-> "idle"]
failed == [op |-> "none", pc |-> "failed"]

Origin(task) == task.op = "event" /\ task.update

(* spends one of the kind *)
Spend(kind) == budget[kind] > 0 /\ budget' = [budget EXCEPT ![kind] = @ - 1]

Fault == Spend("faults")

(* a request that has ended keeps only what it was and how it ended *)
Goto(r, pc) ==
  req' = [req EXCEPT ![r] = IF pc \in {"ok", "lost"} THEN [op |-> @.op, pc |-> pc, update |-> Origin(@)]
                            ELSE IF pc = "failed" THEN failed ELSE [@ EXCEPT !.pc = pc]]

Begin(r, task) == req[r] = idle /\ req' = [req EXCEPT ![r] = task] /\ Spend("requests") /\ UNCHANGED <<tables, events, batches, history>>

(* -------------------------- the default receiver of an instance ------------------------- *)

(* a request that uses receivers first looks whether the instance has been initialized *)
checkInstanceDefaults(r) ==
  /\ req[r].pc = "check"
  /\ \/ Goto(r, IF initialized THEN "body" ELSE "default") /\ UNCHANGED budget
     \/ Fault /\ Goto(r, "failed")
  /\ UNCHANGED <<tables, events, batches, history>>

(* the receiver is created in a transaction of its own.  An error of a statement is returned, *)
(* an error of begin or commit is not: the caller goes on without the receiver                *)
createDefaultReceiver(r) ==
  /\ req[r].pc = "default"
  /\ \/ /\ createReceiverTX(BrowserReceiver, CHOOSE a \in Addresses : TRUE)
        /\ Goto(r, "mark")
        /\ history' = [history EXCEPT !.defaults = @ + 1]
        /\ UNCHANGED <<eventTypes, initialized, budget>>
     \/ /\ Fault
        /\ \/ Goto(r, "failed") /\ UNCHANGED history
           \/ Goto(r, "mark") /\ history' = [history EXCEPT !.unsaved = TRUE]
        /\ UNCHANGED tables
  /\ UNCHANGED <<events, batches>>

(* Mutant: the instance is not marked *)
markInitializedNever(r) ==
  /\ req[r].pc = "mark"
  /\ Goto(r, "body")
  /\ UNCHANGED <<tables, events, batches, budget, history>>

(* the mark may be there already if requests raced: the duplicate key is ignored *)
markInitialized(r) ==
  /\ req[r].pc = "mark"
  /\ \/ initialized' = TRUE /\ Goto(r, "body") /\ UNCHANGED budget
     \/ Fault /\ Goto(r, "failed") /\ UNCHANGED initialized
  /\ UNCHANGED <<eventTypes, receivers, made, events, batches, history>>

(* ------------------------------- requests on receivers ---------------------------------- *)

handleListReceivers(r) == Begin(r, [op |-> "list", pc |-> "check"])

handleCreateReceiver(r) ==
  \E t \in RTypes, a \in Addresses : Begin(r, [op |-> "create", pc |-> "check", rtype |-> t, address |-> a])

handleDeleteReceiver(r) == \E id \in 1..made : Begin(r, [op |-> "delete", pc |-> "check", id |-> id])

handleUpdateReceiver(r) ==
  \E id \in 1..made, t \in RTypes, a \in Addresses, types \in TypeLists :
    Begin(r, [op |-> "update", pc |-> "check", id |-> id, rtype |-> t, address |-> a, types |-> types])

ListReceivers(r) ==
  /\ req[r].pc = "body" /\ req[r].op = "list"
  /\ Goto(r, "ok")
  /\ UNCHANGED <<tables, events, batches, budget, history>>

CreateReceiver(r) ==
  /\ req[r].pc = "body" /\ req[r].op = "create"
  /\ \/ /\ createReceiverTX(req[r].rtype, req[r].address) /\ Goto(r, "ok")
        /\ UNCHANGED <<eventTypes, initialized, budget>>
     \/ /\ Fault /\ UNCHANGED tables
        /\ Goto(r, "failed") \/ Goto(r, "ok")
  /\ UNCHANGED <<events, batches, history>>

Remove(r) ==
  /\ req[r].pc = "body" /\ req[r].op = "delete"
  /\ IF req[r].id \in DOMAIN receivers THEN DeleteReceiver(req[r].id) /\ Goto(r, "ok")
                                       ELSE UNCHANGED receivers /\ Goto(r, "failed")
  /\ UNCHANGED <<eventTypes, initialized, made, events, batches, budget, history>>

(* the receiver as it was before the update is read outside of the transaction of the update *)
GetOldReceiver(r) ==
  /\ req[r].pc = "body" /\ req[r].op = "update"
  /\ IF req[r].id \in DOMAIN receivers /\ receivers[req[r].id].rtype = req[r].rtype
     THEN req' = [req EXCEPT ![r] = [op |-> @.op, pc |-> "tx", id |-> @.id, rtype |-> @.rtype, address |-> @.address,
                                     types |-> @.types, old |-> receivers[@.id]]]
     ELSE Goto(r, "failed")
  /\ UNCHANGED <<tables, events, batches, budget, history>>

(* whether writing the new receiver over row is a change that the client can see *)
Changes(row, new) ==
  \/ row.address # new.address
  \/ LET d == diff(row.types, new.types) IN d.added \cup d.removed # {}

UpdateTX(r) ==
  LET new == req[r]
      row == receivers[new.id]
  IN  /\ new.pc = "tx"
      /\ IF new.id \in DOMAIN receivers /\ new.types \subseteq modifiable(new.rtype)
         THEN /\ UpdateReceiver(new.id, new.address, new.types)
              /\ Goto(r, "email")
              /\ history' = [history EXCEPT !.real = IF Changes(row, new) THEN @ \cup {r} ELSE @,
                                            !.stale = IF row # new.old THEN @ \cup {r} ELSE @]
         ELSE UNCHANGED <<receivers, history>> /\ Goto(r, "failed")
      /\ UNCHANGED <<eventTypes, initialized, made, events, batches, budget>>

(* the user is looked up after the update; the request is answered and a goroutine goes on *)
extractUserEmail(r) ==
  /\ req[r].pc = "email"
  /\ \/ Goto(r, "changed") /\ UNCHANGED budget
     \/ Fault /\ Goto(r, "failed")
  /\ UNCHANGED <<tables, events, batches, history>>

Raise(r, n) == [op |-> "event", pc |-> "store", type |-> n, update |-> req[r].op = "update"]

(* Mutant: an event for every update, as every save on the page sends all receivers *)
createConfigChangedEventAlways(r) ==
  /\ req[r].pc = "changed"
  /\ req' = [req EXCEPT ![r] = Raise(r, ConfigChangedType)]
  /\ UNCHANGED <<tables, events, batches, budget, history>>

createConfigChangedEvent(r) ==
  /\ req[r].pc = "changed"
  /\ \/ /\ IF Changes(req[r].old, req[r]) THEN req' = [req EXCEPT ![r] = Raise(r, ConfigChangedType)]
                                          ELSE Goto(r, "ok")
        /\ UNCHANGED budget
     \/ Fault /\ Goto(r, "lost")
  /\ UNCHANGED <<tables, events, batches, history>>

(* --------------------------------------- events ------------------------------------------ *)

(* the handlers of events look up the instance (and the user) before they store anything *)
Raised(r, names) ==
  \E n \in names : Begin(r, Raise(r, n))

handleCreateEvent(r) == Raised(r, Names \ {MonitorType, UserTestType})
handleSlackEvent(r) == Raised(r, Names)
handleWebhookEvent(r) == Raised(r, {MonitorType})
handleTestEvent(r) == Raised(r, {UserTestType})

(* an event of a type that the instance lacks the flag for is not stored, and this is no error *)
CreateEvent(r) ==
  LET n == req[r].type
  IN  /\ req[r].pc = "store"
      /\ \/ /\ n \in DOMAIN eventTypes
            /\ Goto(r, "check")
            /\ events' = IF n \in ListEventTypes THEN events \cup {r} ELSE events
            /\ UNCHANGED budget
         \/ n \notin DOMAIN eventTypes /\ Goto(r, "failed") /\ UNCHANGED <<events, budget>>
         \/ Fault /\ Goto(r, "failed") /\ UNCHANGED events
      /\ UNCHANGED <<tables, batches, history>>

getNotifications(r) ==
  {[event |-> r, id |-> id, rtype |-> receivers[id].rtype] : id \in GetReceiversForEvent(req[r].type)}

(* full batches, then the rest (the receivers are taken in the order of their ids) *)
partitionNotifications(notifs) ==
  LET before(n) == Cardinality({m \in notifs : m.id < n.id})
  IN  {{n \in notifs : before(n) \div BatchSize = k} : k \in {before(n) \div BatchSize : n \in notifs}}

sendNotificationBatchesToQueue(r) ==
  /\ req[r].pc = "body" /\ req[r].op = "event"
  /\ \/ /\ batches' = batches \cup partitionNotifications(getNotifications(r))
        /\ history' = [history EXCEPT !.notified = @ \cup getNotifications(r)]
        /\ Goto(r, "ok")
        /\ UNCHANGED budget
     \/ Fault /\ Goto(r, "failed") /\ UNCHANGED <<batches, history>>
  /\ UNCHANGED <<tables, events>>

(* ---------------------------------- replicas come and go --------------------------------- *)

(* a replica starts with a file of event types while others serve requests *)
Sync(file) ==
  /\ SyncEventTypes(file)
  /\ <<eventTypes, receivers>>' # <<eventTypes, receivers>>
  /\ history' = [history EXCEPT !.stale = @ \cup {r \in Requests : req[r].op = "update"}]
  /\ UNCHANGED <<req, events, batches, budget>>

Background(r) == req[r].pc = "changed" \/ Origin(req[r])
Finished(r) == req[r].pc \in {"idle", "ok", "failed", "lost"}

(* a replica stops: requests are finished and batches sent, but nobody waits for the events *)
(* of changed configurations                                                               *)
Shutdown ==
  /\ Fault
  /\ batches = {}
  /\ \A r \in Requests : Finished(r) \/ Background(r)
  /\ \E r \in Requests : ~Finished(r)
  /\ req' = [r \in Requests |-> IF Finished(r) THEN req[r] ELSE [req[r] EXCEPT !.pc = "lost"]]
  /\ UNCHANGED <<tables, events, batches, history>>

ManagerInit ==
  /\ \E file \in Files : TablesInit(file)
  /\ req = [r \in Requests |-> idle]
  /\ events = {} /\ batches = {} /\ budget \in Budgets
  /\ history = [defaults |-> IF initialized THEN 1 ELSE 0, unsaved |-> FALSE, real |-> {}, stale |-> {}, notified |-> {}]

Accept(r) ==
  \/ handleListReceivers(r) \/ handleCreateReceiver(r) \/ handleDeleteReceiver(r) \/ handleUpdateReceiver(r)
  \/ handleCreateEvent(r) \/ handleSlackEvent(r) \/ handleWebhookEvent(r) \/ handleTestEvent(r)

Proceed(r) ==
  \/ checkInstanceDefaults(r) \/ createDefaultReceiver(r) \/ markInitialized(r)
  \/ ListReceivers(r) \/ CreateReceiver(r) \/ Remove(r) \/ GetOldReceiver(r) \/ UpdateTX(r)
  \/ extractUserEmail(r) \/ createConfigChangedEvent(r) \/ CreateEvent(r) \/ sendNotificationBatchesToQueue(r)
=============================================================================
