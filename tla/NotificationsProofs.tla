-------------------------- MODULE NotificationsProofs --------------------------
(* What Notifications promises for any number of requests, receivers, event types,    *)
(* batches and failures: whoever passes checkInstanceDefaults finds an initialized     *)
(* instance, an event tells of an update exactly if it changed something, nobody who   *)
(* is to be notified is forgotten, and nobody is notified twice without a failure.     *)
EXTENDS Notifications, FiniteSetTheorems, TLAPS

(* ---------------------------------- the event manager ------------------------------------ *)

(* what a request is doing and the fields it has then *)
InTurn == {"check", "default", "mark", "body"}
ListTask == [op: {"list"}, pc: InTurn]
CreateTask == [op: {"create"}, pc: InTurn, rtype: RTypes, address: Addresses]
DeleteTask == [op: {"delete"}, pc: InTurn, id: Nat]
UpdateTask == [op: {"update"}, pc: InTurn, id: Nat, rtype: RTypes, address: Addresses, types: SUBSET Names]
SavedTask == [op: {"update"}, pc: {"tx", "email", "changed", "lost"}, id: Nat, rtype: RTypes, address: Addresses,
              types: SUBSET Names, old: Receiver]
EventTask == [op: {"event"}, pc: InTurn \cup {"store", "lost"}, type: Names, update: BOOLEAN]
EndedTask == [op: {"list", "create", "delete", "update", "event"}, pc: {"ok", "lost"}, update: BOOLEAN]
Task == {idle, failed} \cup ListTask \cup CreateTask \cup DeleteTask \cup UpdateTask \cup SavedTask
          \cup EventTask \cup EndedTask

Note == [event: Requests, id: Nat, rtype: RTypes]

TablesType ==
  /\ DOMAIN eventTypes \subseteq Names
  /\ made \in Nat /\ DOMAIN receivers \subseteq 1..made
  /\ \A id \in DOMAIN receivers : receivers[id] \in Receiver
  /\ initialized \in BOOLEAN

History == [defaults: Nat, unsaved: BOOLEAN, real: SUBSET Requests, stale: SUBSET Requests, notified: SUBSET Note]

ManagerType == TablesType /\ req \in [Requests -> Task] /\ history \in History

(* the instance has got its default receiver, as far as anybody can tell *)
Defaulted == history.defaults > 0 \/ history.unsaved

(* a request marks the instance after it has created the receiver, and goes on after that *)
TaskChecked(t) ==
  /\ t.pc = "mark" => Defaulted
  /\ t.pc \in {"body", "tx", "email", "changed"} => initialized

CheckedInv == (initialized => Defaulted) /\ \A r \in Requests : TaskChecked(req[r])

(* an update that is through knows whether it changed something, unless it is out of date *)
TaskChanged(r, t) ==
  /\ t.op = "idle" \/ (t.op = "update" /\ t.pc \in InTurn \cup {"tx"}) => r \notin history.real
  /\ r \notin history.stale =>
       /\ t.op = "update" /\ t.pc \in {"email", "changed"} => (r \in history.real <=> Changes(t.old, t))
       /\ t.op = "update" /\ t.pc = "ok" => r \notin history.real
       /\ Origin(t) => r \in history.real

ChangedInv == \A r \in Requests : TaskChanged(r, req[r])

ManagerInv == ManagerType /\ CheckedInv /\ ChangedInv

(* --------------------------- the batches, the queue and the sender ----------------------- *)

Worker == [message: Note, pc: {"send", "delete"}, last: BOOLEAN]
Past == [lost: SUBSET Note, refused: SUBSET Note, excused: SUBSET Note, unwritten: Nat]

SenderType ==
  /\ workers \subseteq Worker
  /\ past \in Past
  /\ \A n \in DOMAIN queue : queue[n] \in {"visible", "hidden"}
  /\ \A n \in DOMAIN delivered : delivered[n] \in Nat

Received(n) == n \in DOMAIN delivered /\ delivered[n] > 0

(* a notification is in one batch, and then perhaps in the queue; the event it tells of has been dealt with *)
BatchInv ==
  /\ \A n \in history.notified : req[n.event].op = "event" /\ req[n.event].pc = "ok"
  /\ \A b \in batches : b \subseteq history.notified /\ b \cap DOMAIN delivered = {}
  /\ \A b, c \in batches : b = c \/ b \cap c = {}
  /\ DOMAIN delivered \subseteq history.notified
  /\ DOMAIN queue \subseteq DOMAIN delivered

(* goroutines have messages of the queue; what is to be deleted has been dealt with *)
TakenInv ==
  \A w \in workers :
    w.message \in DOMAIN delivered /\ (w.pc = "delete" => w.message \in past.refused \/ Received(w.message))

(* nothing is lost on the way *)
KeptInv ==
  \A n \in history.notified :
    n \in past.lost \cup past.refused \cup DOMAIN queue \/ Received(n) \/ \E b \in batches : n \in b

(* while nothing has gone wrong with a message one goroutine at most has it, and it is hidden until that is done *)
OnceInv ==
  \A n \in DOMAIN delivered \ past.excused :
    /\ delivered[n] <= 1
    /\ n \in DOMAIN queue /\ queue[n] = "visible" => delivered[n] = 0 /\ \A w \in workers : w.message # n
    /\ \A w \in workers : w.message = n => w.last /\ n \in DOMAIN queue /\ (w.pc = "send" => delivered[n] = 0)
    /\ \A v, w \in workers : v.message = n /\ w.message = n => v = w
    /\ delivered[n] = 1 => n \notin DOMAIN queue \/ \E w \in workers : w.message = n

SenderInv == SenderType /\ BatchInv /\ TakenInv /\ KeptInv /\ OnceInv

IndInv == ManagerInv /\ SenderInv

-----------------------------------------------------------------------------
(* Tasks.                                                                   *)

(* What a request is doing follows from where it is. *)
LEMMA TaskKind ==
  ASSUME NEW t \in Task
  PROVE  /\ t.pc \in {"tx", "email", "changed"} => t \in SavedTask
         /\ t.pc = "store" => t \in EventTask
         /\ t.pc = "body" /\ t.op = "create" => t \in CreateTask
         /\ t.pc = "body" /\ t.op = "update" => t \in UpdateTask
         /\ t.pc = "body" /\ t.op = "event" => t \in EventTask
         /\ t.pc \in InTurn => t \in ListTask \cup CreateTask \cup DeleteTask \cup UpdateTask \cup EventTask
         /\ t.op = "idle" <=> t = idle
BY DEF Task, idle, failed, ListTask, CreateTask, DeleteTask, UpdateTask, SavedTask, EventTask, EndedTask, InTurn

(* A request goes on with the same task. *)
LEMMA TaskGoesOn ==
  ASSUME NEW t \in Task, t.pc \in InTurn \cup {"store"}, NEW pc \in InTurn
  PROVE  LET u == [t EXCEPT !.pc = pc] IN
         u \in Task /\ u.pc = pc /\ u.op = t.op /\ (Origin(u) <=> Origin(t))
<1>1. t \in ListTask \cup CreateTask \cup DeleteTask \cup UpdateTask \cup EventTask
  BY Zenon, TaskKind
<1>2. CASE t \in ListTask
  BY <1>2 DEF ListTask, Task, Origin
<1>3. CASE t \in CreateTask
  BY <1>3 DEF CreateTask, Task, Origin
<1>4. CASE t \in DeleteTask
  BY <1>4 DEF DeleteTask, Task, Origin
<1>5. CASE t \in UpdateTask
  BY <1>5 DEF UpdateTask, Task, Origin
<1>6. CASE t \in EventTask
  BY <1>6 DEF EventTask, Task, Origin
<1> QED
  BY Zenon, <1>1, <1>2, <1>3, <1>4, <1>5, <1>6

(* An update goes on with what it has read and what it is to write. *)
LEMMA SavedGoesOn ==
  ASSUME NEW t \in SavedTask, NEW pc \in {"email", "changed", "lost"}
  PROVE  LET u == [t EXCEPT !.pc = pc] IN
         u \in Task /\ u.pc = pc /\ u.op = "update" /\ u.old = t.old /\ u.address = t.address /\ u.types = t.types
BY DEF SavedTask, Task

(* A request ends. *)
LEMMA TaskEnds ==
  ASSUME NEW t \in Task, t.op \in {"list", "create", "delete", "update", "event"}, NEW pc \in {"ok", "lost"}
  PROVE  LET u == [op |-> t.op, pc |-> pc, update |-> Origin(t)] IN
         u \in Task /\ u.pc = pc /\ u.op = t.op /\ (Origin(u) <=> Origin(t))
<1>1. Origin(t) \in BOOLEAN
  BY DEF Origin, Task, idle, failed, ListTask, CreateTask, DeleteTask, UpdateTask, SavedTask, EventTask, EndedTask
<1> QED
  BY Zenon, <1>1 DEF Task, EndedTask, Origin

(* A request fails: nothing more is promised of it. *)
LEMMA TaskFails == failed \in Task /\ failed.pc = "failed" /\ failed.op = "none"
BY DEF Task, failed

(* Whether an update changes something depends on the event types alone. *)
LEMMA SameChanges ==
  ASSUME eventTypes' = eventTypes, NEW old, NEW new
  PROVE  Changes(old, new)' <=> Changes(old, new)
BY Zenon DEF Changes, diff, isVisibleEvent, ListEventTypes

(* One request moves and the tables and the history allow it. *)
LEMMA OneMoves ==
  ASSUME ManagerInv, NEW r \in Requests, NEW t \in Task, req' = [req EXCEPT ![r] = t],
         TablesType', history' \in History, eventTypes' = eventTypes,
         initialized => initialized', Defaulted => Defaulted', initialized' => Defaulted',
         history.stale \subseteq history'.stale,
         \A q \in Requests \ {r} : q \in history'.real <=> q \in history.real,
         TaskChecked(t)', TaskChanged(r, t)'
  PROVE  ManagerInv'
<1>1. req \in [Requests -> Task] /\ req'[r] = t /\ \A q \in Requests \ {r} : req'[q] = req[q]
  BY Zenon DEF ManagerInv, ManagerType
<1>2. ManagerType'
  BY Zenon, <1>1 DEF ManagerType
<1>3. ASSUME NEW q \in Requests PROVE TaskChecked(req[q])'
  BY Zenon, <1>1 DEF ManagerInv, CheckedInv, TaskChecked
<1>4. ASSUME NEW q \in Requests PROVE TaskChanged(q, req[q])'
  <2>1. CASE q = r
    BY Zenon, <1>1, <2>1 DEF TaskChanged, Origin, Changes, diff, isVisibleEvent, ListEventTypes
  <2>2. CASE q # r
    <3> DEFINE Differs == Changes(req[q].old, req[q])
    <3>1. req'[q] = req[q] /\ (Differs' <=> Differs)
      BY Zenon, <1>1, <2>2, SameChanges
    <3>2. TaskChanged(q, req[q]) /\ q \in Requests \ {r}
      BY Zenon, <2>2 DEF ManagerInv, ChangedInv
    <3> QED
      BY Zenon, <3>1, <3>2 DEF TaskChanged, Origin
  <2> QED
    BY Zenon, <2>1, <2>2
<1> QED
  BY Zenon, <1>2, <1>3, <1>4 DEF ManagerInv, CheckedInv, ChangedInv

-----------------------------------------------------------------------------
(* The tables.                                                              *)

(* A new receiver gets the next id and types that there are. *)
LEMMA CreateType ==
  ASSUME TablesType, NEW rtype \in RTypes, NEW address \in Addresses, createReceiverTX(rtype, address),
         UNCHANGED <<eventTypes, initialized>>
  PROVE  TablesType'
<1>1. /\ made \in Nat /\ made' = made + 1 /\ DOMAIN receivers \subseteq 1..made
      /\ DOMAIN receivers' = DOMAIN receivers \cup {made + 1}
  BY Zenon DEF TablesType, createReceiverTX
<1>2. made' \in Nat /\ DOMAIN receivers' \subseteq 1..made'
  BY <1>1
<1>3. ASSUME NEW id \in DOMAIN receivers' PROVE receivers'[id] \in Receiver
  <2>1. [rtype |-> rtype, address |-> address, types |-> {n \in DOMAIN eventTypes : rtype \in eventTypes[n].default}]
          \in Receiver
    BY DEF Receiver, TablesType
  <2> QED
    BY Zenon, <1>1, <2>1 DEF TablesType, createReceiverTX
<1> QED
  BY Zenon, <1>2, <1>3 DEF TablesType

(* A receiver that is updated keeps its type. *)
LEMMA UpdateType ==
  ASSUME TablesType, NEW id \in DOMAIN receivers, NEW address \in Addresses, NEW types \in SUBSET Names,
         UpdateReceiver(id, address, types), UNCHANGED <<eventTypes, initialized, made>>
  PROVE  TablesType'
<1>1. receivers[id] \in Receiver /\ updatedTypes(id, types) \in SUBSET Names
  BY DEF TablesType, updatedTypes, Receiver
<1>2. [receivers[id] EXCEPT !.address = address, !.types = updatedTypes(id, types)] \in Receiver
  BY Zenon, <1>1 DEF Receiver
<1>3. receivers' = [receivers EXCEPT ![id] =
                      [receivers[id] EXCEPT !.address = address, !.types = updatedTypes(id, types)]]
  BY Zenon DEF UpdateReceiver
<1> HIDE DEF UpdateReceiver
<1> QED
  BY Zenon, <1>2, <1>3 DEF TablesType

(* The other receivers stay when one is deleted. *)
LEMMA DeleteType ==
  ASSUME TablesType, NEW id, DeleteReceiver(id), UNCHANGED <<eventTypes, initialized, made>>
  PROVE  TablesType'
BY Zenon DEF TablesType, DeleteReceiver, Restrict

(* The receivers are subscribed to new types of a file. *)
LEMMA SyncType ==
  ASSUME TablesType, NEW file \in Files, SyncEventTypes(file)
  PROVE  TablesType'
<1>1. DOMAIN file \subseteq Names
  BY Zenon, EventManagerAssumption
<1>2. /\ DOMAIN eventTypes' = DOMAIN eventTypes \cup DOMAIN file
      /\ DOMAIN receivers' = DOMAIN receivers /\ UNCHANGED <<initialized, made>>
  BY Zenon DEF SyncEventTypes
<1>3. ASSUME NEW id \in DOMAIN receivers PROVE receivers'[id] \in Receiver
  <2>1. PICK types \in SUBSET Names : receivers'[id] = [receivers[id] EXCEPT !.types = @ \cup types]
    BY Zenon, <1>1, <1>3 DEF SyncEventTypes
  <2> QED
    BY <2>1 DEF TablesType, Receiver
<1> QED
  BY Zenon, <1>1, <1>2, <1>3 DEF TablesType

-----------------------------------------------------------------------------
(* Requests.                                                                *)

(* A request is accepted: it has done nothing yet. *)
LEMMA Begins ==
  ASSUME ManagerInv, NEW r \in Requests, NEW t \in Task, Begin(r, t), t.pc \in {"check", "store"}, ~ Origin(t)
  PROVE  ManagerInv'
<1>1. /\ req[r] = idle /\ req' = [req EXCEPT ![r] = t]
      /\ UNCHANGED <<eventTypes, receivers, initialized, made, history>>
  BY Zenon DEF Begin, tables
<1>2. r \notin history.real
  BY <1>1 DEF ManagerInv, ChangedInv, TaskChanged, idle
<1>3. TaskChecked(t)' /\ TaskChanged(r, t)'
  BY <1>1, <1>2 DEF TaskChecked, TaskChanged, Origin
<1>4. TablesType' /\ history' \in History
  BY Zenon, <1>1 DEF ManagerInv, ManagerType, TablesType
<1> QED
  BY Zenon, <1>1, <1>3, <1>4, OneMoves DEF ManagerInv, CheckedInv, Defaulted

(* Requests on receivers and events are accepted. *)
LEMMA ManagerAccepts ==
  ASSUME ManagerInv, NEW r \in Requests, Accept(r)
  PROVE  ManagerInv'
<1>1. CASE handleListReceivers(r)
  <2> DEFINE t == [op |-> "list", pc |-> "check"]
  <2>1. t \in Task /\ t.pc = "check" /\ ~ Origin(t)
    BY DEF Task, ListTask, InTurn, Origin
  <2> QED
    BY Zenon, <1>1, <2>1, Begins DEF handleListReceivers
<1>2. CASE handleCreateReceiver(r)
  <2>1. PICK t \in Task : Begin(r, t) /\ t.pc = "check" /\ ~ Origin(t)
    <3>1. PICK y \in RTypes, a \in Addresses : Begin(r, [op |-> "create", pc |-> "check", rtype |-> y, address |-> a])
      BY Zenon, <1>2 DEF handleCreateReceiver
    <3> DEFINE t == [op |-> "create", pc |-> "check", rtype |-> y, address |-> a]
    <3>2. t \in CreateTask
      BY DEF CreateTask, InTurn
    <3>3. t \in Task /\ t.pc = "check" /\ ~ Origin(t)
      BY <3>2 DEF Task, Origin
    <3> QED
      BY Zenon, <3>1, <3>3
  <2> QED
    BY Zenon, <2>1, Begins
<1>3. CASE handleDeleteReceiver(r)
  <2>1. PICK t \in Task : Begin(r, t) /\ t.pc = "check" /\ ~ Origin(t)
    <3>1. PICK id \in 1..made : Begin(r, [op |-> "delete", pc |-> "check", id |-> id])
      BY Zenon, <1>3 DEF handleDeleteReceiver
    <3>2. id \in Nat
      BY DEF ManagerInv, ManagerType, TablesType
    <3> DEFINE t == [op |-> "delete", pc |-> "check", id |-> id]
    <3>3. t \in DeleteTask
      BY <3>2 DEF DeleteTask, InTurn
    <3>4. t \in Task /\ t.pc = "check" /\ ~ Origin(t)
      BY <3>3 DEF Task, Origin
    <3> QED
      BY Zenon, <3>1, <3>4
  <2> QED
    BY Zenon, <2>1, Begins
<1>4. CASE handleUpdateReceiver(r)
  <2>1. PICK t \in Task : Begin(r, t) /\ t.pc = "check" /\ ~ Origin(t)
    <3>1. PICK id \in 1..made, y \in RTypes, a \in Addresses, types \in TypeLists :
            Begin(r, [op |-> "update", pc |-> "check", id |-> id, rtype |-> y, address |-> a, types |-> types])
      BY Zenon, <1>4 DEF handleUpdateReceiver
    <3>2. id \in Nat /\ types \in SUBSET Names
      BY EventManagerAssumption DEF ManagerInv, ManagerType, TablesType
    <3> DEFINE t == [op |-> "update", pc |-> "check", id |-> id, rtype |-> y, address |-> a, types |-> types]
    <3>3. t \in UpdateTask
      BY <3>2 DEF UpdateTask, InTurn
    <3>4. t \in Task /\ t.pc = "check" /\ ~ Origin(t)
      BY <3>3 DEF Task, Origin
    <3> QED
      BY Zenon, <3>1, <3>4
  <2> QED
    BY Zenon, <2>1, Begins
<1>5. CASE \E n \in Names : Begin(r, Raise(r, n))
  <2>1. PICK n \in Names : Begin(r, Raise(r, n))
    BY Zenon, <1>5
  <2>2. req[r] = idle
    BY Zenon, <2>1 DEF Begin
  <2>3. req[r].op # "update"
    BY <2>2 DEF idle
  <2>4. Raise(r, n) \in Task /\ Raise(r, n).pc = "store" /\ ~ Origin(Raise(r, n))
    BY Zenon, <2>3 DEF Raise, Task, EventTask, Origin
  <2> QED
    BY Zenon, <2>1, <2>4, Begins
<1> QED
  BY Zenon, <1>1, <1>2, <1>3, <1>4, <1>5, EventManagerAssumption
    DEF Accept, handleCreateEvent, handleSlackEvent, handleWebhookEvent, handleTestEvent, Raised

(* A request goes on to a step before the ones that write. *)
LEMMA GoesOn ==
  ASSUME ManagerInv, NEW r \in Requests, req[r].pc \in InTurn \cup {"store"}, NEW pc \in InTurn, Goto(r, pc),
         TablesType', history' \in History, eventTypes' = eventTypes,
         initialized => initialized', Defaulted => Defaulted', initialized' => Defaulted',
         history'.real = history.real, history'.stale = history.stale,
         pc = "mark" => Defaulted', pc = "body" => initialized'
  PROVE  ManagerInv'
<1>1. req[r] \in Task /\ pc \notin {"ok", "lost", "failed"}
  BY DEF ManagerInv, ManagerType, InTurn
<1>2. PICK t : t = [req[r] EXCEPT !.pc = pc]
  BY Zenon
<1>3. t \in Task /\ t.pc = pc /\ t.op = req[r].op /\ (Origin(t) <=> Origin(req[r]))
  BY Zenon, <1>1, <1>2, TaskGoesOn
<1>4. req' = [req EXCEPT ![r] = t]
  BY Zenon, <1>1, <1>2 DEF Goto
<1>5. TaskChanged(r, req[r])
  BY Zenon DEF ManagerInv, ChangedInv
<1>6. t.op = "update" => r \notin history.real
  <2>1. req[r].op = "update" => req[r].pc \in InTurn
    BY TaskKind, <1>1 DEF EventTask
  <2> QED
    BY Zenon, <1>3, <1>5, <2>1 DEF TaskChanged
<1>7. TaskChecked(t)'
  BY <1>3 DEF TaskChecked, InTurn
<1>8. TaskChanged(r, t)'
  <2>1. t.pc \notin {"email", "changed", "ok"} /\ t.op # "idle"
    BY <1>1, <1>3, TaskKind DEF InTurn, idle
  <2>2. r \notin history.stale /\ Origin(t) => r \in history.real
    BY Zenon, <1>3, <1>5 DEF TaskChanged
  <2> QED
    BY Zenon, <1>6, <2>1, <2>2 DEF TaskChanged, Origin
<1> QED
  BY Zenon, <1>3, <1>4, <1>7, <1>8, OneMoves

(* A request fails. *)
LEMMA Fails ==
  ASSUME ManagerInv, NEW r \in Requests, Goto(r, "failed"),
         UNCHANGED <<eventTypes, receivers, initialized, made, history>>
  PROVE  ManagerInv'
<1>1. req' = [req EXCEPT ![r] = failed]
  BY Zenon DEF Goto
<1>2. TaskChecked(failed)' /\ TaskChanged(r, failed)'
  BY TaskFails DEF TaskChecked, TaskChanged, Origin
<1>3. TablesType' /\ history' \in History
  BY Zenon DEF ManagerInv, ManagerType, TablesType
<1>4. PICK t : t = failed
  BY Zenon
<1>5. TaskChecked(t)' /\ TaskChanged(r, t)'
  BY Zenon, <1>2, <1>4
<1> QED
  BY Zenon, <1>1, <1>3, <1>4, <1>5, OneMoves, TaskFails DEF ManagerInv, CheckedInv, Defaulted

(* A request ends: an update that ends well has changed nothing, as its event goes on otherwise. *)
LEMMA Ends ==
  ASSUME ManagerInv, NEW r \in Requests, NEW pc \in {"ok", "lost"}, Goto(r, pc),
         req[r].op \in {"list", "create", "delete", "update", "event"},
         TablesType', history' \in History, UNCHANGED <<eventTypes, initialized>>,
         history'.real = history.real, history'.stale = history.stale, Defaulted => Defaulted',
         req[r].op = "update" /\ pc = "ok" => r \in history.stale \/ r \notin history.real
  PROVE  ManagerInv'
<1>1. req[r] \in Task
  BY Zenon DEF ManagerInv, ManagerType
<1>2. PICK t : t = [op |-> req[r].op, pc |-> pc, update |-> Origin(req[r])]
  BY Zenon
<1>3. t \in Task /\ t.pc = pc /\ t.op = req[r].op /\ (Origin(t) <=> Origin(req[r]))
  BY Zenon, <1>1, <1>2, TaskEnds
<1>4. req' = [req EXCEPT ![r] = t]
  BY Zenon, <1>2 DEF Goto
<1>5. TaskChanged(r, req[r])
  BY Zenon DEF ManagerInv, ChangedInv
<1>6. TaskChecked(t)'
  BY <1>3 DEF TaskChecked
<1>7. TaskChanged(r, t)'
  <2>1. t.pc \notin {"email", "changed", "tx"} \cup InTurn /\ t.op # "idle"
    BY <1>3 DEF InTurn
  <2>2. r \notin history.stale /\ Origin(t) => r \in history.real
    BY Zenon, <1>3, <1>5 DEF TaskChanged
  <2> QED
    BY Zenon, <1>3, <2>1, <2>2 DEF TaskChanged, Origin
<1> QED
  BY Zenon, <1>3, <1>4, <1>6, <1>7, OneMoves DEF ManagerInv, CheckedInv

(* checkInstanceDefaults and the creation of the default receiver. *)
LEMMA ManagerChecks ==
  ASSUME ManagerInv, NEW r \in Requests,
         checkInstanceDefaults(r) \/ createDefaultReceiver(r) \/ markInitialized(r)
  PROVE  ManagerInv'
<1>1. /\ TablesType /\ history \in History /\ initialized \in BOOLEAN /\ (initialized => Defaulted)
      /\ TaskChecked(req[r])
  BY Zenon DEF ManagerInv, ManagerType, TablesType, CheckedInv
<1>2. CASE Goto(r, "failed") /\ UNCHANGED <<eventTypes, receivers, initialized, made, history>>
  BY Zenon, <1>2, Fails
<1>3. CASE /\ req[r].pc = "check" /\ Goto(r, IF initialized THEN "body" ELSE "default")
           /\ UNCHANGED <<eventTypes, receivers, initialized, made, history>>
  <2>1. PICK pc \in {"body", "default"} : Goto(r, pc) /\ (pc = "body" => initialized)
    BY Zenon, <1>3
  <2>2. TablesType' /\ (Defaulted' <=> Defaulted) /\ pc \in InTurn /\ pc # "mark" /\ req[r].pc \in InTurn
    BY <1>1, <1>3 DEF TablesType, Defaulted, InTurn
  <2> QED
    BY Zenon, <1>1, <1>3, <2>1, <2>2, GoesOn
<1>4. CASE /\ req[r].pc = "default" /\ Goto(r, "mark")
           /\ createReceiverTX(BrowserReceiver, CHOOSE a \in Addresses : TRUE)
           /\ history' = [history EXCEPT !.defaults = @ + 1] /\ UNCHANGED <<eventTypes, initialized>>
  <2>1. (CHOOSE a \in Addresses : TRUE) \in Addresses /\ BrowserReceiver \in RTypes
    BY Zenon, ReceiversAssumption DEF BrowserReceiver
  <2>2. TablesType'
    BY Zenon, <1>1, <1>4, <2>1, CreateType
  <2>3. /\ history' \in History /\ history'.real = history.real /\ history'.stale = history.stale /\ Defaulted'
    BY <1>1, <1>4 DEF History, Defaulted
  <2>4. "mark" \in InTurn /\ req[r].pc \in InTurn
    BY Zenon, <1>4 DEF InTurn
  <2> QED
    BY Zenon, <1>1, <1>4, <2>2, <2>3, <2>4, GoesOn
<1>5. CASE /\ req[r].pc = "default" /\ Goto(r, "mark") /\ history' = [history EXCEPT !.unsaved = TRUE]
           /\ UNCHANGED tables
  <2>1. TablesType' /\ UNCHANGED <<eventTypes, initialized>>
    BY Zenon, <1>1, <1>5 DEF TablesType, tables
  <2>2. /\ history' \in History /\ history'.real = history.real /\ history'.stale = history.stale /\ Defaulted'
    BY Zenon, <1>1, <1>5 DEF History, Defaulted
  <2>3. "mark" \in InTurn /\ req[r].pc \in InTurn
    BY Zenon, <1>5 DEF InTurn
  <2> QED
    BY Zenon, <1>1, <1>5, <2>1, <2>2, <2>3, GoesOn
<1>6. CASE /\ req[r].pc = "mark" /\ initialized' = TRUE /\ Goto(r, "body")
           /\ UNCHANGED <<eventTypes, receivers, made, history>>
  <2>1. TablesType' /\ initialized'
    BY Zenon, <1>1, <1>6 DEF TablesType
  <2>2. Defaulted /\ Defaulted'
    BY Zenon, <1>1, <1>6 DEF TaskChecked, Defaulted
  <2>3. "body" \in InTurn /\ req[r].pc \in InTurn
    BY Zenon, <1>6 DEF InTurn
  <2> QED
    BY <1>1, <1>6, <2>1, <2>2, <2>3, GoesOn
<1> QED
  BY Zenon, <1>2, <1>3, <1>4, <1>5, <1>6 DEF checkInstanceDefaults, createDefaultReceiver, markInitialized, tables

(* Receivers are listed, created and deleted. *)
LEMMA ManagerServes ==
  ASSUME ManagerInv, NEW r \in Requests, ListReceivers(r) \/ CreateReceiver(r) \/ Remove(r)
  PROVE  ManagerInv'
<1>1. TablesType /\ history \in History /\ req[r] \in Task
  BY Zenon DEF ManagerInv, ManagerType
<1>2. /\ history' = history /\ UNCHANGED <<eventTypes, initialized>>
      /\ req[r].op \in {"list", "create", "delete"} /\ (Goto(r, "ok") \/ Goto(r, "failed"))
  BY Zenon DEF ListReceivers, CreateReceiver, Remove, tables
<1>3. Goto(r, "failed") => UNCHANGED <<eventTypes, receivers, initialized, made, history>> \/ Goto(r, "ok")
  BY Zenon, <1>2 DEF ListReceivers, CreateReceiver, Remove, tables
<1>4. CASE Goto(r, "ok")
  <2>1. TablesType'
    <3>1. CASE ListReceivers(r)
      BY Zenon, <1>1, <3>1 DEF ListReceivers, tables, TablesType
    <3>2. CASE CreateReceiver(r)
      <4>1. req[r].rtype \in RTypes /\ req[r].address \in Addresses
        BY Zenon, <1>1, <3>2, TaskKind DEF CreateReceiver, CreateTask
      <4> QED
        BY Zenon, <1>1, <3>2, <4>1, CreateType DEF CreateReceiver, tables, TablesType
    <3>3. CASE Remove(r)
      <4>1. UNCHANGED <<eventTypes, initialized, made>> /\ (UNCHANGED receivers \/ DeleteReceiver(req[r].id))
        BY Zenon, <3>3 DEF Remove
      <4> QED
        BY Zenon, <1>1, <4>1, DeleteType DEF TablesType
    <3> QED
      BY Zenon, <3>1, <3>2, <3>3
  <2>2. req[r].op # "update" /\ (Defaulted => Defaulted')
    BY <1>2 DEF Defaulted
  <2> QED
    BY Zenon, <1>1, <1>2, <1>4, <2>1, <2>2, Ends
<1>5. CASE ~ Goto(r, "ok")
  BY Zenon, <1>2, <1>3, <1>5, Fails
<1> QED
  BY Zenon, <1>4, <1>5

(* An update reads the receiver as it is. *)
LEMMA ManagerReads ==
  ASSUME ManagerInv, NEW r \in Requests, GetOldReceiver(r)
  PROVE  ManagerInv'
<1>1. /\ req[r].pc = "body" /\ req[r].op = "update" /\ req[r] \in Task
      /\ UNCHANGED <<eventTypes, receivers, initialized, made, history>>
  BY Zenon DEF GetOldReceiver, tables, ManagerInv, ManagerType
<1>2. CASE Goto(r, "failed")
  BY Zenon, <1>1, <1>2, Fails
<1>3. CASE ~ Goto(r, "failed")
  <2>1. req[r] \in UpdateTask
    BY Zenon, <1>1, TaskKind
  <2>2. receivers[req[r].id] \in Receiver
    BY Zenon, <1>3 DEF GetOldReceiver, ManagerInv, ManagerType, TablesType
  <2>3. PICK t : t = [op |-> req[r].op, pc |-> "tx", id |-> req[r].id, rtype |-> req[r].rtype,
                      address |-> req[r].address, types |-> req[r].types, old |-> receivers[req[r].id]]
    BY Zenon
  <2>4. t \in Task /\ t.op = "update" /\ t.pc = "tx"
    BY <2>1, <2>2, <2>3 DEF UpdateTask, SavedTask, Task
  <2>5. req' = [req EXCEPT ![r] = t]
    BY Zenon, <1>3, <2>3 DEF GetOldReceiver
  <2>6. r \notin history.real /\ initialized
    BY <1>1 DEF ManagerInv, CheckedInv, TaskChecked, ChangedInv, TaskChanged, InTurn
  <2>7. TaskChecked(t)' /\ TaskChanged(r, t)'
    BY <1>1, <2>4, <2>6 DEF TaskChecked, TaskChanged, Origin
  <2>8. TablesType' /\ history' \in History
    BY Zenon, <1>1 DEF ManagerInv, ManagerType, TablesType
  <2> QED
    BY Zenon, <1>1, <2>4, <2>5, <2>7, <2>8, OneMoves DEF ManagerInv, CheckedInv, Defaulted
<1> QED
  BY Zenon, <1>2, <1>3

(* An update is written: it knows from what it read before whether it changes something, unless *)
(* somebody else wrote in between.                                                              *)
LEMMA ManagerUpdates ==
  ASSUME ManagerInv, NEW r \in Requests, UpdateTX(r)
  PROVE  ManagerInv'
<1>1. /\ req[r].pc = "tx" /\ req[r] \in Task /\ TablesType /\ history \in History
      /\ UNCHANGED <<eventTypes, initialized, made>>
  BY Zenon DEF UpdateTX, ManagerInv, ManagerType
<1>2. CASE Goto(r, "failed") /\ UNCHANGED <<receivers, history>>
  BY Zenon, <1>1, <1>2, Fails
<1>3. CASE ~ (Goto(r, "failed") /\ UNCHANGED <<receivers, history>>)
  <2>1. req[r] \in SavedTask
    BY Zenon, <1>1, TaskKind
  <2>2. /\ req[r].id \in DOMAIN receivers /\ UpdateReceiver(req[r].id, req[r].address, req[r].types)
        /\ Goto(r, "email")
        /\ history' = [history EXCEPT
                         !.real = IF Changes(receivers[req[r].id], req[r]) THEN @ \cup {r} ELSE @,
                         !.stale = IF receivers[req[r].id] # req[r].old THEN @ \cup {r} ELSE @]
    BY Zenon, <1>3 DEF UpdateTX
  <2>3. PICK t : t = [req[r] EXCEPT !.pc = "email"]
    BY Zenon
  <2>4. /\ t \in Task /\ t.pc = "email" /\ t.op = "update" /\ t.old = req[r].old /\ t.address = req[r].address
        /\ t.types = req[r].types
    BY Zenon, <2>1, <2>3, SavedGoesOn
  <2>5. req' = [req EXCEPT ![r] = t]
    BY Zenon, <2>2, <2>3 DEF Goto
  <2>6. /\ history' \in History /\ history.stale \subseteq history'.stale
        /\ history'.defaults = history.defaults /\ history'.unsaved = history.unsaved
        /\ \A q \in Requests \ {r} : q \in history'.real <=> q \in history.real
        /\ r \notin history'.stale => receivers[req[r].id] = req[r].old
    BY Zenon, <1>1, <2>2 DEF History
  <2>7. r \notin history.real /\ initialized
    <3>1. req[r].op = "update"
      BY <2>1 DEF SavedTask
    <3> QED
      BY Zenon, <1>1, <3>1 DEF ManagerInv, CheckedInv, TaskChecked, ChangedInv, TaskChanged
  <2>8. r \in history'.real <=> Changes(receivers[req[r].id], req[r])
    BY <1>1, <2>2, <2>7 DEF History
  <2>9. r \notin history'.stale => (r \in history'.real <=> Changes(t.old, t))
    BY Zenon, <2>4, <2>6, <2>8 DEF Changes
  <2>10. TablesType'
    <3>1. req[r].address \in Addresses /\ req[r].types \in SUBSET Names
      BY <2>1 DEF SavedTask
    <3> QED
      BY Zenon, <1>1, <2>2, <3>1, UpdateType
  <2>11. TaskChecked(t)'
    BY <1>1, <2>4, <2>7 DEF TaskChecked
  <2>12. TaskChanged(r, t)'
    <3>1. t.pc \notin InTurn \cup {"tx", "ok"} /\ t.op # "idle" /\ ~ Origin(t)
      BY <2>4 DEF InTurn, Origin
    <3>2. Changes(t.old, t)' <=> Changes(t.old, t)
      BY Zenon, <1>1, SameChanges
    <3> QED
      BY Zenon, <2>9, <3>1, <3>2 DEF TaskChanged, Origin
  <2>13. (Defaulted' <=> Defaulted) /\ (initialized => Defaulted)
    BY <2>6 DEF Defaulted, ManagerInv, CheckedInv
  <2> QED
    BY Zenon, <1>1, <2>4, <2>5, <2>6, <2>10, <2>11, <2>12, <2>13, OneMoves
<1> QED
  BY Zenon, <1>2, <1>3

(* The user is looked up; what the update knows stays. *)
LEMMA ManagerLooksUp ==
  ASSUME ManagerInv, NEW r \in Requests, extractUserEmail(r)
  PROVE  ManagerInv'
<1>1. /\ req[r].pc = "email" /\ req[r] \in Task /\ TablesType /\ history \in History
      /\ UNCHANGED <<eventTypes, receivers, initialized, made, history>>
  BY Zenon DEF extractUserEmail, tables, ManagerInv, ManagerType
<1>2. CASE Goto(r, "failed")
  BY Zenon, <1>1, <1>2, Fails
<1>3. CASE Goto(r, "changed")
  <2>1. req[r] \in SavedTask
    BY Zenon, <1>1, TaskKind
  <2>2. PICK t : t = [req[r] EXCEPT !.pc = "changed"]
    BY Zenon
  <2>3. /\ t \in Task /\ t.pc = "changed" /\ t.op = "update" /\ t.old = req[r].old /\ t.address = req[r].address
        /\ t.types = req[r].types
    BY Zenon, <2>1, <2>2, SavedGoesOn
  <2>4. req' = [req EXCEPT ![r] = t]
    BY Zenon, <1>3, <2>2 DEF Goto
  <2>5. req[r].op = "update" /\ TaskChecked(req[r]) /\ TaskChanged(r, req[r])
    BY <2>1 DEF SavedTask, ManagerInv, CheckedInv, ChangedInv
  <2>6. r \notin history.stale => (r \in history.real <=> Changes(t.old, t))
    BY Zenon, <1>1, <2>3, <2>5 DEF TaskChanged, Changes
  <2>7. TaskChecked(t)'
    BY <1>1, <2>3, <2>5 DEF TaskChecked
  <2>8. TaskChanged(r, t)'
    <3>1. t.pc \notin InTurn \cup {"tx", "ok"} /\ t.op # "idle" /\ ~ Origin(t)
      BY <2>3 DEF InTurn, Origin
    <3>2. Changes(t.old, t)' <=> Changes(t.old, t)
      BY Zenon, <1>1, SameChanges
    <3> QED
      BY Zenon, <1>1, <2>6, <3>1, <3>2 DEF TaskChanged, Origin
  <2>9. TablesType' /\ history' \in History
    BY Zenon, <1>1 DEF TablesType
  <2> QED
    BY Zenon, <1>1, <2>3, <2>4, <2>7, <2>8, <2>9, OneMoves DEF ManagerInv, CheckedInv, Defaulted
<1> QED
  BY Zenon, <1>2, <1>3 DEF extractUserEmail

(* The event of a changed configuration is raised if the update has changed something. *)
LEMMA ManagerTells ==
  ASSUME ManagerInv, NEW r \in Requests, createConfigChangedEvent(r)
  PROVE  ManagerInv'
<1>1. /\ req[r].pc = "changed" /\ req[r] \in Task /\ TablesType /\ history \in History
      /\ UNCHANGED <<eventTypes, receivers, initialized, made, history>>
  BY Zenon DEF createConfigChangedEvent, tables, ManagerInv, ManagerType
<1>2. req[r].op = "update"
  BY <1>1, TaskKind DEF SavedTask
<1>3. r \notin history.stale => (r \in history.real <=> Changes(req[r].old, req[r]))
  BY Zenon, <1>1, <1>2 DEF ManagerInv, ChangedInv, TaskChanged
<1>4. TablesType' /\ history' \in History
  BY Zenon, <1>1 DEF TablesType
<1>5. CASE Goto(r, "lost")
  BY <1>1, <1>2, <1>4, <1>5, Ends DEF Defaulted
<1>6. CASE ~ Changes(req[r].old, req[r]) /\ Goto(r, "ok")
  BY Zenon, <1>1, <1>2, <1>3, <1>4, <1>6, Ends DEF Defaulted
<1>7. CASE Changes(req[r].old, req[r]) /\ req' = [req EXCEPT ![r] = Raise(r, ConfigChangedType)]
  <2>1. PICK t : t = Raise(r, ConfigChangedType)
    BY Zenon
  <2>2. t \in Task /\ t.op = "event" /\ t.pc = "store"
    <3>1. t = [op |-> "event", pc |-> "store", type |-> ConfigChangedType, update |-> TRUE] /\ ConfigChangedType \in Names
      BY Zenon, <1>2, <2>1, EventManagerAssumption DEF Raise
    <3> QED
      BY <3>1 DEF Task, EventTask
  <2>3. r \notin history.stale => r \in history.real
    BY Zenon, <1>3, <1>7
  <2>4. TaskChecked(t)' /\ TaskChanged(r, t)'
    BY <1>1, <2>2, <2>3 DEF TaskChecked, TaskChanged
  <2> QED
    BY Zenon, <1>1, <1>4, <1>7, <2>1, <2>2, <2>4, OneMoves DEF ManagerInv, CheckedInv, Defaulted
<1> QED
  BY Zenon, <1>5, <1>6, <1>7 DEF createConfigChangedEvent

(* An event is stored. *)
LEMMA ManagerStores ==
  ASSUME ManagerInv, NEW r \in Requests, CreateEvent(r)
  PROVE  ManagerInv'
<1>1. /\ req[r].pc = "store" /\ TablesType /\ history \in History
      /\ UNCHANGED <<eventTypes, receivers, initialized, made, history>>
  BY Zenon DEF CreateEvent, tables, ManagerInv, ManagerType
<1>2. CASE Goto(r, "failed")
  BY Zenon, <1>1, <1>2, Fails
<1>3. CASE Goto(r, "check")
  <2>1. TablesType' /\ history' \in History /\ "check" \in InTurn
    BY Zenon, <1>1 DEF TablesType, InTurn
  <2>2. (Defaulted' <=> Defaulted) /\ (initialized => Defaulted)
    BY <1>1 DEF Defaulted, ManagerInv, CheckedInv
  <2> QED
    BY Zenon, <1>1, <1>3, <2>1, <2>2, GoesOn
<1> QED
  BY Zenon, <1>2, <1>3 DEF CreateEvent

(* What is sent for an event tells a receiver of it. *)
LEMMA NotesOfEvent ==
  ASSUME TablesType, NEW r \in Requests
  PROVE  getNotifications(r) \subseteq {n \in Note : n.event = r}
<1> SUFFICES ASSUME NEW id \in GetReceiversForEvent(req[r].type)
             PROVE  [event |-> r, id |-> id, rtype |-> receivers[id].rtype] \in {n \in Note : n.event = r}
  BY Zenon DEF getNotifications
<1>1. id \in Nat /\ receivers[id].rtype \in RTypes
  BY DEF GetReceiversForEvent, TablesType, Receiver
<1> QED
  BY <1>1 DEF Note

(* The receivers of an event are collected. *)
LEMMA ManagerSends ==
  ASSUME ManagerInv, NEW r \in Requests, sendNotificationBatchesToQueue(r)
  PROVE  ManagerInv'
<1>1. /\ req[r].pc = "body" /\ req[r].op = "event" /\ TablesType /\ history \in History
      /\ UNCHANGED <<eventTypes, receivers, initialized, made>>
  BY Zenon DEF sendNotificationBatchesToQueue, tables, ManagerInv, ManagerType
<1>2. CASE Goto(r, "failed") /\ UNCHANGED history
  BY Zenon, <1>1, <1>2, Fails
<1>3. CASE Goto(r, "ok") /\ history' = [history EXCEPT !.notified = @ \cup getNotifications(r)]
  <2>1. TablesType'
    BY Zenon, <1>1 DEF TablesType
  <2>2. getNotifications(r) \subseteq Note
    BY Zenon, <1>1, NotesOfEvent
  <2>3. /\ history' \in History /\ history'.real = history.real /\ history'.stale = history.stale
        /\ (Defaulted => Defaulted')
    BY <1>1, <1>3, <2>2 DEF History, Defaulted
  <2>4. req[r].op # "update"
    BY <1>1
  <2> QED
    BY Zenon, <1>1, <1>3, <2>1, <2>3, <2>4, Ends
<1> QED
  BY Zenon, <1>2, <1>3 DEF sendNotificationBatchesToQueue

(* Event types change under updates, which are out of date from then on. *)
LEMMA ManagerSyncs ==
  ASSUME ManagerInv, NEW file \in Files, Sync(file)
  PROVE  ManagerInv'
<1>1. /\ TablesType /\ history \in History /\ SyncEventTypes(file) /\ req' = req /\ initialized' = initialized
      /\ history' = [history EXCEPT !.stale = @ \cup {r \in Requests : req[r].op = "update"}]
  BY Zenon DEF Sync, SyncEventTypes, ManagerInv, ManagerType
<1>2. TablesType'
  BY Zenon, <1>1, SyncType
<1>3. /\ history' \in History /\ history'.real = history.real
      /\ history'.stale = history.stale \cup {r \in Requests : req[r].op = "update"}
      /\ (Defaulted' <=> Defaulted)
  BY <1>1 DEF History, Defaulted
<1>4. CheckedInv'
  BY Zenon, <1>1, <1>3 DEF ManagerInv, CheckedInv, TaskChecked
<1>5. ASSUME NEW r \in Requests PROVE TaskChanged(r, req[r])'
  <2>1. TaskChanged(r, req[r])
    BY Zenon DEF ManagerInv, ChangedInv
  <2>2. req[r].op = "update" => r \in history'.stale
    BY Zenon, <1>3
  <2>3. r \in history.stale => r \in history'.stale
    BY Zenon, <1>3
  <2> QED
    BY Zenon, <1>1, <1>3, <2>1, <2>2, <2>3 DEF TaskChanged, Origin
<1> QED
  BY Zenon, <1>1, <1>2, <1>3, <1>4, <1>5 DEF ManagerInv, ManagerType, ChangedInv

(* The event of an update is given up. *)
LEMMA EventGivenUp ==
  ASSUME NEW t \in Task, Origin(t), t.pc \notin {"idle", "ok", "failed", "lost"}
  PROVE  LET u == [t EXCEPT !.pc = "lost"] IN u \in Task /\ u.pc = "lost" /\ u.op = "event"
<1>1. t \in EventTask
  BY DEF Origin, Task, idle, failed, ListTask, CreateTask, DeleteTask, UpdateTask, SavedTask, EndedTask
<1> QED
  BY <1>1 DEF EventTask, Task

(* A replica stops: what it leaves behind is marked as lost. *)
LEMMA ManagerStops ==
  ASSUME ManagerInv, Shutdown
  PROVE  ManagerInv'
<1>1. /\ TablesType /\ history \in History /\ UNCHANGED <<eventTypes, receivers, initialized, made, history>>
      /\ req \in [Requests -> Task]
      /\ req' = [r \in Requests |-> IF Finished(r) THEN req[r] ELSE [req[r] EXCEPT !.pc = "lost"]]
      /\ \A r \in Requests : Finished(r) \/ Background(r)
  BY Zenon DEF Shutdown, tables, ManagerInv, ManagerType
<1>2. ASSUME NEW r \in Requests PROVE req'[r] \in Task /\ TaskChecked(req[r])' /\ TaskChanged(r, req[r])'
  <2>1. req[r] \in Task /\ TaskChecked(req[r]) /\ TaskChanged(r, req[r])
    BY Zenon DEF ManagerInv, ManagerType, CheckedInv, ChangedInv
  <2>2. CASE Finished(r)
    <3> DEFINE Differs == Changes(req[r].old, req[r])
    <3>1. req'[r] = req[r] /\ (Differs' <=> Differs)
      BY Zenon, <1>1, <2>2, SameChanges
    <3> QED
      BY Zenon, <1>1, <2>1, <3>1 DEF TaskChecked, TaskChanged, Origin, Defaulted
  <2>3. CASE ~ Finished(r)
    <3>1. req'[r] = [req[r] EXCEPT !.pc = "lost"]
      BY Zenon, <1>1, <2>3
    <3>2. /\ req'[r] \in Task /\ req'[r].pc = "lost"
          /\ req'[r].op = "update" \/ (req'[r].op = "event" /\ Origin(req[r]))
      <4>1. CASE req[r].pc = "changed"
        <5>1. req[r] \in SavedTask
          BY Zenon, <2>1, <4>1, TaskKind
        <5>2. PICK u : u = [req[r] EXCEPT !.pc = "lost"]
          BY Zenon
        <5>3. u \in Task /\ u.pc = "lost" /\ u.op = "update"
          BY Zenon, <5>1, <5>2, SavedGoesOn
        <5> QED
          BY Zenon, <3>1, <5>2, <5>3
      <4>2. CASE Origin(req[r])
        BY Zenon, <2>1, <2>3, <3>1, <4>2, EventGivenUp DEF Finished
      <4> QED
        BY Zenon, <1>1, <2>3, <4>1, <4>2 DEF Background
    <3>3. TaskChecked(req[r])'
      BY <3>2 DEF TaskChecked
    <3>4. TaskChanged(r, req[r])'
      BY <1>1, <2>1, <3>2 DEF TaskChanged, Origin, InTurn
    <3> QED
      BY Zenon, <3>2, <3>3, <3>4
  <2> QED
    BY Zenon, <2>2, <2>3
<1>3. TablesType' /\ history' \in History /\ req' \in [Requests -> Task]
  BY Zenon, <1>1, <1>2 DEF TablesType
<1> QED
  BY Zenon, <1>1, <1>2, <1>3 DEF ManagerInv, ManagerType, CheckedInv, ChangedInv, Defaulted

(* The sender and the sockets touch nothing of the manager. *)
LEMMA ManagerRests ==
  ASSUME ManagerInv, UNCHANGED <<eventTypes, receivers, initialized, made, req, history>>
  PROVE  ManagerInv'
<1>1. ManagerType'
  BY Zenon DEF ManagerInv, ManagerType, TablesType
<1>2. CheckedInv'
  BY Zenon DEF ManagerInv, CheckedInv, TaskChecked, Defaulted
<1>3. ASSUME NEW r \in Requests PROVE TaskChanged(r, req[r])'
  <2> DEFINE Differs == Changes(req[r].old, req[r])
  <2>1. TaskChanged(r, req[r]) /\ (Differs' <=> Differs)
    BY Zenon, SameChanges DEF ManagerInv, ChangedInv
  <2> QED
    BY Zenon, <2>1 DEF TaskChanged, Origin
<1> QED
  BY Zenon, <1>1, <1>2, <1>3 DEF ManagerInv, ChangedInv

(* Every step of the manager. *)
LEMMA ManagerStep ==
  ASSUME ManagerInv, (\E r \in Requests : Accept(r) \/ Proceed(r)) \/ (\E file \in Files : Sync(file)) \/ Shutdown
  PROVE  ManagerInv'
BY Zenon, ManagerAccepts, ManagerChecks, ManagerServes, ManagerReads, ManagerUpdates, ManagerLooksUp, ManagerTells,
   ManagerStores, ManagerSends, ManagerSyncs, ManagerStops DEF Proceed

-----------------------------------------------------------------------------
(* From the manager to the queue.                                           *)

(* partitionNotifications: the batches have nothing in common and leave nothing out. *)
LEMMA Parts ==
  ASSUME NEW notifs
  PROVE  /\ \A b \in partitionNotifications(notifs) : b \subseteq notifs
         /\ \A n \in notifs : \E b \in partitionNotifications(notifs) : n \in b
         /\ \A b, c \in partitionNotifications(notifs) : b = c \/ b \cap c = {}
<1> DEFINE part(n) == Cardinality({m \in notifs : m.id < n.id}) \div BatchSize
<1>1. partitionNotifications(notifs) = {{n \in notifs : part(n) = k} : k \in {part(n) : n \in notifs}}
  BY Zenon DEF partitionNotifications
<1> HIDE DEF part
<1>2. ASSUME NEW b \in partitionNotifications(notifs)
      PROVE  b \subseteq notifs /\ \E k : b = {n \in notifs : part(n) = k}
  BY Zenon, <1>1
<1>3. ASSUME NEW n \in notifs PROVE \E b \in partitionNotifications(notifs) : n \in b
  <2>1. {m \in notifs : part(m) = part(n)} \in partitionNotifications(notifs)
    BY <1>1
  <2> QED
    BY Zenon, <2>1
<1>4. ASSUME NEW b \in partitionNotifications(notifs), NEW c \in partitionNotifications(notifs)
      PROVE  b = c \/ b \cap c = {}
  <2>1. PICK i : b = {n \in notifs : part(n) = i}
    BY Zenon, <1>2
  <2>2. PICK j : c = {n \in notifs : part(n) = j}
    BY Zenon, <1>2
  <2> QED
    BY <2>1, <2>2
<1> QED
  BY Zenon, <1>2, <1>3, <1>4

(* A request that has ended is not taken up again. *)
LEMMA EndedStays ==
  ASSUME ManagerInv, (\E r \in Requests : Accept(r) \/ Proceed(r)) \/ (\E file \in Files : Sync(file)) \/ Shutdown,
         NEW q \in Requests, req[q].pc = "ok"
  PROVE  req'[q] = req[q]
<1>1. req \in [Requests -> Task]
  BY Zenon DEF ManagerInv, ManagerType
<1>2. CASE \E r \in Requests : Accept(r)
  <2>1. PICK r \in Requests : req[r] = idle /\ \E t : req' = [req EXCEPT ![r] = t]
    BY Zenon, <1>2 DEF Accept, handleListReceivers, handleCreateReceiver, handleDeleteReceiver, handleUpdateReceiver,
      handleCreateEvent, handleSlackEvent, handleWebhookEvent, handleTestEvent, Raised, Begin
  <2>2. q # r
    BY <2>1 DEF idle
  <2> QED
    BY Zenon, <1>1, <2>1, <2>2
<1>3. CASE \E r \in Requests : Proceed(r)
  <2>1. PICK r \in Requests : Proceed(r)
    BY Zenon, <1>3
  <2>2. ASSUME NEW pc, Goto(r, pc) PROVE \E t : req' = [req EXCEPT ![r] = t]
    BY Zenon, <2>2 DEF Goto
  <2>3. \E t : req' = [req EXCEPT ![r] = t]
    BY Zenon, <2>1, <2>2 DEF Proceed, checkInstanceDefaults, createDefaultReceiver, markInitialized, ListReceivers,
      CreateReceiver, Remove, GetOldReceiver, UpdateTX, extractUserEmail, createConfigChangedEvent, CreateEvent,
      sendNotificationBatchesToQueue
  <2>4. req[r].pc # "ok"
    BY Zenon, <2>1 DEF Proceed, checkInstanceDefaults, createDefaultReceiver, markInitialized, ListReceivers,
      CreateReceiver, Remove, GetOldReceiver, UpdateTX, extractUserEmail, createConfigChangedEvent, CreateEvent,
      sendNotificationBatchesToQueue
  <2> QED
    BY Zenon, <1>1, <2>3, <2>4
<1>4. CASE Shutdown \/ \E file \in Files : Sync(file)
  BY Zenon, <1>4 DEF Shutdown, Finished, Sync
<1> QED
  BY Zenon, <1>2, <1>3, <1>4

(* What is notified, sent and received stays as it is. *)
LEMMA SenderRests ==
  ASSUME ManagerInv, SenderInv, UNCHANGED <<batches, queue, workers, delivered, past>>,
         history'.notified = history.notified, \A q \in Requests : req[q].pc = "ok" => req'[q] = req[q]
  PROVE  SenderInv'
<1>1. \A n \in history.notified : n.event \in Requests
  BY DEF ManagerInv, ManagerType, History, Note
<1>2. SenderType'
  BY Zenon DEF SenderInv, SenderType
<1>3. BatchInv'
  BY Zenon, <1>1 DEF SenderInv, BatchInv
<1>4. TakenInv' /\ KeptInv'
  BY Zenon DEF SenderInv, TakenInv, KeptInv, Received
<1>5. OnceInv'
  BY DEF SenderInv, OnceInv
<1> QED
  BY Zenon, <1>2, <1>3, <1>4, <1>5 DEF SenderInv

(* The notifications of an event are new: nothing has been sent for it before. *)
LEMMA SenderGets ==
  ASSUME ManagerInv, SenderInv, NEW r \in Requests, sendNotificationBatchesToQueue(r),
         UNCHANGED <<queue, workers, delivered, past>>
  PROVE  SenderInv'
<1>0. PICK new : new = getNotifications(r)
  BY Zenon
<1>1. /\ history \in History /\ req \in [Requests -> Task] /\ TablesType
      /\ \A q \in Requests : req[q].pc = "ok" => req'[q] = req[q]
  <2>1. Proceed(r)
    BY Zenon DEF Proceed
  <2> QED
    BY Zenon, <2>1, EndedStays DEF ManagerInv, ManagerType
<1>2. CASE UNCHANGED <<batches, history>>
  BY Zenon, <1>1, <1>2, SenderRests
<1>3. CASE /\ batches' = batches \cup partitionNotifications(new)
           /\ history' = [history EXCEPT !.notified = @ \cup new] /\ Goto(r, "ok")
  <2>1. history'.notified = history.notified \cup new /\ history.notified \subseteq Note
    BY <1>1, <1>3 DEF History
  <2>2. new \subseteq {n \in Note : n.event = r}
    BY Zenon, <1>0, <1>1, NotesOfEvent
  <2>3. new \cap history.notified = {}
    <3>1. req[r].pc # "ok"
      BY DEF sendNotificationBatchesToQueue
    <3>2. \A n \in new : n.event = r
      BY Zenon, <2>2
    <3>3. \A n \in history.notified : req[n.event].pc = "ok"
      BY Zenon DEF SenderInv, BatchInv
    <3> QED
      BY <3>1, <3>2, <3>3
  <2>4. req'[r].op = "event" /\ req'[r].pc = "ok"
    <3>1. req'[r] = [op |-> req[r].op, pc |-> "ok", update |-> Origin(req[r])] /\ req[r].op = "event"
      BY Zenon, <1>1, <1>3 DEF Goto, sendNotificationBatchesToQueue
    <3> QED
      BY <3>1
  <2>5. SenderType'
    BY Zenon DEF SenderInv, SenderType
  <2>6. \A n \in history'.notified : req'[n.event].op = "event" /\ req'[n.event].pc = "ok"
    <3>1. \A n \in history.notified : n.event \in Requests
      BY <2>1 DEF Note
    <3> QED
      BY Zenon, <1>1, <2>1, <2>2, <2>4, <3>1 DEF SenderInv, BatchInv
  <2>7. \A b \in batches' : b \subseteq history'.notified /\ b \cap DOMAIN delivered = {}
    <3>1. \A b \in partitionNotifications(new) : b \subseteq new
      BY Zenon, Parts
    <3>2. new \cap DOMAIN delivered = {}
      BY Zenon, <2>3 DEF SenderInv, BatchInv
    <3>3. \A b \in batches : b \subseteq history.notified /\ b \cap DOMAIN delivered = {}
      BY Zenon DEF SenderInv, BatchInv
    <3> QED
      BY Zenon, <1>3, <2>1, <3>1, <3>2, <3>3
  <2>8. \A b, c \in batches' : b = c \/ b \cap c = {}
    <3>1. \A b \in batches : b \subseteq history.notified
      BY Zenon DEF SenderInv, BatchInv
    <3>2. \A b \in partitionNotifications(new) : b \subseteq new
      BY Zenon, Parts
    <3>3. \A b \in batches, c \in partitionNotifications(new) : b \cap c = {}
      BY Zenon, <2>3, <3>1, <3>2
    <3>4. \A b, c \in partitionNotifications(new) : b = c \/ b \cap c = {}
      BY Zenon, Parts
    <3>5. \A b, c \in batches : b = c \/ b \cap c = {}
      BY Zenon DEF SenderInv, BatchInv
    <3> QED
      BY Zenon, <1>3, <3>3, <3>4, <3>5
  <2>9. BatchInv'
    BY Zenon, <2>1, <2>6, <2>7, <2>8 DEF SenderInv, BatchInv
  <2>10. KeptInv'
    <3>1. ASSUME NEW n \in new PROVE \E b \in batches' : n \in b
      <4>1. \E b \in partitionNotifications(new) : n \in b
        BY <3>1, Parts
      <4> QED
        BY Zenon, <1>3, <4>1
    <3>2. ASSUME NEW n \in history.notified
          PROVE  n \in past.lost \cup past.refused \cup DOMAIN queue \/ Received(n) \/ \E b \in batches' : n \in b
      BY Zenon, <1>3, <3>2 DEF SenderInv, KeptInv
    <3> QED
      BY Zenon, <2>1, <3>1, <3>2 DEF KeptInv, Received
  <2>11. TakenInv' /\ OnceInv'
    BY DEF SenderInv, OnceInv, TakenInv, Received
  <2> QED
    BY Zenon, <2>5, <2>9, <2>10, <2>11 DEF SenderInv
<1> QED
  BY Zenon, <1>0, <1>2, <1>3 DEF sendNotificationBatchesToQueue

(* Nothing else of the manager puts notifications into batches. *)
LEMMA SenderAwaits ==
  ASSUME ManagerInv, SenderInv, UNCHANGED <<queue, workers, delivered, past>>,
         (\E r \in Requests : Accept(r) \/ Proceed(r)) \/ (\E file \in Files : Sync(file)) \/ Shutdown
  PROVE  SenderInv'
<1>1. CASE \E r \in Requests : sendNotificationBatchesToQueue(r)
  BY Zenon, <1>1, SenderGets
<1>2. CASE ~ \E r \in Requests : sendNotificationBatchesToQueue(r)
  <2>1. \A q \in Requests : req[q].pc = "ok" => req'[q] = req[q]
    BY Zenon, EndedStays
  <2>2. history \in History
    BY Zenon DEF ManagerInv, ManagerType
  <2>3. ASSUME NEW r \in Requests, Accept(r) PROVE UNCHANGED <<batches, history>>
    BY Zenon, <2>3 DEF Accept, handleListReceivers, handleCreateReceiver, handleDeleteReceiver, handleUpdateReceiver,
      handleCreateEvent, handleSlackEvent, handleWebhookEvent, handleTestEvent, Raised, Begin
  <2>4. ASSUME NEW r \in Requests, Proceed(r) PROVE batches' = batches /\ history'.notified = history.notified
    <3>1. /\ batches' = batches
          /\ \/ history' = history
             \/ history' = [history EXCEPT !.defaults = @ + 1] \/ history' = [history EXCEPT !.unsaved = TRUE]
             \/ UpdateTX(r)
      BY Zenon, <1>2, <2>4 DEF Proceed, checkInstanceDefaults, createDefaultReceiver, markInitialized, ListReceivers,
        CreateReceiver, Remove, GetOldReceiver, UpdateTX, extractUserEmail, createConfigChangedEvent, CreateEvent
    <3>2. CASE UpdateTX(r)
      <4>1. \/ history' = history
            \/ \E real, stale : history' = [history EXCEPT !.real = real, !.stale = stale]
        BY Zenon, <3>2 DEF UpdateTX
      <4> QED
        BY Zenon, <2>2, <3>1, <4>1 DEF History
    <3> QED
      BY Zenon, <2>2, <3>1, <3>2 DEF History
  <2>5. ASSUME (\E file \in Files : Sync(file)) \/ Shutdown
        PROVE  batches' = batches /\ history'.notified = history.notified
    <3>1. batches' = batches /\ (history' = history \/ \E stale : history' = [history EXCEPT !.stale = stale])
      BY Zenon, <2>5 DEF Sync, Shutdown
    <3> QED
      BY Zenon, <2>2, <3>1 DEF History
  <2>6. batches' = batches /\ history'.notified = history.notified
    BY Zenon, <2>3, <2>4, <2>5
  <2> QED
    BY Zenon, <2>1, <2>6, SenderRests
<1> QED
  BY Zenon, <1>1, <1>2

-----------------------------------------------------------------------------
(* The queue and the sender.                                                *)

(* A batch is sent: what the queue accepts is there for the first time. *)
LEMMA SenderQueues ==
  ASSUME ManagerInv, SenderInv, NEW b \in batches, SendMessageBatch(b)
  PROVE  SenderInv'
<1>1. PICK accepted \in SUBSET b :
        /\ batches' = batches \ {b}
        /\ queue' = [n \in accepted \cup DOMAIN queue |-> IF n \in accepted THEN "visible" ELSE queue[n]]
        /\ delivered' = [n \in accepted \cup DOMAIN delivered |-> IF n \in accepted THEN 0 ELSE delivered[n]]
        /\ past' = [past EXCEPT !.lost = @ \cup (b \ accepted)]
        /\ UNCHANGED <<req, history, workers>>
  BY Zenon DEF SendMessageBatch
<1>2. history.notified \subseteq Note /\ b \subseteq history.notified /\ b \cap DOMAIN delivered = {} /\ past \in Past
  BY DEF ManagerInv, ManagerType, History, SenderInv, BatchInv, SenderType
<1>3. /\ past' \in Past /\ past'.refused = past.refused /\ past'.excused = past.excused
      /\ past'.lost = past.lost \cup (b \ accepted)
  BY <1>1, <1>2 DEF Past
<1>4. /\ DOMAIN queue' = accepted \cup DOMAIN queue /\ DOMAIN delivered' = accepted \cup DOMAIN delivered
      /\ \A n \in accepted : queue'[n] = "visible" /\ delivered'[n] = 0
      /\ \A n \in DOMAIN delivered : n \notin accepted /\ delivered'[n] = delivered[n]
      /\ \A n \in DOMAIN queue : n \notin accepted => queue'[n] = queue[n]
  BY Zenon, <1>1, <1>2
<1>5. SenderType'
  BY <1>1, <1>3, <1>4 DEF SenderInv, SenderType
<1>6. BatchInv'
  <2>1. \A c \in batches' : c \cap accepted = {}
    BY Zenon, <1>1 DEF SenderInv, BatchInv
  <2> QED
    BY Zenon, <1>1, <1>2, <1>4, <2>1 DEF SenderInv, BatchInv
<1>7. \A n : Received(n) => n \in DOMAIN delivered' /\ delivered'[n] > 0
  BY Zenon, <1>4 DEF Received
<1>8. TakenInv'
  BY Zenon, <1>1, <1>3, <1>4, <1>7 DEF SenderInv, TakenInv, Received
<1>9. KeptInv'
  <2>1. ASSUME NEW n \in history.notified
        PROVE  n \in past'.lost \cup past'.refused \cup DOMAIN queue' \/ Received(n) \/ \E c \in batches' : n \in c
    <3>1. CASE n \in b
      BY Zenon, <1>3, <1>4, <3>1
    <3>2. CASE n \notin b
      BY Zenon, <1>1, <1>3, <1>4, <3>2 DEF SenderInv, KeptInv
    <3> QED
      BY Zenon, <3>1, <3>2
  <2> QED
    BY Zenon, <1>1, <1>7, <2>1 DEF KeptInv, Received
<1>10. OnceInv'
  <2>1. \A w \in workers : w.message \notin accepted
    BY Zenon, <1>2 DEF SenderInv, TakenInv
  <2>2. \A n \in DOMAIN delivered : n \in DOMAIN queue' <=> n \in DOMAIN queue
    BY Zenon, <1>4
  <2> QED
    BY <1>1, <1>3, <1>4, <2>1, <2>2 DEF SenderInv, OnceInv
<1> QED
  BY Zenon, <1>5, <1>6, <1>8, <1>9, <1>10 DEF SenderInv

(* A message is received: nobody has it if nothing has gone wrong with it. *)
LEMMA SenderReceives ==
  ASSUME ManagerInv, SenderInv, NEW n \in DOMAIN queue, HandleNotification(n)
  PROVE  SenderInv'
<1> DEFINE older(w) == [w EXCEPT !.last = @ /\ w.message # n]
<1>0. PICK new : new = [message |-> n, pc |-> "send", last |-> TRUE]
  BY Zenon
<1>1. /\ queue[n] = "visible" /\ queue' = [queue EXCEPT ![n] = "hidden"]
      /\ workers' = {older(w) : w \in workers} \cup {new}
      /\ UNCHANGED <<req, history, batches, delivered, past>>
  BY Zenon, <1>0 DEF HandleNotification, manager
<1>2. n \in DOMAIN delivered /\ n \in Note
  BY DEF SenderInv, BatchInv, ManagerInv, ManagerType, History
<1>3. DOMAIN queue' = DOMAIN queue /\ queue'[n] = "hidden" /\ \A m \in DOMAIN queue \ {n} : queue'[m] = queue[m]
  BY Zenon, <1>1
<1>4. new \in Worker /\ new.message = n /\ new.pc = "send" /\ new.last
  BY <1>0, <1>2 DEF Worker
<1>5. ASSUME NEW w \in workers
      PROVE  /\ older(w) \in Worker /\ older(w).message = w.message /\ older(w).pc = w.pc
             /\ w.message # n /\ w.last => older(w).last
  <2>1. w \in Worker
    BY Zenon DEF SenderInv, SenderType
  <2> QED
    BY Zenon, <2>1 DEF Worker
<1> HIDE DEF older
<1>6. ASSUME NEW v \in workers', v # new
      PROVE  \E w \in workers : v = older(w)
  BY Zenon, <1>1, <1>6
<1>7. SenderType'
  <2>1. workers' \subseteq Worker
    BY Zenon, <1>4, <1>5, <1>6
  <2> QED
    BY Zenon, <1>1, <1>3, <2>1 DEF SenderInv, SenderType
<1>8. BatchInv'
  BY Zenon, <1>1, <1>3 DEF SenderInv, BatchInv
<1>9. TakenInv'
  <2>1. ASSUME NEW v \in workers'
        PROVE  v.message \in DOMAIN delivered /\ (v.pc = "delete" => v.message \in past.refused \/ Received(v.message))
    <3>1. CASE v = new
      BY <1>2, <1>4, <3>1
    <3>2. CASE v # new
      <4>1. PICK w \in workers : v = older(w)
        BY Zenon, <1>6, <3>2
      <4>2. v.message = w.message /\ v.pc = w.pc
        BY Zenon, <1>5, <4>1
      <4> QED
        BY Zenon, <4>2 DEF SenderInv, TakenInv
    <3> QED
      BY Zenon, <3>1, <3>2
  <2> QED
    BY Zenon, <1>1, <2>1 DEF TakenInv, Received
<1>10. KeptInv'
  BY Zenon, <1>1, <1>3 DEF SenderInv, KeptInv, Received
<1>11. OnceInv'
  <2> SUFFICES ASSUME NEW m \in DOMAIN delivered \ past.excused
               PROVE  /\ delivered[m] <= 1
                      /\ m \in DOMAIN queue /\ queue'[m] = "visible" =>
                           delivered[m] = 0 /\ \A v \in workers' : v.message # m
                      /\ \A v \in workers' : v.message = m =>
                           v.last /\ m \in DOMAIN queue /\ (v.pc = "send" => delivered[m] = 0)
                      /\ \A v, u \in workers' : v.message = m /\ u.message = m => v = u
                      /\ delivered[m] = 1 => m \notin DOMAIN queue \/ \E v \in workers' : v.message = m
    BY <1>1, <1>3 DEF OnceInv
  <2>1. /\ delivered[m] <= 1
        /\ m \in DOMAIN queue /\ queue[m] = "visible" => delivered[m] = 0 /\ \A w \in workers : w.message # m
        /\ \A w \in workers : w.message = m => w.last /\ m \in DOMAIN queue /\ (w.pc = "send" => delivered[m] = 0)
        /\ \A v, w \in workers : v.message = m /\ w.message = m => v = w
        /\ delivered[m] = 1 => m \notin DOMAIN queue \/ \E w \in workers : w.message = m
    BY Zenon DEF SenderInv, OnceInv
  <2>2. CASE m = n
    <3>1. delivered[m] = 0 /\ \A w \in workers : w.message # n
      BY Zenon, <1>1, <2>1, <2>2
    <3>2. \A v \in workers' : v.message = n => v = new
      BY Zenon, <1>5, <1>6, <3>1
    <3> QED
      BY <1>3, <1>4, <2>2, <3>1, <3>2
  <2>3. CASE m # n
    <3>1. ASSUME NEW v \in workers', v.message = m
          PROVE  \E w \in workers : v = older(w) /\ w.message = m /\ v.pc = w.pc
                                    /\ (w.last => v.last)
      <4>1. v # new
        BY Zenon, <1>4, <2>3, <3>1
      <4>2. PICK w \in workers : v = older(w)
        BY Zenon, <1>6, <4>1
      <4>3. v.message = w.message /\ v.pc = w.pc /\ (w.message # n /\ w.last => v.last)
        BY Zenon, <1>5, <4>2
      <4> QED
        BY Zenon, <2>3, <3>1, <4>2, <4>3
    <3>2. ASSUME NEW w \in workers, w.message = m
          PROVE  \E v \in workers' : v.message = m
      <4>1. PICK v \in workers' : v = older(w)
        BY <1>1
      <4> QED
        BY Zenon, <1>5, <3>2, <4>1
    <3>3. \A v \in workers' : v.message = m =>
            v.last /\ m \in DOMAIN queue /\ (v.pc = "send" => delivered[m] = 0)
      BY Zenon, <2>1, <3>1
    <3>4. ASSUME NEW v \in workers', NEW u \in workers', v.message = m, u.message = m PROVE v = u
      BY Zenon, <2>1, <3>1, <3>4
    <3>5. m \in DOMAIN queue /\ queue'[m] = "visible" => delivered[m] = 0 /\ \A v \in workers' : v.message # m
      BY Zenon, <1>3, <2>1, <2>3, <3>1
    <3>6. delivered[m] = 1 => m \notin DOMAIN queue \/ \E v \in workers' : v.message = m
      BY Zenon, <2>1, <3>2
    <3> QED
      BY Zenon, <2>1, <3>3, <3>4, <3>5, <3>6
  <2> QED
    BY Zenon, <2>2, <2>3
<1> QED
  BY Zenon, <1>7, <1>8, <1>9, <1>10, <1>11 DEF SenderInv

(* The visibility timeout passes: a message that nobody has and nothing has gone wrong with is not delivered yet. *)
LEMMA SenderTimesOut ==
  ASSUME ManagerInv, SenderInv, NEW n \in DOMAIN queue, VisibilityTimeout(n)
  PROVE  SenderInv'
<1> DEFINE busy == \E w \in workers : w.message = n
<1>1. /\ queue' = [queue EXCEPT ![n] = "visible"]
      /\ past' = IF busy THEN [past EXCEPT !.excused = @ \cup {n}] ELSE past
      /\ UNCHANGED <<req, history, batches, workers, delivered>>
  BY Zenon DEF VisibilityTimeout
<1> HIDE DEF busy
<1>2. n \in DOMAIN delivered /\ n \in Note /\ past \in Past
  BY DEF SenderInv, BatchInv, SenderType, ManagerInv, ManagerType, History
<1>3. DOMAIN queue' = DOMAIN queue /\ queue'[n] = "visible" /\ \A m \in DOMAIN queue \ {n} : queue'[m] = queue[m]
  BY Zenon, <1>1
<1>4. /\ past' \in Past /\ past'.lost = past.lost /\ past'.refused = past.refused
      /\ past.excused \subseteq past'.excused /\ (busy => n \in past'.excused)
  BY <1>1, <1>2 DEF Past
<1>5. SenderType'
  BY Zenon, <1>1, <1>3, <1>4 DEF SenderInv, SenderType
<1>6. BatchInv'
  BY Zenon, <1>1, <1>3 DEF SenderInv, BatchInv
<1>7. TakenInv'
  BY Zenon, <1>1, <1>4 DEF SenderInv, TakenInv, Received
<1>8. KeptInv'
  BY Zenon, <1>1, <1>3, <1>4 DEF SenderInv, KeptInv, Received
<1>9. OnceInv'
  <2>1. n \notin past'.excused => delivered[n] = 0 /\ \A w \in workers : w.message # n
    <3>1. ASSUME n \notin past'.excused
          PROVE  /\ delivered[n] \in Nat /\ delivered[n] <= 1 /\ delivered[n] # 1 /\ \A w \in workers : w.message # n
      BY Zenon, <1>2, <1>4, <3>1 DEF SenderInv, SenderType, OnceInv, busy
    <3> QED
      BY <3>1
  <2> QED
    BY <1>1, <1>3, <1>4, <2>1 DEF SenderInv, OnceInv
<1> QED
  BY Zenon, <1>5, <1>6, <1>7, <1>8, <1>9 DEF SenderInv

(* The services answer in one of three ways. *)
LEMMA Outcomes ==
  ASSUME NEW rtype \in RTypes, NEW outcome \in notifyHandlers(rtype)
  PROVE  outcome \in {"done", "final", "retriable"}
<1>1. rtype \in {"browser", "email", "slack", "stackdriver", "pagerduty", "opsgenie", "opsgenie_eu"}
  BY Zenon, ReceiversAssumption
<1> QED
  BY <1>1 DEF notifyHandlers, EmailSend, BrowserSend, OpsGenieSend, SlackSend, PagerDutySend, StackdriverSend

(* A message is handed to the service of its receiver: it is the first time if nothing has gone wrong with it. *)
LEMMA SenderSends ==
  ASSUME ManagerInv, SenderInv, NEW w \in workers, sendNotification(w)
  PROVE  SenderInv'
<1>1. PICK outcome \in notifyHandlers(w.message.rtype) :
        /\ workers' = (workers \ {w}) \cup (IF keptForRetry(outcome) THEN {} ELSE {[w EXCEPT !.pc = "delete"]})
        /\ IF outcome = "done" THEN delivered' = [delivered EXCEPT ![w.message] = @ + 1] /\ UNCHANGED past
                               ELSE /\ past' = IF outcome = "final" THEN [past EXCEPT !.refused = @ \cup {w.message}]
                                                                    ELSE past
                                    /\ UNCHANGED delivered
  BY Zenon DEF sendNotification
<1>2. w.pc = "send" /\ UNCHANGED <<req, history, batches, queue>>
  BY Zenon DEF sendNotification
<1>3. w \in Worker /\ w.message \in Note /\ w.message \in DOMAIN delivered /\ past \in Past
  BY DEF SenderInv, SenderType, Worker, TakenInv
<1>4. PICK n, after : n = w.message /\ after = [w EXCEPT !.pc = "delete"]
  BY Zenon
<1>5. after \in Worker /\ after.message = n /\ after.pc = "delete" /\ after.last = w.last
  BY <1>3, <1>4 DEF Worker
<1>6. workers' \subseteq (workers \ {w}) \cup {after}
  BY Zenon, <1>1, <1>4
<1>7. DOMAIN delivered' = DOMAIN delivered /\ \A m \in DOMAIN delivered \ {n} : delivered'[m] = delivered[m]
  BY Zenon, <1>1, <1>4
<1>8. delivered[n] \in Nat /\ delivered'[n] \in Nat /\ delivered'[n] >= delivered[n]
  <2>1. delivered[n] \in Nat /\ (delivered'[n] = delivered[n] \/ delivered'[n] = delivered[n] + 1)
    BY Zenon, <1>1, <1>3, <1>4 DEF SenderInv, SenderType
  <2> QED
    BY <2>1
<1>9. /\ past' \in Past /\ past'.lost = past.lost /\ past'.excused = past.excused
      /\ past.refused \subseteq past'.refused
  BY <1>1, <1>3 DEF Past
<1>10. \A m : Received(m) => m \in DOMAIN delivered' /\ delivered'[m] > 0
  <2>1. delivered[n] > 0 => delivered'[n] > 0
    BY <1>8
  <2> QED
    BY Zenon, <1>7, <2>1 DEF Received
<1>11. SenderType'
  BY Zenon, <1>2, <1>5, <1>6, <1>7, <1>8, <1>9 DEF SenderInv, SenderType
<1>12. BatchInv'
  BY Zenon, <1>2, <1>7 DEF SenderInv, BatchInv
<1>13. after \in workers' => n \in past'.refused \/ delivered'[n] > 0
  <2>1. w.message.rtype \in RTypes
    BY <1>3 DEF Note
  <2>2. outcome \in {"done", "final", "retriable"}
    BY Zenon, <2>1, Outcomes
  <2>3. CASE outcome = "done"
    <3>1. delivered'[n] = delivered[n] + 1
      BY Zenon, <1>1, <1>3, <1>4, <2>3
    <3> QED
      BY <1>8, <3>1
  <2>4. CASE outcome = "final"
    BY <1>1, <1>3, <1>4, <2>4 DEF Past
  <2>5. CASE outcome = "retriable"
    <3>1. after \in workers => n \in past.refused \/ Received(n)
      BY Zenon, <1>5 DEF SenderInv, TakenInv
    <3>2. workers' \subseteq workers
      BY Zenon, <1>1, <2>5 DEF keptForRetry
    <3> QED
      BY Zenon, <1>9, <1>10, <3>1, <3>2
  <2> QED
    BY Zenon, <2>2, <2>3, <2>4, <2>5
<1>14. TakenInv'
  BY Zenon, <1>3, <1>4, <1>5, <1>6, <1>7, <1>9, <1>10, <1>13 DEF SenderInv, TakenInv, Received
<1>15. KeptInv'
  BY Zenon, <1>2, <1>9, <1>10 DEF SenderInv, KeptInv, Received
<1>16. OnceInv'
  <2>1. ASSUME NEW m \in DOMAIN delivered \ past.excused, m # n
        PROVE  /\ delivered'[m] = delivered[m]
               /\ \A v : v.message = m => (v \in workers' <=> v \in workers)
    BY Zenon, <1>1, <1>4, <1>5, <1>7, <2>1
  <2>2. ASSUME n \notin past.excused
        PROVE  /\ n \in DOMAIN queue /\ queue[n] # "visible" /\ delivered'[n] <= 1 /\ after.last
               /\ \A v \in workers' : v.message = n => v = after
               /\ delivered'[n] = 1 => after \in workers'
    <3>1. /\ w.last /\ n \in DOMAIN queue /\ delivered[n] = 0 /\ queue[n] # "visible"
          /\ \A v \in workers : v.message = n => v = w
      BY Zenon, <1>2, <1>3, <1>4, <2>2 DEF SenderInv, OnceInv
    <3>2. \A v \in workers' : v.message = n => v = after
      BY Zenon, <1>6, <3>1
    <3>3. CASE outcome = "done"
      <4>1. delivered'[n] = delivered[n] + 1 /\ after \in workers'
        <5>1. ~ keptForRetry(outcome)
          BY <3>3 DEF keptForRetry
        <5> QED
          BY Zenon, <1>1, <1>3, <1>4, <3>3, <5>1
      <4> QED
        BY <1>5, <3>1, <3>2, <4>1
    <3>4. CASE outcome # "done"
      <4>1. delivered'[n] = 0
        BY Zenon, <1>1, <3>1, <3>4
      <4> QED
        BY <1>5, <3>1, <3>2, <4>1
    <3> QED
      BY Zenon, <3>3, <3>4
  <2> SUFFICES ASSUME NEW m \in DOMAIN delivered \ past.excused
               PROVE  /\ delivered'[m] <= 1
                      /\ m \in DOMAIN queue /\ queue[m] = "visible" =>
                           delivered'[m] = 0 /\ \A v \in workers' : v.message # m
                      /\ \A v \in workers' : v.message = m =>
                           v.last /\ m \in DOMAIN queue /\ (v.pc = "send" => delivered'[m] = 0)
                      /\ \A v, u \in workers' : v.message = m /\ u.message = m => v = u
                      /\ delivered'[m] = 1 => m \notin DOMAIN queue \/ \E v \in workers' : v.message = m
    BY <1>2, <1>7, <1>9 DEF OnceInv
  <2>3. CASE m # n
    BY <2>1, <2>3 DEF SenderInv, OnceInv
  <2>4. CASE m = n
    BY <1>5, <2>2, <2>4
  <2> QED
    BY Zenon, <2>3, <2>4
<1> QED
  BY Zenon, <1>11, <1>12, <1>14, <1>15, <1>16 DEF SenderInv

(* A message that has been dealt with is deleted: no other goroutine has it unless something went wrong. *)
LEMMA SenderDeletes ==
  ASSUME ManagerInv, SenderInv, NEW w \in workers, DeleteMessage(w)
  PROVE  SenderInv'
<1>1. w.pc = "delete" /\ workers' = workers \ {w} /\ UNCHANGED <<req, history, batches, delivered>>
  BY Zenon DEF DeleteMessage
<1>2. \/ queue' = Restrict(queue, DOMAIN queue \ {w.message}) /\ past' = past
      \/ ~ w.last /\ queue' = queue /\ past' = past
      \/ queue' = queue /\ past' = [past EXCEPT !.excused = @ \cup {w.message}]
  BY Zenon DEF DeleteMessage
<1>3. w \in Worker /\ w.message \in Note /\ w.message \in DOMAIN delivered /\ past \in Past
  BY DEF SenderInv, SenderType, Worker, TakenInv
<1>4. PICK n : n = w.message
  BY Zenon
<1>5. /\ past' \in Past /\ past'.lost = past.lost /\ past'.refused = past.refused
      /\ past.excused \subseteq past'.excused
  BY <1>2, <1>3 DEF Past
<1>6. /\ DOMAIN queue' \subseteq DOMAIN queue /\ DOMAIN queue \ {n} \subseteq DOMAIN queue'
      /\ \A m \in DOMAIN queue' : queue'[m] = queue[m]
  BY Zenon, <1>2, <1>4 DEF Restrict
<1>7. n \notin past'.excused => n \notin past.excused /\ (n \notin DOMAIN queue' \/ ~ w.last)
  <2>1. CASE queue' = Restrict(queue, DOMAIN queue \ {w.message}) /\ past' = past
    BY Zenon, <1>4, <2>1 DEF Restrict
  <2>2. CASE past' = [past EXCEPT !.excused = @ \cup {w.message}]
    BY <1>3, <1>4, <2>2 DEF Past
  <2> QED
    BY Zenon, <1>2, <2>1, <2>2
<1>8. SenderType'
  BY Zenon, <1>1, <1>5, <1>6 DEF SenderInv, SenderType
<1>9. BatchInv'
  BY Zenon, <1>1, <1>6 DEF SenderInv, BatchInv
<1>10. TakenInv'
  BY Zenon, <1>1, <1>5 DEF SenderInv, TakenInv, Received
<1>11. KeptInv'
  <2>1. n \in past.refused \/ Received(n)
    BY Zenon, <1>1, <1>4 DEF SenderInv, TakenInv
  <2> QED
    BY Zenon, <1>1, <1>5, <1>6, <2>1 DEF SenderInv, KeptInv, Received
<1>12. OnceInv'
  <2>1. n \notin past'.excused => n \notin DOMAIN queue' /\ \A v \in workers' : v.message # n
    BY Zenon, <1>1, <1>3, <1>4, <1>7 DEF SenderInv, OnceInv
  <2>2. \A m \in DOMAIN delivered \ {n} : /\ m \in DOMAIN queue' <=> m \in DOMAIN queue
                                          /\ \A v : v.message = m => (v \in workers' <=> v \in workers)
    BY Zenon, <1>1, <1>4, <1>6
  <2>3. \A m \in DOMAIN delivered \ past'.excused : delivered[m] <= 1
    BY Zenon, <1>5 DEF SenderInv, OnceInv
  <2> SUFFICES ASSUME NEW m \in DOMAIN delivered \ past'.excused
               PROVE  /\ delivered[m] <= 1
                      /\ m \in DOMAIN queue' /\ queue'[m] = "visible" =>
                           delivered[m] = 0 /\ \A v \in workers' : v.message # m
                      /\ \A v \in workers' : v.message = m =>
                           v.last /\ m \in DOMAIN queue' /\ (v.pc = "send" => delivered[m] = 0)
                      /\ \A v, u \in workers' : v.message = m /\ u.message = m => v = u
                      /\ delivered[m] = 1 => m \notin DOMAIN queue' \/ \E v \in workers' : v.message = m
    BY <1>1 DEF OnceInv
  <2>4. CASE m = n
    BY Zenon, <2>1, <2>3, <2>4
  <2>5. CASE m # n
    BY <1>5, <1>6, <2>2, <2>5 DEF SenderInv, OnceInv
  <2> QED
    BY Zenon, <2>4, <2>5
<1> QED
  BY Zenon, <1>8, <1>9, <1>10, <1>11, <1>12 DEF SenderInv

(* The sender is killed: something has gone wrong with what its goroutines had. *)
LEMMA SenderDies ==
  ASSUME ManagerInv, SenderInv, SenderCrash
  PROVE  SenderInv'
<1>1. /\ past' = [past EXCEPT !.excused = @ \cup {w.message : w \in workers}] /\ workers' = {}
      /\ UNCHANGED <<req, history, batches, queue, delivered>>
  BY Zenon DEF SenderCrash
<1>2. past \in Past /\ {w.message : w \in workers} \subseteq Note
  BY DEF SenderInv, SenderType, Worker
<1>3. /\ past' \in Past /\ past'.lost = past.lost /\ past'.refused = past.refused
      /\ past'.excused = past.excused \cup {w.message : w \in workers}
  BY <1>1, <1>2 DEF Past
<1>4. SenderType'
  BY Zenon, <1>1, <1>3 DEF SenderInv, SenderType
<1>5. BatchInv' /\ TakenInv'
  BY Zenon, <1>1 DEF SenderInv, BatchInv, TakenInv
<1>6. KeptInv'
  BY Zenon, <1>1, <1>3 DEF SenderInv, KeptInv, Received
<1>7. OnceInv'
  BY <1>1, <1>3 DEF SenderInv, OnceInv
<1> QED
  BY Zenon, <1>4, <1>5, <1>6, <1>7 DEF SenderInv

(* Websockets come and go: the queue does not know of them. *)
LEMMA SenderServesSockets ==
  ASSUME ManagerInv, SenderInv, NEW s \in Sockets, Socket(s)
  PROVE  ManagerInv' /\ SenderInv'
<1>1. socketsOnly /\ (past' = past \/ past' = [past EXCEPT !.unwritten = @ + 1])
  BY Zenon DEF Socket, HandleBrowserNotifications, Upgrade, WriteMessage, SocketClosed
<1>2. /\ UNCHANGED <<eventTypes, receivers, initialized, made, req, history>>
      /\ UNCHANGED <<batches, queue, workers, delivered>>
  BY Zenon, <1>1 DEF socketsOnly, tables
<1>3. past \in Past
  BY Zenon DEF SenderInv, SenderType
<1>4. past' \in Past /\ past'.lost = past.lost /\ past'.refused = past.refused /\ past'.excused = past.excused
  BY <1>1, <1>3 DEF Past
<1>5. ManagerInv'
  BY Zenon, <1>2, ManagerRests
<1>6. SenderType' /\ BatchInv'
  BY Zenon, <1>2, <1>4 DEF SenderInv, SenderType, BatchInv
<1>7. TakenInv' /\ KeptInv'
  BY Zenon, <1>2, <1>4 DEF SenderInv, TakenInv, KeptInv, Received
<1>8. OnceInv'
  BY <1>2, <1>4 DEF SenderInv, OnceInv
<1> QED
  BY Zenon, <1>5, <1>6, <1>7, <1>8 DEF SenderInv

-----------------------------------------------------------------------------
(* The invariant.                                                           *)

(* A new instance, or one in use, before any request. *)
LEMMA InitIndInv ==
  ASSUME Init
  PROVE  IndInv
<1>1. /\ req = [r \in Requests |-> idle] /\ batches = {}
      /\ history = [defaults |-> IF initialized THEN 1 ELSE 0, unsaved |-> FALSE, real |-> {}, stale |-> {},
                    notified |-> {}]
  BY Zenon DEF Init, ManagerInit
<1>2. TablesType
  <2>1. PICK file \in Files : TablesInit(file)
    BY Zenon DEF Init, ManagerInit
  <2>2. DOMAIN file \subseteq Names
    BY Zenon, EventManagerAssumption
  <2>3. PICK rtypes \in {<<>>, InUse} :
          /\ made = Len(rtypes) /\ initialized = (made > 0)
          /\ receivers = [id \in 1..made |->
                            [rtype |-> rtypes[id], address |-> CHOOSE a \in Addresses : TRUE,
                             types |-> {n \in DOMAIN file : rtypes[id] \in file[n].default}]]
    BY Zenon, <2>1 DEF TablesInit
  <2>4. rtypes \in Seq(RTypes) /\ (CHOOSE a \in Addresses : TRUE) \in Addresses
    <3>1. (CHOOSE a \in Addresses : TRUE) \in Addresses
      BY Zenon, ReceiversAssumption
    <3>2. << >> \in Seq(RTypes) /\ InUse \in Seq(RTypes)
      BY ReceiversAssumption
    <3> QED
      BY Zenon, <3>1, <3>2
  <2>5. made \in Nat /\ initialized \in BOOLEAN /\ \A id \in 1..made : rtypes[id] \in RTypes
    BY <2>3, <2>4
  <2>6. DOMAIN receivers = 1..made
    BY Zenon, <2>3
  <2>7. ASSUME NEW id \in DOMAIN receivers PROVE receivers[id] \in Receiver
    BY <2>2, <2>3, <2>4, <2>5, <2>6, <2>7 DEF Receiver
  <2>8. DOMAIN eventTypes \subseteq Names
    BY Zenon, <2>1, <2>2 DEF TablesInit
  <2> QED
    BY Zenon, <2>5, <2>6, <2>7, <2>8 DEF TablesType
<1>3. history \in History /\ (initialized => Defaulted) /\ history.real = {} /\ history.notified = {}
  BY <1>1 DEF History, Defaulted
<1>4. \A r \in Requests : req[r] = idle
  BY Zenon, <1>1
<1>5. idle \in Task /\ idle.op = "idle" /\ idle.pc = "idle"
  BY DEF idle, Task
<1>6. ManagerType
  BY Zenon, <1>1, <1>2, <1>3, <1>5 DEF ManagerType
<1>7. CheckedInv
  BY <1>3, <1>4, <1>5 DEF CheckedInv, TaskChecked
<1>8. ChangedInv
  BY <1>3, <1>4, <1>5 DEF ChangedInv, TaskChanged, Origin
<1>9. SenderInv
  <2>1. /\ DOMAIN queue = {} /\ DOMAIN delivered = {} /\ workers = {}
        /\ past = [lost |-> {}, refused |-> {}, excused |-> {}, unwritten |-> 0]
    BY Zenon DEF Init, SenderInit
  <2>2. past \in Past
    BY <2>1 DEF Past
  <2>3. SenderType
    BY Zenon, <2>1, <2>2 DEF SenderType
  <2>4. BatchInv /\ TakenInv /\ KeptInv /\ OnceInv
    BY Zenon, <1>1, <1>3, <2>1 DEF BatchInv, TakenInv, KeptInv, OnceInv
  <2> QED
    BY Zenon, <2>3, <2>4 DEF SenderInv
<1> QED
  BY Zenon, <1>6, <1>7, <1>8, <1>9 DEF IndInv, ManagerInv

(* Every step of the manager, of the sender and of the websockets. *)
LEMMA NextIndInv ==
  ASSUME IndInv, [Next]_vars
  PROVE  IndInv'
<1> USE DEF IndInv
<1>1. CASE Manage \/ Replica \/ \E r \in Requests : Continue(r)
  <2>1. /\ (\E r \in Requests : Accept(r) \/ Proceed(r)) \/ (\E file \in Files : Sync(file)) \/ Shutdown
        /\ UNCHANGED <<queue, workers, delivered, past>>
    BY Zenon, <1>1 DEF Manage, Replica, Continue, sender
  <2> QED
    BY Zenon, <2>1, ManagerStep, SenderAwaits
<1>2. CASE \E b \in batches : SendMessageBatch(b)
  <2>1. UNCHANGED <<eventTypes, receivers, initialized, made, req, history>>
    BY Zenon, <1>2 DEF SendMessageBatch, tables
  <2> QED
    BY Zenon, <1>2, <2>1, ManagerRests, SenderQueues
<1>3. CASE \E n \in DOMAIN queue : HandleNotification(n) \/ VisibilityTimeout(n)
  <2>1. UNCHANGED <<eventTypes, receivers, initialized, made, req, history>>
    BY Zenon, <1>3 DEF HandleNotification, VisibilityTimeout, tables, manager
  <2> QED
    BY Zenon, <1>3, <2>1, ManagerRests, SenderReceives, SenderTimesOut
<1>4. CASE \E w \in workers : sendNotification(w) \/ DeleteMessage(w)
  <2>1. UNCHANGED <<eventTypes, receivers, initialized, made, req, history>>
    BY Zenon, <1>4 DEF sendNotification, DeleteMessage, tables
  <2> QED
    BY Zenon, <1>4, <2>1, ManagerRests, SenderSends, SenderDeletes
<1>5. CASE SenderCrash
  <2>1. UNCHANGED <<eventTypes, receivers, initialized, made, req, history>>
    BY Zenon, <1>5 DEF SenderCrash, tables
  <2> QED
    BY Zenon, <1>5, <2>1, ManagerRests, SenderDies
<1>6. CASE \E s \in Sockets : Socket(s)
  BY Zenon, <1>6, SenderServesSockets
<1>7. CASE UNCHANGED vars
  <2>1. /\ UNCHANGED <<eventTypes, receivers, initialized, made, req, history>>
        /\ UNCHANGED <<batches, queue, workers, delivered, past>>
    BY Zenon, <1>7 DEF vars, tables, manager, sender
  <2> QED
    BY Zenon, <2>1, ManagerRests, SenderRests
<1> QED
  BY Zenon, <1>1, <1>2, <1>3, <1>4, <1>5, <1>6, <1>7 DEF Next, SendBatch, Work

(* The invariant holds throughout. *)
LEMMA Invariance == Spec => []IndInv
<1>1. Init => IndInv
  BY Zenon, InitIndInv
<1>2. IndInv /\ [Next]_vars => IndInv'
  BY Zenon, NextIndInv
<1> QED
  BY <1>1, <1>2, PTL DEF Spec

-----------------------------------------------------------------------------
(* What the notification service promises.                                 *)

(* checkInstanceDefaults, for any number of racing requests and failing calls: whoever goes on after it finds *)
(* the instance marked, and its default receiver created as far as createReceiverTX tells.                    *)
THEOREM CheckedRightly == Spec => []CheckedIsInitialized
<1>1. IndInv => CheckedIsInitialized
  BY Zenon DEF IndInv, ManagerInv, CheckedInv, TaskChecked, Defaulted, CheckedIsInitialized
<1> QED
  BY <1>1, Invariance, PTL

(* handleUpdateReceiver, for any receivers, event types and lists of them: an event tells of an update that *)
(* has gone through exactly if it changed something that can be seen, unless it was out of date.            *)
THEOREM ReportedRightly == Spec => []ChangeIsReported
<1>1. IndInv => ChangeIsReported
  BY Zenon DEF IndInv, ManagerInv, ChangedInv, TaskChanged, Origin, ChangeIsReported
<1> QED
  BY <1>1, Invariance, PTL

(* sendNotificationBatchesToQueue, for any batch size and number of receivers: a notification is in one batch, *)
(* in the queue, delivered, refused, or lost with a batch that the queue did not take.                          *)
THEOREM NoneForgotten == Spec => []NobodyForgotten
<1>1. ASSUME IndInv PROVE NobodyForgotten
  <2>1. ASSUME NEW n, NEW b \in batches, n \in b PROVE Cardinality({c \in batches : n \in c}) = 1
    <3>1. {c \in batches : n \in c} = {b}
      <4>1. \A c \in batches : c = b \/ c \cap b = {}
        BY Zenon, <1>1 DEF IndInv, SenderInv, BatchInv
      <4> QED
        BY <2>1, <4>1
    <3> QED
      BY <3>1, FS_Singleton
  <2> QED
    BY Zenon, <1>1, <2>1 DEF IndInv, SenderInv, KeptInv, Received, NobodyForgotten
<1> QED
  BY <1>1, Invariance, PTL

(* sendNotification, for any number of messages and goroutines: what is delivered twice was being sent when *)
(* its timeout passed, could not be deleted, or was in hand when the sender was killed.                     *)
THEOREM TwiceRightly == Spec => []TwiceOnlyByFailure
<1>1. ASSUME IndInv PROVE TwiceOnlyByFailure
  BY <1>1 DEF IndInv, SenderInv, SenderType, OnceInv, TwiceOnlyByFailure
<1> QED
  BY <1>1, Invariance, PTL

=============================================================================
