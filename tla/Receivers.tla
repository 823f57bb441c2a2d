------------------------------ MODULE Receivers ------------------------------
(* The tables of the notification service and the transactions on them            *)
(* (notification-eventmanager/db/postgres): event types, the receivers of one      *)
(* instance with the event types they are subscribed to, and the mark that the      *)
(* instance has got its default receiver.  A transaction is one step; the            *)
(* operators below return the tables after it.                                        *)
EXTENDS Naturals, FiniteSets, Sequences, Functions

CONSTANTS
  Names,          \* names of event types
  RTypes,         \* receiver types
  Addresses,      \* addresses of receivers
  MaxReceivers,   \* bound: receivers ever created
  InUse,          \* receiver types of the receivers of an instance that is in use
  NoFlag,         \* an event type without a feature flag
  Flags,          \* feature flags
  InstanceFlags   \* those of the instance

ASSUME ReceiversAssumption ==
  /\ RTypes \subseteq {"browser", "email", "slack", "stackdriver", "pagerduty", "opsgenie", "opsgenie_eu"}
  /\ "browser" \in RTypes
  /\ Addresses # {}
  /\ InUse \in Seq(RTypes)

VARIABLES
  eventTypes,     \* event_types: name -> row
  receivers,      \* receivers, receiver_event_types: id -> row and its types
  initialized,    \* the instance has a row in instances_initialized
  made            \* receivers created so far

tables == <<eventTypes, receivers, initialized, made>>

BrowserReceiver == "browser"

EventType == [default: SUBSET RTypes, hide: BOOLEAN, flag: Flags \cup {NoFlag}, hiddenFor: SUBSET RTypes]
Receiver == [rtype: RTypes, address: Addresses, types: SUBSET Names]

(* a row of event_types is listed for the instance if its flag is one of the instance's *)
ListEventTypes == {n \in DOMAIN eventTypes : eventTypes[n].flag \in InstanceFlags \cup {NoFlag}}

isVisibleEvent(n) == n \in ListEventTypes /\ ~eventTypes[n].hide

(* the visible types that are new and those that are gone *)
diff(old, new) ==
  [added |-> {n \in new \ old : isVisibleEvent(n)}, removed |-> {n \in old \ new : isVisibleEvent(n)}]

(* the receiver with the types that are the default for its receiver type *)
createReceiverTX(rtype, address) ==
  /\ made < MaxReceivers
  /\ made' = made + 1
  /\ receivers' = [id \in DOMAIN receivers \cup {made + 1} |->
                     IF id \in DOMAIN receivers THEN receivers[id]
                     ELSE [rtype |-> rtype, address |-> address,
                           types |-> {n \in DOMAIN eventTypes : rtype \in eventTypes[n].default}]]

(* types that the client may ask for: neither hidden from everybody nor for this receiver type *)
modifiable(rtype) == {n \in DOMAIN eventTypes : ~eventTypes[n].hide /\ rtype \notin eventTypes[n].hiddenFor}

(* types the client does not know of: leaving them out does not remove them *)
unknownToClient == {n \in DOMAIN eventTypes : n \notin ListEventTypes \/ eventTypes[n].hide}

updatedTypes(id, types) == (receivers[id].types \cap (types \cup unknownToClient)) \cup types

UpdateReceiver(id, address, types) ==
  receivers' = [receivers EXCEPT ![id] = [@ EXCEPT !.address = address, !.types = updatedTypes(id, types)]]

DeleteReceiver(id) == receivers' = Restrict(receivers, DOMAIN receivers \ {id})

(* receivers that are subscribed to the type of an event *)
GetReceiversForEvent(n) == {id \in DOMAIN receivers : n \in receivers[id].types}

(* a row that is inserted does not get the column hidden_receiver_types *)
CreateEventType(row) == [row EXCEPT !.hiddenFor = {}]

(* rows of the file are updated or created, others stay; receivers of a default type are *)
(* subscribed to the new types                                                            *)
SyncEventTypes(file) ==
  LET new == DOMAIN file \ DOMAIN eventTypes
  IN  /\ eventTypes' = [n \in DOMAIN eventTypes \cup DOMAIN file |->
                          IF n \in new THEN CreateEventType(file[n])
                          ELSE IF n \in DOMAIN file THEN file[n] ELSE eventTypes[n]]
      /\ receivers' = [id \in DOMAIN receivers |->
                         [receivers[id] EXCEPT !.types = @ \cup {n \in new : receivers[id].rtype \in file[n].default}]]
      /\ UNCHANGED <<initialized, made>>

(* a new instance, or one with its default receiver and others of the given types *)
TablesInit(file) ==
  /\ eventTypes = [n \in DOMAIN file |-> CreateEventType(file[n])]
  /\ \E rtypes \in {<<>>, InUse} :
       /\ made = Len(rtypes)
       /\ initialized = (made > 0)
       /\ receivers = [id \in 1..made |->
                         [rtype |-> rtypes[id], address |-> CHOOSE a \in Addresses : TRUE,
                          types |-> {n \in DOMAIN file : rtypes[id] \in file[n].default}]]
=============================================================================
