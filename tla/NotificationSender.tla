-------------------------- MODULE NotificationSender --------------------------
(* The notification sender (notification-sender) and the queue it reads.  A           *)
(* message that is received is hidden for the visibility timeout; a goroutine hands     *)
(* it to the service of its receiver type and deletes it, unless the error is one       *)
(* that is worth a retry.  Notifications for browsers are published to the websockets   *)
(* of the instance.                                                                      *)
EXTENDS EventManager

CONSTANTS
  Sockets,      \* websocket connections ever made
  ChanCap       \* capacity of the channel of a subscription

VARIABLES
  queue,        \* message -> "visible" or "hidden"
  workers,      \* goroutines: the message, what is next, and whether its receipt is the last one
  delivered,    \* message -> times the receiver has got it
  sockets,      \* socket -> state of its handler and its channel
  active,       \* the gauge websocketsActive
  past          \* what the properties look back at

sender == <<queue, workers, delivered, sockets, active, past>>

Perhaps(fails, left) == IF fails THEN left.faults > 0 /\ budget' = [left EXCEPT !.faults = @ - 1] ELSE budget' = left

(* ------------------------------------- the queue ----------------------------------------- *)

(* a batch is sent: the call fails, or the queue accepts some of its entries; nobody looks at *)
(* those it does not accept                                                                   *)
SendMessageBatch(b) ==
  \E accepted \in SUBSET b :
    /\ b \in batches
    /\ batches' = batches \ {b}
    /\ budget.sends > 0 /\ Perhaps(accepted # b, [budget EXCEPT !.sends = @ - 1])
    /\ queue' = [n \in accepted \cup DOMAIN queue |-> IF n \in accepted THEN "visible" ELSE queue[n]]
    /\ delivered' = [n \in accepted \cup DOMAIN delivered |-> IF n \in accepted THEN 0 ELSE delivered[n]]
    /\ past' = [past EXCEPT !.lost = @ \cup (b \ accepted)]
    /\ UNCHANGED <<tables, req, events, history, workers, sockets, active>>

(* Mutant: there is no handler for the receiver type *)
HandleNotificationUnknown(n) ==
  /\ n \in DOMAIN queue /\ queue[n] = "visible"
  /\ queue' = [queue EXCEPT ![n] = "hidden"]
  /\ UNCHANGED <<tables, manager, workers, delivered, sockets, active, past>>

(* a message is received, hidden and given to a goroutine *)
HandleNotification(n) ==
  /\ n \in DOMAIN queue /\ queue[n] = "visible"
  /\ queue' = [queue EXCEPT ![n] = "hidden"]
  /\ workers' = {[w EXCEPT !.last = @ /\ w.message # n] : w \in workers} \cup {[message |-> n, pc |-> "send", last |-> TRUE]}
  /\ UNCHANGED <<tables, manager, delivered, sockets, active, past>>

(* the visibility timeout passes, whether the message is still being sent or not *)
VisibilityTimeout(n) ==
  /\ n \in DOMAIN queue /\ queue[n] = "hidden"
  /\ LET busy == \E w \in workers : w.message = n
     IN  /\ Perhaps(busy, budget)
         /\ past' = IF busy THEN [past EXCEPT !.excused = @ \cup {n}] ELSE past
  /\ queue' = [queue EXCEPT ![n] = "visible"]
  /\ UNCHANGED <<tables, req, events, batches, history, workers, delivered, sockets, active>>

(* ------------------------------- the services of receivers ------------------------------- *)

(* how a call may end: the receiver has the message, the error is final, or it is worth a retry *)
EmailSend == {"done", "final"}
BrowserSend == {"done", "final"}
OpsGenieSend == {"done", "final"}
SlackSend == {"done", "final", "retriable"}
PagerDutySend == {"done", "final", "retriable"}
StackdriverSend == {"done", "final", "retriable"}

notifyHandlers(rtype) ==
  CASE rtype = "browser" -> BrowserSend
    [] rtype = "email" -> EmailSend
    [] rtype = "slack" -> SlackSend
    [] rtype = "stackdriver" -> StackdriverSend
    [] rtype = "pagerduty" -> PagerDutySend
    [] rtype \in {"opsgenie", "opsgenie_eu"} -> OpsGenieSend

(* published: every open subscription with room in its channel gets it, the others miss it *)
Publish(n) ==
  sockets' = [s \in Sockets |->
                IF n.rtype = BrowserReceiver /\ sockets[s].pc \in {"subscribed", "open"} /\ sockets[s].ch < ChanCap
                THEN [sockets[s] EXCEPT !.ch = @ + 1] ELSE sockets[s]]

(* Mutant: every error is final *)
KeepsNothing(outcome) == FALSE
keptForRetry(outcome) == outcome = "retriable"

(* Mutant: a message that was sent is left to its timeout *)
sendNotificationUndeleted(w) ==
  /\ w \in workers /\ w.pc = "send"
  /\ workers' = workers \ {w}
  /\ delivered' = [delivered EXCEPT ![w.message] = @ + 1]
  /\ UNCHANGED <<tables, manager, queue, active, past, sockets>>

sendNotification(w) ==
  /\ w \in workers /\ w.pc = "send"
  /\ \E outcome \in notifyHandlers(w.message.rtype) :
       /\ Perhaps(outcome # "done", budget)
       /\ workers' = (workers \ {w}) \cup (IF keptForRetry(outcome) THEN {} ELSE {[w EXCEPT !.pc = "delete"]})
       /\ IF outcome = "done"
          THEN delivered' = [delivered EXCEPT ![w.message] = @ + 1] /\ Publish(w.message) /\ UNCHANGED past
          ELSE /\ past' = IF outcome = "final" THEN [past EXCEPT !.refused = @ \cup {w.message}] ELSE past
               /\ UNCHANGED <<delivered, sockets>>
  /\ UNCHANGED <<tables, req, events, batches, history, queue, active>>

(* a receipt that is not the last one of its message may delete it or not *)
DeleteMessage(w) ==
  /\ w \in workers /\ w.pc = "delete"
  /\ workers' = workers \ {w}
  /\ \/ queue' = Restrict(queue, DOMAIN queue \ {w.message}) /\ UNCHANGED budget /\ UNCHANGED past
     \/ ~w.last /\ UNCHANGED <<queue, budget, past>>
     \/ Fault /\ queue' = queue /\ past' = [past EXCEPT !.excused = @ \cup {w.message}]
  /\ UNCHANGED <<tables, req, events, batches, history, delivered, sockets, active>>

(* the sender is killed with its goroutines *)
SenderCrash ==
  /\ Fault /\ workers # {}
  /\ past' = [past EXCEPT !.excused = @ \cup {w.message : w \in workers}]
  /\ workers' = {}
  /\ UNCHANGED <<tables, req, events, batches, history, queue, delivered, sockets, active>>

(* -------------------------------------- websockets --------------------------------------- *)

At(s, pc) == sockets' = [sockets EXCEPT ![s] = [@ EXCEPT !.pc = pc]]

socketsOnly == UNCHANGED <<tables, req, events, batches, history, queue, workers, delivered>>

(* a request for a websocket: counted, then subscribed *)
HandleBrowserNotifications(s) ==
  /\ sockets[s].pc = "none"
  /\ budget.sockets > 0
  /\ LET left == [budget EXCEPT !.sockets = @ - 1]
     IN  \/ At(s, "subscribed") /\ active' = active + 1 /\ Perhaps(FALSE, left)
         \/ At(s, "closed") /\ active' = active /\ Perhaps(TRUE, left)
  /\ socketsOnly /\ UNCHANGED past

Upgrade(s) ==
  /\ sockets[s].pc = "subscribed"
  /\ \/ At(s, "open") /\ UNCHANGED <<active, budget>>
     \/ Fault /\ At(s, "closed") /\ active' = active - 1
  /\ socketsOnly /\ UNCHANGED past

(* a message for the browser; if it cannot be written the handler returns without counting down *)
WriteMessage(s) ==
  /\ sockets[s].pc = "open" /\ sockets[s].ch > 0
  /\ \/ sockets' = [sockets EXCEPT ![s] = [@ EXCEPT !.ch = @ - 1]] /\ UNCHANGED <<budget, past>>
     \/ Fault /\ At(s, "closed") /\ past' = [past EXCEPT !.unwritten = @ + 1]
  /\ active' = active
  /\ socketsOnly

(* the reader sees the end of the connection, or a ping fails *)
SocketClosed(s) ==
  /\ sockets[s].pc = "open"
  /\ At(s, "closed")
  /\ active' = active - 1
  /\ socketsOnly /\ UNCHANGED <<past, budget>>

SenderInit ==
  /\ queue = [n \in {} |-> ""] /\ delivered = [n \in {} |-> 0] /\ workers = {}
  /\ sockets = [s \in Sockets |-> [pc |-> "none", ch |-> 0]]
  /\ active = 0
  /\ past = [lost |-> {}, refused |-> {}, excused |-> {}, unwritten |-> 0]
=============================================================================
