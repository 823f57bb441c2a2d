----------------------------- MODULE Notifications -----------------------------
(* The event manager, the queue and the sender together, and what they promise to      *)
(* the members of an instance: who is subscribed hears of an event, and hears of it     *)
(* once unless something failed.                                                         *)
EXTENDS NotificationSender

vars == <<tables, manager, sender>>

Init == ManagerInit /\ SenderInit

Manage == \E r \in Requests : Accept(r) /\ UNCHANGED sender
Continue(r) == Proceed(r) /\ UNCHANGED sender
Replica == ((\E file \in Files : Sync(file)) \/ Shutdown) /\ UNCHANGED sender
SendBatch == \E b \in batches : SendMessageBatch(b)
Work == \E w \in workers : sendNotification(w) \/ DeleteMessage(w)
Socket(s) == HandleBrowserNotifications(s) \/ Upgrade(s) \/ WriteMessage(s) \/ SocketClosed(s)

Next ==
  \/ Manage \/ Replica \/ SendBatch \/ Work \/ SenderCrash
  \/ \E r \in Requests : Continue(r)
  \/ \E n \in DOMAIN queue : HandleNotification(n) \/ VisibilityTimeout(n)
  \/ \E s \in Sockets : Socket(s)

Notification == [event: Requests, id: 1..MaxReceivers, rtype: RTypes]

(* A started request, a batch, a visible message, a goroutine of the sender and a message whose *)
(* timeout has passed are taken up: handlers run to their end, the sender receives in an endless  *)
(* loop and the queue shows hidden messages again.                                                *)
Fairness ==
  /\ WF_vars(\E r \in Requests : Continue(r))
  /\ WF_vars(SendBatch)
  /\ WF_vars(Work)
  /\ WF_vars(\E n \in DOMAIN queue : HandleNotification(n))
  /\ WF_vars(\E n \in DOMAIN queue : VisibilityTimeout(n))

Spec == Init /\ [][Next]_vars /\ Fairness

(* Types: the gauge of open websockets and the tables hold what their columns allow. *)
TypeOK ==
  /\ \A n \in DOMAIN eventTypes : n \in Names /\ eventTypes[n] \in EventType
  /\ \A id \in DOMAIN receivers : id \in 1..made /\ receivers[id] \in Receiver
  /\ initialized \in BOOLEAN /\ made \in 0..MaxReceivers
  /\ events \subseteq Requests
  /\ \A b \in batches : b \subseteq Notification /\ Cardinality(b) \in 1..BatchSize
  /\ \A n \in DOMAIN queue : n \in Notification /\ queue[n] \in {"visible", "hidden"}
  /\ \A w \in workers : w.message \in DOMAIN delivered
  /\ active \in Nat

(* checkInstanceDefaults: whoever goes on after it finds an instance that is marked and that has *)
(* got a default receiver, also when requests raced and one met the duplicate key.  Excepted:     *)
(* the begin or commit of createReceiverTX failed, which it does not report.                       *)
CheckedIsInitialized ==
  \A r \in Requests : req[r].pc \in {"body", "tx", "email", "changed"} =>
    initialized /\ (history.defaults > 0 \/ history.unsaved)

(* handleUpdateReceiver: when an update has gone through, an event tells of it exactly if it changed *)
(* something that can be seen.  Excepted: the receiver or the event types changed between the read     *)
(* of the old receiver and the end, as that read is not part of the transaction.                       *)
ChangeIsReported ==
  \A r \in Requests \ history.stale :
    /\ req[r].op = "update" /\ req[r].pc = "ok" => r \notin history.real
    /\ req[r].op = "event" /\ Origin(req[r]) => r \in history.real

(* sendNotificationBatchesToQueue: of every receiver found for an event the notification is in one  *)
(* batch, in the queue, with the receiver, refused for good, or in a batch the queue did not take.   *)
NobodyForgotten ==
  \A n \in history.notified :
    \/ n \in past.lost \cup past.refused \cup DOMAIN queue
    \/ n \in DOMAIN delivered /\ delivered[n] > 0
    \/ Cardinality({b \in batches : n \in b}) = 1

(* sendNotification: a receiver gets a notification twice only if the timeout passed while it was  *)
(* being sent, the message could not be deleted, or the sender was killed.                          *)
TwiceOnlyByFailure == \A n \in DOMAIN delivered : delivered[n] > 1 => n \in past.excused

(* Run and sendNotification: the queue is emptied again and again, also after retriable errors,  *)
(* lost deletes and a restart of the sender.                                                      *)
QueueIsEmptied == []<>(DOMAIN queue = {})
====================
