---------------------------- MODULE MCNotifications ----------------------------
EXTENDS Notifications

Row(default, hide, flag) == [default |-> default, hide |-> hide, flag |-> flag, hiddenFor |-> {}]

MCFiles == {
  [config_changed |-> Row({"browser"}, FALSE, NoFlag), monitor |-> Row({"browser", "slack"}, FALSE, "beta")],
  [config_changed |-> Row({"browser"}, FALSE, NoFlag), user_test |-> Row({"browser", "slack"}, TRUE, NoFlag)]}

MCInUse == <<"browser", "slack", "slack">>

(* two requests that race while nothing is sent; one whose notifications are sent, all of  *)
(* them or one batch with two failures; one whose notifications reach a browser             *)
MCBudgets == {[requests |-> 2, faults |-> 1, sends |-> 0, sockets |-> 0],
              [requests |-> 1, faults |-> 1, sends |-> 3, sockets |-> 0],
              [requests |-> 1, faults |-> 2, sends |-> 1, sockets |-> 0],
              [requests |-> 1, faults |-> 1, sends |-> 1, sockets |-> 1]}

MCTypeLists == {{"monitor"}, {"config_changed"}}
=============================================================================
