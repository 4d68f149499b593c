--------------------------- MODULE OrderLifecycle ---------------------------
(***************************************************************************)
(* The local state machine of one Paper order:                             *)
(* server/broker/orderStateMachine.ts.                                     *)
(*                                                                         *)
(* The event "remote.<status>" is written as the status itself, so that a  *)
(* status reported by Alpaca is at once an event and the state it leads    *)
(* to; the commands keep their names.  The module is constant: it declares *)
(* no variable, and PaperTrading applies it inside appendOrderEvent.       *)
(***************************************************************************)

\* The statuses Alpaca may report for an order, and what may follow.
RemoteStatus == {"accepted", "new", "partially_filled",
                 "filled", "canceled", "rejected", "expired"}

LocalOrderState ==
    {"draft", "confirmed", "pending_submission", "reconciling", "cancel_pending"}
        \cup RemoteStatus

TerminalStates == {"filled", "canceled", "rejected", "expired"}

CommandEvent == {"command.confirmed", "command.submit_requested",
                 "command.reconciling", "command.cancel_requested"}

OrderLifecycleEvent == CommandEvent \cup RemoteStatus

\* The events each state accepts, beside the repetition of its own status.
Allowed ==
    [s \in LocalOrderState |->
        CASE s = "draft"              -> {"command.confirmed"}
          [] s = "confirmed"          -> {"command.submit_requested"}
          [] s = "pending_submission" -> (RemoteStatus \ {"canceled", "expired"})
                                            \cup {"command.reconciling"}
          [] s = "reconciling"        -> RemoteStatus
          [] s = "accepted"           -> (RemoteStatus \ {"accepted"})
                                            \cup {"command.cancel_requested"}
          [] s = "new"                -> (RemoteStatus \ {"accepted", "new"})
                                            \cup {"command.cancel_requested"}
          [] s = "partially_filled"   -> {"filled", "canceled", "expired",
                                          "command.cancel_requested"}
          [] s = "cancel_pending"     -> RemoteStatus \ {"accepted", "new"}
          [] OTHER                    -> {}]

\* Mutant of Accepts: an open order takes over whatever Alpaca reports.
AcceptsStale(current, event) ==
    \/ event = current
    \/ /\ current \notin TerminalStates
       /\ event \in Allowed[current] \cup RemoteStatus

\* transition returns for these events and throws INVALID_BROKER_TRANSITION
\* for every other one.
Accepts(current, event) ==
    \/ event = current
    \/ /\ current \notin TerminalStates
       /\ event \in Allowed[current]

\* Mutant of StateAfter: a requested cancellation is taken for a done one.
CanceledOnRequest(current, event) ==
    CASE event = "command.confirmed"        -> "confirmed"
      [] event = "command.submit_requested" -> "pending_submission"
      [] event = "command.reconciling"      -> "reconciling"
      [] event = "command.cancel_requested" -> "canceled"
      [] OTHER                              -> event

\* What transition returns for an event it accepts.
StateAfter(current, event) ==
    CASE event = "command.confirmed"        -> "confirmed"
      [] event = "command.submit_requested" -> "pending_submission"
      [] event = "command.reconciling"      -> "reconciling"
      [] event = "command.cancel_requested" -> "cancel_pending"
      [] OTHER                              -> event

\* How far an order has come, as anyone may tell it: a partial fill is never
\* undone and a terminal state is final.
Progress(s) ==
    CASE s \in {"draft", "confirmed", "pending_submission"} -> 0
      [] s = "reconciling"                                  -> 1
      [] s = "accepted"                                     -> 2
      [] s = "new"                                          -> 3
      [] s \in {"partially_filled", "cancel_pending"}       -> 4
      [] OTHER                                              -> 5
=============================================================================
