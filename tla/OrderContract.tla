--------------------------- MODULE OrderContract ---------------------------
(***************************************************************************)
(* What Paper trading promises about one order, whatever happens between   *)
(* the API, the worker and Alpaca: the broker only ever holds orders the   *)
(* user confirmed; what the user is shown goes from submitting to working  *)
(* to closed and never back; it claims an order works only when the broker *)
(* has it, and closes it only with the broker's own final word.            *)
(***************************************************************************)
CONSTANTS Orders, Closed      \* the orders, and the final statuses
VARIABLES view,               \* what the user is shown of each order
          truth               \* what the broker holds

vars == <<view, truth>>

Init ==
    /\ view = [o \in Orders |-> "none"]
    /\ truth = [o \in Orders |-> "none"]

Request(o) ==
    /\ view[o] = "none"
    /\ view' = [view EXCEPT ![o] = "submitting"]
    /\ UNCHANGED truth

Open(o) ==
    /\ view[o] # "none"
    /\ truth[o] = "none"
    /\ truth' = [truth EXCEPT ![o] = "open"]
    /\ UNCHANGED view

Close(o) ==
    /\ truth[o] = "open"
    /\ \E s \in Closed : truth' = [truth EXCEPT ![o] = s]
    /\ UNCHANGED view

ShowWorking(o) ==
    /\ view[o] = "submitting"
    /\ truth[o] # "none"
    /\ view' = [view EXCEPT ![o] = "working"]
    /\ UNCHANGED truth

ShowClosed(o) ==
    /\ view[o] \in {"submitting", "working"}
    /\ truth[o] \in Closed
    /\ view' = [view EXCEPT ![o] = truth[o]]
    /\ UNCHANGED truth

Next == \E o \in Orders :
            Request(o) \/ Open(o) \/ Close(o) \/ ShowWorking(o) \/ ShowClosed(o)

Spec == Init /\ [][Next]_vars
=============================================================================
