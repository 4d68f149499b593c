---------------------------- MODULE OrderHistory ----------------------------
(* The list of orders of the Paper page (features/trading/PaperOrderHistory.tsx): *)
(* it polls, the answers of overlapping polls apply in any order, and a cancel    *)
(* command ends with a poll of its own. One order; the timeline of its details is *)
(* loaded in the same way and left out.                                           *)
EXTENDS OrderLifecycle, Naturals

CONSTANTS
  Polls,         \* requests for the list that may be under way at once
  MaxVersion     \* bound of the events of the order

VARIABLES
  order,         \* order_projection: [state, version]
  requested,     \* there is a cancel intent for it
  mounted,
  poll,          \* Polls -> <<"free">>, <<"sent">> or <<"read", the order as it was then>>
  reload,        \* the poll that the cancel command awaits
  shown,         \* what the list shows of the order: at most one version of it
  canceling,     \* cancelingId: "no", "command" or "reload"
  command        \* the cancel request: "none", "sent" or "handled"

historyVars == <<order, requested, mounted, poll, reload, shown, canceling, command>>
pageVars == <<mounted, poll, reload, shown, canceling, command>>

HistoryInit ==
  /\ order = [state |-> "accepted", version |-> 0] /\ requested = FALSE
  /\ mounted = FALSE /\ poll = [p \in Polls |-> <<"free">>] /\ reload = {}
  /\ shown = {} /\ canceling = "no" /\ command = "none"

\* appendOrderEvent, by the worker. A cancellation is requested of those on record.
OrderMoves(event) ==
  /\ order.version < MaxVersion /\ Accepts(order.state, event)
  /\ event = "command.cancel_requested" => requested
  /\ order' = [state |-> StateAfter(order.state, event), version |-> order.version + 1]
  /\ UNCHANGED <<requested, pageVars>>

Sent(p) == poll[p] = <<"free">> /\ poll' = [poll EXCEPT ![p] = <<"sent">>]

Mount(p) ==
  /\ ~mounted /\ mounted' = TRUE /\ Sent(p)
  /\ UNCHANGED <<order, requested, reload, shown, canceling, command>>

\* The next generation takes no answer of the one before it; a command goes on.
Unmount ==
  /\ mounted /\ mounted' = FALSE
  /\ poll' = [p \in Polls |-> <<"free">>] /\ reload' = {} /\ shown' = {} /\ canceling' = "no"
  /\ UNCHANGED <<order, requested, command>>

\* The mistake of a list that is loaded once.
NeverAgain == FALSE

\* Every five seconds, whether the poll before it has been answered or not.
Due == mounted

Interval(p) ==
  /\ Due /\ Sent(p)
  /\ UNCHANGED <<order, requested, mounted, reload, shown, canceling, command>>

PollReads(p) ==
  /\ poll[p] = <<"sent">>
  /\ poll' = [poll EXCEPT ![p] = <<"read", order>>]
  /\ UNCHANGED <<order, requested, mounted, reload, shown, canceling, command>>

\* The command's own reload ends the command.
Ends(p) ==
  /\ poll' = [poll EXCEPT ![p] = <<"free">>]
  /\ reload' = reload \ {p}
  /\ canceling' = IF p \in reload THEN "no" ELSE canceling
  /\ UNCHANGED <<order, requested, mounted, command>>

\* setOrders, of the poll that answers last and not of the one sent last.
PollApplies(p) ==
  /\ poll[p][1] = "read"
  /\ shown' = {poll[p][2]}
  /\ Ends(p)

PollFails(p) == poll[p][1] = "read" /\ Ends(p) /\ UNCHANGED shown

cancelableStates == {"accepted", "new", "partially_filled"}

cancel ==
  /\ canceling = "no" /\ \E o \in shown : o.state \in cancelableStates
  /\ canceling' = "command" /\ command' = "sent"
  /\ UNCHANGED <<order, requested, mounted, poll, reload, shown>>

\* POST cancel-intents; a late one, whose page is gone, is handled all the same.
CommandHandled ==
  /\ command = "sent" /\ command' = "handled" /\ requested' = TRUE
  /\ UNCHANGED <<order, mounted, poll, reload, shown, canceling>>

CommandAnswered(p) ==
  /\ canceling = "command" /\ command = "handled"
  /\ canceling' = "reload" /\ reload' = {p} /\ Sent(p)
  /\ command' = "none"
  /\ UNCHANGED <<order, requested, mounted, shown>>

\* Refused, or the answer is lost.
CommandFails ==
  /\ canceling = "command" /\ canceling' = "no"
  /\ UNCHANGED <<order, requested, mounted, poll, reload, shown, command>>

HistoryNext ==
  \/ \E event \in OrderLifecycleEvent : OrderMoves(event)
  \/ \E p \in Polls : Mount(p) \/ Interval(p) \/ PollReads(p) \/ PollApplies(p) \/ PollFails(p)
                      \/ CommandAnswered(p)
  \/ Unmount \/ cancel \/ CommandHandled \/ CommandFails

\* The timer fires, requests are read and not every poll fails.
HistoryFairness ==
  /\ WF_historyVars(\E p \in Polls : Interval(p))
  /\ WF_historyVars(\E p \in Polls : PollReads(p))
  /\ SF_historyVars(\E p \in Polls : PollApplies(p))

-----------------------------------------------------------------------------
\* However its polls overlap and fail, the list of a page that stays open comes to show
\* the order as it is (the interval and loadOrders).
HistoryCatchesUp == mounted ~> ~mounted \/ shown = {order}
=============================================================================
