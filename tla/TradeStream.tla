----------------------------- MODULE TradeStream -----------------------------
(* The websocket of trade updates (broker/alpacaTradeUpdates.ts): it reconnects   *)
(* when its socket closes, until it is stopped. Messages are not handled one      *)
(* after the other: a handler that waits for its observation to be written may    *)
(* end after the socket has closed. The backoff only delays the timer.            *)
EXTENDS FiniteSets, Naturals

CONSTANTS
  Conns,         \* sockets there may be at once, with those whose handlers go on
  Updates,       \* trade updates; the broker may send one again
  NoConn

ASSUME StreamAssumption == NoConn \notin Conns

VARIABLES
  sockets,       \* Conns -> "none", "connecting", "open" or "closing"
  current,       \* the variable socket
  protocol,      \* Conns -> what the server has granted: "none", "authorized", "listening"
  seen,          \* Conns -> the updates that were accepted on it
  handlers,      \* the observations under way, with the socket they came in on
  reconnectTimer,
  streamHealthy, \* the lifecycle's variable, set by onHealth
  stopping       \* "no", "waits" for the socket to close, "stopped"

streamVars == <<sockets, current, protocol, seen, handlers, reconnectTimer, streamHealthy, stopping>>

\* The variables before anything was started.
NoStream ==
  /\ sockets = [c \in Conns |-> "none"] /\ current = NoConn
  /\ protocol = [c \in Conns |-> "none"] /\ seen = [c \in Conns |-> {}]
  /\ handlers = {} /\ reconnectTimer = FALSE
  /\ streamHealthy = FALSE /\ stopping = "no"

StreamEnds ==
  /\ sockets' = [c \in Conns |-> "none"] /\ current' = NoConn
  /\ protocol' = [c \in Conns |-> "none"] /\ seen' = [c \in Conns |-> {}]
  /\ handlers' = {} /\ reconnectTimer' = FALSE
  /\ streamHealthy' = FALSE /\ stopping' = "no"

Unused(c) == sockets[c] = "none" /\ \A h \in handlers : h.on # c

connect(c) ==
  /\ stopping = "no" /\ Unused(c)
  /\ sockets' = [sockets EXCEPT ![c] = "connecting"] /\ current' = c
  /\ streamHealthy' = FALSE
  /\ UNCHANGED <<protocol, seen, handlers, stopping>>

TimerFires == reconnectTimer /\ reconnectTimer' = FALSE /\ \E c \in Conns : connect(c)

\* The socket opens and asks for authorization.
Opens(c) ==
  /\ sockets[c] = "connecting"
  /\ sockets' = [sockets EXCEPT ![c] = "open"]
  /\ UNCHANGED <<current, protocol, seen, handlers, reconnectTimer, streamHealthy, stopping>>

\* The mistake of reporting whatever the handler found, also after stop.
ReportsAlways(healthy) == streamHealthy' = healthy

\* What a handler reports at its end.
Reports(healthy) == streamHealthy' = IF stopping = "no" THEN healthy ELSE streamHealthy

\* An answer of the server: authorized or not, listening to our updates or not, or of
\* no known stream.
Granted(c, next, healthy) ==
  /\ sockets[c] \in {"open", "closing"}
  /\ protocol' = [protocol EXCEPT ![c] = next]
  /\ Reports(healthy)
  /\ UNCHANGED <<sockets, current, seen, handlers, reconnectTimer, stopping>>

Authorization(c) ==
  /\ protocol[c] = "none"
  /\ Granted(c, "authorized", TRUE) \/ Granted(c, "none", FALSE)

Listening(c) == protocol[c] = "authorized" /\ Granted(c, "listening", TRUE)

Unknown(c) == Granted(c, protocol[c], FALSE)

Receives(c, u) ==
  /\ sockets[c] \in {"open", "closing"} /\ protocol[c] = "listening"
  /\ \/ u \in seen[c] /\ Reports(TRUE) /\ UNCHANGED <<seen, handlers>>
     \/ u \notin seen[c] /\ UNCHANGED streamHealthy
        /\ seen' = [seen EXCEPT ![c] = @ \union {u}]
        /\ handlers' = handlers \union {[on |-> c, update |-> u]}
  /\ UNCHANGED <<sockets, current, protocol, reconnectTimer, stopping>>

\* The observation is written, or throws; the update stays accepted either way.
HandlerEnds(h, ok) ==
  /\ h \in handlers /\ handlers' = handlers \ {h}
  /\ IF ok THEN Reports(TRUE) ELSE streamHealthy' = FALSE
  /\ UNCHANGED <<sockets, current, protocol, seen, reconnectTimer, stopping>>

\* The error event only reports; close follows.
SocketErrs(c) ==
  /\ sockets[c] # "none" /\ streamHealthy' = FALSE
  /\ UNCHANGED <<sockets, current, protocol, seen, handlers, reconnectTimer, stopping>>

\* The mistake of a close that does not come back.
TimerForgotten == reconnectTimer

\* scheduleReconnect
TimerSet == reconnectTimer \/ stopping = "no"

SocketCloses(c) ==
  /\ sockets[c] # "none"
  /\ sockets' = [sockets EXCEPT ![c] = "none"] /\ current' = IF current = c THEN NoConn ELSE current
  /\ protocol' = [protocol EXCEPT ![c] = "none"] /\ seen' = [seen EXCEPT ![c] = {}]
  /\ streamHealthy' = FALSE /\ reconnectTimer' = TimerSet
  /\ stopping' = IF stopping = "waits" THEN "stopped" ELSE stopping
  /\ UNCHANGED handlers

\* The timer is cleared and the socket closed, or terminated if it is not open yet.
stop ==
  /\ stopping = "no"
  /\ streamHealthy' = FALSE /\ reconnectTimer' = FALSE /\ current' = NoConn
  /\ IF current = NoConn THEN stopping' = "stopped" /\ UNCHANGED sockets
     ELSE stopping' = "waits" /\ sockets' = [sockets EXCEPT ![current] = "closing"]
  /\ UNCHANGED <<protocol, seen, handlers>>

\* One second is enough: the socket is terminated and will close.
ForceTimer ==
  /\ stopping = "waits" /\ stopping' = "stopped"
  /\ UNCHANGED <<sockets, current, protocol, seen, handlers, reconnectTimer, streamHealthy>>

StreamStep ==
  \/ TimerFires \/ ForceTimer
  \/ \E c \in Conns :
       \/ Opens(c) \/ Authorization(c) \/ Listening(c) \/ Unknown(c)
       \/ SocketErrs(c) \/ SocketCloses(c) \/ \E u \in Updates : Receives(c, u)
  \/ \E h \in handlers, ok \in BOOLEAN : HandlerEnds(h, ok)

-----------------------------------------------------------------------------
Live == {c \in Conns : sockets[c] # "none"}

\* Once started the stream is never lost and never doubled: it has one socket or the
\* timer that makes the next one, whatever errors, closes and late handlers do; once
\* stopped it has neither, but for the socket it closes, and never calls itself healthy
\* again (scheduleReconnect, connect, stop).
StreamIsKept ==
  /\ stopping = "no" => IF reconnectTimer THEN Live = {} /\ current = NoConn ELSE Live = {current}
  /\ stopping # "no" => ~reconnectTimer /\ ~streamHealthy /\ current = NoConn
                        /\ \A c \in Live : sockets[c] = "closing"
  /\ Cardinality(Live) <= 1
=============================================================================
