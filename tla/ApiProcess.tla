------------------------------ MODULE ApiProcess ------------------------------
(* The life of the API process (index.ts, platform/gracefulShutdown.ts): requests *)
(* and the outbox publisher's timer, and how both end before the database is      *)
(* closed.                                                                        *)
EXTENDS MarketCache

VARIABLES
  apiLife,       \* "up", then what the shutdown waits for, "gone"
  publisher,     \* [timer, active]: the timer is set, a batch is under way
  apiDatabase    \* the connections to the database are open

apiVars == <<cacheVars, apiLife, publisher, apiDatabase>>

ApiInit ==
  /\ CacheInit
  /\ apiLife = "up" /\ publisher = [timer |-> TRUE, active |-> FALSE] /\ apiDatabase = TRUE

\* Fastify takes no request while it closes.
Accept(r, force) ==
  /\ apiLife = "up"
  /\ readThrough(r, force)
  /\ UNCHANGED <<apiLife, publisher, apiDatabase>>

Serve(r) == ReadStep(r) /\ UNCHANGED <<apiLife, publisher, apiDatabase>>

PublishStarts ==
  /\ apiLife # "gone" /\ publisher.timer /\ ~publisher.active
  /\ publisher' = [publisher EXCEPT !.active = TRUE]
  /\ UNCHANGED <<cacheVars, apiLife, apiDatabase>>

PublishEnds ==
  /\ publisher.active
  /\ publisher' = [publisher EXCEPT !.active = FALSE]
  /\ UNCHANGED <<cacheVars, apiLife, apiDatabase>>

\* The process ends, with its requests, and is started again later on.
Gone ==
  /\ apiLife' = "gone"
  /\ request' = [r \in Requests |-> IdleRequest]
  /\ publisher' = [timer |-> FALSE, active |-> FALSE] /\ apiDatabase' = FALSE
  /\ UNCHANGED <<clock, entry, cooldown>>

\* A failing batch is ignored, but makes a shutdown that waits for it throw: the
\* rejection that nobody handles ends the process.
PublishFails ==
  /\ publisher.active
  /\ \/ apiLife = "publisher" /\ Gone
     \/ apiLife # "publisher" /\ publisher' = [publisher EXCEPT !.active = FALSE]
        /\ UNCHANGED <<cacheVars, apiLife, apiDatabase>>

\* The server stops listening and the publisher's timer is cleared at once.
Shutdown ==
  /\ apiLife = "up"
  /\ apiLife' = "publisher" /\ publisher' = [publisher EXCEPT !.timer = FALSE]
  /\ UNCHANGED <<cacheVars, apiDatabase>>

Waits(step, done, then) ==
  /\ apiLife = step /\ done
  /\ apiLife' = then /\ apiDatabase' = (then # "closed")
  /\ UNCHANGED <<cacheVars, publisher>>

\* The mistake of not waiting for the requests that are being served.
DrainedAtOnce == TRUE

Drained == \A r \in Requests : request[r].pc = "idle"

StopPublisher == Waits("publisher", ~publisher.active, "drain")
DrainRequests == Waits("drain", Drained, "queue")
CloseQueue    == Waits("queue", TRUE, "redis")
CloseRedis    == Waits("redis", TRUE, "database")
CloseDatabase == Waits("database", TRUE, "closed")

\* A step that throws, the time that is up or a signal that cannot be caught.
ApiDies == apiLife # "gone" /\ Gone

ApiRestarts ==
  /\ apiLife = "gone"
  /\ apiLife' = "up" /\ publisher' = [timer |-> TRUE, active |-> FALSE] /\ apiDatabase' = TRUE
  /\ UNCHANGED cacheVars

ApiNext ==
  \/ Tick /\ UNCHANGED <<apiLife, publisher, apiDatabase>>
  \/ \E r \in Requests : Serve(r) \/ \E force \in BOOLEAN : Accept(r, force)
  \/ PublishStarts \/ PublishEnds \/ PublishFails
  \/ Shutdown \/ StopPublisher \/ DrainRequests \/ CloseQueue \/ CloseRedis \/ CloseDatabase
  \/ ApiDies \/ ApiRestarts

\* The database is closed only when nothing is left that would use it.
ApiClosesDatabaseLast ==
  ~apiDatabase => (\A r \in Requests : request[r].pc = "idle") /\ publisher = [timer |-> FALSE, active |-> FALSE]
=============================================================================
