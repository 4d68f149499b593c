------------------------------ MODULE WorkerLife ------------------------------
(* The life of the trading worker (workers/workerRuntime.ts and the background    *)
(* lifecycle of workers/tradingWorker.ts): start, heartbeats, the passes and the  *)
(* stream behind its health, the job it processes, and the shutdown that waits    *)
(* for them in order before it closes the database.                               *)
EXTENDS TradeStream

CONSTANT Kinds   \* of reconciliation passes: "orders", "full"

VARIABLES
  life,          \* "gone", "starting", "initialized", "running", then the shutdown's hook
  timers,        \* the intervals of the passes are set
  active,        \* Kinds -> passes under way
  passHealthy,   \* Kinds -> the last pass of the kind succeeded
  job,           \* BullMQ has handed out a job that is processed
  workerHealthy,
  beat,          \* the heartbeat under way: "none", "counting" or "recovering"
  state,         \* the variable that the next record takes
  row,           \* platform.worker_heartbeat
  database,      \* the connections are open
  failed         \* history: closing the BullMQ worker threw

lifeVars == <<timers, active, passHealthy, job, workerHealthy, beat, state, database, failed>>
workerVars == <<streamVars, life, lifeVars, row>>

\* What a process starts with.
NoProcess ==
  /\ timers = FALSE /\ active = [k \in Kinds |-> 0] /\ passHealthy = [k \in Kinds |-> TRUE]
  /\ job = FALSE /\ workerHealthy = TRUE /\ beat = "none" /\ state = "starting"
  /\ database = FALSE /\ failed = FALSE

WorkerInit == NoStream /\ NoProcess /\ life = "gone" /\ row = "none"

\* It dies, at any time and in any way; Compose starts it again.
WorkerDies ==
  /\ life # "gone" /\ life' = "gone"
  /\ StreamEnds
  /\ timers' = FALSE /\ active' = [k \in Kinds |-> 0] /\ passHealthy' = [k \in Kinds |-> TRUE]
  /\ job' = FALSE /\ workerHealthy' = TRUE /\ beat' = "none" /\ state' = "starting"
  /\ database' = FALSE /\ failed' = FALSE
  /\ UNCHANGED row

-----------------------------------------------------------------------------
(* runWorker *)

\* WorkerHeartbeatRepository.record: one row for the worker, written over.
Record(found) == row' = found

\* workerHealthcheck, as Compose runs it, while the row is younger than 45 seconds.
LooksHealthy == row \notin {"none", "degraded", "stopping"}

Starts ==
  /\ life = "gone" /\ life' = "starting"
  /\ database' = TRUE /\ Record("starting")
  /\ UNCHANGED <<streamVars, timers, active, passHealthy, job, workerHealthy, beat, state, failed>>

\* After the first full pass: timers, stream and BullMQ's worker.
Initialize ==
  /\ life = "starting" /\ life' = "initialized"
  /\ timers' = TRUE
  /\ \E c \in Conns : connect(c)
  /\ UNCHANGED <<reconnectTimer, row, active, passHealthy, job, workerHealthy, beat, state, database, failed>>

lifecycleHealthy == streamHealthy /\ \A k \in Kinds : passHealthy[k]

workerHeartbeatState == IF workerHealthy /\ lifecycleHealthy THEN "ready" ELSE "degraded"

\* The first heartbeat, and then the timer of the others.
Ready ==
  /\ life = "initialized" /\ life' = "running"
  /\ state' = workerHeartbeatState /\ Record(workerHeartbeatState)
  /\ UNCHANGED <<streamVars, timers, active, passHealthy, job, workerHealthy, beat, database, failed>>

\* The heartbeat: its state is computed, the queue is asked for its length,
BeatStarts ==
  /\ life = "running" /\ beat = "none"
  /\ beat' = "counting" /\ state' = workerHeartbeatState
  /\ UNCHANGED <<streamVars, life, row, timers, active, passHealthy, job, workerHealthy, database, failed>>

\* and what the variable holds by then is recorded.
BeatRecords ==
  /\ beat = "counting" /\ beat' = "none" /\ Record(state)
  /\ UNCHANGED <<streamVars, life, timers, active, passHealthy, job, workerHealthy, state, database, failed>>

BeatFails ==
  /\ beat = "counting" /\ beat' = "recovering" /\ state' = "degraded"
  /\ UNCHANGED <<streamVars, life, row, timers, active, passHealthy, job, workerHealthy, database, failed>>

BeatRecovers ==
  /\ beat = "recovering" /\ beat' = "none" /\ (Record("degraded") \/ UNCHANGED row)
  /\ UNCHANGED <<streamVars, life, timers, active, passHealthy, job, workerHealthy, state, database, failed>>

-----------------------------------------------------------------------------
(* What runs meanwhile *)

Streams ==
  /\ life # "gone"
  /\ StreamStep
  /\ UNCHANGED <<life, lifeVars, row>>

\* A pass may overlap the one before it; one of each kind is enough here.
PassStarts(k) ==
  /\ timers /\ active[k] = 0
  /\ active' = [active EXCEPT ![k] = @ + 1]
  /\ UNCHANGED <<streamVars, life, row, timers, passHealthy, job, workerHealthy, beat, state, database, failed>>

PassEnds(k, ok) ==
  /\ active[k] > 0
  /\ active' = [active EXCEPT ![k] = @ - 1] /\ passHealthy' = [passHealthy EXCEPT ![k] = ok]
  /\ UNCHANGED <<streamVars, life, row, timers, job, workerHealthy, beat, state, database, failed>>

Hooks == <<"stopHeartbeat", "waitForHeartbeat", "recordStopping", "recordsStopping", "closeLifecycle",
           "closesLifecycle", "closeWorker", "closeQueue", "disconnect", "destroyDatabase", "closed">>

\* BullMQ hands out jobs until its worker is closed.
Working == life \in {"initialized", "running"} \union {Hooks[i] : i \in 1..6}

JobStarts ==
  /\ Working /\ ~job /\ job' = TRUE
  /\ UNCHANGED <<streamVars, life, row, timers, active, passHealthy, workerHealthy, beat, state, database, failed>>

JobEnds ==
  /\ job /\ job' = FALSE
  /\ UNCHANGED <<streamVars, life, row, timers, active, passHealthy, workerHealthy, beat, state, database, failed>>

\* The connection to Redis is lost, or found again.
WorkerErrs ==
  /\ Working /\ workerHealthy
  /\ workerHealthy' = FALSE /\ state' = "degraded"
  /\ UNCHANGED <<streamVars, life, row, timers, active, passHealthy, job, beat, database, failed>>

WorkerReady ==
  /\ Working /\ ~workerHealthy /\ workerHealthy' = TRUE
  /\ UNCHANGED <<streamVars, life, row, timers, active, passHealthy, job, beat, state, database, failed>>

-----------------------------------------------------------------------------
(* createWorkerShutdown: a hook that throws does not keep the next one from running *)

Then(hook, next) == life = hook /\ life' = next

StopHeartbeat ==
  /\ Then("running", "waitForHeartbeat")
  /\ UNCHANGED <<streamVars, lifeVars, row>>

BeatIsOver == beat = "none"

WaitForHeartbeat ==
  /\ Then("waitForHeartbeat", "recordStopping") /\ BeatIsOver
  /\ UNCHANGED <<streamVars, lifeVars, row>>

RecordStopping ==
  /\ Then("recordStopping", "recordsStopping") /\ state' = "stopping"
  /\ UNCHANGED <<streamVars, row, timers, active, passHealthy, job, workerHealthy, beat, database, failed>>

\* The record takes what the variable holds by then, or fails and is forgotten.
RecordsStopping ==
  /\ Then("recordsStopping", "closeLifecycle") /\ (Record(state) \/ UNCHANGED row)
  /\ UNCHANGED <<streamVars, lifeVars>>

CloseLifecycle ==
  /\ Then("closeLifecycle", "closesLifecycle")
  /\ timers' = FALSE /\ stop
  /\ UNCHANGED <<row, active, passHealthy, job, workerHealthy, beat, state, database, failed>>

LifecycleIsOver == stopping = "stopped" /\ \A k \in Kinds : active[k] = 0

ClosesLifecycle ==
  /\ Then("closesLifecycle", "closeWorker") /\ LifecycleIsOver
  /\ UNCHANGED <<streamVars, lifeVars, row>>

\* It waits for the job that is processed, or throws.
CloseWorker ==
  /\ Then("closeWorker", "closeQueue")
  /\ \/ ~job /\ UNCHANGED failed
     \/ failed' = TRUE
  /\ UNCHANGED <<streamVars, row, timers, active, passHealthy, job, workerHealthy, beat, state, database>>

CloseQueueAndRedis ==
  /\ Then("closeQueue", "disconnect") \/ Then("disconnect", "destroyDatabase")
  /\ UNCHANGED <<streamVars, lifeVars, row>>

DestroyDatabase ==
  /\ Then("destroyDatabase", "closed") /\ database' \in {FALSE, database}
  /\ UNCHANGED <<streamVars, row, timers, active, passHealthy, job, workerHealthy, beat, state, failed>>

ShutdownStep ==
  \/ WaitForHeartbeat \/ RecordStopping \/ RecordsStopping \/ CloseLifecycle
  \/ ClosesLifecycle \/ CloseWorker \/ CloseQueueAndRedis \/ DestroyDatabase

WorkerNext ==
  \/ WorkerDies \/ Starts \/ Initialize \/ Ready
  \/ BeatStarts \/ BeatRecords \/ BeatFails \/ BeatRecovers
  \/ Streams \/ \E k \in Kinds : PassStarts(k) \/ \E ok \in BOOLEAN : PassEnds(k, ok)
  \/ JobStarts \/ JobEnds \/ WorkerErrs \/ WorkerReady
  \/ StopHeartbeat \/ ShutdownStep

\* The timers fire, heartbeats are not always refused by the database, and the broker
\* accepts a connection, and the credentials, if asked again and again. Observations end,
\* since each holds one of the bounded sockets.
WorkerFairness ==
  /\ WF_streamVars(TimerFires)
  /\ WF_streamVars(\E h \in handlers, ok \in BOOLEAN : HandlerEnds(h, ok))
  /\ SF_streamVars(\E c \in Conns : Opens(c))
  /\ SF_streamVars(\E c \in Conns : protocol[c] = "none" /\ Granted(c, "authorized", TRUE))
  /\ WF_workerVars(BeatStarts) /\ WF_workerVars(BeatRecovers) /\ SF_workerVars(BeatRecords)

-----------------------------------------------------------------------------
\* The database is destroyed only when no heartbeat, pass, timer or socket is left that
\* would use it, nor a job, unless closing BullMQ's worker threw (createWorkerShutdown,
\* close). Observations of the stream are the exception: nothing waits for them.
WorkerClosesDatabaseLast ==
  life = "closed" => /\ beat = "none" /\ ~timers /\ \A k \in Kinds : active[k] = 0
                     /\ stopping = "stopped" /\ ~reconnectTimer
                     /\ job => failed

\* A stream that was lost is found again while the worker runs (scheduleReconnect).
StreamComesBack ==
  life = "running" /\ Live = {} ~> life # "running" \/ \E c \in Conns : protocol[c] # "none"

\* A worker that stays unhealthy, by its passes, its stream or its queue, comes to look
\* so to the health check of its container, also when the heartbeat under way had found
\* it healthy (recordHeartbeat, workerHealthcheck).
UnhealthIsReported ==
  life = "running" /\ ~(workerHealthy /\ lifecycleHealthy) ~>
    life # "running" \/ (workerHealthy /\ lifecycleHealthy) \/ ~LooksHealthy

\* After the shutdown has recorded its end, no late heartbeat overwrites the row.
FarewellIsLast ==
  life \notin {"gone", "starting", "initialized", "running", "waitForHeartbeat", "recordStopping", "recordsStopping"}
    => row' = row
=============================================================================
