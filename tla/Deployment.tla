------------------------------ MODULE Deployment ------------------------------
(* The parts of a running system whose steps are their own: the migration that     *)
(* every server process begins with, the API process with                          *)
(* its market cache, the trading worker with its stream, and four parts of the     *)
(* pages in the browser. They share nothing but the services behind them, so one   *)
(* behaviour looks at one of them, and the others stand still.                     *)
EXTENDS ApiProcess, WorkerLife, OrderTicket, OrderHistory, PerformanceView, PushSettings,
        SchemaMigrations

CONSTANT Parts   \* the parts that are looked at

PartsThereAre == {"api", "worker", "ticket", "history", "performance", "settings", "schema"}

ASSUME PartsAssumption == Parts \subseteq PartsThereAre

VARIABLE looking

vars == <<looking, apiVars, workerVars, ticketVars, historyVars, viewVars, settingsVars, schemaVars>>

Init ==
  /\ looking \in Parts
  /\ ApiInit /\ WorkerInit /\ TicketInit /\ HistoryInit /\ ViewInit /\ SettingsInit /\ SchemaInit

Next ==
  \/ looking = "api" /\ ApiNext
     /\ UNCHANGED <<looking, workerVars, ticketVars, historyVars, viewVars, settingsVars, schemaVars>>
  \/ looking = "worker" /\ WorkerNext
     /\ UNCHANGED <<looking, apiVars, ticketVars, historyVars, viewVars, settingsVars, schemaVars>>
  \/ looking = "ticket" /\ TicketNext
     /\ UNCHANGED <<looking, apiVars, workerVars, historyVars, viewVars, settingsVars, schemaVars>>
  \/ looking = "history" /\ HistoryNext
     /\ UNCHANGED <<looking, apiVars, workerVars, ticketVars, viewVars, settingsVars, schemaVars>>
  \/ looking = "performance" /\ ViewNext
     /\ UNCHANGED <<looking, apiVars, workerVars, ticketVars, historyVars, settingsVars, schemaVars>>
  \/ looking = "settings" /\ SettingsNext
     /\ UNCHANGED <<looking, apiVars, workerVars, ticketVars, historyVars, viewVars, schemaVars>>
  \/ looking = "schema" /\ SchemaNext
     /\ UNCHANGED <<looking, apiVars, workerVars, ticketVars, historyVars, viewVars, settingsVars>>

Spec == Init /\ [][Next]_vars /\ WorkerFairness /\ HistoryFairness

-----------------------------------------------------------------------------
\* Nobody serves before the schema is whole, and neither process closes its database
\* under work that would still use it (migrateToLatest, closeServer, createWorkerShutdown).
DatabaseIsReadyToTheLast == SchemaIsWhole /\ ApiClosesDatabaseLast /\ WorkerClosesDatabaseLast

\* From the moment the worker is initialized its stream is neither lost nor doubled,
\* and none is left after its end (StreamIsKept).
StreamIsKeptAlive == life \in {"gone", "starting"} \/ StreamIsKept

\* No step takes back what a later request stored in the cache (put), none writes the
\* worker's row after its farewell (createWorkerShutdown), and none makes a device active
\* that was revoked or found gone while the record of its subscription is kept
\* (PushSubscriptionRepository.upsert, IdempotencyRepository.execute).
RecordsMoveForward == [][EntryMovesForward /\ FarewellIsLast /\ GoneUntilForgotten]_vars

\* The worker recovers or says so: a lost stream is found again, and what stays unhealthy
\* reaches the row that /api/ready reads (scheduleReconnect, recordHeartbeat).
WorkerRecoversOrTells == StreamComesBack /\ UnhealthIsReported
=============================================================================
