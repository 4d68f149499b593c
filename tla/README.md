# Stock M: formal model

TLA+ modules, TLC runs and TLAPS proofs for Stock M, a research and Paper-trading
application (TypeScript: Fastify, PostgreSQL, Redis/BullMQ, Alpaca on the server, React in
the browser). Every definition is written from the code under `server/`, `shared/` and
`src/`; the design documents under `docs/superpowers/specs` are used only to state what the
code ought to do and, in three runs and some remarks, does not.

    tlc -workers 2 -config PaperTrading_ordering.cfg MCPaperTrading   # one run
    tlapm PaperTradingProofs.tla                                      # the proofs of one part

`PROJECT.json` lists the components, the runs, the mutants that show each property can fail,
the source lines of each definition, the findings, the hazards and the theorems.

## 1. The system

Four server processes share PostgreSQL and Redis: the API and three workers (trading,
monitor, notifications). The API never calls a broker: it writes an intent and an outbox
event in one transaction. The outbox publisher (in the API process) moves events to BullMQ
queues with the event id as job id. A worker consumes a job at least once; an inbox row makes
the effect on the database happen once. The browser talks to the API only, with one
idempotency key per command.

| Component | State it keeps | Operations | Interacts with | Hard behaviour | What makes it correct |
|---|---|---|---|---|---|
| Order state machine | `order_projection.state`, `order_event` | `transition`, `appendOrderEvent` | every writer of an order | events from three sources in any order | only moves forward; a terminal state is the broker's |
| Order / cancel commands | none of their own | `submit`, `cancel` | broker, repository, scheduler | ambiguous answers, late requests, redelivery | no second order, no forgotten order |
| Trading worker | inbox, current job, timers | job processor, 30 s and 5 min passes | BullMQ, both services, stream | crash between broker call and commit | consumed means acted on |
| Reconciliation, drift | activities, ledger, drift | `reconcileOrders`, `reconcileAll` | broker, ledger, drift gate | overlapping passes, non-atomic reads | posted once; a drift shown is a drift |
| Ledger, decimals, preview | ledger events, signed tokens | `replay`, `preview`, `verify` | quotes, account, gate | rounding, expiry, stale data | what was confirmed was covered |
| Trade-update stream | socket, `seen`, timer | connect, accept, stop | observer | reconnect racing stop | one live connection; none after stop |
| Worker runtime | heartbeat, shutdown promise | start, heartbeat, shutdown | all workers | order of closing, failures while closing | nothing is used after it is closed |
| Outbox publisher | `platform.outbox_event` | `publishBatch` | Redis | two systems, no common transaction | published at least once, effect once |
| Idempotent commands | `platform.idempotency_record` | `execute` | every POST | same key at once, crash, expiry | one effect, the same answer |
| Theses, watchlists, discovery | versions, order of items | save, move, delete | idempotent commands | concurrent edits, locks in two orders | no lost update, no deadlock |
| Monitor runs | `monitor.run`, `schedule_state`, evaluations | claim, start, commit, fail | snapshots, outbox | crash after claim, concurrent periods | each change of status alerted once |
| Condition evaluation | none | `evaluateCondition`, snapshot | market data, events | missing and stale data | only fresh data decides |
| Notifications | deliveries, attempts, subscriptions | consume, retry, invalidate | push service | crash around send, retries | every delivery ends, retries are bounded |
| Market data | cache entries, cooldowns | get, put, cooldown | providers | concurrent refresh, stale fallback | older data never replaces newer |
| Schema migrations | `schema_migration` | `migrateToLatest` | every process | processes of two builds start together | nobody serves half a schema |
| Manual portfolio, performance | ledger, ignored splits | append, replay, attribute | market data | any order of dates, gaps, splits | the two replays and all contributions add up |
| React client | views, caches | ticket, history, settings, performance page | API | lost and overlapping answers, tabs | one dialog one order; what is shown is current |

`PROJECT.json` ("components") says for each part whether it is modelled, and its hazard list
names what is hard to test, at its line.

## 2. Modules

| Module | Models |
|---|---|
| `OrderLifecycle` | `orderStateMachine.ts`, as constant operators: `Accepts`, `StateAfter`, and `Progress`, the order in which states may be seen |
| `PaperTrading` | API, outbox publisher, BullMQ queue, trading worker, trade updates, passes over orders, broker and network around one or more orders |
| `OrderContract` | abstract specification: what the user may be shown of an order and how it relates to what the broker holds |
| `BrokerLedger` | decimals as scaled integers, the mapping of activities and the replay |
| `BrokerAccount` | full passes, ingestion, drift, worker restarts, the refusals of a preview, previews and confirmations at the gate; composed with the ledger |
| `NotificationDelivery` | subscriptions, outbox, queue, slots of the notification worker, push service |
| `ConditionEvaluation`, `MonitorRuns` | snapshot and evaluator as operators; schedulers, queue, monitor worker and commits, composed with them |
| `MarketCalendar`, `AlertInbox` | trading days and due periods; the view of an alert after its actions (pure) |
| `ThesisVersions`, `Watchlists`, `DiscoveryState` | what each command locks, refuses and changes, as operators on the tables |
| `StateCommands` | `withIdempotency` around the commands of these three: transactions, locks, replays, crashes, expiry |
| `Rational`, `ManualPortfolio`, `PortfolioPerformance` | exact fractions in lowest terms; ledger, replay and overview; history, valuation, returns and attribution, composed with the ledger |
| `MarketData`, `Screening`, `BrokerPerformance`, `ServerConfig` | mappings of provider answers, figures and screens, the paper ledger as the page takes it, the rules of the environment (pure) |
| `MarketCache`, `ApiProcess` | reads through the cache; the API process around them, with publisher and shutdown |
| `TradeStream`, `WorkerLife` | the websocket; the trading worker around it, with heartbeat, passes, job and shutdown |
| `SchemaMigrations` | processes that migrate one schema at the same time |
| `OrderTicket`, `OrderHistory`, `PerformanceView`, `PushSettings` | four parts of the pages with a protocol of their own, against the routes they call |
| `Deployment` | the seven parts above, side by side |
| `MC...` | the instances for TLC |
| `...Proofs` | lemmas and theorems |

### State and code

One action is one stretch of code between two awaits at which another actor can run; where
the code holds a lock or runs one statement, it is one action. A local variable that is read
before an await and used after it is state (`snap` in `PaperTrading`, `todo` of a slot in
`NotificationDelivery`, what a pass of `BrokerAccount` has listed, `seen` of a transaction in
`StateCommands`, `cached` of a request in `MarketCache`): this is where stale reads come from.

`PaperTrading`: `proj` is `order_projection.state`, with "draft" for an intent that does not
exist yet; `log` holds the `remoteEventId`s of `order_event`, whose unique index makes an
append idempotent; `bound` is `remote_order`; `outbox` and `inbox` are the platform tables.
`jobs` and `added` are the BullMQ queue and the job ids it knows. `pc`, `job`, `snap` and
`reply` are the variables of the job processor; `observing` and `pass` those of the stream
handlers and the passes. `status`, `ver`, `net` and `orphans` are Alpaca and the network.
`cancelSent`, `sent`, `refused` and `faults` are history. `observe` is two actions (bind, then
append) in each of its three callers. The inbox row is inserted at the start of a job and
committed at its end; nothing else reads it in between.

`BrokerAccount`: `activity` and `ledger` are `broker.activity` and `broker.ledger_event`,
`drift` the passes whose row is not cleared, `passes` what each pass has in hand. `Answer` is
one of the requests made side by side and `ListPage` one page of the third, so a fill can come
between them, and one that is dated before the end of a page is not on the list. `api` is the
confirmations that have passed the gate, one for each request; the route takes no lock, so they
overlap. `life` follows the worker's shutdown: "closing" until the lifecycle's close has waited for
the passes of its timer, "stopping" until BullMQ's worker has waited for the job. `underDrift`
and `caught` are history. `activities` and `account` are the broker's own books, computed by
`BrokerPosts` and not by the replay.

`NotificationDelivery`: `delivery` and `attempts` are `notification.delivery.status` and
`attemptCount`, a row named by its alert and its subscription; `active` is the set of
subscriptions with neither `revokedAt` nor `invalidAt`. A slot is one of the jobs a worker runs
at a time.

`MonitorRuns`: `runs`, `claimed`, `evaluations` and `alerts` are the tables of the schema
`monitor`, `jobs` the queue with the attempts of each job, `work` the run in hand. Whatever writes may
be refused: `AddFails`, `StartFails`, `CommitFails` and `FailRefused` are the same steps when it is.
`interrupted` is history: the runs whose start, failure or job was refused, or whose claim died with the worker.
`StateCommands`: a transaction takes its locks one by one (`held`, `need`), reads, and writes
when it commits; `db` is what is committed. What a command sees between its reads and its
commit may have changed unless it holds a lock on it, as at READ COMMITTED.

`PortfolioPerformance`: `ledger` and `ignored` are the tables of the server, `report` what the page
shows, None from each change of the ledger until the hook has loaded again. A pass of the engine is
one action, because the code computes it without an await, and a recursive function of the date
(`Inner`): the variables of the loop are the record that `Value` makes of the one before, stage by
stage as in the code (positions, closes, value, capital, return, growth). The events of a date are
the set of their places in the sorted ledger, so a replay (`Replay`) goes through places in their order
and an amount is a sum over places.

`Deployment` shares no variable between its parts, because the code shares none: one behaviour
looks at one part (`looking`) and the others stand still. Each part is a complete
specification (its own `...Init` and `...Next`).

### Abstractions

- Orders: a remote event id is `order:<id>:<status>:<updated_at>`; `ver` counts the broker's
  changes and stands for `updated_at`. The queue is a bag: a failing `queue.add` leaves its
  event for a later batch, so order is not guaranteed, and only `Fairness` speaks of first come
  first served. Commands carry the outbox id, which BullMQ ignores the second time (`added`);
  more than `MaxQueued` identical reconcile jobs waiting are merged, since processing one leaves
  the others nothing to find. `left` is the redelivery that BullMQ grants to a stalled job; these
  jobs have no `attempts`, so a processor that throws ends its job. Provider errors are the
  classes the code tells apart: retryable, ambiguous (5xx or timeout of POST and DELETE), fatal. A
  POST that timed out may still reach Alpaca (`orphans`). Left out of `Confirm`: the gate, the
  token and idempotency, which the other modules have.
- Push: an error is what `classifyPushFailure` makes of it; a "lost" answer is one to a push that
  was shown. Nothing reads `nextAttemptAt`, so delays are left out: a delayed job may start any time.
- Amounts: fractions are exact (`Rational`) where the program computes with floating-point
  numbers and rounds to eight places; the broker's side has scaled integers with their rounding.
- Entries of the manual portfolio that buy, sell or split name a symbol, as the form and the client's own
  check require (`portfolioLedger.ts:88`); the server does not look at it.
- Times, dates and versions are small numbers; a metric's operator and target are the set of
  values it accepts; names, texts, hashes and signatures are values that are equal or not.
- Idempotency records live 30 days; `Expire` (`StateCommands`) and `Forget` (`PushSettings`, where
  `forgotten` remembers it) may end one at any time between two requests.
- A cache entry of an older day never comes before a newer one of the same portfolio, so
  `PerformanceView` keeps one for each.
- A drained shutdown is no crash: `worker.close` waits for the current job.

## 3. Properties

Orders. `NeverAheadOfBroker` (however stale the report, the projection never says more than the
broker, and a terminal state is the broker's), `OnlyConfirmedOrders`, `ViewOnlyMovesForward`,
`ImplementsContract` (refinement of `OrderContract`), `SubmitIsAccountedFor` (three parts: a
consumed submit has left its trace; a second POST needs a crash or a certain refusal; every
intent in doubt has a job that looks after it), `CancelSentOnRecord`, `NeverResubmitsInDoubt`;
live: `PendingIsNotForgotten`, `DoubtIsResolved`.

Account. `PostedOnce` (two passes and a crash between two inserts), `QuietPassFindsNoDifference`
(drift is never a product of the ledger's own arithmetic or order, against the broker's books: fractions,
rounding, activities that are booked late and a ledger written in any order), `DriftStopsNewOrders` (the
gap between reading the gate and writing the order lets through who was in it when the drift
appeared, each once, and nobody who came later, however drift is replaced), `OrdersWereCovered`;
live: `DriftSettles`.

Push. `PendingDeliveryIsKept` (looked after, not given up early, attempts bounded),
`OnlyPreparedDeliveries`, `SuccessMeansPushed`, `EndedStaysEnded`, `PushedOnlyWhilePending`; live:
`DeliveryEnds`. The last two name their limits: with several slots a crash or Redis loss lets
two jobs read one row as pending, and then both send it; and an event job leaves a row pending
for ever if its subscription is not active when its turn comes (`skipped`). The bound on attempts
(`AttemptsAreBounded`) counts the delays, one last attempt, the statements that failed, and for
each loss of a process or of Redis one more attempt per slot, because a delivery may then have
several chains of retries.

Monitoring. `StaleDataDecidesNothing`, `AlertsTellTheChanges` (alerts of a metric chain, and end
where its conclusion stands), `RunsAndJobsEndTogether`; live: `AddedJobsEnd`. A run whose start or
failure could not be written, whose job the queue refused or whose claim was lost may stay claimed or
running for ever; `interrupted` names exactly these, and the property speaks of all others. Where a chain stands
is `Told`: the status of the last alert, or of one whose run was delivered again. The second
delivery of a run may find the transition of its first one again and drop the alert as a
duplicate; that is the finding `monitor_lost_alert`, and `Told` allows this much and no more.

State commands. `OneAnswerPerKey`, `ListsLoseNothing`, `SupersededIsFrozen`; live: `RequestsEnd`,
which is the absence of deadlocks between locks that are taken in different orders: a condition's
row before its symbol, and the rows of all groups by two moves.

Portfolio. `MoneyAddsUp` (contributions make the returns, the two replays agree),
`FlowsAreNotReturns`, `DaysAreMeasuredRight` (linked return, drawdown, age of closes).

Parts of a running system. `AnswersAreHonest` and `RecordsMoveForward` (cache, heartbeat row,
devices), `DatabaseIsReadyToTheLast` (migrations, both shutdowns), `StreamIsKeptAlive`,
`OneOrderPerDialog`, `PerformanceIsOfThisPortfolio`, `DeviceIsKnown`. A device that is gone comes back only
after the record of its subscription has expired (`GoneUntilForgotten`, part of `RecordsMoveForward`); live:
`WorkerRecoversOrTells`, `HistoryCatchesUp`.

Pure modules state their properties as assumptions over bounded inputs, which TLC evaluates
in the runs of `MCPortfolioPerformance` (`MarketData`, `Screening`, `BrokerPerformance`),
`MCMonitorRuns` (`MarketCalendar`, `AlertInbox`, and `WindowsLoseNothing` on the one window of
events that a run asks for) and `MCDeployment` (`ServerConfig`).

## 4. Runs

Deadlock is not checked because the systems really stop: when all is done the queues are empty
and the bounds are used up. All state counts are of distinct states.

| Run | Instance | States | Shows |
|---|---|---|---|
| `ordering` | one order, two broker versions; crash, retryable error, lost stream | 0.32 M | no step back, refinement, no intent stays pending or in doubt |
| `faults` | one order, one cancel, up to three broker versions, up to three kinds of faults of six | 4.3 M | confirmed orders, broker wins, submissions accounted for, no repeated POST, cancel on record |
| `broker_account` | five accounts: a purchase and a split booked late, a sale after a split with one fault, an activity that cannot be mapped, one order without drift, two confirmations at once with it; two passes, pages of one activity | 1.05 M | posted once, quiet passes, gate, cover, drift settles |
| `push_crash` | one alert, two slots, three retryable failures, one crash | 17 k | kept and bounded, ended for good, deliveries end |
| `push_faults` | one alert, one slot, each of eight faults once | 0.2 M | prepared rows only, success means pushed, no push after the end |
| `monitor_runs` | a metric and an event condition, two schedulers, two periods, two tries, one crash, refused statements | 142 k | stale data, alerts, runs end with their jobs, added jobs end |
| `state_commands` | eight scenarios of three or four commands, four requests, two transactions, one crash, one expiry | 131 k | one answer per key, no lost update, frozen versions, no deadlock |
| `portfolio_performance` | every ledger of up to four of ten events, six answers of the market client, six dates | 70 k | money adds up, flows are no returns, days measured right |
| `deployment_parts` | seven parts: two requests; two sockets; two polls; two loads; two previews and presses; two tabs; three processes of two builds | 0.43 M | the nine properties of the parts |
| `lost_cancel` | one order, one cancel, one retryable error | violation | see Findings |
| `monitor_false_breach` | the earnings provider is down when a window ends | violation | see Findings |
| `monitor_lost_alert` | a metric that changes with every period, four periods, one crash | violation | see Findings |

Why these bounds are enough. Actors of `PaperTrading` meet only at one order's row, job and
remote order, so one order shows every race of two of them; two broker versions let an update
overtake another, and that a third changes nothing is what the proofs show. In `faults` each kind of
fault strikes once; up to three kinds strike an order that stands as it was accepted, one kind while the
broker moves it once, and none when the broker moves it twice (`FewAtOnce`), so pairs of faults meet, and a fault
meets a fill or a cancellation at the broker; more at once are left to the proofs, which have no such
bound. A redelivered job cannot stall twice. In `NotificationDelivery`
two slots let an event job meet its own redelivery or a retry; alerts share nothing but slots.
Passes of `BrokerAccount` overlap in twos (the timer's and the command's); pages of one activity
put a page boundary between any two, which the 100 of the code do not exclude; scales of one digit round
a product of tenths as eight digits round theirs. Two confirmations are what it takes for the gate to let
more than one through.
Two periods make a run that is late meet the next; the alert that is lost needs four (a run that
dies after its commit, a later one that turns the status back, and the old one again), and that
no more of them break `AlertsTellTheChanges` is what the proof shows. Two transactions are
what a deadlock or a lost update takes; the scenarios are the pairs of commands that touch
the same rows, and the fourth request is the retry. Four events on six dates with gaps of one
and two dates reach a carried close, one that is too old, a restart of the linked return and
events between dates. In `Deployment` two of everything overlap, a third changes no overtaking: an
older answer after a newer one is all there is to go wrong. Three processes of two builds let
an older build start before, between and after two newer ones.

### Fairness

- Publisher: its 500 ms timer keeps publishing (`WF` of `Publish`).
- Queues: BullMQ hands out waiting jobs first come first served, so a job that is repeatedly
  available is taken (`SF` of `StartJob`, `StartEvent`, `StartRetry`, strong because the processor
  is busy in between); a job in hand goes on, by success or error (`WF` of `JobStep`). For the push
  service this assumes that it answers or the connection breaks in the end: `PushProvider.send`
  sets no timeout of its own.
- Timers: passes, heartbeats and polls come again (`WF`); `PendingIsNotForgotten` and `DriftSettles`
  rest on them. A stopped trading worker is started again (Compose).
- Database and broker: a heartbeat, a connection and a poll are not refused for ever (`SF`).
- Transactions: whoever holds what it needs goes on (`WF` of `Step`); nobody has to send.
- Users, broker progress, expiry and faults have no fairness, except that in `BrokerAccount` the
  day at the broker runs on.

### Findings

Three runs expect a violation. Each states a sentence of `docs/superpowers/specs`:

| Run | Sentence | What the code does |
|---|---|---|
| `lost_cancel` | 2026-08-10-alpaca-paper-trading-design.md:73, the worker sends the cancellation | a retryable DELETE error is swallowed after the request is on record (`cancelCommandService.ts:16`); a cancel_pending order is never asked to cancel again |
| `monitor_false_breach` | 2026-08-10-background-monitoring-push-design.md:72, missing data does not change a status | a group whose provider fails is left out of the answer (`eventRoutes.ts:71`), and the missing events count as events that did not happen |
| `monitor_lost_alert` | 2026-08-10-background-monitoring-push-design.md:113, one status transition produces one application alert | the key of an alert holds both statuses and the period of its run (`monitorRunService.ts:116`); a run delivered again after a later one evaluates new data under its old period, and a transition that repeats its first one is recorded while its alert is dropped |

## 5. Remarks

Seen while modelling. The first list disagrees with a sentence of the repository and was
reproduced by an earlier run of these models; it has no run of its own any more because the
behaviour is part of the models and the properties above name it as their limit.

- A pending intent refuses `remote.canceled` and `remote.expired` (`orderStateMachine.ts:42`): the job
  fails and the intent stays pending; the Paper design (line 64) says "bind it and continue tracking".
- A refusal of the POST is rethrown (`orderCommandService.ts:28`) and the intent stays pending; line 67
  says it is closed. A 429 of the POST takes the same path and not that of reconciliation (line 101).
- A cancel processed before its order is bound is consumed without trace (`cancelCommandService.ts:14`; line 73).
- Passes list open orders only, at most 500 (`alpacaTradingProvider.ts:205`): an order that closed while the
  stream was away is not seen (lines 77, 102).
- A command whose job Redis lost after it was marked published is not published again (line 105).
- After a crash a push is sent again (`notificationService.ts:53`; push design, line 113), and a retry
  exists in Redis only (`notificationService.ts:69`; line 75).
- Realized profit is summed over open positions (`portfolioAnalytics.ts:28`), so the overview loses what a closed
  one made (2026-08-06-portfolio-review-design.md:175).
- The key of an evaluation leaves out its time (`monitorStateRepository.ts:14`): a return to an earlier
  status of an event condition is not recorded, and the next run alerts again (push design, line 113).

Others, by part:

- Trading. One order whose event is refused ends the pass for the orders after it
  (`reconciliationService.ts:4`). One token may be confirmed under two keys, and the ticket makes a
  new key for each press, so a lost answer can lead to two orders of one dialog
  (`OneOrderPerDialog` allows exactly that). Edits of the form while a preview is pending do not
  invalidate it, though the design says they do; `expired` is only computed at rendering.
- Stream and workers. Handlers outlive the socket and the shutdown, and a late one can report a
  healthy stream; `seen` is marked before the observation, so a failed one stays unhealthy until
  the next update; a half-open connection is never noticed. A failing batch during the API's shutdown
  rejects it without a handler and ends the process with its requests (`gracefulShutdown.ts:18`).
- Market data. A `Retry-After` in seconds is stored as a time and refused by the database, so no
  stale answer follows (README of the repository, line 98); a second cooldown may shorten the first;
  every quote with a price is called fresh (`index.ts:91`). The date of facts is the filing date of the
  latest period; growth compares the two latest records whatever their periods; the screener's
  conflict check leaves out "=" and strict bounds, and validates by metric and period what is
  looked up by metric only.
- Monitoring. One window of events serves all conditions of a run, so an event from before a
  condition was made counts for it only if another condition widens the window; a request of more
  than 100 symbols fails the whole run every period; one invalid condition fails the run for
  all; a claimed period whose run died is not run again; `lastSuccess` may go back, harmlessly; the
  calendar keeps a holiday on 31 December when 1 January is a Saturday, which the exchange does not.
- State. A retry after its record expired runs again. A restored group may share a place with another.
  A sale is checked in the order of entry and not of dates, so backdated events can make the replay
  go below zero (the portfolio properties assume `Covered`, and say so).
- Performance page. The identity of a cached model leaves out ignored splits and the end of the range; a
  model without prices is cached when nothing else is, and shown later as stale; the overview goes
  on with the old model after the tab is left. Collisions of FNV-1a are ignored.
- Order history. Overlapping polls may show an older list for one interval.
- Push settings. After a failed or lost request a reload can show "enabled" although the server has
  no row; a device that the push service ended is not noticed by its page; the fixed key replays the
  old answer without activating a revoked row until its record is 30 days old, and then the upsert
  reactivates (`pushSubscriptionRepository.ts:49`); a permission withdrawn in the browser only changes the
  view, though the push design (line 77) says that the subscription is revoked.
- Configuration. A malformed signing key refuses the start even with trading disabled.
- Browser migration. The emptiness check does not exclude commands that commit in between; any receipt
  opens the gate for a second browser; `exportedAt` changes the hash of the document on every export, so
  what is retried after a reload is not the same document.

## 6. Proofs

The theorems hold for every value of the constants that satisfies the named assumptions of the
modules. Each safety property rests on an inductive invariant, kept by one lemma for each step
or group of steps.

`PaperTradingProofs`, for every set of orders, cancels and passes and every bound:

| Theorem | Property |
|---|---|
| `TypeCorrect` | `TypeOK` |
| `BrokerWins` | `NeverAheadOfBroker` |
| `ConfirmedOnly` | `OnlyConfirmedOrders` |
| `ForwardOnly` | `ViewOnlyMovesForward` |
| `CancelIsRecorded` | `CancelSentOnRecord` |
| `NoResubmission` | `NeverResubmitsInDoubt` |
| `SubmissionsAreAccounted` | `SubmitIsAccountedFor` |
| `Refinement` | `ImplementsContract` |

Its first section shows that every accepted event moves `Progress` forward, that a remote event
leads to its own status and that terminal states are final. `OrderInvariant` is `TypeOK`,
`ReportsArePast`, `NeverAheadOfBroker` and `OnlyConfirmedOrders` together: the projection stays
behind the broker only because every report being appended is past, and a report is past only
because the broker's own moves go forward. `ConfirmedOnly` needs that jobs are only for confirmed
orders to know the same of remote orders. `ForwardOnly` follows from the lifecycle lemmas.
`CancelInvariant` adds that a processor at "delete" has its request on record; `DoubtInvariant` that
an intent whose doubt is on record is past pending_submission and that no processor about to look
up still holds it as pending. `Refinement` maps `proj` by `ViewOf` and `status` by `TruthOf`: each
step of `Next` is a step of the contract or a stutter.

The three parts of `SubmitIsAccountedFor` have an invariant each. `TraceInvariant` ties the inbox, the
log and the projection to what the processor has read (`ProcessorTrace`). `PostInvariant` counts: each
POST beyond the first is paid for by a crash, and so is the last one as soon as another might
follow. `TrackInvariant` keeps, until the second crash, a job that will come to look at every order
in doubt; it needs that no job has been handed out twice before the first.

`NotificationDeliveryProofs`, for every set of alerts and subscriptions and finitely many slots:

| Theorem | Property |
|---|---|
| `TypeCorrect` | `TypeOK` |
| `EndedForGood` | `EndedStaysEnded` |
| `SuccessIsReal` | `SuccessMeansPushed` |
| `PreparedOnly` | `OnlyPreparedDeliveries` |
| `DeliveryIsKeptUntilItEnds` | `PendingDeliveryIsKept` |
| `OnlyPendingIsPushed` | `PushedOnlyWhilePending` |

`WhoWritesRows` lists the steps that write a row, which gives `EndedForGood` from the
`status = 'pending'` of each update. `SuccessInvariant` adds that a slot about to record a success
holds a delivery that was pushed. `OnlyPreparedDeliveries` is not inductive: `PreparedInvariant`
adds that every job, waiting or held by a slot, speaks of a raised event or an existing row, and
that what a slot has still to send exists.

`DeliveryInvariant` joins what the last two need: what a slot may have in hand (`HandInvariant`), one
chain of retries for a delivery until a process or Redis is lost (`ChainInvariant`), whoever holds a
delivery holds a pending one while one slot at most does (`AloneInvariant`), every attempt made or
owed was allowed by something (`AttemptsInvariant`), and something tends every pending delivery
(`TendedInvariant`). `AttemptsInvariant` is where the bound came from: with three slots and one crash a
delivery can be tried more often than the delays and the faults alone would allow.

`MonitorRunsProofs`, for every finite set of conditions, every market and every number of periods,
tries and crashes:

| Theorem | Property |
|---|---|
| `AlertsTellTheStory` | `AlertsTellTheChanges` |
| `StaleDataIsNotTold` | `StaleDataDecidesNothing` |
| `RunsEndWithTheirJobs` | `RunsAndJobsEndTogether` |

`MonitorInvariant` joins the properties with what the worker has in hand (`WorkInvariant`), the states a
job and its run may be in together (`QueueInvariant`), the evaluations of a metric (`HistoryInvariant`:
fresh ones are in the order of their data and say what the market said then) and the run of each
alert (`AlertInvariant`: over, about to end, or delivered again). The heart is the commit
of an evaluation: if its alert is dropped, one with the same key exists, so its run was delivered
again, and `Told` contains the status of that alert.

`DeploymentProofs`, for every number of requests, sockets, previews, tabs, endpoints and processes:

| Theorem | Property |
|---|---|
| `AnswersSayWhatTheyAre` | `AnswersAreHonest` |
| `DatabaseServesToTheLast` | `DatabaseIsReadyToTheLast` |
| `StreamIsNeverLost` | `StreamIsKeptAlive` |
| `DialogsOrderOnce` | `OneOrderPerDialog` |
| `DevicesAreKnown` | `DeviceIsKnown` |
| `ViewsAreOfTheirPortfolio` | `PerformanceIsOfThisPortfolio` |
| `RecordsNeverGoBack` | `RecordsMoveForward` |

`DeploymentInvariant` has a part for each component; `OnePartMoves` reduces a step of the whole to a step
of one of them. `CacheInvariant`: an entry is labelled with a time before its data was loaded, and what
a request holds of it is not newer than it. `ApiInvariant` and `WorkerInvariant` keep what each stage of a
shutdown has waited for; `StreamInvariant` is `StreamIsKept` socket by socket; `SchemaInvariant` says that
the schema is a prefix of the migrations and that whoever migrates has read all of it.
`SettingsInvariant` ties rows, keys and requests of an endpoint together (an endpoint has a row exactly when
its key is kept or forgotten). `TicketInvariant`: a confirmation that is over and was not lost used up its preview, so two
with one token and both answered are the same; every order has a confirmation of its own.
`ViewInvariant`: an entry of the browser's storage is filed under what its model was made of, and a load
that no later effect has cut off is of the present input, as is what it found in the cache
(`PutKeepsEntries` and `CachedFits` say that `put` and `getLatest` keep to this, whatever was spoiled).

`BrokerAccountProofs`, for every scenario and number of passes and faults:

| Theorem | Property |
|---|---|
| `LedgerIsSafe` | `PostedOnce` |
| `GateIsSafe` | `DriftStopsNewOrders` |
| `CloseIsSafe` | `ClosedIsQuiet`: no pass of the timer after the lifecycle's close, none at all after BullMQ's |
| `OrdersAreCovered` | `OrdersWereCovered` |
| `QuietPassesAgree` | `QuietPassFindsNoDifference` |
| `RoundingIsNearest`, `RoundingIsOdd` | the division of `fixedDecimal.ts` rounds to the nearest and treats both signs alike |

`GateInv` says that while drift stands every confirmation past the gate was past it when the drift appeared,
and that those still under way and the orders written since are together no more than these
(`OneLessInFlight`): a confirmation that reads a recorded drift stops there. `BrokerInv` joins
`PostedOnce` and `ClosedIsQuiet` with the types of the passes, the drift, the stored activities and the
ledger that their steps need; `PostingIsOnce` is its heart: an event is appended only when none of its
source is there, whatever another pass posted since this one read the activities. `OrderInv` follows
the preview from the token through the confirmation to the order: `PreviewCovers` says what a preview
without a refusal has checked, and `NotionalIsNear`, which rests on `RoundingIsNearest`, that the rounded
notional hides at most half a unit.

`QuietPassesAgree` compares two bookkeepers. The broker posts each activity when it is booked, to the
nearest unit of the worth of a fill or of a split (`Nearest`, said by what is nearest and not by how one computes it);
the replay reads the ledger by time and rounds as `fixedDecimal.ts` does. `AccountIsBooks` unfolds the
broker's log, a recursive function, by induction (`UpTo`). `QuietInv` is about a pass: the pages it has listed
are the beginning of the broker's list (`PageIsNext`; `QuietStep` and `HappenIsQuiet` keep it), the whole
of it in the end while nothing happens, and what it has done is in the ledger. So when a quiet pass replays,
the ledger has each activity once, in whatever order it was written, and any reading of it by time is a
permutation of the log (`ReadingIsOfAll`). `PostedAlike` says that one ledger event does to the books what the
broker made of the activity: the rounding of the code, half a unit away from zero, is the nearest
(`NearestIsRounded`, `ProductIsNearest`). Activities that do not `Meet` commute (`OrderOfTwo`), so each
further one goes to its place whenever it is posted (`OneMoreOfSome`), and `ReplayIsAccount` carries this
through the log. One assumption is about the broker: a split and another change of the same position are
dated in the order in which they were booked (`DateAssumption`); everything else may be dated late. If a split is
dated before a trade that was booked earlier, or at the same time, the replay and the broker may differ, and
the code records a drift.
How a broker rounds is not in this code either; the theorem says that rounding to the nearest agrees with it.

`StateCommandsProofs`, for every set of commands and transactions, every consistent database to begin
with and every number of requests, crashes and expiries:

| Theorem | Property |
|---|---|
| `OneEffectForAKey` | `OneAnswerPerKey` |
| `ListsKeepEveryChange` | `ListsLoseNothing` |
| `SupersededConditionsAreFrozen` | `SupersededIsFrozen` |

`KeyInvariant` comes first: locks are exclusive, who has got past the check of its key holds that
key and found no record of it, and in each life a record, its event and what was answered agree. It
needs nothing of the tables. `DataInvariant` then says that what a transaction has read under its
locks is still so when it commits (`StillSo`: the versions of its symbol, the places of the groups, the
version of its row); `ReadsStay` is its heart: a commit changes only what its own locks cover
(`Growth`), so what others have read under theirs stays. The three properties of the tables follow: a
clash of rows means that the request itself was done in an earlier life of its key
(`ViolationIsOfRepetition`), a version that was the base of a change is past for good (`PastStaysPast`), and
only the conditions of the newest version change (`ConditionsAreOfTheNewest`). The tables that commands
begin with are assumed to satisfy their constraints (`Consistent`), and clients to give each condition an
id of its own (`ScenariosAssumption`); the run evaluates both for its scenarios. `ListsLoseNothing` leaves
out groups that were removed once, as the run does.

Assumptions that the proofs, and not only the runs, rest on: bounds are natural numbers, slots and
conditions are finite sets, a migration of a build is one of its numbers, and "nothing" is not
mistaken for something (`NoneAssumption`, `CacheAssumption`, `TicketAssumption`, `StreamAssumption`). The cache
of the performance tab keeps at least one entry (`KeptAssumption`; the code keeps 10). `ActivityAssumption` and
`DraftAssumption` say that an activity has the values it changes the account by and that quantities and
prices are decimals of the ledger's scales, with any number of places that they allow; `DateAssumption` is the order of dates
above; `PowerAssumption`, that powers of ten are positive and even and multiply, is arithmetic of which
the provers know nothing. Facts that
would need induction, such as that a finite set of numbers has a largest member (`LargestIsMax`),
rest on the library's theorem that the strict subsets of a finite set are well-founded.

`PortfolioPerformanceProofs`, for every set of entries, initial cash, length of the ledger, limit of carried
dates, range and set of answers of the market client:

| Theorem | Property |
|---|---|
| `MoneyAlwaysAddsUp` | `MoneyAddsUp` |
| `DaysAreAlwaysMeasuredRight` | `DaysAreMeasuredRight` |
| `FlowsAreNeverReturns` | `FlowsAreNotReturns` |

Between actions there is little to keep: `Inv` says that the ledger consists of valid events and that a
report is the performance of the present ledger under one answer (`Enter` and `Ignore` take it away).
What is hard happens inside one pass, so the invariant that counts is one of its loop: `EngineHolds`,
kept by each turn (`EngineAlwaysHolds`). It has four parts. `LoopHolds`: after date d the cash and the
positions are those of the events counted so far (`Counted`), whatever order they were entered in, and
every mark has a type. `ValuedHolds`: as long as nothing was ever valued, either no turn was made yet
or an open split or a failed request blocks every date to come (with a purchase price to fall back on, no
close is missing before). `WorthHolds`: the value carried over is the cash and the positions at
their last closes, which ties the end of one date to the beginning of the next. `ChainHolds`: each day that is
shown links to the day before it, or begins anew where that one has no value, with its own peak.

`MoneyAlwaysAddsUp` then goes from a day (`DayMakes`: the contributions of its symbols, less the fees, are the
change of its value less its flows, which is where `Covered` is used) to a stretch (`DaysMake`) and
to the sum of linked contributions (`LinkedContributionIs`); `ViewsAgree` compares the end of the loop
with the overview, since all events are counted then. `DaysAreAlwaysMeasuredRight` has three parts:
growth telescopes over days without flows (`GrowthOfDays`), the drawdowns of a stretch are its falls from the
peak (`DrawdownsAreWorst`), and each mark has a bar or purchase behind it with as many held dates since as its
age says (`MarksHold`). `FlowsAreNeverReturns` compares what a position is worth with what was gained and paid
for it: at steady prices a share of the first day keeps its worth through splits (`FactorSame`),
so the trades of a symbol balance (`TradesBalance`), every mark is the steady price divided among the
shares a split made (`SteadyAt`, again along the dates), each symbol makes nothing on a date
(`PartMakesNothing`), and so does the day. All three take the ledger in the order of its dates:
`SortedIs` shows that `Sorted` is a permutation of it, by date, with splits first (`InOrder`).

`RationalProofs` is what they all rest on: sums over finite sets as the library defines them (how a sum
splits, over two disjoint sets or by the class of its members), Euclid's algorithm and the arithmetic of
fractions. Its theorem `FractionsAreSame` says that `Fraction` gives one form for every number: two are equal exactly
when their cross products are, so an equality in the properties above is one of numbers.

Induction. The library's induction theorems take an operator as parameter and cannot be used with these
provers. Where the proofs need induction they take a set of numbers that contains 0 and with each m below a
bound m + 1 (`UpTo`), or a set of sets that grows by one member (`FiniteGrow`), and get it from the theorem
that the strict subsets of a finite set are well-founded. This is enough because every recursion of the
models runs along a sequence or the dates up to a bound: a recursive function on such a range is shown to
exist (`ReplayIsDefined`, `InnerIsDefined`, `LinkedIsDefined`) and then used by its equation.

All invariants and action properties that the passing runs check, and the refinement of `OrderContract`, are
proved. Only model-checked: what must happen in the end (`PendingIsNotForgotten`,
`DoubtIsResolved`, `DriftSettles`, `DeliveryEnds`, `AddedJobsEnd`, `RequestsEnd`, `WorkerRecoversOrTells`,
`HistoryCatchesUp`), since fairness and ENABLED are out of the prover's reach, and the assumptions of the
pure modules, which are about bounded inputs.

## 7. Not modelled

Settings, alerts and weekly reviews of the manual portfolio and reviews of a thesis (each one
insert or update under one lock), the task health view (reads), browser migration (one import
behind a page that shows nothing else; mapping field by field), HTTP and JSON of the providers,
encryption and signatures, registration of routes, security headers, rendering and forms, tests and
scripts. `portfolioSettingsRepository`, `splitDecisionRepository` and the client-side monitoring
stores have no user in production.

## 8. Plan

What is left. Modelling: the settings, alerts and weekly reviews of the manual portfolio and the browser
migration, if they get steps of their own between two awaits. Proofs: that whoever waits for
an answer has somebody who will give it, which is the part of the liveness properties that is an
invariant (`TrackInvariant` and `TendedInvariant` are of this kind; requests, monitor jobs and the
health of the stream have none yet), and lemmas about all inputs for the pure modules, first
`MarketCalendar` and `ServerConfig`.
