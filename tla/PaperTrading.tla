---------------------------- MODULE PaperTrading ----------------------------
(***************************************************************************)
(* The life of a Paper order between the API process, PostgreSQL, Redis,   *)
(* the trading worker and Alpaca.                                          *)
(*                                                                         *)
(* The API records intents together with an outbox event; the publisher    *)
(* moves outbox events to a BullMQ queue; the trading worker consumes one  *)
(* job at a time and talks to the broker; the worker's trade-update stream *)
(* and its reconciliation passes record what the broker reports.  Every    *)
(* await at which another of these actors can run separates two actions.   *)
(*                                                                         *)
(* The queue is a bag: an event whose queue.add fails is left for a later  *)
(* batch while the following ones are published, so commands may reach the *)
(* worker in any order.  The drift gate of the confirmation route is left  *)
(* out: it only restricts when Confirm may happen.                         *)
(***************************************************************************)
EXTENDS Naturals, FiniteSets, OrderLifecycle

CONSTANTS
    Orders,      \* order intents; an intent also names its submit command
    Cancels,     \* cancel intents; one also names its cancel command
    Target,      \* the order each cancel intent is for
    Passes,      \* reconciliation passes that may overlap
    None,        \* no job, no observation
    MaxVersion,  \* bound: broker changes of one order
    MaxQueued,   \* bound: identical reconcile jobs waiting
    MaxFaults    \* bound: how often each kind of fault strikes

FaultKind == {"crash", "retryable", "fatal", "queue", "stream", "redis"}

ASSUME CommandsAssumption == Orders \cap Cancels = {}
ASSUME TargetAssumption == Target \in [Cancels -> Orders]
ASSUME BoundsAssumption ==
    /\ MaxVersion \in Nat \ {0}
    /\ MaxQueued \in Nat \ {0}
    /\ MaxFaults \in [FaultKind -> Nat]

Commands == Orders \cup Cancels

\* left: redeliveries BullMQ still grants after a stall (maxStalledCount 1).
Job == [kind: {"submit", "reconcile"}, of: Orders, left: 0..1]
           \cup [kind: {"cancel"}, of: Cancels, left: 0..1]

\* What the broker reported of an order; the pair status, updated_at is the
\* remoteEventId under which it is recorded, so ver stands for updated_at.
Observation == [order: Orders, status: RemoteStatus, ver: 1..MaxVersion]

EventId == Observation \cup [cancel: Cancels] \cup [reconcile: Orders]

ASSUME NoneAssumption == None \notin Job \cup Observation

VARIABLES
    \* PostgreSQL
    outbox,     \* Commands -> "none", "pending" or "published"
    inbox,      \* commands the worker has consumed
    proj,       \* order_projection.state; "draft" while there is no intent
    bound,      \* orders with a remote_order row
    log,        \* the remoteEventIds of order_event
    \* Redis
    jobs,       \* how many copies of each job are waiting or delayed
    added,      \* commands whose jobId BullMQ knows, finished ones included
    \* the trading worker
    pc,         \* where the processor of the current job is
    job,        \* the current job
    snap,       \* the projection state submit read when it began
    reply,      \* the broker's answer it holds
    observing,  \* stream updates bound but not yet appended
    pass,       \* reconciliation passes: what is left, what is being observed
    \* the broker and the network
    status,     \* Alpaca's status of each order
    ver,        \* its updated_at
    net,        \* trade updates on the way to the worker
    orphans,    \* POST requests on the way that nobody waits for
    cancelSent, \* orders whose DELETE has reached the broker
    \* history
    sent,       \* POST requests sent for each order
    refused,    \* how the broker last refused a POST of the order
    faults      \* faults so far

brokerVars == <<status, ver, net>>
postVars   == <<orphans, sent, refused>>
queueVars  == <<jobs, added>>
eventVars  == <<outbox, inbox>>
streamVars == <<observing, pass>>
workerVars == <<pc, job, snap, reply>>
vars == <<eventVars, proj, bound, log, queueVars, workerVars, streamVars,
          brokerVars, postVars, cancelSent, faults>>

StepName == {"idle", "lookup", "posting", "reply", "append", "mark",
             "recordCancel", "delete", "schedule", "commit", "ack"}

Fault(kind) ==
    /\ faults[kind] < MaxFaults[kind]
    /\ faults' = [faults EXCEPT ![kind] = @ + 1]

----------------------------------------------------------------------------
(* brokerRepository.appendOrderEvent: one transaction with the projection   *)
(* row locked.  A known remoteEventId changes nothing; an event the state   *)
(* machine refuses rolls the insert back and throws.                        *)

Throws(o, event, id) == id \notin log /\ ~Accepts(proj[o], event)

AppendOrderEvent(o, event, id) ==
    \/ /\ id \in log
       /\ UNCHANGED <<proj, log>>
    \/ /\ id \notin log
       /\ Accepts(proj[o], event)
       /\ proj' = [proj EXCEPT ![o] = StateAfter(@, event)]
       /\ log' = log \cup {id}

\* An observation that throws leaves the projection and the log alone.
AppendObserved(m) ==
    IF Throws(m.order, m.status, m)
    THEN UNCHANGED <<proj, log>>
    ELSE AppendOrderEvent(m.order, m.status, m)

----------------------------------------------------------------------------
(* The API process.                                                         *)

\* Mutant of Confirm: the accepted request is shown as an accepted order.
ConfirmAsAccepted(o) ==
    /\ outbox[o] = "none"
    /\ proj' = [proj EXCEPT ![o] = "accepted"]
    /\ outbox' = [outbox EXCEPT ![o] = "pending"]
    /\ UNCHANGED <<inbox, bound, log, queueVars, workerVars, streamVars,
                   brokerVars, postVars, cancelSent, faults>>

\* The user confirms a previewed order: intent, projection and outbox event
\* in one transaction.
Confirm(o) ==
    /\ outbox[o] = "none"
    /\ proj' = [proj EXCEPT ![o] = "pending_submission"]
    /\ outbox' = [outbox EXCEPT ![o] = "pending"]
    /\ UNCHANGED <<inbox, bound, log, queueVars, workerVars, streamVars,
                   brokerVars, postVars, cancelSent, faults>>

\* Mutant of RequestCancel: the intent need not exist.
CancelUnchecked(c) ==
    /\ outbox[c] = "none"
    /\ outbox' = [outbox EXCEPT ![c] = "pending"]
    /\ UNCHANGED <<inbox, proj, bound, log, queueVars, workerVars, streamVars,
                   brokerVars, postVars, cancelSent, faults>>

\* The user asks for a cancellation; the route checks nothing but that the
\* intent exists (a foreign key).
RequestCancel(c) ==
    /\ outbox[c] = "none"
    /\ outbox[Target[c]] # "none"
    /\ outbox' = [outbox EXCEPT ![c] = "pending"]
    /\ UNCHANGED <<inbox, proj, bound, log, queueVars, workerVars, streamVars,
                   brokerVars, postVars, cancelSent, faults>>

CommandJob(e) ==
    [kind |-> IF e \in Orders THEN "submit" ELSE "cancel", of |-> e, left |-> 1]

\* queue.add with jobId = the event's id: BullMQ ignores an id it knows.
QueueAdd(e) ==
    /\ added' = added \cup {e}
    /\ jobs' = IF e \in added THEN jobs
                              ELSE [jobs EXCEPT ![CommandJob(e)] = @ + 1]

\* publishBatch for one event: queue.add and markPublished.  A queue.add that
\* fails only counts an attempt.
Publish(e) ==
    /\ outbox[e] = "pending"
    /\ QueueAdd(e)
    /\ outbox' = [outbox EXCEPT ![e] = "published"]
    /\ UNCHANGED <<inbox, proj, bound, log, workerVars, streamVars,
                   brokerVars, postVars, cancelSent, faults>>

\* The publisher dies after queue.add and before its transaction commits.
PublishUncommitted(e) ==
    /\ outbox[e] = "pending"
    /\ e \notin added
    /\ QueueAdd(e)
    /\ UNCHANGED <<eventVars, proj, bound, log, workerVars, streamVars,
                   brokerVars, postVars, cancelSent, faults>>

----------------------------------------------------------------------------
(* The trading worker: concurrency 1, so one job at a time.  A processor    *)
(* that throws leaves its job failed (no attempts are configured) and rolls *)
(* its inbox row back; what it wrote on other connections stays.            *)

OrderOf(j) == IF j.kind = "cancel" THEN Target[j.of] ELSE j.of
Current == OrderOf(job)

Goto(step) == pc' = step /\ UNCHANGED <<job, snap, reply>>

BecomeIdle ==
    /\ pc' = "idle"
    /\ job' = None
    /\ snap' = "draft"
    /\ reply' = None

JobFails == BecomeIdle

\* The command is through; what it had read and heard is of no more use.
CommandEnds ==
    /\ pc' = "commit"
    /\ snap' = "draft"
    /\ reply' = None
    /\ UNCHANGED job

\* Where submit and cancel go after reading the projection.
FirstStep(j) ==
    LET o == OrderOf(j)
    IN  IF proj[o] \in TerminalStates THEN "commit"
        ELSE IF j.kind # "cancel" THEN "lookup"
        ELSE IF proj[o] = "cancel_pending" \/ o \notin bound THEN "schedule"
        ELSE "recordCancel"

\* The processor takes a job, inserts its inbox row and reads the projection;
\* a command consumed before is done at once.
StartJob(j) ==
    /\ pc = "idle"
    /\ jobs[j] > 0
    /\ jobs' = [jobs EXCEPT ![j] = @ - 1]
    /\ job' = j
    /\ snap' = IF j.kind = "cancel" THEN snap ELSE proj[OrderOf(j)]
    /\ pc' = IF j.kind # "reconcile" /\ j.of \in inbox THEN "ack" ELSE FirstStep(j)
    /\ UNCHANGED <<eventVars, proj, bound, log, added, reply, streamVars,
                   brokerVars, postVars, cancelSent, faults>>

Report(o) == [order |-> o, status |-> status[o], ver |-> ver[o]]

\* getOrderByClientOrderId finds the order; observe binds it first.
LookupFinds ==
    /\ pc = "lookup"
    /\ status[Current] # "absent"
    /\ reply' = Report(Current)
    /\ bound' = bound \cup {Current}
    /\ pc' = "append"
    /\ UNCHANGED <<eventVars, proj, log, queueVars, job, snap, streamVars,
                   brokerVars, postVars, cancelSent, faults>>

\* Mutant of LookupMisses: an intent in doubt is submitted like any other.
LookupMissesResubmits ==
    /\ pc = "lookup"
    /\ status[Current] = "absent"
    /\ Goto("posting")
    /\ sent' = [sent EXCEPT ![Current] = @ + 1]
    /\ UNCHANGED <<eventVars, proj, bound, log, queueVars, streamVars,
                   brokerVars, orphans, refused, cancelSent, faults>>

\* It is not there: an intent that was reconciling is looked up again later,
\* any other is submitted.
LookupMisses ==
    /\ pc = "lookup"
    /\ status[Current] = "absent"
    /\ \/ /\ snap = "reconciling"
          /\ Goto("schedule")
          /\ UNCHANGED sent
       \/ /\ snap # "reconciling"
          /\ Goto("posting")
          /\ sent' = [sent EXCEPT ![Current] = @ + 1]
    /\ UNCHANGED <<eventVars, proj, bound, log, queueVars, streamVars,
                   brokerVars, orphans, refused, cancelSent, faults>>

\* Mutant of LookupFails: the command is left without a mark.
LookupFailsSilently ==
    /\ pc = "lookup"
    /\ \/ Fault("retryable") /\ CommandEnds
       \/ Fault("fatal") /\ JobFails
    /\ UNCHANGED <<eventVars, proj, bound, log, queueVars, streamVars,
                   brokerVars, postVars, cancelSent>>

\* 429, 5xx, timeout: mark the intent.  Any other error is thrown.
LookupFails ==
    /\ pc = "lookup"
    /\ \/ Fault("retryable") /\ Goto("mark")
       \/ Fault("fatal") /\ JobFails
    /\ UNCHANGED <<eventVars, proj, bound, log, queueVars, streamVars,
                   brokerVars, postVars, cancelSent>>

\* The broker creates the order and announces it on the stream.
BrokerAccepts(o) ==
    /\ status[o] = "absent"
    /\ status' = [status EXCEPT ![o] = "accepted"]
    /\ ver' = [ver EXCEPT ![o] = 1]
    /\ net' = net \cup {[order |-> o, status |-> "accepted", ver |-> 1]}

PostAccepted ==
    /\ pc = "posting"
    /\ BrokerAccepts(Current)
    /\ reply' = [order |-> Current, status |-> "accepted", ver |-> 1]
    /\ pc' = "reply"
    /\ UNCHANGED <<eventVars, proj, bound, log, queueVars, job, snap, streamVars,
                   postVars, cancelSent, faults>>

Refuse(why) == refused' = [refused EXCEPT ![Current] = why]

\* 4xx without an order: the client order id exists already, the order is
\* invalid, or the rate limit is hit.  None of them is ambiguous: all throw.
PostRefused ==
    /\ pc = "posting"
    /\ \/ status[Current] # "absent" /\ Refuse("duplicate") /\ UNCHANGED faults
       \/ Fault("fatal") /\ Refuse("rejected")
       \/ Fault("retryable") /\ Refuse("rate_limited")
    /\ JobFails
    /\ UNCHANGED <<eventVars, proj, bound, log, queueVars, streamVars,
                   brokerVars, orphans, sent, cancelSent>>

\* The request times out before the broker has it; it may still arrive.
PostTimesOut ==
    /\ pc = "posting"
    /\ Fault("retryable")
    /\ orphans' = [orphans EXCEPT ![Current] = @ + 1]
    /\ Goto("mark")
    /\ UNCHANGED <<eventVars, proj, bound, log, queueVars, streamVars,
                   brokerVars, sent, refused, cancelSent>>

ReplyArrives ==
    /\ pc = "reply"
    /\ bound' = bound \cup {Current}
    /\ Goto("append")
    /\ UNCHANGED <<eventVars, proj, log, queueVars, streamVars, brokerVars,
                   postVars, cancelSent, faults>>

\* The answer is lost or a 5xx (ambiguous), or does not parse (thrown).
ReplyFails ==
    /\ pc = "reply"
    /\ \/ Fault("retryable") /\ pc' = "mark" /\ reply' = None
            /\ UNCHANGED <<job, snap>>
       \/ Fault("fatal") /\ JobFails
    /\ UNCHANGED <<eventVars, proj, bound, log, queueVars, streamVars,
                   brokerVars, postVars, cancelSent>>

\* observe appends the remote event.
AppendReply ==
    /\ pc = "append"
    /\ AppendObserved(reply)
    /\ IF Throws(Current, reply.status, reply) THEN JobFails ELSE CommandEnds
    /\ UNCHANGED <<eventVars, bound, queueVars, streamVars, brokerVars, postVars,
                   cancelSent, faults>>

ReconcileId(o) == [reconcile |-> o]

\* markReconciling records the ambiguity only for an intent read as pending.
MarkReconciling ==
    /\ pc = "mark"
    /\ \/ /\ snap = "pending_submission"
          /\ AppendOrderEvent(Current, "command.reconciling", ReconcileId(Current))
          /\ Goto("schedule")
       \/ /\ snap = "pending_submission"
          /\ Throws(Current, "command.reconciling", ReconcileId(Current))
          /\ UNCHANGED <<proj, log>>
          /\ JobFails
       \/ /\ snap # "pending_submission"
          /\ UNCHANGED <<proj, log>>
          /\ Goto("schedule")
    /\ UNCHANGED <<eventVars, bound, queueVars, streamVars, brokerVars, postVars,
                   cancelSent, faults>>

ReconcileJob(o) == [kind |-> "reconcile", of |-> o, left |-> 1]

\* Mutant of Schedule: BullMQ knows the id of the job and ignores it.
ScheduleNothing ==
    /\ pc = "schedule"
    /\ CommandEnds
    /\ UNCHANGED <<eventVars, proj, bound, log, queueVars, streamVars, brokerVars,
                   postVars, cancelSent, faults>>

\* scheduler.reconcileOrder: a delayed job with an id of its own.  Beyond
\* MaxQueued waiting copies one more is merged with those.
Schedule ==
    /\ pc = "schedule"
    /\ \/ /\ jobs' = [jobs EXCEPT ![ReconcileJob(Current)] =
                            IF @ < MaxQueued THEN @ + 1 ELSE @]
          /\ CommandEnds
          /\ UNCHANGED faults
       \/ /\ Fault("queue")
          /\ JobFails
          /\ UNCHANGED jobs
    /\ UNCHANGED <<eventVars, proj, bound, log, added, streamVars, brokerVars,
                   postVars, cancelSent>>

\* Mutant of RecordCancel: a request that cannot be recorded is sent anyway.
RecordCancelUnchecked ==
    /\ pc = "recordCancel"
    /\ LET id == [cancel |-> job.of]
       IN  \/ AppendOrderEvent(Current, "command.cancel_requested", id)
           \/ /\ Throws(Current, "command.cancel_requested", id)
              /\ UNCHANGED <<proj, log>>
    /\ Goto("delete")
    /\ UNCHANGED <<eventVars, bound, queueVars, streamVars, brokerVars, postVars,
                   cancelSent, faults>>

\* cancel records the request before it sends the DELETE.
RecordCancel ==
    /\ pc = "recordCancel"
    /\ LET id == [cancel |-> job.of]
       IN  \/ /\ AppendOrderEvent(Current, "command.cancel_requested", id)
              /\ Goto("delete")
           \/ /\ Throws(Current, "command.cancel_requested", id)
              /\ UNCHANGED <<proj, log>>
              /\ JobFails
    /\ UNCHANGED <<eventVars, bound, queueVars, streamVars, brokerVars, postVars,
                   cancelSent, faults>>

\* cancelOrder reaches the broker.  A closed order is refused (422, thrown);
\* an answer that is lost is swallowed like a success.
Delete ==
    /\ pc = "delete"
    /\ cancelSent' = cancelSent \cup {Current}
    /\ IF status[Current] \in TerminalStates THEN JobFails ELSE Goto("schedule")
    /\ UNCHANGED <<eventVars, proj, bound, log, queueVars, streamVars, brokerVars,
                   postVars, faults>>

\* It does not reach the broker: retryable errors are swallowed.
DeleteFails ==
    /\ pc = "delete"
    /\ \/ Fault("retryable") /\ Goto("schedule")
       \/ Fault("fatal") /\ JobFails
    /\ UNCHANGED <<eventVars, proj, bound, log, queueVars, streamVars, brokerVars,
                   postVars, cancelSent>>

\* The inbox transaction commits; then BullMQ is told that the job is done.
CommitInbox ==
    /\ pc = "commit"
    /\ inbox' = IF job.kind = "reconcile" THEN inbox ELSE inbox \cup {job.of}
    /\ Goto("ack")
    /\ UNCHANGED <<outbox, proj, bound, log, queueVars, streamVars, brokerVars,
                   postVars, cancelSent, faults>>

Acknowledge ==
    /\ pc = "ack"
    /\ BecomeIdle
    /\ UNCHANGED <<eventVars, proj, bound, log, queueVars, streamVars, brokerVars,
                   postVars, cancelSent, faults>>

----------------------------------------------------------------------------
(* The worker's observers.  Both bind the remote order and then append the  *)
(* event in a transaction of its own.                                       *)

\* AlpacaTradeUpdates.accept hands a trade update to observeOrder.  Handlers
\* of several messages run side by side, so their order is lost.
StreamReceives(m) ==
    /\ m \in net
    /\ net' = net \ {m}
    /\ observing' = observing \cup {m}
    /\ bound' = bound \cup {m.order}
    /\ UNCHANGED <<eventVars, proj, log, queueVars, workerVars, pass, status, ver,
                   postVars, cancelSent, faults>>

\* A refused update is dropped: seen already holds it.
StreamAppends(m) ==
    /\ m \in observing
    /\ observing' = observing \ {m}
    /\ AppendObserved(m)
    /\ UNCHANGED <<eventVars, bound, queueVars, workerVars, pass, brokerVars,
                   postVars, cancelSent, faults>>

StreamLoses(m) ==
    /\ m \in net
    /\ Fault("stream")
    /\ net' = net \ {m}
    /\ UNCHANGED <<eventVars, proj, bound, log, queueVars, workerVars, streamVars,
                   status, ver, postVars, cancelSent>>

OpenOrders == {o \in Orders : status[o] \notin TerminalStates \cup {"absent"}}

NoPass == [todo |-> {}, cur |-> {}]

\* reconcileOrders, and the order part of reconcileAll: a list of the orders
\* that are open now is observed one by one; the order of the list is free.
PassLists(p) ==
    /\ pass[p] = NoPass
    /\ OpenOrders # {}
    /\ pass' = [pass EXCEPT ![p].todo = {Report(o) : o \in OpenOrders}]
    /\ UNCHANGED <<eventVars, proj, bound, log, queueVars, workerVars, observing,
                   brokerVars, postVars, cancelSent, faults>>

PassBinds(p) ==
    /\ pass[p].cur = {}
    /\ \E m \in pass[p].todo :
          /\ pass' = [pass EXCEPT ![p] = [todo |-> @.todo \ {m}, cur |-> {m}]]
          /\ bound' = bound \cup {m.order}
    /\ UNCHANGED <<eventVars, proj, log, queueVars, workerVars, observing,
                   brokerVars, postVars, cancelSent, faults>>

\* An observation that throws ends the pass: the rest is not observed.
PassAppends(p) ==
    /\ \E m \in pass[p].cur :
          /\ AppendObserved(m)
          /\ pass' = [pass EXCEPT ![p] = IF Throws(m.order, m.status, m)
                                         THEN NoPass
                                         ELSE [@ EXCEPT !.cur = {}]]
    /\ UNCHANGED <<eventVars, bound, queueVars, workerVars, observing, brokerVars,
                   postVars, cancelSent, faults>>

----------------------------------------------------------------------------
(* The broker.                                                              *)

BrokerMoves ==
    [s \in RemoteStatus |->
        CASE s = "accepted"         -> RemoteStatus \ {"accepted"}
          [] s = "new"              -> RemoteStatus \ {"accepted", "new"}
          [] s = "partially_filled" -> {"partially_filled", "filled", "canceled",
                                        "expired"}
          [] OTHER                  -> {}]

BrokerUpdates(o) ==
    /\ status[o] # "absent"
    /\ ver[o] < MaxVersion
    /\ \E s \in BrokerMoves[status[o]] :
          /\ status' = [status EXCEPT ![o] = s]
          /\ ver' = [ver EXCEPT ![o] = @ + 1]
          /\ net' = net \cup {[order |-> o, status |-> s, ver |-> ver[o] + 1]}
    /\ UNCHANGED <<eventVars, proj, bound, log, queueVars, workerVars, streamVars,
                   postVars, cancelSent, faults>>

\* A POST nobody waits for arrives, late; a second one for the same client
\* order id is refused.  Or it is lost.
OrphanArrives(o) ==
    /\ orphans[o] > 0
    /\ orphans' = [orphans EXCEPT ![o] = @ - 1]
    /\ BrokerAccepts(o) \/ UNCHANGED brokerVars
    /\ UNCHANGED <<eventVars, proj, bound, log, queueVars, workerVars, streamVars,
                   sent, refused, cancelSent, faults>>

----------------------------------------------------------------------------
(* Crashes.                                                                 *)

\* BullMQ finds the job stalled and hands it out once more; a reconcile job
\* whose inbox row is committed would be consumed before and is not counted.
Redelivers ==
    /\ pc # "idle"
    /\ job.left > 0
    /\ ~(pc = "ack" /\ job.kind = "reconcile")

\* The worker process dies: its job stalls, a POST it waits for is on its own,
\* its observers and the stream's connection are gone.
WorkerCrash ==
    /\ Fault("crash")
    /\ jobs' = IF Redelivers
               THEN [jobs EXCEPT ![[job EXCEPT !.left = 0]] =
                        IF @ < MaxQueued THEN @ + 1 ELSE @]
               ELSE jobs
    /\ orphans' = IF pc = "posting" THEN [orphans EXCEPT ![Current] = @ + 1]
                                     ELSE orphans
    /\ BecomeIdle
    /\ observing' = {}
    /\ pass' = [p \in Passes |-> NoPass]
    /\ net' = {}
    /\ UNCHANGED <<eventVars, proj, bound, log, added, status, ver, sent, refused,
                   cancelSent>>

\* Redis loses its data: waiting jobs and known ids are gone, and the current
\* job cannot be redelivered.
RedisLoss ==
    /\ Fault("redis")
    /\ jobs' = [j \in Job |-> 0]
    /\ added' = {}
    /\ job' = IF pc = "idle" THEN job ELSE [job EXCEPT !.left = 0]
    /\ UNCHANGED <<eventVars, proj, bound, log, pc, snap, reply, streamVars,
                   brokerVars, postVars, cancelSent>>

----------------------------------------------------------------------------
Init ==
    /\ outbox = [e \in Commands |-> "none"]
    /\ inbox = {}
    /\ proj = [o \in Orders |-> "draft"]
    /\ bound = {}
    /\ log = {}
    /\ jobs = [j \in Job |-> 0]
    /\ added = {}
    /\ pc = "idle"
    /\ job = None
    /\ snap = "draft"
    /\ reply = None
    /\ observing = {}
    /\ pass = [p \in Passes |-> NoPass]
    /\ status = [o \in Orders |-> "absent"]
    /\ ver = [o \in Orders |-> 0]
    /\ net = {}
    /\ orphans = [o \in Orders |-> 0]
    /\ cancelSent = {}
    /\ sent = [o \in Orders |-> 0]
    /\ refused = [o \in Orders |-> "no"]
    /\ faults = [k \in FaultKind |-> 0]

Api ==
    \/ \E o \in Orders : Confirm(o)
    \/ \E c \in Cancels : RequestCancel(c)
    \/ \E e \in Commands : Publish(e) \/ PublishUncommitted(e)

\* Steps of the job processor.  A fault is one of their outcomes, so the
\* processor goes on in one way or another whenever it is not idle.
JobStep ==
    \/ LookupFinds \/ LookupMisses \/ LookupFails
    \/ PostAccepted \/ PostRefused \/ PostTimesOut
    \/ ReplyArrives \/ ReplyFails \/ AppendReply
    \/ MarkReconciling \/ Schedule
    \/ RecordCancel \/ Delete \/ DeleteFails
    \/ CommitInbox \/ Acknowledge

Start == \E j \in Job : StartJob(j)

Stream ==
    \/ \E m \in net : StreamReceives(m) \/ StreamLoses(m)
    \/ \E m \in observing : StreamAppends(m)

Reconciliation ==
    \E p \in Passes : PassLists(p) \/ PassBinds(p) \/ PassAppends(p)

Broker == \E o \in Orders : BrokerUpdates(o) \/ OrphanArrives(o)

Next ==
    \/ Api \/ Start \/ JobStep \/ Stream \/ Reconciliation
    \/ Broker \/ WorkerCrash \/ RedisLoss

Spec == Init /\ [][Next]_vars

----------------------------------------------------------------------------
(* Safety.                                                                  *)

DatabaseType ==
    /\ outbox \in [Commands -> {"none", "pending", "published"}]
    /\ inbox \subseteq Commands
    /\ proj \in [Orders -> LocalOrderState]
    /\ bound \subseteq Orders
    /\ log \subseteq EventId

QueueType ==
    /\ jobs \in [Job -> Nat]
    /\ added \subseteq Commands

\* What the processor holds also fits the step it is at.
WorkerType ==
    /\ pc \in StepName
    /\ job \in Job \cup {None}
    /\ snap \in LocalOrderState
    /\ reply \in Observation \cup {None}
    /\ pc # "idle" => job \in Job
    /\ pc \in {"reply", "append"} => reply \in Observation /\ reply.order = Current
    /\ pc = "recordCancel" => job.kind = "cancel"

ObserverType ==
    /\ observing \subseteq Observation
    /\ pass \in [Passes -> [todo: SUBSET Observation, cur: SUBSET Observation]]

BrokerType ==
    /\ status \in [Orders -> RemoteStatus \cup {"absent"}]
    /\ ver \in [Orders -> 0..MaxVersion]
    /\ \A o \in Orders : ver[o] = 0 <=> status[o] = "absent"
    /\ net \subseteq Observation
    /\ orphans \in [Orders -> Nat]
    /\ cancelSent \subseteq Orders

HistoryType ==
    /\ sent \in [Orders -> Nat]
    /\ refused \in [Orders -> {"no", "duplicate", "rejected", "rate_limited"}]
    /\ faults \in [FaultKind -> Nat]

TypeOK ==
    /\ DatabaseType /\ QueueType /\ WorkerType
    /\ ObserverType /\ BrokerType /\ HistoryType

\* Nothing in transit is ahead of the broker: an answer, an update or a listing
\* may be stale, but what it reports of an order has happened.
Reached(now, s) ==      \* an order whose status is now may have been reported as s
    /\ now # "absent"
    /\ Progress(s) <= Progress(now)
    /\ s \in TerminalStates => s = now

Reported(o, s) == Reached(status[o], s)

ReportsArePast ==
    /\ \A m \in net \cup observing : Reported(m.order, m.status)
    /\ \A p \in Passes : \A m \in pass[p].todo \cup pass[p].cur :
           Reported(m.order, m.status)
    /\ pc \in {"reply", "append"} => Reported(reply.order, reply.status)

\* Jobs, requests and remote orders exist only for orders the user confirmed,
\* also when a cancellation asks for the order first.
OnlyConfirmedOrders ==
    /\ \A o \in Orders : outbox[o] = "none" <=> proj[o] = "draft"
    /\ \A c \in Cancels : outbox[c] # "none" => outbox[Target[c]] # "none"
    /\ \A j \in Job : jobs[j] > 0 => outbox[OrderOf(j)] # "none"
    /\ pc # "idle" => outbox[Current] # "none"
    /\ \A o \in Orders : orphans[o] > 0 \/ status[o] # "absent" => outbox[o] # "none"

\* However stale the answer, update or listing that brought it, the projection
\* never says more than the broker did: a status it shows is no further than
\* the broker's, and a terminal one is the broker's.  The final Alpaca status
\* wins when a cancel request races with a fill.
NeverAheadOfBroker ==
    \A o \in Orders : proj[o] \in RemoteStatus => Reported(o, proj[o])

\* A POST is repeated only for a job handed out again after a crash, or when
\* the broker's refusal of an earlier one is certain: an ambiguous answer never
\* leads to a second one, whichever jobs ask for the order.
OnePostUnlessRefused ==
    \A o \in Orders : sent[o] > 1 + faults["crash"] => refused[o] # "no"

\* The broker is asked to cancel only after the cancellation is on record.
CancelSentOnRecord ==
    \A o \in cancelSent :
        \E c \in Cancels : Target[c] = o /\ [cancel |-> c] \in log

\* A submit command that is consumed, and so never handed out again, has left
\* its trace: the intent is no longer merely pending.
ConsumedSubmitLeavesTrace ==
    \A o \in Orders : o \in inbox => proj[o] # "pending_submission"

\* With Redis, the queue and the credentials in order and at most one crash,
\* some job always looks after an intent whose submission is in doubt.
TrackedBy(j, o) ==
    /\ j.kind # "cancel" /\ j.of = o
    /\ jobs[j] > 0 \/ (job = j /\ pc \notin {"commit", "ack"})

ReconcilingIsTracked ==
    faults["redis"] + faults["queue"] + faults["fatal"] = 0 /\ faults["crash"] <= 1
        => \A o \in Orders : proj[o] = "reconciling" => \E j \in Job : TrackedBy(j, o)

\* A submission is accounted for at any moment: consumed, it has left its trace;
\* repeated, it was refused or its job was handed out again; in doubt, a job
\* looks after it (OrderCommandService.submit, observe and markReconciling).
SubmitIsAccountedFor ==
    /\ ConsumedSubmitLeavesTrace
    /\ OnePostUnlessRefused
    /\ ReconcilingIsTracked

\* What is shown of an order never goes back: not from a terminal state, not
\* from a fill to unfilled, not from a broker status to merely submitted.
ViewOnlyMovesForward ==
    [][\A o \in Orders : Progress(proj[o]) <= Progress(proj'[o])]_vars

\* Once the doubt about a submission is on record it is never sent again.
NeverResubmitsInDoubt ==
    [][\A o \in Orders : sent'[o] # sent[o] => ReconcileId(o) \notin log]_vars

----------------------------------------------------------------------------
(* The contract of an order, which this module implements.                  *)

ViewOf(p) ==        \* what is shown of an order whose projection is p
    CASE p = "draft"                                 -> "none"
      [] p \in {"pending_submission", "reconciling"} -> "submitting"
      [] p \in TerminalStates                        -> p
      [] OTHER                                       -> "working"

TruthOf(s) ==       \* what the broker holds of an order whose status is s
    CASE s = "absent"          -> "none"
      [] s \in TerminalStates  -> s
      [] OTHER                 -> "open"

Contract == INSTANCE OrderContract WITH
    Closed <- TerminalStates,
    view   <- [o \in Orders |-> ViewOf(proj[o])],
    truth  <- [o \in Orders |-> TruthOf(status[o])]

\* Every step keeps the promise of OrderContract or changes nothing in it.
ImplementsContract == Contract!Spec

----------------------------------------------------------------------------
(* Liveness.  The timers of the publisher and of the reconciliation passes  *)
(* keep firing, the processor goes on with the job it has, BullMQ hands out *)
(* waiting jobs first come first served, and a trade update is delivered    *)
(* unless the connection loses it.  Nothing is assumed of the user, of the  *)
(* broker or of faults.                                                     *)

Fairness ==
    /\ \A e \in Commands : WF_vars(Publish(e))
    /\ \A j \in Job : SF_vars(StartJob(j))
    /\ WF_vars(JobStep)
    /\ WF_vars(Stream)
    /\ \A p \in Passes : WF_vars(PassLists(p) \/ PassBinds(p) \/ PassAppends(p))

FairSpec == Spec /\ Fairness

\* A confirmed intent does not stay merely pending, even if the worker crashes
\* once on the way, unless the broker refused the order or closed it with one
\* of the statuses that a pending intent cannot take over.
PendingIsNotForgotten ==
    \A o \in Orders :
        proj[o] = "pending_submission"
            ~> \/ proj[o] # "pending_submission"
               \/ refused[o] # "no"
               \/ status[o] \in {"canceled", "expired"}

\* An intent in doubt whose order the broker has leaves the doubt.
DoubtIsResolved ==
    \A o \in Orders :
        (proj[o] = "reconciling" /\ status[o] # "absent")
            ~> proj[o] # "reconciling"

----------------------------------------------------------------------------
(* What the design says and the code does not do: refuted by a run.         *)

\* Design, section 7: the worker sends the cancellation, then reconciles.
\* Every cancellation on record reaches the broker, or the order closes.
CancelReachesBroker ==
    \A c \in Cancels :
        [cancel |-> c] \in log
            ~> (Target[c] \in cancelSent \/ status[Target[c]] \in TerminalStates)
=============================================================================
