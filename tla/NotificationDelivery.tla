------------------------ MODULE NotificationDelivery ------------------------
(***************************************************************************)
(* Web Push: from an alert event in the outbox to the end of its           *)
(* deliveries (server/notifications, server/workers/notificationWorker.ts).*)
(*                                                                         *)
(* One worker process runs several jobs at a time, one in each slot.  An   *)
(* event job prepares one delivery for each active subscription and sends  *)
(* them one after the other; a retry job sends one delivery again.  The    *)
(* awaits of a job separate its actions, so slots, users and the push      *)
(* service interleave between them.                                        *)
(***************************************************************************)
EXTENDS Naturals, FiniteSets

CONSTANTS
    Alerts,      \* alerts; an alert also names its outbox event
    Subs,        \* push subscriptions
    Slots,       \* jobs the worker runs at a time (its concurrency)
    None,        \* no job, no delivery
    MaxRetries,  \* length of pushRetryDelaysMs, 4 in the code
    MaxFaults    \* bound: how often each kind of fault strikes

\* A push may fail in the three ways classifyPushFailure tells apart, or be
\* accepted with its answer lost; Redis, the database and the process may fail.
FaultKind == {"retryable", "lost", "gone", "refused",
              "queue", "database", "redis", "crash"}

ASSUME RetriesAssumption == MaxRetries \in Nat
ASSUME SlotsAssumption == IsFiniteSet(Slots) /\ Slots # {}
ASSUME FaultsAssumption == MaxFaults \in [FaultKind -> Nat]

Delivery == Alerts \X Subs

\* left: redeliveries BullMQ still grants after a stall (maxStalledCount 1).
Job == [kind: {"event"}, of: Alerts, left: 0..1]
           \cup [kind: {"retry"}, of: Delivery, left: 0..1]

ASSUME NoneAssumption == None \notin Job \cup Delivery

VARIABLES
    \* PostgreSQL
    active,     \* subscriptions neither revoked nor invalid
    outbox,     \* Alerts -> "none", "pending" or "published"
    inbox,      \* events the worker has prepared
    delivery,   \* delivery.status; "none" while there is no row
    attempts,   \* delivery.attemptCount
    \* Redis
    jobs,       \* how many copies of each job are waiting or delayed
    added,      \* events whose jobId BullMQ knows
    \* the worker
    slot,       \* what each slot is doing
    \* history
    pushes,     \* pushes the push service accepted for each delivery
    skipped,    \* deliveries an event job left out: not listed or not active
    faults      \* faults so far

alertVars == <<outbox, inbox>>
rowVars   == <<delivery, attempts>>
queueVars == <<jobs, added>>
pushVars  == <<pushes, skipped>>
vars == <<active, alertVars, rowVars, queueVars, slot, pushVars, faults>>

Status == {"none", "pending", "succeeded", "invalid", "dead_letter"}

StepName == {"idle", "prepare", "read", "next", "load", "abandon", "send",
             "recordSuccess", "markSuccess", "recordFailure",
             "invalidate", "markInvalid", "scheduleRetry", "bury"}

\* ids: the active subscriptions as they were listed; todo: the deliveries
\* still to send; cur, count: the one being sent and its attemptCount as read;
\* why: what its last failure was taken for.
Idle == [pc |-> "idle", job |-> None, ids |-> {}, todo |-> {},
         cur |-> None, count |-> 0, why |-> "none"]

Goto(w, step) == slot' = [slot EXCEPT ![w].pc = step]
JobEnds(w) == slot' = [slot EXCEPT ![w] = Idle]

\* The delivery in hand is dealt with, for now.
NextDelivery(w) ==
    slot' = [slot EXCEPT ![w] = [@ EXCEPT !.pc = "next", !.cur = None,
                                          !.count = 0, !.why = "none"]]

Fault(kind) ==
    /\ faults[kind] < MaxFaults[kind]
    /\ faults' = [faults EXCEPT ![kind] = @ + 1]

\* Mutant of Finish: the update does not look at the status.
FinishAlways(d, status) == delivery' = [delivery EXCEPT ![d] = status]

\* The updates of a delivery's status all ask for status = 'pending'.
Finish(d, status) ==
    delivery' = IF delivery[d] = "pending"
                THEN [delivery EXCEPT ![d] = status] ELSE delivery

RecordAttempt(d) == attempts' = [attempts EXCEPT ![d] = @ + 1]

----------------------------------------------------------------------------
(* Users, alerts and the outbox.                                            *)

\* upsert clears revokedAt and invalidAt of a known endpoint.
Subscribe(s) ==
    /\ active' = active \cup {s}
    /\ UNCHANGED <<alertVars, rowVars, queueVars, slot, pushVars, faults>>

Revoke(s) ==
    /\ active' = active \ {s}
    /\ UNCHANGED <<alertVars, rowVars, queueVars, slot, pushVars, faults>>

\* A monitor run, or the test route, appends the event to the outbox.
Raise(a) ==
    /\ outbox[a] = "none"
    /\ outbox' = [outbox EXCEPT ![a] = "pending"]
    /\ UNCHANGED <<active, inbox, rowVars, queueVars, slot, pushVars, faults>>

EventJob(a) == [kind |-> "event", of |-> a, left |-> 1]
RetryJob(d) == [kind |-> "retry", of |-> d, left |-> 1]

\* queue.add with jobId = the event's id: BullMQ ignores an id it knows.
QueueAdd(a) ==
    /\ added' = added \cup {a}
    /\ jobs' = IF a \in added THEN jobs ELSE [jobs EXCEPT ![EventJob(a)] = @ + 1]

\* The transaction that marks the event published commits, or not.
Publish(a) ==
    /\ outbox[a] = "pending"
    /\ QueueAdd(a)
    /\ outbox' = [outbox EXCEPT ![a] = "published"]
    /\ UNCHANGED <<active, inbox, rowVars, slot, pushVars, faults>>

PublishUncommitted(a) ==
    /\ outbox[a] = "pending"
    /\ a \notin added
    /\ QueueAdd(a)
    /\ UNCHANGED <<active, alertVars, rowVars, slot, pushVars, faults>>

----------------------------------------------------------------------------
(* Event jobs: NotificationService.consume.                                 *)

\* The slot takes the job and lists the active subscriptions.
StartEvent(w, a, left) ==
    LET j == [kind |-> "event", of |-> a, left |-> left]
    IN  /\ slot[w].pc = "idle"
        /\ jobs[j] > 0
        /\ jobs' = [jobs EXCEPT ![j] = @ - 1]
        /\ slot' = [slot EXCEPT ![w] =
                       [Idle EXCEPT !.pc = "prepare", !.job = j, !.ids = active]]
        /\ UNCHANGED <<active, alertVars, rowVars, added, pushVars, faults>>

\* prepare, its transaction: an event seen before changes nothing, and a row
\* there is for the alert and the subscription is kept.
Prepare(w) ==
    LET a == slot[w].job.of
    IN  /\ slot[w].pc = "prepare"
        /\ inbox' = inbox \cup {a}
        /\ delivery' =
               IF a \in inbox THEN delivery
               ELSE [d \in Delivery |->
                        IF d[1] = a /\ d[2] \in slot[w].ids /\ delivery[d] = "none"
                        THEN "pending" ELSE delivery[d]]
        /\ Goto(w, "read")
        /\ UNCHANGED <<active, outbox, attempts, queueVars, pushVars, faults>>

\* The deliveries of the slot's alert that wait to be sent.
PendingOf(w) == {d \in Delivery : d[1] = slot[w].job.of /\ delivery[d] = "pending"}

Listed(w) == {d \in Delivery : d[2] \in slot[w].ids}

Rows(ds) == {[d |-> d, count |-> attempts[d]] : d \in ds}

\* Mutant of ReadRows: the list of subscriptions is taken for the list of rows.
ReadRowsFromIds(w) ==
    /\ slot[w].pc = "read"
    /\ slot' = [slot EXCEPT ![w].pc = "next", ![w].todo =
           Rows({d \in Listed(w) :
                    d[1] = slot[w].job.of /\ delivery[d] \in {"none", "pending"}})]
    /\ UNCHANGED <<active, alertVars, rowVars, queueVars, pushVars, faults>>

\* prepare, its query: the rows of the listed subscriptions; those that are
\* not pending are passed over.  A redelivered job lists subscriptions again,
\* and leaves out the pending row of one that is not active any more.
ReadRows(w) ==
    /\ slot[w].pc = "read"
    /\ slot' = [slot EXCEPT ![w].pc = "next",
                            ![w].todo = Rows(PendingOf(w) \cap Listed(w))]
    /\ skipped' = skipped \cup (PendingOf(w) \ Listed(w))
    /\ UNCHANGED <<active, alertVars, rowVars, queueVars, pushes, faults>>

Taking(s, r) == [s EXCEPT !.pc = "send", !.todo = @ \ {r}, !.cur = r.d, !.count = r.count]

\* The next delivery: its subscription is loaded, and if it is not active any
\* more the delivery is passed over.
TakeNext(w) ==
    /\ slot[w].pc = "next"
    /\ \E r \in slot[w].todo :
          \/ /\ r.d[2] \in active
             /\ slot' = [slot EXCEPT ![w] = Taking(slot[w], r)]
             /\ UNCHANGED skipped
          \/ /\ r.d[2] \notin active
             /\ slot' = [slot EXCEPT ![w].todo = @ \ {r}]
             /\ skipped' = skipped \cup {r.d}
    /\ UNCHANGED <<active, alertVars, rowVars, queueVars, pushes, faults>>

\* Nothing is left to send: BullMQ is told that the job is done.
Acknowledge(w) ==
    /\ slot[w].pc = "next"
    /\ slot[w].todo = {}
    /\ JobEnds(w)
    /\ UNCHANGED <<active, alertVars, rowVars, queueVars, pushVars, faults>>

----------------------------------------------------------------------------
(* Retry jobs: NotificationService.retry.                                   *)

\* Mutant of StartRetry: the status of the row is not looked at.
StartRetryAnyway(w, d, left) ==
    LET j == [kind |-> "retry", of |-> d, left |-> left]
    IN  /\ slot[w].pc = "idle"
        /\ jobs[j] > 0
        /\ jobs' = [jobs EXCEPT ![j] = @ - 1]
        /\ slot' = [slot EXCEPT ![w] = [Idle EXCEPT !.pc = "load", !.job = j,
                                                   !.cur = d, !.count = attempts[d]]]
        /\ UNCHANGED <<active, alertVars, rowVars, added, pushVars, faults>>

\* The slot takes the job and reads the row; one that has ended is left alone.
StartRetry(w, d, left) ==
    LET j == [kind |-> "retry", of |-> d, left |-> left]
    IN  /\ slot[w].pc = "idle"
        /\ jobs[j] > 0
        /\ jobs' = [jobs EXCEPT ![j] = @ - 1]
        /\ slot' = [slot EXCEPT ![w] =
               IF delivery[d] = "pending"
               THEN [Idle EXCEPT !.pc = "load", !.job = j,
                                 !.cur = d, !.count = attempts[d]]
               ELSE [Idle EXCEPT !.pc = "next", !.job = j]]
        /\ UNCHANGED <<active, alertVars, rowVars, added, pushVars, faults>>

Load(w) ==
    /\ slot[w].pc = "load"
    /\ Goto(w, IF slot[w].cur[2] \in active THEN "send" ELSE "abandon")
    /\ UNCHANGED <<active, alertVars, rowVars, queueVars, pushVars, faults>>

Abandon(w) ==
    /\ slot[w].pc = "abandon"
    /\ Finish(slot[w].cur, "invalid")
    /\ NextDelivery(w)
    /\ UNCHANGED <<active, alertVars, attempts, queueVars, pushVars, faults>>

----------------------------------------------------------------------------
(* NotificationService.deliver.                                             *)

Fails(w, why) ==
    slot' = [slot EXCEPT ![w].pc = "recordFailure", ![w].why = why]

\* Mutant of Send: an answer that is not a success is not thrown.
SendSwallows(w) ==
    /\ slot[w].pc = "send"
    /\ \/ /\ pushes' = [pushes EXCEPT ![slot[w].cur] = @ + 1]
          /\ Goto(w, "recordSuccess")
          /\ UNCHANGED faults
       \/ /\ \E kind \in {"retryable", "gone", "refused"} : Fault(kind)
          /\ Goto(w, "recordSuccess")
          /\ UNCHANGED pushes
    /\ UNCHANGED <<active, alertVars, rowVars, queueVars, skipped>>

\* The push service answers.  A push whose answer is lost has been shown; a
\* timeout is retried, a connection that was reset is not.
Send(w) ==
    /\ slot[w].pc = "send"
    /\ \/ /\ pushes' = [pushes EXCEPT ![slot[w].cur] = @ + 1]
          /\ \/ Goto(w, "recordSuccess") /\ UNCHANGED faults
             \/ Fault("lost") /\ (Fails(w, "retry") \/ Fails(w, "terminal"))
       \/ /\ UNCHANGED pushes
          /\ \/ Fault("retryable") /\ Fails(w, "retry")
             \/ Fault("gone") /\ Fails(w, "invalidate")
             \/ Fault("refused") /\ Fails(w, "terminal")
    /\ UNCHANGED <<active, alertVars, rowVars, queueVars, skipped>>

RecordSuccess(w) ==
    /\ slot[w].pc = "recordSuccess"
    /\ RecordAttempt(slot[w].cur)
    /\ Goto(w, "markSuccess")
    /\ UNCHANGED <<active, alertVars, delivery, queueVars, pushVars, faults>>

MarkSuccess(w) ==
    /\ slot[w].pc = "markSuccess"
    /\ Finish(slot[w].cur, "succeeded")
    /\ NextDelivery(w)
    /\ UNCHANGED <<active, alertVars, attempts, queueVars, pushVars, faults>>

\* The error of a statement that records the success is caught like one of
\* the push; one that timed out is taken for a push that did.
SuccessIsNotRecorded(w) ==
    /\ slot[w].pc \in {"recordSuccess", "markSuccess"}
    /\ Fault("database")
    /\ Fails(w, "terminal") \/ Fails(w, "retry")
    /\ UNCHANGED <<active, alertVars, rowVars, queueVars, pushVars>>

\* The count decides that the row had when it was read.
AfterFailure(why, count) ==
    CASE why = "invalidate"                  -> "invalidate"
      [] why = "retry" /\ count < MaxRetries -> "scheduleRetry"
      [] OTHER                               -> "bury"

RecordFailure(w) ==
    /\ slot[w].pc = "recordFailure"
    /\ RecordAttempt(slot[w].cur)
    /\ Goto(w, AfterFailure(slot[w].why, slot[w].count))
    /\ UNCHANGED <<active, alertVars, delivery, queueVars, pushVars, faults>>

Invalidate(w) ==
    /\ slot[w].pc = "invalidate"
    /\ active' = active \ {slot[w].cur[2]}
    /\ Goto(w, "markInvalid")
    /\ UNCHANGED <<alertVars, rowVars, queueVars, pushVars, faults>>

MarkInvalid(w) ==
    /\ slot[w].pc = "markInvalid"
    /\ Finish(slot[w].cur, "invalid")
    /\ NextDelivery(w)
    /\ UNCHANGED <<active, alertVars, attempts, queueVars, pushVars, faults>>

\* Mutant of ScheduleRetry: nobody adds the job.
ScheduleNothing(w) ==
    /\ slot[w].pc = "scheduleRetry"
    /\ NextDelivery(w)
    /\ UNCHANGED <<active, alertVars, rowVars, queueVars, pushVars, faults>>

\* markRetry writes when the next attempt is due, which nothing reads; the
\* delayed job is what makes it happen.
ScheduleRetry(w) ==
    /\ slot[w].pc = "scheduleRetry"
    /\ \/ /\ jobs' = [jobs EXCEPT ![RetryJob(slot[w].cur)] = @ + 1]
          /\ NextDelivery(w)
          /\ UNCHANGED faults
       \/ /\ Fault("queue")
          /\ JobEnds(w)
          /\ UNCHANGED jobs
    /\ UNCHANGED <<active, alertVars, rowVars, added, pushVars>>

Bury(w) ==
    /\ slot[w].pc = "bury"
    /\ Finish(slot[w].cur, "dead_letter")
    /\ NextDelivery(w)
    /\ UNCHANGED <<active, alertVars, attempts, queueVars, pushVars, faults>>

\* Any other statement that fails ends the job: no attempts are configured.
DatabaseFails(w) ==
    /\ slot[w].pc \notin {"idle", "send", "recordSuccess", "markSuccess"}
    /\ slot[w].pc = "next" => slot[w].todo # {}
    /\ Fault("database")
    /\ JobEnds(w)
    /\ UNCHANGED <<active, alertVars, rowVars, queueVars, pushVars>>

----------------------------------------------------------------------------
(* Faults of the process and of Redis.                                      *)

\* The stalled jobs of the dead process are handed out once more.
Redelivered(j) ==
    IF j.left = 1 THEN 0
    ELSE Cardinality({w \in Slots : slot[w].job = [j EXCEPT !.left = 1]})

WorkerCrash ==
    /\ Fault("crash")
    /\ jobs' = [j \in Job |-> jobs[j] + Redelivered(j)]
    /\ slot' = [w \in Slots |-> Idle]
    /\ UNCHANGED <<active, alertVars, rowVars, added, pushVars>>

RedisLoss ==
    /\ Fault("redis")
    /\ jobs' = [j \in Job |-> 0]
    /\ added' = {}
    /\ slot' = [w \in Slots |->
           IF slot[w].pc = "idle" THEN slot[w] ELSE [slot[w] EXCEPT !.job.left = 0]]
    /\ UNCHANGED <<active, alertVars, rowVars, pushVars>>

----------------------------------------------------------------------------
Init ==
    /\ active \in SUBSET Subs
    /\ outbox = [a \in Alerts |-> "none"]
    /\ inbox = {}
    /\ delivery = [d \in Delivery |-> "none"]
    /\ attempts = [d \in Delivery |-> 0]
    /\ jobs = [j \in Job |-> 0]
    /\ added = {}
    /\ slot = [w \in Slots |-> Idle]
    /\ pushes = [d \in Delivery |-> 0]
    /\ skipped = {}
    /\ faults = [k \in FaultKind |-> 0]

Users == \E s \in Subs : Subscribe(s) \/ Revoke(s)

Events ==
    \/ \E a \in Alerts : Raise(a) \/ Publish(a) \/ PublishUncommitted(a)

Start(w) ==
    \E left \in 0..1 : \/ \E a \in Alerts : StartEvent(w, a, left)
                       \/ \E d \in Delivery : StartRetry(w, d, left)

\* A fault is one of the outcomes of a step, so a job always goes on.
JobStep(w) ==
    \/ Prepare(w) \/ ReadRows(w) \/ TakeNext(w) \/ Acknowledge(w)
    \/ Load(w) \/ Abandon(w)
    \/ Send(w) \/ RecordSuccess(w) \/ MarkSuccess(w) \/ SuccessIsNotRecorded(w)
    \/ RecordFailure(w) \/ Invalidate(w) \/ MarkInvalid(w)
    \/ ScheduleRetry(w) \/ Bury(w) \/ DatabaseFails(w)

Next ==
    \/ Users \/ Events
    \/ \E w \in Slots : Start(w) \/ JobStep(w)
    \/ WorkerCrash \/ RedisLoss

Spec == Init /\ [][Next]_vars

----------------------------------------------------------------------------
(* Safety.                                                                  *)

SlotState ==
    [pc: StepName, job: Job \cup {None}, ids: SUBSET Subs,
     todo: SUBSET [d: Delivery, count: Nat], cur: Delivery \cup {None},
     count: Nat, why: {"none", "retry", "invalidate", "terminal"}]

Sending == {"load", "abandon", "send", "recordSuccess", "markSuccess",
            "recordFailure", "invalidate", "markInvalid", "scheduleRetry", "bury"}

\* A step that needs a job or a delivery has one.
Coherent(s) ==
    /\ s.pc # "idle" <=> s.job # None
    /\ s.pc \in Sending <=> s.cur # None
    /\ s.pc \in {"prepare", "read"} => s.job.kind = "event"

SlotOK(s) == s \in SlotState /\ Coherent(s)

DatabaseType ==
    /\ active \subseteq Subs
    /\ outbox \in [Alerts -> {"none", "pending", "published"}]
    /\ inbox \subseteq Alerts
    /\ delivery \in [Delivery -> Status]
    /\ attempts \in [Delivery -> Nat]

QueueType ==
    /\ jobs \in [Job -> Nat]
    /\ added \subseteq Alerts

SlotType ==
    /\ slot = [w \in Slots |-> slot[w]]
    /\ \A w \in Slots : SlotOK(slot[w])

HistoryType ==
    /\ pushes \in [Delivery -> Nat]
    /\ skipped \subseteq Delivery
    /\ faults \in [FaultKind -> Nat]

\* The type of every variable; in particular, whoever sends or records a
\* delivery has one in hand.
TypeOK == DatabaseType /\ QueueType /\ SlotType /\ HistoryType

\* Whatever is sent, listed, read or waiting belongs to a delivery that was
\* prepared, and an event is prepared only after it was raised.
OnlyPreparedDeliveries ==
    /\ \A d \in Delivery : delivery[d] # "none" => d[1] \in inbox
    /\ \A a \in Alerts : a \in inbox => outbox[a] # "none"
    /\ \A d \in Delivery : pushes[d] + attempts[d] > 0 => delivery[d] # "none"
    /\ \A d \in Delivery, left \in 0..1 :
           jobs[[kind |-> "retry", of |-> d, left |-> left]] > 0 => delivery[d] # "none"
    /\ \A w \in Slots : slot[w].cur # None => delivery[slot[w].cur] # "none"

\* A delivery is called succeeded only if a push was accepted.
SuccessMeansPushed ==
    \A d \in Delivery : delivery[d] = "succeeded" => pushes[d] > 0

\* A delivery that has ended is not pushed again: neither a redelivered event
\* nor a retry that is still waiting repeats it.  With more than one slot this
\* needs that no process and no Redis was lost, for then two jobs may have read
\* the same row while it was pending.
PushedOnlyWhilePending ==
    [][Cardinality(Slots) = 1 \/ faults["crash"] + faults["redis"] = 0
           => \A d \in Delivery : pushes'[d] # pushes[d] => delivery[d] = "pending"]_vars

\* Attempts are as many as the delays and one last one, and one more for each
\* statement that failed.  A lost process or Redis can start more than one chain
\* of retries for a delivery; each slot may then be at a last attempt of its own,
\* once more for each loss.
AttemptsAreBounded ==
    LET losses == faults["crash"] + faults["redis"]
    IN  \A d \in Delivery :
            attempts[d] <= MaxRetries + faults["database"]
                             + IF losses = 0 THEN 1 ELSE Cardinality(Slots) * (1 + losses)

\* A delivery is given up only after every delay was used, unless the push
\* service refused it, its connection was reset or recording its success failed.
NotGivenUpEarly ==
    \A d \in Delivery :
        delivery[d] = "dead_letter" =>
            \/ attempts[d] > MaxRetries
            \/ faults["refused"] + faults["lost"] + faults["database"] > 0

\* While no job, statement or process is lost, something always looks after a
\* pending delivery: a waiting job, or a slot that has it to send.
LookedAfter(d) ==
    \/ \E left \in 0..1 : jobs[[kind |-> "retry", of |-> d, left |-> left]] > 0
    \/ \E left \in 0..1 : jobs[[kind |-> "event", of |-> d[1], left |-> left]] > 0
    \/ \E w \in Slots :
          \/ slot[w].cur = d
          \/ \E r \in slot[w].todo : r.d = d
          \/ slot[w].pc \in {"prepare", "read"} /\ slot[w].job.of = d[1]

PendingIsLookedAfter ==
    faults["queue"] + faults["database"] + faults["redis"] = 0 /\ faults["crash"] <= 1
        => \A d \in Delivery :
               delivery[d] = "pending" => LookedAfter(d) \/ d \in skipped

\* A pending delivery is kept, but not for ever: something looks after it, it is
\* not given up before its delays are used, and its attempts are bounded
\* (NotificationService.consume, retry and deliver).
PendingDeliveryIsKept ==
    /\ PendingIsLookedAfter
    /\ NotGivenUpEarly
    /\ AttemptsAreBounded

\* A delivery that has ended stays as it ended, and its row is never lost.
EndedStaysEnded ==
    [][\A d \in Delivery :
           /\ delivery[d] \notin {"none", "pending"} => delivery'[d] = delivery[d]
           /\ delivery[d] # "none" => delivery'[d] # "none"]_vars

----------------------------------------------------------------------------
(* Liveness.  The publisher's timer fires, BullMQ hands out waiting jobs    *)
(* first come first served (delayed ones when they are due), and each slot  *)
(* goes on with its job.  Nothing is assumed of users or faults.            *)

Fairness ==
    /\ \A a \in Alerts : WF_vars(Publish(a))
    /\ \A a \in Alerts, left \in 0..1 : SF_vars(\E w \in Slots : StartEvent(w, a, left))
    /\ \A d \in Delivery, left \in 0..1 : SF_vars(\E w \in Slots : StartRetry(w, d, left))
    /\ \A w \in Slots : WF_vars(JobStep(w))

FairSpec == Spec /\ Fairness

\* A pending delivery ends, unless its subscription was not active when its
\* turn came in the event job.
DeliveryEnds ==
    \A d \in Delivery : delivery[d] = "pending" ~> (delivery[d] # "pending" \/ d \in skipped)
=============================================================================
