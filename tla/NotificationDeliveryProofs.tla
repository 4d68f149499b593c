--------------------- MODULE NotificationDeliveryProofs ---------------------
(***************************************************************************)
(* Proofs about NotificationDelivery, for any sets of alerts,              *)
(* subscriptions and slots, any number of retries and any faults.          *)
(***************************************************************************)
EXTENDS NotificationDelivery, FiniteSetTheorems, TLAPS

\* The jobs that are added are jobs.
LEMMA JobsAreJobs ==
    /\ \A a \in Alerts, n \in 0..1 : [kind |-> "event", of |-> a, left |-> n] \in Job
    /\ \A d \in Delivery, n \in 0..1 : [kind |-> "retry", of |-> d, left |-> n] \in Job
    /\ \A a \in Alerts : EventJob(a) \in Job
    /\ \A d \in Delivery : RetryJob(d) \in Job
<1>1. 1 \in 0..1
    OBVIOUS
<1> QED BY <1>1 DEF Job, EventJob, RetryJob

\* What a job says it is of.
LEMMA JobIsOf ==
    /\ \A j \in Job : j.kind = "event" => j.of \in Alerts
    /\ \A j \in Job : [j EXCEPT !.left = 0] \in Job /\ [j EXCEPT !.left = 0].kind = j.kind
    /\ \A j \in Job : j.kind \in {"event", "retry"} /\ j # None
BY NoneAssumption DEF Job

LEMMA IdleIsOK == SlotOK(Idle)
BY DEF SlotOK, SlotState, Coherent, Idle, StepName, Sending

\* A slot at one step of its job keeps its type at another one, if that step
\* needs no more than it has.
LEMMA GotoIsOK ==
    ASSUME NEW s, SlotOK(s), NEW step \in StepName,
           s.pc # "idle", step # "idle",
           s.pc \in Sending <=> step \in Sending,
           step \in {"prepare", "read"} => s.job.kind = "event"
    PROVE  SlotOK([s EXCEPT !.pc = step])
BY DEF SlotOK, SlotState, Coherent

LEMMA FailsIsOK ==
    ASSUME NEW s, SlotOK(s), s.pc \in Sending, NEW why \in {"retry", "invalidate", "terminal"}
    PROVE  SlotOK([s EXCEPT !.pc = "recordFailure", !.why = why])
BY DEF SlotOK, SlotState, Coherent, Sending, StepName

LEMMA NextIsOK ==
    ASSUME NEW s, SlotOK(s), s.pc # "idle"
    PROVE  SlotOK([s EXCEPT !.pc = "next", !.cur = None, !.count = 0, !.why = "none"])
BY DEF SlotOK, SlotState, Coherent, Sending, StepName

\* A change of one slot keeps the type of all.
LEMMA OneSlot ==
    ASSUME SlotType, NEW w \in Slots, NEW s, SlotOK(s), slot' = [slot EXCEPT ![w] = s]
    PROVE  SlotType'
<1>1. \A v \in Slots : slot'[v] = IF v = w THEN s ELSE slot[v]
    BY DEF SlotType
<1>2. slot' = [v \in Slots |-> slot'[v]]
    BY DEF SlotType
<1>3. \A v \in Slots : SlotOK(slot'[v])
    BY <1>1 DEF SlotType
<1> QED BY <1>2, <1>3 DEF SlotType, SlotOK, Coherent, SlotState

LEMMA InitType == Init => TypeOK
BY IdleIsOK, FaultsAssumption
   DEF Init, TypeOK, DatabaseType, QueueType, SlotType, HistoryType, Status

\* What finishing or recording does to the rows.
LEMMA FinishType ==
    ASSUME DatabaseType, NEW d \in Delivery, NEW st \in Status, Finish(d, st)
    PROVE  delivery' \in [Delivery -> Status]
BY DEF DatabaseType, Finish

LEMMA RecordType ==
    ASSUME DatabaseType, NEW d \in Delivery, RecordAttempt(d)
    PROVE  attempts' \in [Delivery -> Nat]
BY DEF DatabaseType, RecordAttempt

\* Whoever has a delivery to deal with has one in hand.
LEMMA InHand ==
    ASSUME SlotType, NEW w \in Slots
    PROVE  /\ slot[w].pc \in Sending => slot[w].cur \in Delivery
           /\ slot[w].pc # "idle" => slot[w].job \in Job
           /\ slot[w].pc \in {"prepare", "read"} => slot[w].job.of \in Alerts
           /\ slot[w].ids \subseteq Subs
           /\ slot[w].count \in Nat
           /\ slot[w].todo \subseteq [d: Delivery, count: Nat]
<1>1. SlotOK(slot[w])
    BY DEF SlotType
<1>2. slot[w].pc # "idle" => slot[w].job \in Job
    BY <1>1 DEF SlotOK, SlotState, Coherent
<1>3. slot[w].pc \in {"prepare", "read"} => slot[w].job.of \in Alerts
    BY <1>1, <1>2, JobIsOf DEF SlotOK, Coherent
<1> QED BY <1>1, <1>2, <1>3 DEF SlotOK, SlotState, Coherent

LEMMA DatabaseStep == TypeOK /\ [Next]_vars => DatabaseType'
<1> SUFFICES ASSUME TypeOK, [Next]_vars PROVE DatabaseType'
    OBVIOUS
<1> USE DEF TypeOK, alertVars, rowVars, queueVars, pushVars
<1>1. CASE Users
    BY <1>1 DEF Users, Subscribe, Revoke, DatabaseType
<1>2. CASE Events
    BY <1>2 DEF Events, Raise, Publish, PublishUncommitted, DatabaseType
<1>3. CASE \E w \in Slots : Start(w)
    BY <1>3 DEF Start, StartEvent, StartRetry, DatabaseType
<1>4. ASSUME NEW w \in Slots, JobStep(w) PROVE DatabaseType'
    <2>1. CASE Prepare(w)
        <3>1. slot[w].job.of \in Alerts
            BY <2>1, InHand DEF Prepare
        <3> QED BY <2>1, <3>1 DEF Prepare, DatabaseType, Status
    <2>2. CASE ReadRows(w) \/ TakeNext(w) \/ Acknowledge(w) \/ Load(w) \/ Send(w)
               \/ SuccessIsNotRecorded(w) \/ ScheduleRetry(w) \/ DatabaseFails(w)
        BY <2>2 DEF ReadRows, TakeNext, Acknowledge, Load, Send, SuccessIsNotRecorded,
               ScheduleRetry, DatabaseFails, DatabaseType
    <2>3. CASE Abandon(w) \/ MarkSuccess(w) \/ MarkInvalid(w) \/ Bury(w)
        <3>1. slot[w].cur \in Delivery
            BY <2>3, InHand DEF Abandon, MarkSuccess, MarkInvalid, Bury, Sending
        <3>2. delivery' \in [Delivery -> Status]
            BY <2>3, <3>1, FinishType DEF Abandon, MarkSuccess, MarkInvalid, Bury, Status
        <3>3. UNCHANGED <<active, outbox, inbox, attempts>>
            BY <2>3 DEF Abandon, MarkSuccess, MarkInvalid, Bury
        <3> QED BY <3>2, <3>3 DEF DatabaseType
    <2>4. CASE RecordSuccess(w) \/ RecordFailure(w)
        <3>1. slot[w].cur \in Delivery
            BY <2>4, InHand DEF RecordSuccess, RecordFailure, Sending
        <3>2. attempts' \in [Delivery -> Nat]
            BY <2>4, <3>1, RecordType DEF RecordSuccess, RecordFailure
        <3>3. UNCHANGED <<active, outbox, inbox, delivery>>
            BY <2>4 DEF RecordSuccess, RecordFailure
        <3> QED BY <3>2, <3>3 DEF DatabaseType
    <2>5. CASE Invalidate(w)
        BY <2>5 DEF Invalidate, DatabaseType
    <2> QED BY <1>4, <2>1, <2>2, <2>3, <2>4, <2>5 DEF JobStep
<1>5. CASE WorkerCrash \/ RedisLoss
    BY <1>5 DEF WorkerCrash, RedisLoss, DatabaseType
<1>6. CASE UNCHANGED vars
    BY <1>6 DEF vars, DatabaseType
<1> QED BY <1>1, <1>2, <1>3, <1>4, <1>5, <1>6 DEF Next

LEMMA QueueStep == TypeOK /\ [Next]_vars => QueueType'
<1> SUFFICES ASSUME TypeOK, [Next]_vars PROVE QueueType'
    OBVIOUS
<1> USE DEF TypeOK, alertVars, rowVars, queueVars, pushVars
<1>1. CASE Users
    BY <1>1 DEF Users, Subscribe, Revoke, QueueType
<1>2. CASE Events
    <2>1. ASSUME NEW a \in Alerts, QueueAdd(a) PROVE QueueType'
        BY <2>1, JobsAreJobs DEF QueueAdd, QueueType
    <2> QED BY <1>2, <2>1 DEF Events, Raise, Publish, PublishUncommitted, QueueType
<1>3. ASSUME NEW w \in Slots, Start(w) PROVE QueueType'
    <2>1. ASSUME NEW j \in Job, jobs[j] > 0, jobs' = [jobs EXCEPT ![j] = @ - 1]
          PROVE  jobs' \in [Job -> Nat]
        BY <2>1 DEF QueueType
    <2>2. ASSUME NEW left \in 0..1, NEW a \in Alerts, StartEvent(w, a, left) PROVE QueueType'
        BY <2>1, <2>2, JobsAreJobs DEF StartEvent, QueueType
    <2>3. ASSUME NEW left \in 0..1, NEW d \in Delivery, StartRetry(w, d, left) PROVE QueueType'
        BY <2>1, <2>3, JobsAreJobs DEF StartRetry, QueueType
    <2> QED BY <1>3, <2>2, <2>3 DEF Start
<1>4. ASSUME NEW w \in Slots, JobStep(w) PROVE QueueType'
    <2>1. CASE ScheduleRetry(w)
        <3>1. slot[w].cur \in Delivery
            BY <2>1, InHand DEF ScheduleRetry, Sending
        <3>2. RetryJob(slot[w].cur) \in Job
            BY <3>1, JobsAreJobs
        <3> QED BY <2>1, <3>2 DEF ScheduleRetry, QueueType
    <2>2. CASE UNCHANGED <<jobs, added>>
        BY <2>2 DEF QueueType
    <2>3. ScheduleRetry(w) \/ UNCHANGED <<jobs, added>>
        BY <1>4 DEF JobStep, Prepare, ReadRows, TakeNext, Acknowledge, Load, Abandon, Send,
               RecordSuccess, MarkSuccess, SuccessIsNotRecorded, RecordFailure,
               Invalidate, MarkInvalid, Bury, DatabaseFails
    <2> QED BY <2>1, <2>2, <2>3
<1>5. CASE WorkerCrash
    <2>1. \A j \in Job : Redelivered(j) \in Nat
        <3> TAKE j \in Job
        <3>1. CASE j.left = 1
            BY <3>1 DEF Redelivered
        <3>2. CASE j.left # 1
            <4> DEFINE Stalled == {w \in Slots : slot[w].job = [j EXCEPT !.left = 1]}
            <4>1. IsFiniteSet(Stalled)
                BY SlotsAssumption, FS_Subset
            <4>2. Cardinality(Stalled) \in Nat
                BY <4>1, FS_CardinalityType
            <4> QED BY <3>2, <4>2 DEF Redelivered
        <3> QED BY <3>1, <3>2
    <2> QED BY <1>5, <2>1 DEF WorkerCrash, QueueType
<1>6. CASE RedisLoss
    BY <1>6 DEF RedisLoss, QueueType
<1>7. CASE UNCHANGED vars
    BY <1>7 DEF vars, QueueType
<1> QED BY <1>1, <1>2, <1>3, <1>4, <1>5, <1>6, <1>7 DEF Next

LEMMA HistoryStep == TypeOK /\ [Next]_vars => HistoryType'
<1> SUFFICES ASSUME TypeOK, [Next]_vars PROVE HistoryType'
    OBVIOUS
<1> USE DEF TypeOK, alertVars, rowVars, queueVars, pushVars
<1>1. CASE Users \/ Events
    BY <1>1 DEF Users, Subscribe, Revoke, Events, Raise, Publish, PublishUncommitted, HistoryType
<1>2. CASE \E w \in Slots : Start(w)
    BY <1>2 DEF Start, StartEvent, StartRetry, HistoryType
<1>3. ASSUME NEW w \in Slots, JobStep(w) PROVE HistoryType'
    <2>1. faults' \in [FaultKind -> Nat]
        <3>1. (\E k \in FaultKind : Fault(k)) \/ UNCHANGED faults
            <4>1. CASE Send(w)
                BY <4>1 DEF Send, FaultKind
            <4>2. CASE SuccessIsNotRecorded(w) \/ DatabaseFails(w) \/ ScheduleRetry(w)
                BY <4>2 DEF SuccessIsNotRecorded, DatabaseFails, ScheduleRetry, FaultKind
            <4>3. CASE ~(Send(w) \/ SuccessIsNotRecorded(w) \/ DatabaseFails(w) \/ ScheduleRetry(w))
                BY <1>3, <4>3 DEF JobStep, Prepare, ReadRows, TakeNext, Acknowledge, Load,
                       Abandon, RecordSuccess, MarkSuccess, RecordFailure, Invalidate,
                       MarkInvalid, Bury
            <4> QED BY <4>1, <4>2, <4>3
        <3> QED BY <3>1 DEF Fault, HistoryType
    <2>2. skipped' \subseteq Delivery
        <3>1. CASE TakeNext(w)
            <4>1. \A r \in slot[w].todo : r.d \in Delivery
                BY InHand
            <4> QED BY <3>1, <4>1 DEF TakeNext, HistoryType
        <3>2. CASE ~TakeNext(w)
            BY <1>3, <3>2 DEF JobStep, Prepare, ReadRows, PendingOf, Acknowledge, Load, Abandon,
                   Send, RecordSuccess, MarkSuccess, SuccessIsNotRecorded, RecordFailure,
                   Invalidate, MarkInvalid, ScheduleRetry, Bury, DatabaseFails, HistoryType
        <3> QED BY <3>1, <3>2
    <2>3. pushes' \in [Delivery -> Nat]
        <3>1. CASE Send(w)
            BY <3>1 DEF Send, HistoryType
        <3>2. CASE ~Send(w)
            BY <1>3, <3>2 DEF JobStep, Prepare, ReadRows, TakeNext, Acknowledge, Load, Abandon,
                   RecordSuccess, MarkSuccess, SuccessIsNotRecorded, RecordFailure, Invalidate,
                   MarkInvalid, ScheduleRetry, Bury, DatabaseFails, HistoryType
        <3> QED BY <3>1, <3>2
    <2> QED BY <2>1, <2>2, <2>3 DEF HistoryType
<1>4. CASE WorkerCrash \/ RedisLoss
    BY <1>4 DEF WorkerCrash, RedisLoss, Fault, HistoryType
<1>5. CASE UNCHANGED vars
    BY <1>5 DEF vars, HistoryType
<1> QED BY <1>1, <1>2, <1>3, <1>4, <1>5 DEF Next

LEMMA SlotStep == TypeOK /\ [Next]_vars => SlotType'
<1> SUFFICES ASSUME TypeOK, [Next]_vars PROVE SlotType'
    OBVIOUS
<1> USE DEF TypeOK, alertVars, rowVars, queueVars, pushVars
<1>1. CASE UNCHANGED slot
    BY <1>1 DEF SlotType
<1>2. CASE Users \/ Events
    BY <1>1, <1>2 DEF Users, Subscribe, Revoke, Events, Raise, Publish, PublishUncommitted
<1>3. ASSUME NEW w \in Slots, Start(w) PROVE SlotType'
    <2>1. ASSUME NEW left \in 0..1, NEW a \in Alerts, StartEvent(w, a, left) PROVE SlotType'
        <3> DEFINE j == [kind |-> "event", of |-> a, left |-> left]
                   s == [Idle EXCEPT !.pc = "prepare", !.job = j, !.ids = active]
        <3>1. j \in Job /\ j # None /\ j.kind = "event"
            BY JobsAreJobs, JobIsOf
        <3>2. SlotOK(s)
            BY <3>1, IdleIsOK DEF SlotOK, SlotState, Coherent, Idle, Sending, StepName, DatabaseType
        <3>3. slot' = [slot EXCEPT ![w] = s]
            BY <2>1 DEF StartEvent
        <3> QED BY <3>2, <3>3, OneSlot
    <2>2. ASSUME NEW left \in 0..1, NEW d \in Delivery, StartRetry(w, d, left) PROVE SlotType'
        <3> DEFINE j == [kind |-> "retry", of |-> d, left |-> left]
                   s == [Idle EXCEPT !.pc = "load", !.job = j, !.cur = d, !.count = attempts[d]]
                   t == [Idle EXCEPT !.pc = "next", !.job = j]
        <3>1. j \in Job /\ j # None /\ d # None /\ attempts[d] \in Nat
            BY JobsAreJobs, JobIsOf, NoneAssumption DEF DatabaseType
        <3>2. SlotOK(s) /\ SlotOK(t)
            BY <3>1, IdleIsOK DEF SlotOK, SlotState, Coherent, Idle, Sending, StepName
        <3>3. slot' = [slot EXCEPT ![w] = IF delivery[d] = "pending" THEN s ELSE t]
            BY <2>2 DEF StartRetry
        <3>4. SlotOK(IF delivery[d] = "pending" THEN s ELSE t)
            BY <3>2
        <3> HIDE DEF s, t
        <3> QED BY <3>3, <3>4, OneSlot
    <2> QED BY <1>3, <2>1, <2>2 DEF Start
<1>4. ASSUME NEW w \in Slots, JobStep(w) PROVE SlotType'
    <2>1. SlotOK(slot[w]) /\ slot = [v \in Slots |-> slot[v]]
        BY DEF SlotType
    <2>2. CASE JobEnds(w)
        BY <2>2, IdleIsOK, OneSlot DEF JobEnds
    <2>3. ASSUME slot[w].pc # "idle", NextDelivery(w) PROVE SlotType'
        BY <2>1, <2>3, NextIsOK, OneSlot DEF NextDelivery
    <2>4. ASSUME NEW why \in {"retry", "invalidate", "terminal"}, slot[w].pc \in Sending, Fails(w, why)
          PROVE  SlotType'
        <3>1. slot' = [slot EXCEPT ![w] = [slot[w] EXCEPT !.pc = "recordFailure", !.why = why]]
            BY <2>1, <2>4 DEF Fails
        <3> QED BY <2>1, <2>4, <3>1, FailsIsOK, OneSlot
    <2>5. ASSUME NEW step \in StepName, Goto(w, step), slot[w].pc # "idle", step # "idle",
                 slot[w].pc \in Sending <=> step \in Sending,
                 step \in {"prepare", "read"} => slot[w].job.kind = "event"
          PROVE  SlotType'
        <3>1. slot' = [slot EXCEPT ![w] = [slot[w] EXCEPT !.pc = step]]
            BY <2>1, <2>5 DEF Goto
        <3> QED BY <2>1, <2>5, <3>1, GotoIsOK, OneSlot
    <2>6. CASE Prepare(w)
        BY <2>1, <2>5, <2>6 DEF Prepare, Sending, StepName, SlotOK, Coherent
    <2>7. CASE ReadRows(w)
        <3> DEFINE s == [slot[w] EXCEPT !.pc = "next", !.todo = Rows(PendingOf(w) \cap Listed(w))]
        <3>1. Rows(PendingOf(w) \cap Listed(w)) \subseteq [d: Delivery, count: Nat]
            BY DEF Rows, PendingOf, DatabaseType
        <3>2. SlotOK(s)
            BY <2>1, <2>7, <3>1 DEF ReadRows, SlotOK, SlotState, Coherent, Sending, StepName
        <3>3. slot' = [slot EXCEPT ![w] = s]
            BY <2>1, <2>7 DEF ReadRows
        <3> HIDE DEF s
        <3> QED BY <3>2, <3>3, OneSlot
    <2>8. CASE TakeNext(w)
        <3> PICK r \in slot[w].todo : \/ slot' = [slot EXCEPT ![w] = Taking(slot[w], r)]
                                      \/ slot' = [slot EXCEPT ![w].todo = @ \ {r}]
            BY <2>8 DEF TakeNext
        <3> DEFINE t == [slot[w] EXCEPT !.todo = @ \ {r}]
        <3>1. r.d \in Delivery /\ r.count \in Nat /\ r.d # None
            BY InHand, NoneAssumption
        <3>2. slot[w].pc = "next"
            BY <2>8 DEF TakeNext
        <3>3. SlotOK(Taking(slot[w], r)) /\ SlotOK(t)
            BY <2>1, <3>1, <3>2 DEF SlotOK, SlotState, Coherent, Sending, StepName, Taking
        <3>4. [slot EXCEPT ![w].todo = @ \ {r}] = [slot EXCEPT ![w] = t]
            BY <2>1
        <3> HIDE DEF t
        <3> QED BY <3>3, <3>4, OneSlot
    <2>9. CASE Acknowledge(w) \/ DatabaseFails(w)
        BY <2>2, <2>9 DEF Acknowledge, DatabaseFails
    <2>10. CASE Load(w)
        <3>1. slot[w].pc = "load" /\ Goto(w, IF slot[w].cur[2] \in active THEN "send" ELSE "abandon")
            BY <2>10 DEF Load
        <3> QED BY <2>5, <3>1 DEF Sending, StepName
    <2>11. CASE Abandon(w) \/ MarkSuccess(w) \/ MarkInvalid(w) \/ Bury(w)
        BY <2>3, <2>11 DEF Abandon, MarkSuccess, MarkInvalid, Bury
    <2>12. CASE Send(w)
        BY <2>4, <2>5, <2>12 DEF Send, Sending, StepName
    <2>13. CASE RecordSuccess(w) \/ Invalidate(w)
        BY <2>5, <2>13 DEF RecordSuccess, Invalidate, Sending, StepName
    <2>14. CASE SuccessIsNotRecorded(w)
        BY <2>4, <2>14 DEF SuccessIsNotRecorded, Sending
    <2>15. CASE RecordFailure(w)
        <3>1. AfterFailure(slot[w].why, slot[w].count) \in {"invalidate", "scheduleRetry", "bury"}
            BY DEF AfterFailure
        <3> QED BY <2>5, <2>15, <3>1 DEF RecordFailure, Sending, StepName
    <2>16. CASE ScheduleRetry(w)
        BY <2>2, <2>3, <2>16 DEF ScheduleRetry
    <2> QED BY <1>4, <2>6, <2>7, <2>8, <2>9, <2>10, <2>11, <2>12, <2>13, <2>14, <2>15, <2>16 DEF JobStep
<1>5. CASE WorkerCrash
    BY <1>5, IdleIsOK DEF WorkerCrash, SlotType
<1>6. CASE RedisLoss
    <2>1. ASSUME NEW w \in Slots, slot[w].pc # "idle"
          PROVE  SlotOK([slot[w] EXCEPT !.job.left = 0])
        <3>1. SlotOK(slot[w]) /\ slot[w].job \in Job
            BY <2>1, InHand DEF SlotType
        <3>2. /\ [slot[w].job EXCEPT !.left = 0] \in Job
              /\ [slot[w].job EXCEPT !.left = 0].kind = slot[w].job.kind
              /\ [slot[w].job EXCEPT !.left = 0] # None
            BY <3>1, JobIsOf
        <3> QED BY <2>1, <3>1, <3>2 DEF SlotOK, SlotState, Coherent
    <2>2. \A w \in Slots : SlotOK(slot'[w])
        BY <1>6, <2>1 DEF RedisLoss, SlotType
    <2> QED BY <1>6, <2>2 DEF RedisLoss, SlotType
<1>7. CASE UNCHANGED vars
    BY <1>1, <1>7 DEF vars
<1> QED BY <1>2, <1>3, <1>4, <1>5, <1>6, <1>7 DEF Next

\* Every variable keeps its type, whatever fails.
THEOREM TypeCorrect == Spec => []TypeOK
<1>1. TypeOK /\ [Next]_vars => TypeOK'
    BY DatabaseStep, QueueStep, SlotStep, HistoryStep DEF TypeOK
<1> QED BY <1>1, InitType, PTL DEF Spec

-----------------------------------------------------------------------------
\* The final statuses.
Final == {"succeeded", "invalid", "dead_letter"}

\* The steps that write a delivery's row: one prepares it, four finish it.
LEMMA WhoWritesRows ==
    ASSUME [Next]_vars, TypeOK
    PROVE  \/ UNCHANGED delivery
           \/ \E w \in Slots : Prepare(w)
           \/ \E w \in Slots : MarkSuccess(w)
           \/ \E d \in Delivery, st \in Final \ {"succeeded"} : Finish(d, st)
<1> USE DEF alertVars, rowVars, queueVars, pushVars
<1>1. CASE Users \/ Events \/ WorkerCrash \/ RedisLoss \/ UNCHANGED vars
    BY <1>1 DEF Users, Subscribe, Revoke, Events, Raise, Publish, PublishUncommitted,
           WorkerCrash, RedisLoss, vars
<1>2. CASE \E w \in Slots : Start(w)
    BY <1>2 DEF Start, StartEvent, StartRetry
<1>3. ASSUME NEW w \in Slots, JobStep(w)
      PROVE  \/ UNCHANGED delivery \/ Prepare(w) \/ MarkSuccess(w)
             \/ \E d \in Delivery, st \in Final \ {"succeeded"} : Finish(d, st)
    <2>1. CASE Abandon(w) \/ MarkInvalid(w) \/ Bury(w)
        <3>1. slot[w].cur \in Delivery
            BY <2>1, InHand DEF Abandon, MarkInvalid, Bury, Sending, TypeOK
        <3> QED BY <2>1, <3>1 DEF Abandon, MarkInvalid, Bury, Final
    <2>2. CASE ~(Abandon(w) \/ MarkInvalid(w) \/ Bury(w) \/ Prepare(w) \/ MarkSuccess(w))
        BY <1>3, <2>2 DEF JobStep, ReadRows, TakeNext, Acknowledge, Load, Send, RecordSuccess,
               SuccessIsNotRecorded, RecordFailure, Invalidate, ScheduleRetry, DatabaseFails
    <2> QED BY <2>1, <2>2
<1> QED BY <1>1, <1>2, <1>3 DEF Next

\* A row that has ended keeps its status, and no row disappears.
THEOREM EndedForGood == Spec => EndedStaysEnded
<1>1. TypeOK /\ [Next]_vars
      => [\A d \in Delivery :
             /\ delivery[d] \notin {"none", "pending"} => delivery'[d] = delivery[d]
             /\ delivery[d] # "none" => delivery'[d] # "none"]_vars
    <2> SUFFICES ASSUME TypeOK, [Next]_vars, NEW d \in Delivery
                 PROVE  /\ delivery[d] \notin {"none", "pending"} => delivery'[d] = delivery[d]
                        /\ delivery[d] # "none" => delivery'[d] # "none"
        OBVIOUS
    <2>1. CASE UNCHANGED delivery
        BY <2>1
    <2>2. CASE \E w \in Slots : Prepare(w)
        BY <2>2 DEF Prepare
    <2>3. CASE \E c \in Delivery, st \in Final : Finish(c, st)
        BY <2>3 DEF Finish, Final, TypeOK, DatabaseType
    <2>4. CASE \E w \in Slots : MarkSuccess(w)
        <3>1. PICK w \in Slots : MarkSuccess(w)
            BY <2>4
        <3>2. slot[w].cur \in Delivery
            BY <3>1, InHand DEF MarkSuccess, Sending, TypeOK
        <3> QED BY <2>3, <3>1, <3>2 DEF MarkSuccess, Final
    <2> QED BY <2>1, <2>2, <2>3, <2>4, WhoWritesRows
<1> QED BY <1>1, TypeCorrect, PTL DEF Spec, EndedStaysEnded

-----------------------------------------------------------------------------
\* A delivery is recorded as a success only by a slot whose push was accepted.
SuccessInvariant ==
    /\ SuccessMeansPushed
    /\ \A w \in Slots :
           slot[w].pc \in {"recordSuccess", "markSuccess"} => pushes[slot[w].cur] > 0

\* What was pushed stays pushed.
LEMMA PushesGrow ==
    ASSUME TypeOK, [Next]_vars
    PROVE  \A d \in Delivery : pushes'[d] >= pushes[d]
<1> USE DEF alertVars, rowVars, queueVars, pushVars
<1>1. CASE UNCHANGED pushes
    BY <1>1 DEF TypeOK, HistoryType
<1>2. CASE \E w \in Slots : Send(w)
    BY <1>2 DEF Send, TypeOK, HistoryType
<1>3. CASE Users \/ Events \/ WorkerCrash \/ RedisLoss \/ UNCHANGED vars
    BY <1>1, <1>3 DEF Users, Subscribe, Revoke, Events, Raise, Publish, PublishUncommitted,
           WorkerCrash, RedisLoss, vars
<1>4. CASE \E w \in Slots : Start(w)
    BY <1>1, <1>4 DEF Start, StartEvent, StartRetry
<1>5. ASSUME NEW w \in Slots, JobStep(w) PROVE UNCHANGED pushes \/ Send(w)
    BY <1>5 DEF JobStep, Prepare, ReadRows, TakeNext, Acknowledge, Load, Abandon,
           RecordSuccess, MarkSuccess, SuccessIsNotRecorded, RecordFailure, Invalidate,
           MarkInvalid, ScheduleRetry, Bury, DatabaseFails
<1> QED BY <1>1, <1>2, <1>3, <1>4, <1>5 DEF Next

\* Only two steps lead a slot to where it records a success.
LEMMA WhoRecords ==
    ASSUME TypeOK, [Next]_vars, NEW v \in Slots,
           slot'[v].pc \in {"recordSuccess", "markSuccess"}
    PROVE  \/ slot'[v].pc = slot[v].pc /\ slot'[v].cur = slot[v].cur
           \/ /\ Send(v) /\ slot'[v].cur = slot[v].cur
              /\ pushes' = [pushes EXCEPT ![slot[v].cur] = @ + 1]
           \/ RecordSuccess(v) /\ slot'[v].cur = slot[v].cur
<1> USE DEF alertVars, rowVars, queueVars, pushVars
<1>1. CASE Users \/ Events \/ UNCHANGED vars
    BY <1>1 DEF Users, Subscribe, Revoke, Events, Raise, Publish, PublishUncommitted, vars
<1>2. ASSUME NEW w \in Slots, Start(w) PROVE slot'[v] = slot[v]
    <2>1. ASSUME NEW s, slot' = [slot EXCEPT ![w] = s], s.pc \notin {"recordSuccess", "markSuccess"}
          PROVE  slot'[v] = slot[v]
        BY <2>1 DEF TypeOK, SlotType
    <2>2. ASSUME NEW left \in 0..1, NEW a \in Alerts, StartEvent(w, a, left) PROVE slot'[v] = slot[v]
        BY <2>1, <2>2 DEF StartEvent, Idle
    <2>3. ASSUME NEW left \in 0..1, NEW d \in Delivery, StartRetry(w, d, left) PROVE slot'[v] = slot[v]
        BY <2>1, <2>3 DEF StartRetry, Idle
    <2> QED BY <1>2, <2>2, <2>3 DEF Start
<1>3. ASSUME NEW w \in Slots, JobStep(w), w # v PROVE slot'[v] = slot[v]
    BY <1>3 DEF JobStep, Prepare, ReadRows, TakeNext, Acknowledge, Load, Abandon, Send,
           RecordSuccess, MarkSuccess, SuccessIsNotRecorded, RecordFailure, Invalidate,
           MarkInvalid, ScheduleRetry, Bury, DatabaseFails, Goto, JobEnds, NextDelivery, Fails,
           TypeOK, SlotType
<1>4. CASE JobStep(v)
    <2>0. slot[v] \in SlotState /\ slot = [w \in Slots |-> slot[w]]
        BY DEF TypeOK, SlotType, SlotOK
    <2> USE DEF SlotState
    <2>1. CASE Send(v)
        BY <2>0, <2>1 DEF Send, Goto, Fails
    <2>2. CASE RecordSuccess(v)
        BY <2>0, <2>2 DEF RecordSuccess, Goto
    <2>3. JobEnds(v) \/ NextDelivery(v) => slot'[v].pc \in {"idle", "next"}
        <3>1. [slot[v] EXCEPT !.pc = "next", !.cur = None, !.count = 0, !.why = "none"].pc = "next"
            BY <2>0
        <3>2. NextDelivery(v) => slot'[v].pc = "next"
            BY <2>0, <3>1 DEF NextDelivery
        <3>3. JobEnds(v) => slot'[v].pc = "idle"
            BY <2>0 DEF JobEnds, Idle
        <3> QED BY <3>2, <3>3
    <2>4. CASE Prepare(v) \/ Load(v) \/ Invalidate(v)
        BY <2>0, <2>4 DEF Prepare, Load, Invalidate, Goto
    <2>5. CASE RecordFailure(v)
        BY <2>0, <2>5 DEF RecordFailure, AfterFailure, Goto
    <2>6. CASE SuccessIsNotRecorded(v)
        BY <2>0, <2>6 DEF SuccessIsNotRecorded, Fails
    <2>7. CASE ReadRows(v)
        BY <2>0, <2>7 DEF ReadRows
    <2>8. CASE TakeNext(v)
        <3>1. PICK r \in slot[v].todo : \/ slot' = [slot EXCEPT ![v] = Taking(slot[v], r)]
                                        \/ slot' = [slot EXCEPT ![v].todo = @ \ {r}]
            BY <2>8 DEF TakeNext
        <3>2. Taking(slot[v], r).pc = "send"
            BY <2>0 DEF Taking
        <3>3. CASE slot' = [slot EXCEPT ![v] = Taking(slot[v], r)]
            BY <2>0, <3>2, <3>3
        <3>4. CASE slot' = [slot EXCEPT ![v].todo = @ \ {r}]
            BY <2>0, <3>4
        <3> QED BY <3>1, <3>3, <3>4
    <2> QED BY <1>4, <2>1, <2>2, <2>3, <2>4, <2>5, <2>6, <2>7, <2>8
            DEF JobStep, Acknowledge, Abandon, MarkSuccess, MarkInvalid, ScheduleRetry, Bury,
                DatabaseFails
<1>5. CASE WorkerCrash
    BY <1>5 DEF WorkerCrash, Idle
<1>6. CASE RedisLoss
    <2>1. slot[v] \in SlotState
        BY DEF TypeOK, SlotType, SlotOK
    <2> QED BY <1>6, <2>1 DEF RedisLoss, SlotState
<1> QED BY <1>1, <1>2, <1>3, <1>4, <1>5, <1>6 DEF Next

\* Success is recorded only for pushes that were accepted.
THEOREM SuccessIsReal == Spec => []SuccessMeansPushed
<1>1. Init => SuccessInvariant
    BY DEF Init, SuccessInvariant, SuccessMeansPushed, Idle
<1>2. TypeOK /\ TypeOK' /\ SuccessInvariant /\ [Next]_vars => SuccessInvariant'
    <2> SUFFICES ASSUME TypeOK, TypeOK', SuccessInvariant, [Next]_vars PROVE SuccessInvariant'
        OBVIOUS
    <2>1. ASSUME NEW d \in Delivery, delivery'[d] = "succeeded" PROVE pushes'[d] > 0
        <3>1. CASE delivery[d] = "succeeded"
            BY <3>1, PushesGrow DEF SuccessInvariant, SuccessMeansPushed, TypeOK, HistoryType
        <3>2. CASE \E w \in Slots : MarkSuccess(w) /\ slot[w].cur = d
            BY <3>2 DEF MarkSuccess, SuccessInvariant, pushVars
        <3>3. delivery[d] = "succeeded" \/ \E w \in Slots : MarkSuccess(w) /\ slot[w].cur = d
            BY <2>1, WhoWritesRows DEF Prepare, MarkSuccess, Finish, Final, TypeOK, DatabaseType
        <3> QED BY <3>1, <3>2, <3>3
    <2>2. ASSUME NEW v \in Slots, slot'[v].pc \in {"recordSuccess", "markSuccess"}
          PROVE  pushes'[slot'[v].cur] > 0
        <3>1. slot'[v].cur \in Delivery
            BY <2>2 DEF TypeOK, SlotType, SlotOK, SlotState, Coherent, Sending
        <3>2. CASE Send(v) /\ slot'[v].cur = slot[v].cur
                   /\ pushes' = [pushes EXCEPT ![slot[v].cur] = @ + 1]
            BY <3>1, <3>2 DEF TypeOK, HistoryType
        <3>3. CASE pushes[slot'[v].cur] > 0
            BY <3>1, <3>3, PushesGrow DEF TypeOK, HistoryType
        <3>4. CASE /\ slot'[v].cur = slot[v].cur
                   /\ slot'[v].pc = slot[v].pc \/ RecordSuccess(v)
            BY <2>2, <3>3, <3>4 DEF SuccessInvariant, RecordSuccess
        <3> QED BY <2>2, <3>2, <3>4, WhoRecords
    <2> QED BY <2>1, <2>2 DEF SuccessInvariant, SuccessMeansPushed
<1> QED BY <1>1, <1>2, TypeCorrect, PTL DEF Spec, SuccessInvariant

-----------------------------------------------------------------------------
\* Jobs and slots speak of events that were raised and rows that exist.
Raised(j) ==
    IF j.kind = "event" THEN outbox[j.of] # "none" ELSE delivery[j.of] # "none"

\* What a slot works with, has been prepared.
HoldsRows(s) ==
    /\ s.pc # "idle" => Raised(s.job)
    /\ \A r \in s.todo : delivery[r.d] # "none"
    /\ s.cur # None => delivery[s.cur] # "none"

PreparedInvariant ==
    /\ \A d \in Delivery : delivery[d] # "none" => d[1] \in inbox
    /\ \A a \in Alerts : a \in inbox => outbox[a] # "none"
    /\ \A d \in Delivery : pushes[d] + attempts[d] > 0 => delivery[d] # "none"
    /\ \A j \in Job : jobs[j] > 0 => Raised(j)
    /\ \A w \in Slots : HoldsRows(slot[w])

LEMMA PreparedIsEnough == PreparedInvariant /\ TypeOK => OnlyPreparedDeliveries
<1> SUFFICES ASSUME PreparedInvariant, TypeOK PROVE OnlyPreparedDeliveries
    OBVIOUS
<1>1. ASSUME NEW d \in Delivery, NEW left \in 0..1,
             jobs[[kind |-> "retry", of |-> d, left |-> left]] > 0
      PROVE  delivery[d] # "none"
    BY <1>1, JobsAreJobs DEF PreparedInvariant, Raised
<1>2. \A w \in Slots : slot[w].cur # None => delivery[slot[w].cur] # "none"
    BY DEF PreparedInvariant, HoldsRows
<1> QED BY <1>1, <1>2 DEF PreparedInvariant, OnlyPreparedDeliveries

\* No row and no event disappears.
LEMMA RowsStay ==
    ASSUME TypeOK, [Next]_vars
    PROVE  /\ \A d \in Delivery : delivery[d] # "none" => delivery'[d] # "none"
           /\ \A a \in Alerts : outbox[a] # "none" => outbox'[a] # "none"
           /\ \A j \in Job : Raised(j) => Raised(j)'
<1>1. ASSUME NEW d \in Delivery, delivery[d] # "none" PROVE delivery'[d] # "none"
    <2>1. CASE \E w \in Slots : Prepare(w)
        BY <1>1, <2>1 DEF Prepare
    <2>2. CASE \E c \in Delivery, st \in Final : Finish(c, st)
        BY <1>1, <2>2 DEF Finish, Final, TypeOK, DatabaseType
    <2>3. CASE \E w \in Slots : MarkSuccess(w)
        <3>1. PICK w \in Slots : MarkSuccess(w)
            BY <2>3
        <3>2. slot[w].cur \in Delivery
            BY <3>1, InHand DEF MarkSuccess, Sending, TypeOK
        <3> QED BY <2>2, <3>1, <3>2 DEF MarkSuccess, Final
    <2> QED BY <1>1, <2>1, <2>2, <2>3, WhoWritesRows
<1>2. UNCHANGED outbox \/ (\E b \in Alerts, st \in {"pending", "published"} :
                              outbox' = [outbox EXCEPT ![b] = st])
    <2> USE DEF alertVars, rowVars, queueVars, pushVars
    <2>1. CASE Users \/ Events \/ WorkerCrash \/ RedisLoss \/ UNCHANGED vars
        BY <2>1 DEF Users, Subscribe, Revoke, Events, Raise, Publish, PublishUncommitted,
               WorkerCrash, RedisLoss, vars
    <2>2. CASE \E w \in Slots : Start(w) \/ JobStep(w)
        BY <2>2 DEF Start, StartEvent, StartRetry, JobStep, Prepare, ReadRows, TakeNext,
               Acknowledge, Load, Abandon, Send, RecordSuccess, MarkSuccess,
               SuccessIsNotRecorded, RecordFailure, Invalidate, MarkInvalid, ScheduleRetry,
               Bury, DatabaseFails
    <2> QED BY <2>1, <2>2 DEF Next
<1>3. \A a \in Alerts : outbox[a] # "none" => outbox'[a] # "none"
    BY <1>2 DEF TypeOK, DatabaseType
<1>4. ASSUME NEW j \in Job, Raised(j) PROVE Raised(j)'
    <2>1. (j.kind = "event" /\ j.of \in Alerts) \/ (j.kind = "retry" /\ j.of \in Delivery)
        BY DEF Job
    <2> QED BY <1>1, <1>3, <1>4, <2>1 DEF Raised
<1> QED BY <1>1, <1>3, <1>4

\* The rows, the inbox and the counters speak of prepared deliveries.
LEMMA PreparedRows ==
    ASSUME TypeOK, [Next]_vars, PreparedInvariant
    PROVE  /\ \A d \in Delivery : delivery'[d] # "none" => d[1] \in inbox'
           /\ \A a \in Alerts : a \in inbox' => outbox'[a] # "none"
<1>1. inbox \subseteq inbox' /\ (UNCHANGED inbox \/ \E w \in Slots : Prepare(w))
    <2> USE DEF alertVars, rowVars, queueVars, pushVars
    <2>1. CASE Users \/ Events \/ WorkerCrash \/ RedisLoss \/ UNCHANGED vars
        BY <2>1 DEF Users, Subscribe, Revoke, Events, Raise, Publish, PublishUncommitted,
               WorkerCrash, RedisLoss, vars
    <2>2. CASE \E w \in Slots : Start(w)
        BY <2>2 DEF Start, StartEvent, StartRetry
    <2>3. ASSUME NEW w \in Slots, JobStep(w), ~Prepare(w) PROVE UNCHANGED inbox
        BY <2>3 DEF JobStep, ReadRows, TakeNext, Acknowledge, Load, Abandon, Send,
               RecordSuccess, MarkSuccess, SuccessIsNotRecorded, RecordFailure, Invalidate,
               MarkInvalid, ScheduleRetry, Bury, DatabaseFails
    <2>4. \A w \in Slots : Prepare(w) => inbox \subseteq inbox'
        BY DEF Prepare
    <2> QED BY <2>1, <2>2, <2>3, <2>4 DEF Next
<1>2. ASSUME NEW d \in Delivery, delivery'[d] # "none" PROVE d[1] \in inbox'
    <2>1. CASE delivery[d] # "none"
        BY <1>1, <2>1 DEF PreparedInvariant
    <2>2. CASE \E w \in Slots : Prepare(w)
        BY <1>1, <1>2, <2>1, <2>2 DEF Prepare
    <2>3. CASE \E c \in Delivery, st \in Final : Finish(c, st)
        BY <1>2, <2>1, <2>3 DEF Finish, TypeOK, DatabaseType
    <2>4. CASE \E w \in Slots : MarkSuccess(w)
        <3>1. PICK w \in Slots : MarkSuccess(w)
            BY <2>4
        <3>2. slot[w].cur \in Delivery
            BY <3>1, InHand DEF MarkSuccess, Sending, TypeOK
        <3> QED BY <2>3, <3>1, <3>2 DEF MarkSuccess, Final
    <2> QED BY <1>2, <2>1, <2>2, <2>3, <2>4, WhoWritesRows
<1>3. ASSUME NEW a \in Alerts, a \in inbox' PROVE outbox'[a] # "none"
    <2>1. CASE a \in inbox
        BY <2>1, RowsStay DEF PreparedInvariant
    <2>2. ASSUME NEW w \in Slots, Prepare(w), slot[w].job.of = a PROVE outbox[a] # "none"
        <3>1. slot[w].job.kind = "event" /\ Raised(slot[w].job)
            BY <2>2 DEF Prepare, PreparedInvariant, HoldsRows, TypeOK, SlotType, SlotOK, Coherent
        <3> QED BY <2>2, <3>1 DEF Raised
    <2>3. a \in inbox \/ \E w \in Slots : Prepare(w) /\ slot[w].job.of = a
        BY <1>1, <1>3 DEF Prepare
    <2> QED BY <2>1, <2>2, <2>3, RowsStay
<1> QED BY <1>2, <1>3

LEMMA PreparedCounts ==
    ASSUME TypeOK, TypeOK', [Next]_vars, PreparedInvariant
    PROVE  \A d \in Delivery : pushes'[d] + attempts'[d] > 0 => delivery'[d] # "none"
<1>1. \/ UNCHANGED <<pushes, attempts>>
      \/ \E w \in Slots :
            /\ slot[w].cur \in Delivery
            /\ \A d \in Delivery : d # slot[w].cur => pushes'[d] = pushes[d] /\ attempts'[d] = attempts[d]
    <2> USE DEF alertVars, rowVars, queueVars, pushVars
    <2>1. CASE Users \/ Events \/ WorkerCrash \/ RedisLoss \/ UNCHANGED vars
        BY <2>1 DEF Users, Subscribe, Revoke, Events, Raise, Publish, PublishUncommitted,
               WorkerCrash, RedisLoss, vars
    <2>2. CASE \E w \in Slots : Start(w)
        BY <2>2 DEF Start, StartEvent, StartRetry
    <2>3. ASSUME NEW w \in Slots, Send(w) \/ RecordSuccess(w) \/ RecordFailure(w)
          PROVE  /\ slot[w].cur \in Delivery
                 /\ \A d \in Delivery :
                        d # slot[w].cur => pushes'[d] = pushes[d] /\ attempts'[d] = attempts[d]
        <3>1. slot[w].cur \in Delivery
            BY <2>3, InHand DEF Send, RecordSuccess, RecordFailure, Sending, TypeOK
        <3> QED BY <2>3, <3>1 DEF Send, RecordSuccess, RecordFailure, RecordAttempt, TypeOK,
                   DatabaseType, HistoryType
    <2>4. ASSUME NEW w \in Slots, JobStep(w), ~(Send(w) \/ RecordSuccess(w) \/ RecordFailure(w))
          PROVE  UNCHANGED <<pushes, attempts>>
        BY <2>4 DEF JobStep, Prepare, ReadRows, TakeNext, Acknowledge, Load, Abandon,
               MarkSuccess, SuccessIsNotRecorded, Invalidate, MarkInvalid, ScheduleRetry,
               Bury, DatabaseFails
    <2> QED BY <2>1, <2>2, <2>3, <2>4 DEF Next
<1>2. \A w \in Slots : slot[w].cur \in Delivery => delivery[slot[w].cur] # "none"
    BY NoneAssumption DEF PreparedInvariant, HoldsRows
<1>3. \A d \in Delivery : delivery[d] # "none" => delivery'[d] # "none"
    BY RowsStay
<1> SUFFICES ASSUME NEW d \in Delivery, pushes'[d] + attempts'[d] > 0 PROVE delivery'[d] # "none"
    OBVIOUS
<1>4. CASE \E w \in Slots : slot[w].cur = d
    BY <1>2, <1>3, <1>4
<1>5. CASE pushes'[d] = pushes[d] /\ attempts'[d] = attempts[d]
    BY <1>3, <1>5 DEF PreparedInvariant
<1> QED BY <1>1, <1>4, <1>5

\* A job that is added, kept or handed out again is of something there is.
LEMMA PreparedJobs ==
    ASSUME TypeOK, [Next]_vars, PreparedInvariant
    PROVE  \A j \in Job : jobs'[j] > 0 => Raised(j)'
<1>1. SUFFICES ASSUME NEW j \in Job, jobs'[j] > 0 PROVE Raised(j)'
    OBVIOUS
<1>2. CASE jobs[j] > 0
    BY <1>2, RowsStay DEF PreparedInvariant
<1> USE DEF alertVars, rowVars, queueVars, pushVars
<1>4. CASE Users \/ RedisLoss \/ UNCHANGED vars
    BY <1>1, <1>2, <1>4 DEF Users, Subscribe, Revoke, RedisLoss, vars
<1>5. CASE Events
    <2>1. ASSUME NEW a \in Alerts, QueueAdd(a), outbox[a] = "pending" PROVE Raised(j)'
        <3>1. j # EventJob(a) => jobs'[j] = jobs[j]
            BY <2>1 DEF QueueAdd, TypeOK, QueueType
        <3>2. outbox'[a] # "none"
            BY <2>1, RowsStay
        <3>3. Raised(EventJob(a))'
            BY <3>2 DEF Raised, EventJob
        <3> QED BY <1>1, <1>2, <3>1, <3>3
    <2> QED BY <1>1, <1>2, <1>5, <2>1 DEF Events, Raise, Publish, PublishUncommitted
<1>6. CASE \E w \in Slots : Start(w)
    BY <1>1, <1>2, <1>6 DEF Start, StartEvent, StartRetry, TypeOK, QueueType
<1>7. ASSUME NEW w \in Slots, JobStep(w) PROVE Raised(j)'
    <2>1. CASE ScheduleRetry(w)
        <3>1. slot[w].cur \in Delivery /\ slot[w].cur # None
            BY <2>1, InHand, NoneAssumption DEF ScheduleRetry, Sending, TypeOK
        <3>2. delivery'[slot[w].cur] # "none"
            BY <3>1, RowsStay DEF PreparedInvariant, HoldsRows
        <3>3. j # RetryJob(slot[w].cur) => jobs'[j] = jobs[j]
            BY <2>1 DEF ScheduleRetry, TypeOK, QueueType
        <3>4. CASE j = RetryJob(slot[w].cur)
            <4>1. j.kind = "retry" /\ j.of = slot[w].cur
                BY <3>4 DEF RetryJob
            <4> QED BY <3>2, <4>1 DEF Raised
        <3> QED BY <1>1, <1>2, <3>3, <3>4
    <2>2. CASE ~ScheduleRetry(w)
        BY <1>1, <1>2, <1>7, <2>2 DEF JobStep, Prepare, ReadRows, TakeNext, Acknowledge, Load,
               Abandon, Send, RecordSuccess, MarkSuccess, SuccessIsNotRecorded, RecordFailure,
               Invalidate, MarkInvalid, Bury, DatabaseFails
    <2> QED BY <2>1, <2>2
<1>8. CASE WorkerCrash
    <2>1. CASE Redelivered(j) = 0
        <3>1. jobs'[j] = jobs[j]
            BY <1>8, <2>1 DEF WorkerCrash, TypeOK, QueueType
        <3> QED BY <1>1, <1>2, <3>1
    <2>2. CASE Redelivered(j) # 0
        <3> DEFINE Stalled == {w \in Slots : slot[w].job = [j EXCEPT !.left = 1]}
        <3>1. Cardinality(Stalled) # 0
            BY <2>2 DEF Redelivered
        <3>2. PICK w \in Slots : slot[w].job = [j EXCEPT !.left = 1]
            <4>1. Stalled # {}
                BY <3>1, FS_EmptySet
            <4> QED BY <4>1
        <3>3. slot[w].job.kind = j.kind /\ slot[w].job.of = j.of /\ slot[w].job # None
            <4>1. [j EXCEPT !.left = 1].kind = j.kind /\ [j EXCEPT !.left = 1].of = j.of
                  /\ [j EXCEPT !.left = 1] \in Job
                BY DEF Job
            <4> QED BY <3>2, <4>1, NoneAssumption
        <3>4. slot[w].pc # "idle"
            BY <3>3 DEF TypeOK, SlotType, SlotOK, Coherent
        <3>5. Raised(slot[w].job)
            BY <3>4 DEF PreparedInvariant, HoldsRows
        <3>6. Raised(j)
            BY <3>3, <3>5 DEF Raised
        <3> QED BY <3>6, RowsStay
    <2> QED BY <2>1, <2>2
<1> QED BY <1>4, <1>5, <1>6, <1>7, <1>8 DEF Next

\* A slot that changes keeps what it holds, gives it up, or takes it from
\* something that was prepared.
LEMMA WhatASlotHolds ==
    ASSUME TypeOK, [Next]_vars, PreparedInvariant, NEW v \in Slots
    PROVE  HoldsRows(slot'[v])
<1> USE DEF alertVars, rowVars, queueVars, pushVars
<1>0. slot[v] \in SlotState /\ HoldsRows(slot[v]) /\ slot = [w \in Slots |-> slot[w]]
    BY DEF TypeOK, SlotType, SlotOK, PreparedInvariant
<1>1. CASE slot'[v] = slot[v]
    BY <1>0, <1>1
<1>2. CASE slot'[v] = Idle
    BY <1>2 DEF Idle, HoldsRows
<1>3. ASSUME NEW w \in Slots, w # v, Start(w) \/ JobStep(w) PROVE slot'[v] = slot[v]
    BY <1>3 DEF JobStep, Prepare, ReadRows, TakeNext, Acknowledge, Load, Abandon, Send,
           RecordSuccess, MarkSuccess, SuccessIsNotRecorded, RecordFailure, Invalidate,
           MarkInvalid, ScheduleRetry, Bury, DatabaseFails, Goto, JobEnds, NextDelivery, Fails,
           Start, StartEvent, StartRetry, TypeOK, SlotType
<1>4. CASE Users \/ Events \/ UNCHANGED vars
    BY <1>1, <1>4 DEF Users, Subscribe, Revoke, Events, Raise, Publish, PublishUncommitted, vars
<1>5. CASE WorkerCrash
    BY <1>2, <1>5 DEF WorkerCrash
<1>6. CASE RedisLoss
    <2>1. CASE slot[v].pc = "idle"
        BY <1>1, <1>6, <2>1 DEF RedisLoss
    <2>2. CASE slot[v].pc # "idle"
        <3>1. slot[v].job \in Job
            BY <2>2, InHand DEF TypeOK
        <3>2. [slot[v].job EXCEPT !.left = 0].kind = slot[v].job.kind
              /\ [slot[v].job EXCEPT !.left = 0].of = slot[v].job.of
            BY <3>1 DEF Job
        <3>3. Raised([slot[v].job EXCEPT !.left = 0])
            BY <1>0, <2>2, <3>2 DEF HoldsRows, Raised
        <3>4. slot'[v] = [slot[v] EXCEPT !.job = [slot[v].job EXCEPT !.left = 0]]
            BY <1>0, <1>6, <2>2 DEF RedisLoss
        <3> QED BY <1>0, <3>3, <3>4 DEF HoldsRows, SlotState
    <2> QED BY <2>1, <2>2
<1>7. CASE Start(v)
    <2>1. ASSUME NEW left \in 0..1, NEW a \in Alerts, StartEvent(v, a, left)
          PROVE  HoldsRows(slot'[v])
        <3> DEFINE j == [kind |-> "event", of |-> a, left |-> left]
        <3>1. Raised(j)
            BY <2>1, JobsAreJobs DEF PreparedInvariant, StartEvent
        <3>2. slot'[v] = [Idle EXCEPT !.pc = "prepare", !.job = j, !.ids = active]
            BY <1>0, <2>1 DEF StartEvent
        <3> QED BY <3>1, <3>2 DEF HoldsRows, Idle
    <2>2. ASSUME NEW left \in 0..1, NEW d \in Delivery, StartRetry(v, d, left)
          PROVE  HoldsRows(slot'[v])
        <3> DEFINE j == [kind |-> "retry", of |-> d, left |-> left]
        <3>1. Raised(j)
            BY <2>2, JobsAreJobs DEF PreparedInvariant, StartRetry
        <3>2. CASE delivery[d] = "pending"
            <4>1. slot'[v] = [Idle EXCEPT !.pc = "load", !.job = j, !.cur = d, !.count = attempts[d]]
                BY <1>0, <2>2, <3>2 DEF StartRetry
            <4> QED BY <3>1, <3>2, <4>1 DEF HoldsRows, Idle
        <3>3. CASE delivery[d] # "pending"
            <4>1. slot'[v] = [Idle EXCEPT !.pc = "next", !.job = j]
                BY <1>0, <2>2, <3>3 DEF StartRetry
            <4> QED BY <3>1, <4>1 DEF HoldsRows, Idle
        <3> QED BY <3>2, <3>3
    <2> QED BY <1>7, <2>1, <2>2 DEF Start
<1>8. CASE JobStep(v)
    <2>1. slot[v].pc # "idle"
        BY <1>8 DEF JobStep, Prepare, ReadRows, TakeNext, Acknowledge, Load, Abandon, Send,
               RecordSuccess, MarkSuccess, SuccessIsNotRecorded, RecordFailure, Invalidate,
               MarkInvalid, ScheduleRetry, Bury, DatabaseFails
    <2>2. CASE JobEnds(v)
        BY <1>0, <1>2, <2>2 DEF JobEnds
    <2>3. CASE NextDelivery(v)
        <3>1. slot'[v] = [slot[v] EXCEPT !.pc = "next", !.cur = None, !.count = 0, !.why = "none"]
            BY <1>0, <2>3 DEF NextDelivery
        <3> QED BY <1>0, <2>1, <3>1 DEF HoldsRows, SlotState
    <2>4. ASSUME NEW step, Goto(v, step) PROVE HoldsRows(slot'[v])
        BY <1>0, <2>1, <2>4 DEF Goto, HoldsRows, SlotState
    <2>5. ASSUME NEW why, Fails(v, why) PROVE HoldsRows(slot'[v])
        BY <1>0, <2>1, <2>5 DEF Fails, HoldsRows, SlotState
    <2>6. CASE ReadRows(v)
        <3> DEFINE new == Rows(PendingOf(v) \cap Listed(v))
        <3>1. \A r \in new : delivery[r.d] # "none"
            BY DEF Rows, PendingOf
        <3>2. slot'[v] = [slot[v] EXCEPT !.pc = "next", !.todo = new]
            BY <1>0, <2>6 DEF ReadRows
        <3> HIDE DEF new
        <3> QED BY <1>0, <2>1, <3>1, <3>2 DEF HoldsRows, SlotState
    <2>7. CASE TakeNext(v)
        <3>1. PICK r \in slot[v].todo : \/ slot' = [slot EXCEPT ![v] = Taking(slot[v], r)]
                                        \/ slot' = [slot EXCEPT ![v].todo = @ \ {r}]
            BY <2>7 DEF TakeNext
        <3>2. CASE slot' = [slot EXCEPT ![v] = Taking(slot[v], r)]
            <4>1. slot'[v] = Taking(slot[v], r)
                BY <1>0, <3>2
            <4> QED BY <1>0, <2>1, <4>1 DEF HoldsRows, SlotState, Taking
        <3>3. CASE slot' = [slot EXCEPT ![v].todo = @ \ {r}]
            BY <1>0, <2>1, <3>3 DEF HoldsRows, SlotState
        <3> QED BY <3>1, <3>2, <3>3
    <2>8. CASE Acknowledge(v) \/ DatabaseFails(v) \/ ScheduleRetry(v) \/ Abandon(v)
               \/ MarkSuccess(v) \/ MarkInvalid(v) \/ Bury(v)
        BY <2>2, <2>3, <2>8 DEF Acknowledge, DatabaseFails, ScheduleRetry, Abandon,
               MarkSuccess, MarkInvalid, Bury
    <2>9. CASE Prepare(v) \/ RecordSuccess(v) \/ RecordFailure(v) \/ Invalidate(v)
        BY <2>4, <2>9 DEF Prepare, RecordSuccess, RecordFailure, Invalidate
    <2>10. CASE Load(v)
        BY <2>4, <2>10 DEF Load
    <2>11. CASE Send(v)
        BY <2>4, <2>5, <2>11 DEF Send
    <2>12. CASE SuccessIsNotRecorded(v)
        BY <2>5, <2>12 DEF SuccessIsNotRecorded
    <2> QED BY <1>8, <2>6, <2>7, <2>8, <2>9, <2>10, <2>11, <2>12 DEF JobStep
<1> QED BY <1>1, <1>3, <1>4, <1>5, <1>6, <1>7, <1>8 DEF Next

LEMMA PreparedAlways == Spec => []PreparedInvariant
<1>1. Init => PreparedInvariant
    BY DEF Init, PreparedInvariant, HoldsRows, Idle
<1>2. TypeOK /\ TypeOK' /\ PreparedInvariant /\ [Next]_vars => PreparedInvariant'
    <2> SUFFICES ASSUME TypeOK, TypeOK', PreparedInvariant, [Next]_vars PROVE PreparedInvariant'
        OBVIOUS
    <2>1. ASSUME NEW w \in Slots PROVE HoldsRows(slot[w])'
        <3>1. HoldsRows(slot'[w])
            BY WhatASlotHolds
        <3>2. slot'[w].pc # "idle" => slot'[w].job \in Job
            BY DEF TypeOK, SlotType, SlotOK, SlotState, Coherent
        <3>3. \A r \in slot'[w].todo : r.d \in Delivery
            BY DEF TypeOK, SlotType, SlotOK, SlotState
        <3>4. slot'[w].cur # None => slot'[w].cur \in Delivery
            BY DEF TypeOK, SlotType, SlotOK, SlotState
        <3>5. slot'[w].pc # "idle" => Raised(slot[w].job)'
            BY <3>1, <3>2, RowsStay DEF HoldsRows, Raised, Job
        <3> QED BY <3>1, <3>3, <3>4, <3>5, RowsStay DEF HoldsRows
    <2> QED BY <2>1, PreparedRows, PreparedCounts, PreparedJobs DEF PreparedInvariant
<1> QED BY <1>1, <1>2, TypeCorrect, PTL DEF Spec

\* Whatever is sent, counted or waiting belongs to a prepared delivery.
THEOREM PreparedOnly == Spec => []OnlyPreparedDeliveries
BY PreparedAlways, TypeCorrect, PreparedIsEnough, PTL

-----------------------------------------------------------------------------
(* What a slot holds, and what a step does to it.                           *)

\* A slot holds the deliveries it has still to send and the one in hand.
Holds(s, d) == s.cur = d \/ \E r \in s.todo : r.d = d

\* Something failed that is not tried again.
Blamed == faults["refused"] + faults["lost"] + faults["database"] > 0

\* In a slot: each delivery once, and of the slot's job; the counts it read are
\* not ahead of the rows; what follows a failure is justified.
HandOK(s, count, blamed) ==
    /\ \A r, q \in s.todo : r.d = q.d => r = q
    /\ \A r \in s.todo : r.d # s.cur /\ r.count <= count[r.d]
    /\ s.pc \in {"idle", "prepare", "read"} => s.todo = {}
    /\ \A d \in Delivery :
           Holds(s, d) => IF s.job.kind = "event" THEN d[1] = s.job.of ELSE d = s.job.of
    /\ s.cur # None => s.count <= count[s.cur]
    /\ s.pc = "recordFailure" => s.why # "none"
    /\ s.why = "terminal" => blamed
    /\ s.pc = "scheduleRetry" => s.count < MaxRetries
    /\ s.pc = "bury" => count[s.cur] > MaxRetries \/ blamed

HandInvariant == \A w \in Slots : HandOK(slot[w], attempts, Blamed)

\* The other slots go on with what they have.
LEMMA OthersStay ==
    ASSUME TypeOK, NEW w \in Slots, Start(w) \/ JobStep(w), NEW v \in Slots, v # w
    PROVE  slot'[v] = slot[v]
BY DEF JobStep, Prepare, ReadRows, TakeNext, Acknowledge, Load, Abandon, Send,
       RecordSuccess, MarkSuccess, SuccessIsNotRecorded, RecordFailure, Invalidate,
       MarkInvalid, ScheduleRetry, Bury, DatabaseFails, Goto, JobEnds, NextDelivery, Fails,
       Start, StartEvent, StartRetry, TypeOK, SlotType

\* Attempts and faults are only ever added.
LEMMA CountersGrow ==
    ASSUME TypeOK, [Next]_vars
    PROVE  /\ \A d \in Delivery : attempts[d] <= attempts'[d]
           /\ \A k \in FaultKind : faults[k] <= faults'[k]
           /\ Blamed => Blamed'
           /\ WorkerCrash => faults'["crash"] = faults["crash"] + 1
           /\ RedisLoss => faults'["redis"] = faults["redis"] + 1
<1> USE DEF TypeOK, alertVars, rowVars, queueVars, pushVars
<1>1. /\ UNCHANGED attempts \/ \E d \in Delivery : RecordAttempt(d)
      /\ UNCHANGED faults \/ \E k \in FaultKind : Fault(k)
    <2>1. CASE Users \/ Events \/ UNCHANGED vars
        BY <2>1 DEF Users, Subscribe, Revoke, Events, Raise, Publish, PublishUncommitted, vars
    <2>2. CASE \E w \in Slots : Start(w)
        BY <2>2 DEF Start, StartEvent, StartRetry
    <2>3. ASSUME NEW w \in Slots, JobStep(w)
          PROVE  /\ UNCHANGED attempts \/ \E d \in Delivery : RecordAttempt(d)
                 /\ UNCHANGED faults \/ \E k \in FaultKind : Fault(k)
        <3>1. CASE RecordSuccess(w) \/ RecordFailure(w)
            BY <3>1, InHand DEF RecordSuccess, RecordFailure, Sending
        <3>2. CASE ~(RecordSuccess(w) \/ RecordFailure(w))
            BY <2>3, <3>2 DEF JobStep, Prepare, ReadRows, TakeNext, Acknowledge, Load, Abandon,
                   Send, MarkSuccess, SuccessIsNotRecorded, Invalidate, MarkInvalid,
                   ScheduleRetry, Bury, DatabaseFails, FaultKind
        <3> QED BY <3>1, <3>2
    <2>4. CASE WorkerCrash \/ RedisLoss
        BY <2>4 DEF WorkerCrash, RedisLoss, FaultKind
    <2> QED BY <2>1, <2>2, <2>3, <2>4 DEF Next
<1>2. \A d \in Delivery : attempts[d] <= attempts'[d]
    BY <1>1 DEF RecordAttempt, DatabaseType
<1>3. \A k \in FaultKind : faults[k] <= faults'[k] /\ faults[k] \in Nat /\ faults'[k] \in Nat
    BY <1>1 DEF Fault, HistoryType
<1>4. Blamed => Blamed'
    <2>1. faults["refused"] <= faults'["refused"] /\ faults["lost"] <= faults'["lost"]
          /\ faults["database"] <= faults'["database"]
        BY <1>3 DEF FaultKind
    <2>2. faults["refused"] \in Nat /\ faults["lost"] \in Nat /\ faults["database"] \in Nat
          /\ faults'["refused"] \in Nat /\ faults'["lost"] \in Nat /\ faults'["database"] \in Nat
        BY <1>3 DEF FaultKind
    <2>3. Blamed => faults["refused"] + faults["lost"] + faults["database"] > 0
        BY DEF Blamed
    <2>4. Blamed => faults'["refused"] + faults'["lost"] + faults'["database"] > 0
        BY <2>1, <2>2, <2>3
    <2> QED BY <2>4 DEF Blamed
<1>5. WorkerCrash => faults'["crash"] = faults["crash"] + 1
    BY DEF WorkerCrash, Fault, HistoryType, FaultKind
<1>6. RedisLoss => faults'["redis"] = faults["redis"] + 1
    BY DEF RedisLoss, Fault, HistoryType, FaultKind
<1> QED BY <1>2, <1>3, <1>4, <1>5, <1>6

\* What a slot that does not move has in hand stays as it is.
LEMMA HandStays ==
    ASSUME TypeOK, TypeOK', [Next]_vars, NEW s, SlotOK(s), HandOK(s, attempts, Blamed)
    PROVE  HandOK(s, attempts', Blamed')
<1>1. \A d \in Delivery : attempts[d] <= attempts'[d] /\ attempts[d] \in Nat /\ attempts'[d] \in Nat
    BY CountersGrow DEF TypeOK, DatabaseType
<1>2. Blamed => Blamed'
    BY CountersGrow
<1>3. s.cur \in Delivery \cup {None} /\ s.count \in Nat /\ s.todo \subseteq [d: Delivery, count: Nat]
      /\ (s.pc = "bury" => s.cur \in Delivery)
    BY DEF SlotOK, SlotState, Coherent, Sending
<1>4. \A r \in s.todo : r.d \in Delivery /\ r.count \in Nat
    BY <1>3
<1>5. \A r \in s.todo : r.count <= attempts'[r.d]
    BY <1>1, <1>4 DEF HandOK
<1>6. s.cur # None => s.count <= attempts'[s.cur]
    BY <1>1, <1>3 DEF HandOK
<1>7. s.pc = "bury" => attempts'[s.cur] > MaxRetries \/ Blamed'
    BY <1>1, <1>2, <1>3, RetriesAssumption DEF HandOK
<1> QED BY <1>2, <1>5, <1>6, <1>7 DEF HandOK

\* The failures that are not tried again leave their count.
LEMMA FaultBlames ==
    ASSUME TypeOK, NEW k \in {"refused", "lost", "database"}, Fault(k)
    PROVE  Blamed'
<1>1. /\ faults["refused"] \in Nat /\ faults["lost"] \in Nat /\ faults["database"] \in Nat
      /\ faults'["refused"] = faults["refused"] + (IF k = "refused" THEN 1 ELSE 0)
      /\ faults'["lost"] = faults["lost"] + (IF k = "lost" THEN 1 ELSE 0)
      /\ faults'["database"] = faults["database"] + (IF k = "database" THEN 1 ELSE 0)
    BY DEF Fault, TypeOK, HistoryType, FaultKind
<1>2. faults'["refused"] + faults'["lost"] + faults'["database"] > 0
    BY <1>1
<1> QED BY <1>2 DEF Blamed

\* How a job goes on: to another step with what it has, on to its next delivery,
\* to its end, or by taking deliveries from the rows or from its list.
LEMMA JobMoves ==
    ASSUME TypeOK, NEW w \in Slots, JobStep(w)
    PROVE  /\ slot[w].pc # "idle"
           /\ \/ \E step \in StepName : slot'[w] = [slot[w] EXCEPT !.pc = step]
              \/ \E why \in {"retry", "invalidate", "terminal"} :
                    slot'[w] = [slot[w] EXCEPT !.pc = "recordFailure", !.why = why]
              \/ slot'[w] = [slot[w] EXCEPT !.pc = "next", !.cur = None, !.count = 0, !.why = "none"]
              \/ slot'[w] = Idle
              \/ /\ ReadRows(w)
                 /\ slot'[w] = [slot[w] EXCEPT !.pc = "next", !.todo = Rows(PendingOf(w) \cap Listed(w))]
              \/ /\ TakeNext(w)
                 /\ \E r \in slot[w].todo : \/ slot'[w] = Taking(slot[w], r)
                                            \/ slot'[w] = [slot[w] EXCEPT !.todo = @ \ {r}]
<1>0. slot[w] \in SlotState /\ slot = [v \in Slots |-> slot[v]]
    BY DEF TypeOK, SlotType, SlotOK
<1>1. \A step : Goto(w, step) => slot'[w] = [slot[w] EXCEPT !.pc = step]
    BY <1>0 DEF Goto
<1>2. \A why : Fails(w, why) => slot'[w] = [slot[w] EXCEPT !.pc = "recordFailure", !.why = why]
    BY <1>0 DEF Fails
<1>3. NextDelivery(w)
      => slot'[w] = [slot[w] EXCEPT !.pc = "next", !.cur = None, !.count = 0, !.why = "none"]
    BY <1>0 DEF NextDelivery
<1>4. JobEnds(w) => slot'[w] = Idle
    BY <1>0 DEF JobEnds
<1>5. CASE Prepare(w) \/ RecordSuccess(w) \/ Invalidate(w)
    BY <1>1, <1>5 DEF Prepare, RecordSuccess, Invalidate, StepName
<1>6. CASE Load(w)
    BY <1>1, <1>6 DEF Load, StepName
<1>7. CASE RecordFailure(w)
    <2>1. AfterFailure(slot[w].why, slot[w].count) \in StepName
        BY DEF AfterFailure, StepName
    <2> QED BY <1>1, <1>7, <2>1 DEF RecordFailure
<1>8. CASE Send(w)
    BY <1>1, <1>2, <1>8 DEF Send, StepName
<1>9. CASE SuccessIsNotRecorded(w)
    BY <1>2, <1>9 DEF SuccessIsNotRecorded
<1>10. CASE Abandon(w) \/ MarkSuccess(w) \/ MarkInvalid(w) \/ Bury(w) \/ ScheduleRetry(w)
    BY <1>3, <1>4, <1>10 DEF Abandon, MarkSuccess, MarkInvalid, Bury, ScheduleRetry
<1>11. CASE Acknowledge(w) \/ DatabaseFails(w)
    BY <1>4, <1>11 DEF Acknowledge, DatabaseFails
<1>12. CASE ReadRows(w)
    BY <1>0, <1>12 DEF ReadRows
<1>13. CASE TakeNext(w)
    <2>1. slot[w].pc = "next"
          /\ \E r \in slot[w].todo : \/ slot' = [slot EXCEPT ![w] = Taking(slot[w], r)]
                                     \/ slot' = [slot EXCEPT ![w].todo = @ \ {r}]
        BY <1>13 DEF TakeNext
    <2>2. ASSUME NEW r \in slot[w].todo, slot' = [slot EXCEPT ![w] = Taking(slot[w], r)]
          PROVE  slot'[w] = Taking(slot[w], r)
        BY <1>0, <2>2
    <2>3. ASSUME NEW r \in slot[w].todo, slot' = [slot EXCEPT ![w].todo = @ \ {r}]
          PROVE  slot'[w] = [slot[w] EXCEPT !.todo = @ \ {r}]
        BY <1>0, <2>3
    <2> QED BY <1>13, <2>1, <2>2, <2>3
<1> QED BY <1>5, <1>6, <1>7, <1>8, <1>9, <1>10, <1>11, <1>12, <1>13 DEF JobStep

\* A slot that starts has an event to prepare, or one pending delivery in hand.
LEMMA StartMoves ==
    ASSUME TypeOK, NEW w \in Slots, Start(w)
    PROVE  /\ slot[w].pc = "idle"
           /\ \E left \in 0..1 :
                 \/ \E a \in Alerts :
                       /\ StartEvent(w, a, left)
                       /\ slot'[w] = [Idle EXCEPT !.pc = "prepare", !.ids = active,
                                        !.job = [kind |-> "event", of |-> a, left |-> left]]
                 \/ \E d \in Delivery :
                       /\ StartRetry(w, d, left)
                       /\ IF delivery[d] = "pending"
                          THEN slot'[w] = [Idle EXCEPT !.pc = "load", !.cur = d, !.count = attempts[d],
                                             !.job = [kind |-> "retry", of |-> d, left |-> left]]
                          ELSE slot'[w] = [Idle EXCEPT !.pc = "next",
                                             !.job = [kind |-> "retry", of |-> d, left |-> left]]
<1>0. slot = [v \in Slots |-> slot[v]]
    BY DEF TypeOK, SlotType
<1>1. ASSUME NEW left \in 0..1, NEW a \in Alerts, StartEvent(w, a, left)
      PROVE  /\ slot[w].pc = "idle"
             /\ slot'[w] = [Idle EXCEPT !.pc = "prepare", !.ids = active,
                              !.job = [kind |-> "event", of |-> a, left |-> left]]
    BY <1>0, <1>1 DEF StartEvent, Idle
<1>2. ASSUME NEW left \in 0..1, NEW d \in Delivery, StartRetry(w, d, left)
      PROVE  /\ slot[w].pc = "idle"
             /\ IF delivery[d] = "pending"
                THEN slot'[w] = [Idle EXCEPT !.pc = "load", !.cur = d, !.count = attempts[d],
                                   !.job = [kind |-> "retry", of |-> d, left |-> left]]
                ELSE slot'[w] = [Idle EXCEPT !.pc = "next",
                                   !.job = [kind |-> "retry", of |-> d, left |-> left]]
    BY <1>0, <1>2 DEF StartRetry, Idle
<1> QED BY <1>1, <1>2 DEF Start

\* The hand of the slot whose job goes on.
LEMMA HandOfJob ==
    ASSUME TypeOK, TypeOK', [Next]_vars, NEW w \in Slots, JobStep(w),
           HandOK(slot[w], attempts, Blamed)
    PROVE  HandOK(slot'[w], attempts', Blamed')
<1>0. slot[w] \in SlotState /\ SlotOK(slot[w]) /\ slot'[w] \in SlotState
    BY DEF TypeOK, SlotType, SlotOK
<1>1. HandOK(slot[w], attempts', Blamed')
    BY <1>0, HandStays
<1>2. CASE slot'[w] = Idle
    BY <1>2, NoneAssumption DEF Idle, HandOK, Holds
<1>3. CASE slot'[w] = [slot[w] EXCEPT !.pc = "next", !.cur = None, !.count = 0, !.why = "none"]
    <2>1. \A r \in slot[w].todo : r.d \in Delivery /\ r.d # None
        BY <1>0, NoneAssumption DEF SlotState
    <2>2. \A d \in Delivery : d # None
        BY NoneAssumption
    <2> QED BY <1>0, <1>1, <1>3, <2>1, <2>2 DEF HandOK, Holds, SlotState
<1>4. ASSUME NEW why \in {"retry", "invalidate", "terminal"}, why = "terminal" => Blamed',
             slot[w].pc \in Sending,
             slot'[w] = [slot[w] EXCEPT !.pc = "recordFailure", !.why = why]
      PROVE  HandOK(slot'[w], attempts', Blamed')
    BY <1>0, <1>1, <1>4 DEF HandOK, Holds, SlotState, Sending
<1>5. ASSUME NEW step \in StepName, slot'[w] = [slot[w] EXCEPT !.pc = step],
             step \in {"idle", "prepare", "read"} => slot[w].todo = {},
             step \notin {"recordFailure", "scheduleRetry", "bury"}
      PROVE  HandOK(slot'[w], attempts', Blamed')
    BY <1>0, <1>1, <1>5 DEF HandOK, Holds, SlotState
<1>6. CASE ReadRows(w)
    <2> DEFINE new == Rows(PendingOf(w) \cap Listed(w))
    <2>1. slot'[w] = [slot[w] EXCEPT !.pc = "next", !.todo = new]
        BY <1>0, <1>6 DEF ReadRows, TypeOK, SlotType
    <2>2. \A r \in new : r.d \in Delivery /\ r.d[1] = slot[w].job.of /\ r.count = attempts[r.d]
        BY DEF Rows, PendingOf
    <2>3. attempts' = attempts
        BY <1>6 DEF ReadRows, rowVars
    <2>4. slot[w].cur = None /\ slot[w].job.kind = "event"
        BY <1>0, <1>6 DEF ReadRows, SlotOK, Coherent, Sending
    <2>5. \A r, q \in new : r.d = q.d => r = q
        BY DEF Rows
    <2>6. \A r \in new : attempts[r.d] <= attempts[r.d] /\ r.d # None
        BY <2>2, NoneAssumption DEF TypeOK, DatabaseType
    <2>7. slot'[w].todo = new /\ slot'[w].cur = None /\ slot'[w].pc = "next"
          /\ slot'[w].job = slot[w].job /\ slot'[w].why = slot[w].why
        BY <1>0, <2>1, <2>4 DEF SlotState
    <2>8. \A d \in Delivery : d # None
        BY NoneAssumption
    <2> HIDE DEF new
    <2> QED BY <1>1, <2>2, <2>3, <2>4, <2>5, <2>6, <2>7, <2>8 DEF HandOK, Holds
<1>7. CASE TakeNext(w)
    <2>0. slot[w].pc = "next" /\ slot[w].cur = None
        BY <1>0, <1>7 DEF TakeNext, SlotOK, Coherent, Sending
    <2>1. PICK r \in slot[w].todo : \/ slot'[w] = Taking(slot[w], r)
                                    \/ slot'[w] = [slot[w] EXCEPT !.todo = @ \ {r}]
        BY <1>7, <2>0, JobMoves DEF Idle, TakeNext, SlotType, TypeOK
    <2>2. r.d \in Delivery /\ r.d # None
        BY <1>0, NoneAssumption DEF SlotState
    <2>3. CASE slot'[w] = Taking(slot[w], r)
        BY <1>0, <1>1, <2>0, <2>2, <2>3 DEF HandOK, Holds, SlotState, Taking
    <2>4. CASE slot'[w] = [slot[w] EXCEPT !.todo = @ \ {r}]
        BY <1>0, <1>1, <2>0, <2>4 DEF HandOK, Holds, SlotState
    <2> QED BY <2>1, <2>3, <2>4
<1>8. ASSUME NEW step, Goto(w, step) PROVE slot'[w] = [slot[w] EXCEPT !.pc = step]
    BY <1>0, <1>8 DEF Goto, TypeOK, SlotType
<1>9. ASSUME NEW why, Fails(w, why)
      PROVE  slot'[w] = [slot[w] EXCEPT !.pc = "recordFailure", !.why = why]
    BY <1>0, <1>9 DEF Fails, TypeOK, SlotType
<1>10. NextDelivery(w) \/ JobEnds(w) => HandOK(slot'[w], attempts', Blamed')
    BY <1>0, <1>2, <1>3 DEF NextDelivery, JobEnds, TypeOK, SlotType
<1>11. CASE Prepare(w) \/ Load(w) \/ RecordSuccess(w) \/ Invalidate(w)
    <2>1. slot[w].pc = "prepare" => slot[w].todo = {}
        BY DEF HandOK
    <2> QED BY <1>5, <1>8, <1>11, <2>1 DEF Prepare, Load, RecordSuccess, Invalidate, StepName
<1>12. CASE Send(w)
    <2>1. CASE Goto(w, "recordSuccess")
        BY <1>5, <1>8, <2>1 DEF StepName
    <2>2. CASE \E why \in {"retry", "invalidate"} : Fails(w, why)
        BY <1>4, <1>9, <1>12, <2>2 DEF Send, Sending
    <2>3. CASE Fails(w, "terminal") /\ (Fault("lost") \/ Fault("refused"))
        BY <1>4, <1>9, <1>12, <2>3, FaultBlames DEF Send, Sending
    <2> QED BY <1>12, <2>1, <2>2, <2>3 DEF Send
<1>13. CASE SuccessIsNotRecorded(w)
    BY <1>4, <1>9, <1>13, FaultBlames DEF SuccessIsNotRecorded, Sending
<1>14. CASE RecordFailure(w)
    <2> DEFINE step == AfterFailure(slot[w].why, slot[w].count)
    <2>1. slot'[w] = [slot[w] EXCEPT !.pc = step]
        BY <1>8, <1>14 DEF RecordFailure
    <2>2. slot[w].why \in {"retry", "invalidate", "terminal"} /\ slot[w].cur \in Delivery
          /\ slot[w].count \in Nat /\ slot[w].count <= attempts[slot[w].cur]
        BY <1>0, <1>14, InHand, NoneAssumption DEF RecordFailure, HandOK, SlotState, Sending, TypeOK
    <2>3. attempts'[slot[w].cur] = attempts[slot[w].cur] + 1 /\ attempts[slot[w].cur] \in Nat
        BY <1>14, <2>2 DEF RecordFailure, RecordAttempt, TypeOK, DatabaseType
    <2>4. step = "scheduleRetry" => slot[w].count < MaxRetries
        BY DEF AfterFailure
    <2>5. step = "bury" => attempts'[slot[w].cur] > MaxRetries \/ Blamed'
        <3>1. CASE slot[w].why = "terminal"
            BY <1>1, <3>1 DEF HandOK
        <3>2. CASE slot[w].why # "terminal" /\ step = "bury"
            <4>1. ~(slot[w].count < MaxRetries)
                BY <2>2, <3>2 DEF AfterFailure
            <4> QED BY <2>2, <2>3, <4>1, RetriesAssumption
        <3> QED BY <3>1, <3>2
    <2>6. step \in {"invalidate", "scheduleRetry", "bury"}
        BY DEF AfterFailure
    <2> HIDE DEF step
    <2> QED BY <1>0, <1>1, <2>1, <2>4, <2>5, <2>6 DEF HandOK, Holds, SlotState
<1>15. CASE Abandon(w) \/ MarkSuccess(w) \/ MarkInvalid(w) \/ Bury(w) \/ ScheduleRetry(w)
            \/ Acknowledge(w) \/ DatabaseFails(w)
    BY <1>10, <1>15 DEF Abandon, MarkSuccess, MarkInvalid, Bury, ScheduleRetry, Acknowledge,
           DatabaseFails
<1> QED BY <1>6, <1>7, <1>11, <1>12, <1>13, <1>14, <1>15 DEF JobStep

\* What the slots have in hand, through a step.
LEMMA HandStep ==
    ASSUME TypeOK, TypeOK', [Next]_vars, HandInvariant
    PROVE  HandInvariant'
<1> SUFFICES ASSUME NEW v \in Slots PROVE HandOK(slot'[v], attempts', Blamed')
    BY DEF HandInvariant, HandOK, Holds
<1>0. HandOK(slot[v], attempts, Blamed) /\ SlotOK(slot[v])
    BY DEF HandInvariant, TypeOK, SlotType
<1>1. CASE slot'[v] = slot[v]
    BY <1>0, <1>1, HandStays
<1>2. CASE slot'[v] = Idle
    BY <1>2, NoneAssumption DEF Idle, HandOK, Holds
<1>3. CASE Start(v)
    <2>1. \A d \in Delivery : attempts[d] <= attempts'[d] /\ d # None
        BY CountersGrow, NoneAssumption
    <2>2. ASSUME NEW left \in 0..1, NEW a \in Alerts,
                 slot'[v] = [Idle EXCEPT !.pc = "prepare", !.ids = active,
                               !.job = [kind |-> "event", of |-> a, left |-> left]]
          PROVE  HandOK(slot'[v], attempts', Blamed')
        BY <2>1, <2>2 DEF Idle, HandOK, Holds
    <2>3. ASSUME NEW left \in 0..1, NEW d \in Delivery,
                 slot'[v] = [Idle EXCEPT !.pc = "load", !.cur = d, !.count = attempts[d],
                               !.job = [kind |-> "retry", of |-> d, left |-> left]]
          PROVE  HandOK(slot'[v], attempts', Blamed')
        BY <2>1, <2>3 DEF Idle, HandOK, Holds
    <2>4. ASSUME NEW left \in 0..1, NEW d \in Delivery,
                 slot'[v] = [Idle EXCEPT !.pc = "next",
                               !.job = [kind |-> "retry", of |-> d, left |-> left]]
          PROVE  HandOK(slot'[v], attempts', Blamed')
        BY <2>1, <2>4 DEF Idle, HandOK, Holds
    <2> QED BY <1>3, <2>2, <2>3, <2>4, StartMoves
<1>4. CASE Users \/ Events \/ UNCHANGED vars
    BY <1>1, <1>4 DEF Users, Subscribe, Revoke, Events, Raise, Publish, PublishUncommitted, vars
<1>5. CASE WorkerCrash
    BY <1>2, <1>5 DEF WorkerCrash
<1>6. CASE RedisLoss
    <2>1. CASE slot[v].pc = "idle"
        BY <1>1, <1>6, <2>1 DEF RedisLoss
    <2>2. CASE slot[v].pc # "idle"
        <3>1. slot[v] \in SlotState /\ slot[v].job \in Job
            BY <2>2, InHand DEF TypeOK, SlotType, SlotOK
        <3>2. slot'[v] = [slot[v] EXCEPT !.job = [slot[v].job EXCEPT !.left = 0]]
            BY <1>6, <2>2, <3>1 DEF RedisLoss, SlotState
        <3>3. [slot[v].job EXCEPT !.left = 0].kind = slot[v].job.kind
              /\ [slot[v].job EXCEPT !.left = 0].of = slot[v].job.of
            BY <3>1 DEF Job
        <3>4. HandOK(slot[v], attempts', Blamed')
            BY <1>0, HandStays
        <3> QED BY <3>1, <3>2, <3>3, <3>4 DEF HandOK, Holds, SlotState
    <2> QED BY <2>1, <2>2
<1> QED BY <1>0, <1>1, <1>3, <1>4, <1>5, <1>6, OthersStay, HandOfJob DEF Next

\* A delivery is given up by a slot that has used the delays or met a failure
\* that is not tried again.
LEMMA GivenUpStep ==
    ASSUME TypeOK, TypeOK', [Next]_vars, HandInvariant, NotGivenUpEarly
    PROVE  NotGivenUpEarly'
<1> SUFFICES ASSUME NEW d \in Delivery, delivery'[d] = "dead_letter"
             PROVE  attempts'[d] > MaxRetries \/ Blamed'
    BY DEF NotGivenUpEarly, Blamed
<1>1. /\ attempts[d] <= attempts'[d] /\ attempts[d] \in Nat /\ attempts'[d] \in Nat
      /\ Blamed => Blamed'
    BY CountersGrow DEF TypeOK, DatabaseType
<1>2. CASE delivery[d] = "dead_letter"
    BY <1>1, <1>2, RetriesAssumption DEF NotGivenUpEarly, Blamed
<1>3. CASE delivery[d] # "dead_letter"
    <2>1. \E w \in Slots : Bury(w) /\ slot[w].cur = d
        <3> USE DEF alertVars, rowVars, queueVars, pushVars, TypeOK, DatabaseType
        <3>1. ASSUME NEW w \in Slots, JobStep(w) PROVE Bury(w) /\ slot[w].cur = d
            <4>1. ~UNCHANGED delivery
                BY <1>3
            <4>2. CASE Bury(w)
                BY <1>3, <4>2 DEF Bury, Finish
            <4>3. CASE Abandon(w) \/ MarkSuccess(w) \/ MarkInvalid(w)
                BY <1>3, <4>3 DEF Abandon, MarkSuccess, MarkInvalid, Finish
            <4>4. CASE Prepare(w)
                BY <1>3, <4>4 DEF Prepare
            <4> QED BY <3>1, <4>1, <4>2, <4>3, <4>4
                    DEF JobStep, ReadRows, TakeNext, Acknowledge, Load, Send, RecordSuccess,
                        SuccessIsNotRecorded, RecordFailure, Invalidate, ScheduleRetry,
                        DatabaseFails
        <3>2. ~(Users \/ Events \/ WorkerCrash \/ RedisLoss \/ UNCHANGED vars)
            BY <1>3 DEF Users, Subscribe, Revoke, Events, Raise, Publish, PublishUncommitted,
                   WorkerCrash, RedisLoss, vars
        <3>3. \A w \in Slots : ~Start(w)
            BY <1>3 DEF Start, StartEvent, StartRetry
        <3> QED BY <3>1, <3>2, <3>3 DEF Next
    <2>2. attempts[d] > MaxRetries \/ Blamed
        BY <2>1 DEF Bury, HandInvariant, HandOK
    <2> QED BY <1>1, <2>2, RetriesAssumption
<1> QED BY <1>2, <1>3

-----------------------------------------------------------------------------
(* One chain of retries for each delivery, until a process or Redis is lost. *)

Losses == faults["crash"] + faults["redis"]

\* The slot is about to find out which deliveries of the alert to send.
Preparing(s, a) == s.pc \in {"prepare", "read"} /\ s.job.of = a

\* An event is prepared once and by one slot, before any of its deliveries is
\* sent; a delivery waits for a retry or is in the hands of one slot.
ChainInvariant ==
    Losses = 0 =>
        /\ \A j \in Job : jobs[j] > 0 => j.left = 1
        /\ \A a \in Alerts :
               /\ jobs[EventJob(a)] > 0 \/ a \in inbox => a \in added
               /\ jobs[EventJob(a)] <= 1
               /\ \A w \in Slots : Preparing(slot[w], a) => a \in added /\ jobs[EventJob(a)] = 0
               /\ \A v, w \in Slots : Preparing(slot[v], a) /\ Preparing(slot[w], a) => v = w
        /\ \A d \in Delivery :
               /\ jobs[EventJob(d[1])] > 0 =>
                      jobs[RetryJob(d)] = 0 /\ \A w \in Slots : ~Holds(slot[w], d)
               /\ \A v \in Slots : Preparing(slot[v], d[1]) =>
                      jobs[RetryJob(d)] = 0 /\ \A w \in Slots : ~Holds(slot[w], d)
               /\ jobs[RetryJob(d)] <= 1
               /\ jobs[RetryJob(d)] > 0 => \A w \in Slots : ~Holds(slot[w], d)
               /\ \A v, w \in Slots : Holds(slot[v], d) /\ Holds(slot[w], d) => v = w

\* Only the query of the rows gives a running job deliveries it did not hold.
LEMMA HeldStays ==
    ASSUME TypeOK, NEW w \in Slots, JobStep(w)
    PROVE  /\ \A d \in Delivery : Holds(slot'[w], d) =>
                  Holds(slot[w], d) \/ (ReadRows(w) /\ d[1] = slot[w].job.of /\ delivery[d] = "pending")
           /\ \A a \in Alerts : Preparing(slot'[w], a) => Preparing(slot[w], a) /\ ~ReadRows(w)
           /\ ReadRows(w) => Preparing(slot[w], slot[w].job.of)
<1>0. slot[w] \in SlotState /\ slot = [v \in Slots |-> slot[v]] /\ Coherent(slot[w])
    BY DEF TypeOK, SlotType, SlotOK
<1>1. CASE ReadRows(w)
    <2> DEFINE new == Rows(PendingOf(w) \cap Listed(w))
    <2>1. slot'[w] = [slot[w] EXCEPT !.pc = "next", !.todo = new]
        BY <1>0, <1>1 DEF ReadRows
    <2>2. \A r \in new : r.d[1] = slot[w].job.of /\ delivery[r.d] = "pending"
        BY DEF Rows, PendingOf
    <2> HIDE DEF new
    <2> QED BY <1>0, <1>1, <2>1, <2>2 DEF Holds, Preparing, ReadRows, SlotState
<1>2. CASE slot'[w] = Idle
    BY <1>2, NoneAssumption DEF Idle, Holds, Preparing, ReadRows
<1>3. CASE slot'[w] = [slot[w] EXCEPT !.pc = "next", !.cur = None, !.count = 0, !.why = "none"]
    BY <1>0, <1>1, <1>3, NoneAssumption DEF Holds, Preparing, SlotState
<1>4. ASSUME NEW why \in {"retry", "invalidate", "terminal"},
             slot'[w] = [slot[w] EXCEPT !.pc = "recordFailure", !.why = why], ~ReadRows(w)
      PROVE  /\ \A d \in Delivery : Holds(slot'[w], d) => Holds(slot[w], d)
             /\ \A a \in Alerts : ~Preparing(slot'[w], a)
    BY <1>0, <1>4 DEF Holds, Preparing, SlotState
<1>5. ASSUME NEW step \in StepName, slot'[w] = [slot[w] EXCEPT !.pc = step], ~ReadRows(w)
      PROVE  /\ \A d \in Delivery : Holds(slot'[w], d) => Holds(slot[w], d)
             /\ \A a \in Alerts : Preparing(slot'[w], a) => Preparing(slot[w], a)
    <2>1. \A d \in Delivery : Holds(slot'[w], d) => Holds(slot[w], d)
        BY <1>0, <1>5 DEF Holds, SlotState
    <2>2. slot'[w].pc = step
        BY <1>0, <1>5 DEF SlotState
    <2>3. \A other : Goto(w, other) => slot'[w].pc = other
        BY <1>0 DEF Goto, SlotState
    <2>4. \A why : Fails(w, why) => slot'[w].pc = "recordFailure"
        BY <1>0 DEF Fails, SlotState
    <2>5. NextDelivery(w) => slot'[w].pc = "next"
        BY <1>0 DEF NextDelivery, SlotState
    <2>6. JobEnds(w) => slot'[w].pc = "idle"
        BY <1>0 DEF JobEnds, Idle
    <2>7. TakeNext(w) => slot[w].pc = "next" /\ (slot'[w].pc = "send" \/ slot'[w].pc = slot[w].pc)
        BY <1>0 DEF TakeNext, Taking, SlotState
    <2>8. AfterFailure(slot[w].why, slot[w].count) \notin {"prepare", "read"}
        BY DEF AfterFailure
    <2>9. step \in {"prepare", "read"} => Prepare(w)
        BY <1>5, <2>2, <2>3, <2>4, <2>5, <2>6, <2>7, <2>8
        DEF JobStep, Acknowledge, Load, Abandon, Send, RecordSuccess, MarkSuccess,
            SuccessIsNotRecorded, RecordFailure, Invalidate, MarkInvalid, ScheduleRetry, Bury,
            DatabaseFails
    <2>10. step \in {"prepare", "read"} => slot[w].pc \in {"prepare", "read"}
        BY <2>9 DEF Prepare
    <2> QED BY <1>0, <1>5, <2>1, <2>10 DEF Preparing, SlotState
<1>6. ASSUME NEW r \in slot[w].todo, TakeNext(w),
             slot'[w] = Taking(slot[w], r) \/ slot'[w] = [slot[w] EXCEPT !.todo = @ \ {r}]
      PROVE  /\ \A d \in Delivery : Holds(slot'[w], d) => Holds(slot[w], d)
             /\ \A a \in Alerts : ~Preparing(slot'[w], a)
    <2>1. slot[w].pc = "next"
        BY <1>6 DEF TakeNext
    <2>2. CASE slot'[w] = Taking(slot[w], r)
        BY <1>0, <2>2 DEF Holds, Preparing, SlotState, Taking
    <2>3. CASE slot'[w] = [slot[w] EXCEPT !.todo = @ \ {r}]
        BY <1>0, <2>1, <2>3 DEF Holds, Preparing, SlotState
    <2> QED BY <1>6, <2>2, <2>3
<1>7. ReadRows(w) => Preparing(slot[w], slot[w].job.of)
    BY DEF ReadRows, Preparing
<1> QED BY <1>1, <1>2, <1>3, <1>4, <1>5, <1>6, <1>7, JobMoves

\* Only a retry that is scheduled puts a job in the queue while a job runs.
LEMMA QueueOfJob ==
    ASSUME TypeOK, NEW w \in Slots, JobStep(w)
    PROVE  /\ added' = added
           /\ \/ jobs' = jobs
              \/ /\ ScheduleRetry(w) /\ slot[w].pc = "scheduleRetry" /\ slot[w].cur \in Delivery
                 /\ jobs' = [jobs EXCEPT ![RetryJob(slot[w].cur)] = @ + 1]
                 /\ slot'[w] = [slot[w] EXCEPT !.pc = "next", !.cur = None, !.count = 0, !.why = "none"]
           /\ inbox' = inbox \/ (slot[w].pc = "prepare" /\ inbox' = inbox \cup {slot[w].job.of})
<1> USE DEF alertVars, rowVars, queueVars, pushVars
<1>1. CASE ScheduleRetry(w)
    <2>1. slot[w].cur \in Delivery
        BY <1>1, InHand DEF ScheduleRetry, Sending, TypeOK
    <2> QED BY <1>1, <2>1 DEF ScheduleRetry, NextDelivery, TypeOK, SlotType
<1>2. CASE Prepare(w)
    BY <1>2 DEF Prepare
<1>3. CASE ~ScheduleRetry(w) /\ ~Prepare(w)
    BY <1>3 DEF JobStep, ReadRows, TakeNext, Acknowledge, Load, Abandon, Send, RecordSuccess,
           MarkSuccess, SuccessIsNotRecorded, RecordFailure, Invalidate, MarkInvalid, Bury,
           DatabaseFails
<1> QED BY <1>1, <1>2, <1>3

\* Event and retry jobs are told apart by what they are of.
LEMMA JobsDiffer ==
    /\ \A a, b \in Alerts : EventJob(a) = EventJob(b) => a = b
    /\ \A d, e \in Delivery : RetryJob(d) = RetryJob(e) => d = e
    /\ \A a \in Alerts, d \in Delivery : EventJob(a) # RetryJob(d)
    /\ \A a \in Alerts : EventJob(a).left = 1
    /\ \A d \in Delivery : RetryJob(d).left = 1
    /\ \A d \in Delivery : d[1] \in Alerts
BY DEF EventJob, RetryJob, Delivery

\* A slot that starts holds nothing but a pending delivery of its retry.
LEMMA HeldAtStart ==
    ASSUME TypeOK, NEW w \in Slots
    PROVE  /\ \A left \in 0..1, a \in Alerts : StartEvent(w, a, left) =>
                  /\ \A d \in Delivery : ~Holds(slot'[w], d)
                  /\ \A b \in Alerts : Preparing(slot'[w], b) <=> b = a
           /\ \A left \in 0..1, c \in Delivery : StartRetry(w, c, left) =>
                  /\ \A d \in Delivery : Holds(slot'[w], d) => d = c /\ delivery[d] = "pending"
                  /\ \A b \in Alerts : ~Preparing(slot'[w], b)
<1>0. slot = [v \in Slots |-> slot[v]] /\ \A d \in Delivery : d # None
    BY NoneAssumption DEF TypeOK, SlotType
<1>1. ASSUME NEW left \in 0..1, NEW a \in Alerts, StartEvent(w, a, left)
      PROVE  /\ \A d \in Delivery : ~Holds(slot'[w], d)
             /\ \A b \in Alerts : Preparing(slot'[w], b) <=> b = a
    <2>1. slot'[w] = [Idle EXCEPT !.pc = "prepare", !.ids = active,
                         !.job = [kind |-> "event", of |-> a, left |-> left]]
        BY <1>0, <1>1 DEF StartEvent, Idle
    <2> QED BY <1>0, <2>1 DEF Idle, Holds, Preparing
<1>2. ASSUME NEW left \in 0..1, NEW c \in Delivery, StartRetry(w, c, left)
      PROVE  /\ \A d \in Delivery : Holds(slot'[w], d) => d = c /\ delivery[d] = "pending"
             /\ \A b \in Alerts : ~Preparing(slot'[w], b)
    <2>1. CASE delivery[c] = "pending"
        <3>1. slot'[w] = [Idle EXCEPT !.pc = "load", !.cur = c, !.count = attempts[c],
                             !.job = [kind |-> "retry", of |-> c, left |-> left]]
            BY <1>0, <1>2, <2>1 DEF StartRetry, Idle
        <3> QED BY <1>0, <2>1, <3>1 DEF Idle, Holds, Preparing
    <2>2. CASE delivery[c] # "pending"
        <3>1. slot'[w] = [Idle EXCEPT !.pc = "next",
                             !.job = [kind |-> "retry", of |-> c, left |-> left]]
            BY <1>0, <1>2, <2>2 DEF StartRetry, Idle
        <3> QED BY <1>0, <3>1 DEF Idle, Holds, Preparing
    <2> QED BY <2>1, <2>2
<1> QED BY <1>1, <1>2

\* Something was lost before if it is lost now, and what a crash loses counts.
LEMMA LossesGrow ==
    ASSUME TypeOK, TypeOK', [Next]_vars
    PROVE  /\ Losses \in Nat /\ Losses' \in Nat /\ Losses <= Losses'
           /\ WorkerCrash \/ RedisLoss => Losses' > Losses
<1>1. /\ faults["crash"] \in Nat /\ faults["redis"] \in Nat
      /\ faults'["crash"] \in Nat /\ faults'["redis"] \in Nat
    BY DEF TypeOK, HistoryType, FaultKind
<1>2. /\ faults["crash"] <= faults'["crash"] /\ faults["redis"] <= faults'["redis"]
      /\ WorkerCrash => faults'["crash"] = faults["crash"] + 1
      /\ RedisLoss => faults'["redis"] = faults["redis"] + 1
    BY CountersGrow DEF FaultKind
<1>3. Losses' = faults'["crash"] + faults'["redis"]
    BY DEF Losses
<1> QED BY <1>1, <1>2, <1>3 DEF Losses

\* The chains through a step.
LEMMA ChainStep ==
    ASSUME TypeOK, TypeOK', [Next]_vars, HandInvariant, PreparedInvariant, ChainInvariant
    PROVE  ChainInvariant'
<1> SUFFICES ASSUME Losses' = 0 PROVE ChainInvariant'
    BY DEF ChainInvariant
<1> USE DEF alertVars, rowVars, queueVars, pushVars
<1>0. Losses = 0 /\ ~WorkerCrash /\ ~RedisLoss
    BY LossesGrow
<1>1. /\ \A j \in Job : jobs[j] \in Nat
      /\ \A a \in Alerts : EventJob(a) \in Job
      /\ \A d \in Delivery : RetryJob(d) \in Job
    BY JobsAreJobs DEF TypeOK, QueueType
<1>2. CASE UNCHANGED <<jobs, added, inbox, slot>>
    BY <1>0, <1>2 DEF ChainInvariant, Losses, EventJob, RetryJob, Preparing, Holds
<1>3. ASSUME NEW a \in Alerts, QueueAdd(a), UNCHANGED <<inbox, slot>> PROVE ChainInvariant'
    <2>1. CASE a \in added
        BY <1>2, <1>3, <2>1 DEF QueueAdd
    <2>2. CASE a \notin added
        <3>1. jobs' = [jobs EXCEPT ![EventJob(a)] = @ + 1] /\ added' = added \cup {a}
            BY <1>3, <2>2 DEF QueueAdd
        <3>2. jobs[EventJob(a)] = 0 /\ \A w \in Slots : ~Preparing(slot[w], a)
            BY <1>0, <1>1, <2>2 DEF ChainInvariant
        <3>3. \A d \in Delivery : d[1] = a => delivery[d] = "none"
            BY <1>0, <2>2 DEF ChainInvariant, PreparedInvariant
        <3>4. \A d \in Delivery : d[1] = a => jobs[RetryJob(d)] = 0
            BY <1>1, <3>3 DEF PreparedInvariant, Raised, RetryJob
        <3>5. \A d \in Delivery, w \in Slots : d[1] = a => ~Holds(slot[w], d)
            BY <3>3, NoneAssumption DEF PreparedInvariant, HoldsRows, Holds
        <3>6. jobs'[EventJob(a)] = 1 /\ \A j \in Job : j # EventJob(a) => jobs'[j] = jobs[j]
            BY <1>1, <3>1, <3>2 DEF TypeOK, QueueType
        <3> QED BY <1>0, <1>1, <1>3, <3>1, <3>2, <3>4, <3>5, <3>6, JobsDiffer
                DEF ChainInvariant, Losses, EventJob, RetryJob, Preparing, Holds
    <2> QED BY <2>1, <2>2
<1>4. CASE Users \/ Events \/ UNCHANGED vars
    BY <1>2, <1>3, <1>4 DEF Users, Subscribe, Revoke, Events, Raise, Publish, PublishUncommitted, vars
<1>5. ASSUME NEW w \in Slots, NEW left \in 0..1, NEW a \in Alerts, Start(w), StartEvent(w, a, left)
      PROVE  ChainInvariant'
    <2> DEFINE j == [kind |-> "event", of |-> a, left |-> left]
    <2>1. j \in Job /\ jobs[j] > 0 /\ jobs' = [jobs EXCEPT ![j] = @ - 1]
        BY <1>5, JobsAreJobs DEF StartEvent
    <2>2. j = EventJob(a)
        BY <1>0, <2>1 DEF ChainInvariant, EventJob
    <2> HIDE DEF j
    <2>3. jobs[EventJob(a)] = 1 /\ jobs'[EventJob(a)] = 0
          /\ \A k \in Job : k # EventJob(a) => jobs'[k] = jobs[k]
        BY <1>0, <1>1, <2>1, <2>2 DEF ChainInvariant, TypeOK, QueueType
    <2>4. /\ \A v \in Slots : v # w => slot'[v] = slot[v]
          /\ \A d \in Delivery : ~Holds(slot'[w], d)
          /\ \A b \in Alerts : Preparing(slot'[w], b) <=> b = a
        BY <1>5, OthersStay, HeldAtStart
    <2>5. added' = added /\ inbox' = inbox
        BY <1>5 DEF StartEvent
    <2>6. \A v \in Slots, d \in Delivery : Holds(slot'[v], d) => Holds(slot[v], d)
        BY <2>4
    <2>7. \A v \in Slots, b \in Alerts :
              Preparing(slot'[v], b) => Preparing(slot[v], b) \/ (v = w /\ b = a)
        BY <2>4
    <2>8. \A k \in Job : jobs'[k] > 0 => k.left = 1
        BY <1>0, <2>3, JobsDiffer DEF ChainInvariant
    <2>9. ASSUME NEW b \in Alerts
          PROVE  /\ jobs'[EventJob(b)] > 0 \/ b \in inbox' => b \in added'
                 /\ jobs'[EventJob(b)] <= 1
                 /\ \A v \in Slots : Preparing(slot'[v], b) => b \in added' /\ jobs'[EventJob(b)] = 0
                 /\ \A v, u \in Slots : Preparing(slot'[v], b) /\ Preparing(slot'[u], b) => v = u
        BY <1>0, <1>1, <2>3, <2>5, <2>7, JobsDiffer DEF ChainInvariant
    <2>10. ASSUME NEW d \in Delivery
           PROVE  /\ jobs'[EventJob(d[1])] > 0 =>
                         jobs'[RetryJob(d)] = 0 /\ \A v \in Slots : ~Holds(slot'[v], d)
                  /\ \A v \in Slots : Preparing(slot'[v], d[1]) =>
                         jobs'[RetryJob(d)] = 0 /\ \A u \in Slots : ~Holds(slot'[u], d)
                  /\ jobs'[RetryJob(d)] <= 1
                  /\ jobs'[RetryJob(d)] > 0 => \A v \in Slots : ~Holds(slot'[v], d)
                  /\ \A v, u \in Slots : Holds(slot'[v], d) /\ Holds(slot'[u], d) => v = u
        <3>1. jobs'[RetryJob(d)] = jobs[RetryJob(d)] /\ d[1] \in Alerts
            BY <1>1, <2>3, JobsDiffer
        <3>2. jobs'[EventJob(d[1])] > 0 => jobs[EventJob(d[1])] > 0
            BY <1>1, <2>3, <3>1
        <3> QED BY <1>0, <2>3, <2>6, <2>7, <3>1, <3>2 DEF ChainInvariant
    <2> QED BY <2>8, <2>9, <2>10 DEF ChainInvariant, EventJob, RetryJob, Preparing, Holds
<1>6. ASSUME NEW w \in Slots, NEW left \in 0..1, NEW c \in Delivery, Start(w), StartRetry(w, c, left)
      PROVE  ChainInvariant'
    <2> DEFINE j == [kind |-> "retry", of |-> c, left |-> left]
    <2>1. j \in Job /\ jobs[j] > 0 /\ jobs' = [jobs EXCEPT ![j] = @ - 1]
        BY <1>6, JobsAreJobs DEF StartRetry
    <2>2. j = RetryJob(c)
        BY <1>0, <2>1 DEF ChainInvariant, RetryJob
    <2> HIDE DEF j
    <2>3. jobs[RetryJob(c)] = 1 /\ jobs'[RetryJob(c)] = 0
          /\ \A k \in Job : k # RetryJob(c) => jobs'[k] = jobs[k]
        BY <1>0, <1>1, <2>1, <2>2 DEF ChainInvariant, TypeOK, QueueType
    <2>4. /\ \A v \in Slots : v # w => slot'[v] = slot[v]
          /\ \A d \in Delivery : Holds(slot'[w], d) => d = c
          /\ \A b \in Alerts : ~Preparing(slot'[w], b)
        BY <1>6, OthersStay, HeldAtStart
    <2>5. added' = added /\ inbox' = inbox
        BY <1>6 DEF StartRetry
    <2>6. \A v \in Slots, d \in Delivery : Holds(slot'[v], d) => Holds(slot[v], d) \/ (v = w /\ d = c)
        BY <2>4
    <2>7. \A v \in Slots, b \in Alerts : Preparing(slot'[v], b) => Preparing(slot[v], b)
        BY <2>4
    <2>8. \A k \in Job : jobs'[k] > 0 => k.left = 1
        BY <1>0, <2>3, JobsDiffer DEF ChainInvariant
    <2>9. \A b \in Alerts : jobs'[EventJob(b)] = jobs[EventJob(b)]
        BY <1>1, <2>3, JobsDiffer
    <2>10. ASSUME NEW d \in Delivery
           PROVE  /\ jobs'[EventJob(d[1])] > 0 =>
                         jobs'[RetryJob(d)] = 0 /\ \A v \in Slots : ~Holds(slot'[v], d)
                  /\ \A v \in Slots : Preparing(slot'[v], d[1]) =>
                         jobs'[RetryJob(d)] = 0 /\ \A u \in Slots : ~Holds(slot'[u], d)
                  /\ jobs'[RetryJob(d)] <= 1
                  /\ jobs'[RetryJob(d)] > 0 => \A v \in Slots : ~Holds(slot'[v], d)
                  /\ \A v, u \in Slots : Holds(slot'[v], d) /\ Holds(slot'[u], d) => v = u
        <3>1. d[1] \in Alerts /\ RetryJob(d) \in Job
            BY <1>1, JobsDiffer
        <3>2. CASE d = c
            BY <1>0, <2>3, <2>6, <2>7, <2>9, <3>1, <3>2 DEF ChainInvariant
        <3>3. CASE d # c
            <4>1. jobs'[RetryJob(d)] = jobs[RetryJob(d)]
                BY <2>3, <3>1, <3>3, JobsDiffer
            <4> QED BY <1>0, <2>6, <2>7, <2>9, <3>1, <3>3, <4>1 DEF ChainInvariant
        <3> QED BY <3>2, <3>3
    <2> QED BY <1>0, <2>5, <2>7, <2>8, <2>9, <2>10 DEF ChainInvariant, EventJob, RetryJob, Preparing, Holds
<1>7. ASSUME NEW w \in Slots, JobStep(w) PROVE ChainInvariant'
    <2>1. /\ \A v \in Slots : v # w => slot'[v] = slot[v]
          /\ \A d \in Delivery : Holds(slot'[w], d) =>
                 Holds(slot[w], d) \/ (ReadRows(w) /\ d[1] = slot[w].job.of)
          /\ \A b \in Alerts : Preparing(slot'[w], b) => Preparing(slot[w], b) /\ ~ReadRows(w)
          /\ ReadRows(w) => Preparing(slot[w], slot[w].job.of)
        BY <1>7, OthersStay, HeldStays
    <2>2. added' = added
        BY <1>7, QueueOfJob
    <2>3. \A b \in Alerts : b \in inbox' => b \in added
        BY <1>0, <1>7, QueueOfJob DEF ChainInvariant, Preparing
    <2>4. \A v \in Slots, b \in Alerts : Preparing(slot'[v], b) => Preparing(slot[v], b)
        BY <2>1
    <2>5. CASE jobs' = jobs /\ ~ReadRows(w)
        <3>1. \A v \in Slots, d \in Delivery : Holds(slot'[v], d) => Holds(slot[v], d)
            BY <2>1, <2>5
        <3> QED BY <1>0, <2>2, <2>3, <2>4, <2>5, <3>1, JobsDiffer
                DEF ChainInvariant, EventJob, RetryJob, Preparing, Holds
    <2>6. CASE ReadRows(w)
        <3> DEFINE a == slot[w].job.of
        <3>1. a \in Alerts /\ Preparing(slot[w], a) /\ jobs' = jobs
            BY <2>1, <2>6, InHand DEF ReadRows, TypeOK
        <3>2. \A v \in Slots, d \in Delivery :
                  Holds(slot'[v], d) => Holds(slot[v], d) \/ (v = w /\ d[1] = a)
            BY <2>1
        <3>3. \A v \in Slots : ~Preparing(slot'[v], a)
            BY <1>0, <2>1, <2>6, <3>1 DEF ChainInvariant
        <3>4. /\ \A d \in Delivery : d[1] = a => jobs[RetryJob(d)] = 0 /\ \A v \in Slots : ~Holds(slot[v], d)
              /\ jobs[EventJob(a)] = 0
            BY <1>0, <3>1 DEF ChainInvariant
        <3> HIDE DEF a
        <3>5. ASSUME NEW d \in Delivery
              PROVE  /\ jobs[EventJob(d[1])] > 0 =>
                            jobs[RetryJob(d)] = 0 /\ \A v \in Slots : ~Holds(slot'[v], d)
                     /\ \A v \in Slots : Preparing(slot'[v], d[1]) =>
                            jobs[RetryJob(d)] = 0 /\ \A u \in Slots : ~Holds(slot'[u], d)
                     /\ jobs[RetryJob(d)] <= 1
                     /\ jobs[RetryJob(d)] > 0 => \A v \in Slots : ~Holds(slot'[v], d)
                     /\ \A v, u \in Slots : Holds(slot'[v], d) /\ Holds(slot'[u], d) => v = u
            <4>1. CASE d[1] = a
                BY <1>1, <3>2, <3>3, <3>4, <4>1
            <4>2. CASE d[1] # a
                <5>1. \A v \in Slots : Holds(slot'[v], d) => Holds(slot[v], d)
                    BY <3>2, <4>2
                <5> QED BY <1>0, <2>4, <5>1, JobsDiffer DEF ChainInvariant
            <4> QED BY <4>1, <4>2
        <3> QED BY <1>0, <2>2, <2>3, <2>4, <3>1, <3>5
                DEF ChainInvariant, EventJob, RetryJob, Preparing, Holds
    <2>7. CASE jobs' # jobs
        <3> DEFINE c == slot[w].cur
        <3>1. /\ slot[w].pc = "scheduleRetry" /\ c \in Delivery /\ slot[w] \in SlotState
              /\ jobs' = [jobs EXCEPT ![RetryJob(c)] = @ + 1]
              /\ slot'[w] = [slot[w] EXCEPT !.pc = "next", !.cur = None, !.count = 0, !.why = "none"]
            BY <1>7, <2>7, QueueOfJob DEF TypeOK, SlotType, SlotOK
        <3>2. ~ReadRows(w) /\ Holds(slot[w], c)
            BY <3>1 DEF ReadRows, Holds
        <3>3. ~Holds(slot'[w], c)
            BY <3>1, NoneAssumption DEF Holds, HandInvariant, HandOK, SlotState
        <3> HIDE DEF c
        <3>4. \A v \in Slots, d \in Delivery : Holds(slot'[v], d) => Holds(slot[v], d) /\ d # c
            BY <1>0, <2>1, <3>1, <3>2, <3>3 DEF ChainInvariant
        <3>5. /\ jobs[RetryJob(c)] = 0 /\ jobs[EventJob(c[1])] = 0
              /\ \A v \in Slots : ~Preparing(slot[v], c[1])
            BY <1>0, <1>1, <3>1, <3>2, JobsDiffer DEF ChainInvariant
        <3>6. jobs'[RetryJob(c)] = 1 /\ \A j \in Job : j # RetryJob(c) => jobs'[j] = jobs[j]
            BY <1>1, <3>1, <3>5 DEF TypeOK, QueueType
        <3>7. \A b \in Alerts : jobs'[EventJob(b)] = jobs[EventJob(b)]
            BY <1>1, <3>1, <3>6, JobsDiffer
        <3>8. ASSUME NEW d \in Delivery
              PROVE  /\ jobs'[EventJob(d[1])] > 0 =>
                            jobs'[RetryJob(d)] = 0 /\ \A v \in Slots : ~Holds(slot'[v], d)
                     /\ \A v \in Slots : Preparing(slot'[v], d[1]) =>
                            jobs'[RetryJob(d)] = 0 /\ \A u \in Slots : ~Holds(slot'[u], d)
                     /\ jobs'[RetryJob(d)] <= 1
                     /\ jobs'[RetryJob(d)] > 0 => \A v \in Slots : ~Holds(slot'[v], d)
                     /\ \A v, u \in Slots : Holds(slot'[v], d) /\ Holds(slot'[u], d) => v = u
            <4>1. d[1] \in Alerts
                BY JobsDiffer
            <4>2. CASE d = c
                BY <2>4, <3>4, <3>5, <3>6, <3>7, <4>1, <4>2
            <4>3. CASE d # c
                <5>1. jobs'[RetryJob(d)] = jobs[RetryJob(d)]
                    BY <1>1, <3>1, <3>6, <4>3, JobsDiffer
                <5> QED BY <1>0, <2>4, <3>4, <3>7, <4>1, <5>1 DEF ChainInvariant
            <4> QED BY <4>2, <4>3
        <3>9. \A j \in Job : jobs'[j] > 0 => j.left = 1
            BY <1>0, <3>1, <3>6, JobsDiffer DEF ChainInvariant
        <3> QED BY <1>0, <2>2, <2>3, <2>4, <3>7, <3>8, <3>9
                DEF ChainInvariant, EventJob, RetryJob, Preparing, Holds
    <2> QED BY <2>5, <2>6, <2>7
<1>8. ASSUME NEW w \in Slots, Start(w) PROVE ChainInvariant'
    BY <1>5, <1>6, <1>8 DEF Start
<1> QED BY <1>0, <1>4, <1>7, <1>8 DEF Next

-----------------------------------------------------------------------------
(* Whoever holds a delivery holds a pending one, while one slot at most does. *)

\* One slot, or nothing lost yet: a delivery is in one pair of hands.
Alone == Cardinality(Slots) = 1 \/ Losses = 0

AloneInvariant ==
    Alone => \A w \in Slots, d \in Delivery : Holds(slot[w], d) => delivery[d] = "pending"

LEMMA HeldByOne ==
    ASSUME ChainInvariant, Alone, NEW v \in Slots, NEW w \in Slots, NEW d \in Delivery,
           Holds(slot[v], d), Holds(slot[w], d)
    PROVE  v = w
<1>1. CASE Losses = 0
    BY <1>1 DEF ChainInvariant
<1>2. CASE Cardinality(Slots) = 1
    <2>1. PICK x : Slots = {x}
        BY <1>2, SlotsAssumption, FS_Singleton
    <2> QED BY <2>1
<1> QED BY <1>1, <1>2 DEF Alone

\* A slot comes to hold only what it reads as pending.
LEMMA HeldInStep ==
    ASSUME TypeOK, [Next]_vars, NEW w \in Slots, NEW d \in Delivery, Holds(slot'[w], d)
    PROVE  Holds(slot[w], d) \/ (delivery[d] = "pending" /\ UNCHANGED <<delivery, attempts>>)
<1> USE DEF alertVars, rowVars, queueVars, pushVars
<1>1. CASE slot'[w] = slot[w]
    BY <1>1
<1>2. CASE Users \/ Events \/ UNCHANGED vars
    BY <1>1, <1>2 DEF Users, Subscribe, Revoke, Events, Raise, Publish, PublishUncommitted, vars
<1>3. CASE Start(w)
    BY <1>3, HeldAtStart DEF Start, StartEvent, StartRetry
<1>4. CASE JobStep(w)
    BY <1>4, HeldStays DEF ReadRows
<1>5. CASE WorkerCrash
    BY <1>5, NoneAssumption DEF WorkerCrash, Idle, Holds
<1>6. CASE RedisLoss
    <2>1. slot[w] \in SlotState
        BY DEF TypeOK, SlotType, SlotOK
    <2>2. CASE slot[w].pc # "idle"
        <3>1. slot'[w] = [slot[w] EXCEPT !.job.left = 0]
            BY <1>6, <2>2 DEF RedisLoss
        <3>2. slot'[w].cur = slot[w].cur /\ slot'[w].todo = slot[w].todo
            BY <2>1, <3>1 DEF SlotState
        <3> QED BY <3>2 DEF Holds
    <2> QED BY <1>1, <1>6, <2>2 DEF RedisLoss
<1> QED BY <1>1, <1>2, <1>3, <1>4, <1>5, <1>6, OthersStay DEF Next

\* A pending delivery is ended by a slot that has it in hand, and then has not.
LEMMA EndedInHand ==
    ASSUME TypeOK, [Next]_vars, NEW d \in Delivery,
           delivery[d] = "pending", delivery'[d] # "pending"
    PROVE  \E u \in Slots : JobStep(u) /\ slot[u].cur = d /\ NextDelivery(u)
<1> USE DEF alertVars, rowVars, queueVars, pushVars
<1>1. ~(Users \/ Events \/ WorkerCrash \/ RedisLoss \/ UNCHANGED vars)
    BY DEF Users, Subscribe, Revoke, Events, Raise, Publish, PublishUncommitted,
           WorkerCrash, RedisLoss, vars
<1>2. \A u \in Slots : ~Start(u)
    BY DEF Start, StartEvent, StartRetry
<1>3. ASSUME NEW u \in Slots, JobStep(u) PROVE slot[u].cur = d /\ NextDelivery(u)
    <2>1. CASE Abandon(u) \/ MarkSuccess(u) \/ MarkInvalid(u) \/ Bury(u)
        BY <2>1 DEF Abandon, MarkSuccess, MarkInvalid, Bury, Finish, TypeOK, DatabaseType
    <2>2. CASE Prepare(u)
        BY <2>2 DEF Prepare
    <2> QED BY <1>3, <2>1, <2>2 DEF JobStep, ReadRows, TakeNext, Acknowledge, Load, Send,
                RecordSuccess, SuccessIsNotRecorded, RecordFailure, Invalidate, ScheduleRetry,
                DatabaseFails
<1> QED BY <1>1, <1>2, <1>3 DEF Next

LEMMA AloneStep ==
    ASSUME TypeOK, TypeOK', [Next]_vars, HandInvariant, ChainInvariant, AloneInvariant
    PROVE  AloneInvariant'
<1>1. Alone' => Alone
    BY LossesGrow DEF Alone
<1> SUFFICES ASSUME Alone, NEW w \in Slots, NEW d \in Delivery, Holds(slot'[w], d)
             PROVE  delivery'[d] = "pending"
    BY <1>1 DEF AloneInvariant, Holds
<1>2. delivery[d] = "pending" /\ (Holds(slot[w], d) \/ delivery' = delivery)
    BY HeldInStep DEF AloneInvariant
<1>3. ASSUME delivery'[d] # "pending", Holds(slot[w], d) PROVE FALSE
    <2>1. PICK u \in Slots : JobStep(u) /\ slot[u].cur = d /\ NextDelivery(u)
        BY <1>2, <1>3, EndedInHand
    <2>2. u = w
        BY <1>3, <2>1, HeldByOne DEF Holds
    <2>3. slot[w] \in SlotState /\ slot = [x \in Slots |-> slot[x]]
        BY DEF TypeOK, SlotType, SlotOK
    <2>4. slot'[w].cur = None /\ slot'[w].todo = slot[w].todo
        BY <2>1, <2>2, <2>3 DEF NextDelivery, SlotState
    <2> QED BY <2>1, <2>2, <2>4, NoneAssumption DEF Holds, HandInvariant, HandOK
<1> QED BY <1>2, <1>3

-----------------------------------------------------------------------------
(* How many attempts are still to come.                                     *)

\* The slot is on its way to an attempt at the delivery.
Owes(s, d) ==
    \/ \E r \in s.todo : r.d = d
    \/ s.cur = d /\ s.pc \in {"load", "send", "recordSuccess", "recordFailure"}

\* As the slot read it, every delay of the delivery was used.
AtLast(s, d) ==
    \/ \E r \in s.todo : r.d = d /\ r.count >= MaxRetries
    \/ s.cur = d /\ s.count >= MaxRetries

Owing(d) == {w \in Slots : Owes(slot[w], d)}
Lasting(d) == {w \in Slots : AtLast(slot[w], d)}

Allowed == MaxRetries + faults["database"] + Cardinality(Slots) * Losses
Together == IF Losses = 0 THEN 1 ELSE Cardinality(Slots)

\* Every attempt made or owed was allowed by a delay, a statement that failed, a
\* loss that let the slots start again, or is a last one.
AttemptsInvariant ==
    \A d \in Delivery :
        /\ attempts[d] + Cardinality(Owing(d)) <= Allowed + Together
        /\ delivery[d] = "pending"
               => attempts[d] + Cardinality(Owing(d)) <= Allowed + Cardinality(Lasting(d))

One(p) == IF p THEN 1 ELSE 0

\* Two sets of slots that differ in one of them at most.
LEMMA CountOne ==
    ASSUME NEW A \in SUBSET Slots, NEW B \in SUBSET Slots, NEW w \in Slots,
           \A v \in Slots : v # w => (v \in A <=> v \in B)
    PROVE  /\ Cardinality(A) \in Nat /\ Cardinality(B) \in Nat
           /\ Cardinality(B) + One(w \in A) = Cardinality(A) + One(w \in B)
<1>1. IsFiniteSet(A) /\ IsFiniteSet(B) /\ A \ {w} = B \ {w}
    BY SlotsAssumption, FS_Subset
<1>2. Cardinality(A) \in Nat /\ Cardinality(B) \in Nat /\ Cardinality(A \ {w}) \in Nat
    BY <1>1, FS_CardinalityType, FS_RemoveElement
<1>3. Cardinality(A \ {w}) = IF w \in A THEN Cardinality(A) - 1 ELSE Cardinality(A)
    BY <1>1, FS_RemoveElement
<1>4. Cardinality(B \ {w}) = IF w \in B THEN Cardinality(B) - 1 ELSE Cardinality(B)
    BY <1>1, FS_RemoveElement
<1> QED BY <1>1, <1>2, <1>3, <1>4 DEF One

\* How many slots there are bounds how many owe or are at their last attempt.
LEMMA CountSlots ==
    ASSUME NEW A \in SUBSET Slots
    PROVE  /\ Cardinality(A) \in Nat /\ Cardinality(Slots) \in Nat
           /\ Cardinality(A) <= Cardinality(Slots)
           /\ (\A v, w \in A : v = w) => Cardinality(A) <= 1
<1>1. IsFiniteSet(A) /\ Cardinality(A) <= Cardinality(Slots)
    BY SlotsAssumption, FS_Subset
<1>2. Cardinality(A) \in Nat /\ Cardinality(Slots) \in Nat
    BY <1>1, SlotsAssumption, FS_CardinalityType
<1>3. ASSUME \A v, w \in A : v = w PROVE Cardinality(A) <= 1
    <2>1. CASE A = {}
        BY <2>1, FS_EmptySet
    <2>2. CASE A # {}
        <3>1. PICK x : A = {x}
            BY <1>3, <2>2
        <3> QED BY <3>1, FS_Singleton
    <2> QED BY <2>1, <2>2
<1> QED BY <1>1, <1>2, <1>3

\* An attempt that a job makes or comes to owe was owed before, is allowed by a
\* statement that failed, or is a last one.
LEMMA OwedByJob ==
    ASSUME TypeOK, TypeOK', [Next]_vars, HandInvariant,
           NEW w \in Slots, JobStep(w), NEW d \in Delivery
    PROVE  /\ delivery'[d] # "pending"
              => attempts'[d] + One(Owes(slot'[w], d)) + faults["database"]
                     <= attempts[d] + One(Owes(slot[w], d)) + faults'["database"]
           /\ delivery'[d] = "pending" /\ attempts'[d] >= MaxRetries
              => attempts'[d] + One(Owes(slot'[w], d)) + One(AtLast(slot[w], d)) + faults["database"]
                     <= attempts[d] + One(Owes(slot[w], d)) + One(AtLast(slot'[w], d)) + faults'["database"]
<1> DEFINE s == slot[w]
           t == slot'[w]
           db == faults["database"]
           dbNow == faults'["database"]
           o == One(Owes(s, d))
           oNow == One(Owes(t, d))
           l == One(AtLast(s, d))
           lNow == One(AtLast(t, d))
<1>0. /\ s \in SlotState /\ slot = [v \in Slots |-> slot[v]] /\ Coherent(s)
      /\ HandOK(s, attempts, Blamed)
      /\ d # None
    BY NoneAssumption DEF TypeOK, SlotType, SlotOK, HandInvariant
<1>1. /\ attempts[d] \in Nat /\ attempts'[d] \in Nat /\ db \in Nat /\ dbNow \in Nat
      /\ db <= dbNow
    BY CountersGrow DEF TypeOK, DatabaseType, HistoryType, FaultKind
<1>2. o \in 0..1 /\ oNow \in 0..1 /\ l \in 0..1 /\ lNow \in 0..1
    BY DEF One
<1>3. Fault("database") => dbNow = db + 1
    BY DEF Fault, TypeOK, HistoryType, FaultKind
<1>4. \A step : Goto(w, step) => t = [s EXCEPT !.pc = step]
    BY <1>0 DEF Goto
<1>5. \A why : Fails(w, why) => t = [s EXCEPT !.pc = "recordFailure", !.why = why]
    BY <1>0 DEF Fails
<1>6. NextDelivery(w) => t.cur = None /\ t.todo = s.todo
    BY <1>0 DEF NextDelivery, SlotState
<1>7. JobEnds(w) => t.cur = None /\ t.todo = {}
    BY <1>0 DEF JobEnds, Idle
<1> HIDE DEF s, t, db, dbNow
<1> SUFFICES /\ delivery'[d] # "pending" => attempts'[d] + oNow + db <= attempts[d] + o + dbNow
             /\ delivery'[d] = "pending" /\ attempts'[d] >= MaxRetries
                => attempts'[d] + oNow + l + db <= attempts[d] + o + lNow + dbNow
    BY DEF s, t, db, dbNow
<1>8. \A step : t = [s EXCEPT !.pc = step] => (AtLast(t, d) <=> AtLast(s, d))
    BY <1>0 DEF AtLast, SlotState
<1>9. \A why : t = [s EXCEPT !.pc = "recordFailure", !.why = why] => (AtLast(t, d) <=> AtLast(s, d))
    BY <1>0 DEF AtLast, SlotState
<1>10. CASE Prepare(w) \/ Load(w) \/ Invalidate(w)
    <2>1. attempts' = attempts
        BY <1>10 DEF Prepare, Load, Invalidate, rowVars
    <2>2. \E step : t = [s EXCEPT !.pc = step]
        BY <1>4, <1>10 DEF Prepare, Load, Invalidate
    <2>3. Owes(t, d) => Owes(s, d)
        <3>1. CASE Prepare(w)
            BY <1>0, <1>4, <3>1 DEF Prepare, Owes, SlotState
        <3>2. CASE Load(w)
            BY <1>0, <1>4, <3>2 DEF Load, Owes, SlotState, s
        <3>3. CASE Invalidate(w)
            BY <1>0, <1>4, <3>3 DEF Invalidate, Owes, SlotState
        <3> QED BY <1>10, <3>1, <3>2, <3>3
    <2> QED BY <1>1, <1>2, <1>8, <2>1, <2>2, <2>3 DEF One
<1>11. CASE Send(w)
    <2>1. attempts' = attempts /\ s.pc = "send"
        BY <1>11 DEF Send, rowVars, s
    <2>2. t = [s EXCEPT !.pc = "recordSuccess"]
          \/ \E why : t = [s EXCEPT !.pc = "recordFailure", !.why = why]
        BY <1>4, <1>5, <1>11 DEF Send
    <2>3. Owes(t, d) => Owes(s, d)
        BY <1>0, <2>1, <2>2 DEF Owes, SlotState
    <2>4. AtLast(t, d) <=> AtLast(s, d)
        BY <1>8, <1>9, <2>2
    <2> QED BY <1>1, <1>2, <2>1, <2>3, <2>4 DEF One
<1>12. CASE RecordSuccess(w) \/ RecordFailure(w)
    <2>1. /\ s.pc \in {"recordSuccess", "recordFailure"} /\ RecordAttempt(s.cur)
          /\ \E step : t = [s EXCEPT !.pc = step] /\ step \notin {"load", "send", "recordSuccess", "recordFailure"}
        <3>1. AfterFailure(s.why, s.count) \notin {"load", "send", "recordSuccess", "recordFailure"}
            BY DEF AfterFailure
        <3> QED BY <1>4, <1>12, <3>1 DEF RecordSuccess, RecordFailure, s
    <2>2. AtLast(t, d) <=> AtLast(s, d)
        BY <1>8, <2>1
    <2>3. CASE s.cur = d
        <3>1. attempts'[d] = attempts[d] + 1
            BY <2>1, <2>3 DEF RecordAttempt, TypeOK, DatabaseType
        <3>2. Owes(s, d) /\ ~Owes(t, d)
            BY <1>0, <2>1, <2>3 DEF Owes, SlotState, HandOK
        <3> QED BY <1>1, <1>2, <2>2, <3>1, <3>2 DEF One
    <2>4. CASE s.cur # d
        <3>1. attempts'[d] = attempts[d]
            BY <2>1, <2>4 DEF RecordAttempt, TypeOK, DatabaseType
        <3>2. Owes(t, d) => Owes(s, d)
            BY <1>0, <2>1, <2>4 DEF Owes, SlotState
        <3> QED BY <1>1, <1>2, <2>2, <3>1, <3>2 DEF One
    <2> QED BY <2>3, <2>4
<1>13. CASE SuccessIsNotRecorded(w)
    <2>1. attempts' = attempts /\ dbNow = db + 1
        BY <1>3, <1>13 DEF SuccessIsNotRecorded, rowVars
    <2>2. AtLast(t, d) <=> AtLast(s, d)
        BY <1>5, <1>9, <1>13 DEF SuccessIsNotRecorded
    <2> QED BY <1>1, <1>2, <2>1, <2>2 DEF One
<1>14. CASE Abandon(w) \/ MarkSuccess(w) \/ MarkInvalid(w) \/ Bury(w)
    <2>1. attempts' = attempts /\ t.cur = None /\ t.todo = s.todo
        BY <1>6, <1>14 DEF Abandon, MarkSuccess, MarkInvalid, Bury
    <2>2. Owes(t, d) => Owes(s, d)
        BY <1>0, <2>1 DEF Owes
    <2>3. CASE s.cur = d
        <3>1. delivery'[d] # "pending"
            BY <1>14, <2>3 DEF Abandon, MarkSuccess, MarkInvalid, Bury, Finish, s, TypeOK, DatabaseType
        <3> QED BY <1>1, <1>2, <2>1, <2>2, <3>1 DEF One
    <2>4. CASE s.cur # d
        <3>1. AtLast(t, d) <=> AtLast(s, d)
            BY <1>0, <2>1, <2>4 DEF AtLast
        <3> QED BY <1>1, <1>2, <2>1, <2>2, <3>1 DEF One
    <2> QED BY <2>3, <2>4
<1>15. CASE ScheduleRetry(w) \/ Acknowledge(w)
    <2>1. /\ attempts' = attempts /\ t.cur = None /\ (t.todo = s.todo \/ t.todo = {})
          /\ s.pc \in {"scheduleRetry", "next"}
        BY <1>6, <1>7, <1>15 DEF ScheduleRetry, Acknowledge, rowVars, s
    <2>2. ~(s.cur = d /\ s.count >= MaxRetries)
        BY <1>0, <2>1, RetriesAssumption DEF HandOK, Coherent, Sending, SlotState
    <2>3. Owes(t, d) => Owes(s, d)
        BY <1>0, <2>1 DEF Owes
    <2>4. CASE t.todo = s.todo
        <3>1. AtLast(t, d) <=> AtLast(s, d)
            BY <1>0, <2>1, <2>2, <2>4 DEF AtLast
        <3> QED BY <1>1, <1>2, <2>1, <2>3, <3>1 DEF One
    <2>5. CASE t.todo = {}
        <3>1. ~Owes(t, d) /\ (AtLast(s, d) => Owes(s, d))
            BY <1>0, <2>1, <2>2, <2>5 DEF Owes, AtLast
        <3> QED BY <1>1, <1>2, <2>1, <3>1 DEF One
    <2> QED BY <2>1, <2>4, <2>5
<1>16. CASE DatabaseFails(w)
    <2>1. attempts' = attempts /\ t.cur = None /\ t.todo = {} /\ dbNow = db + 1
        BY <1>3, <1>7, <1>16 DEF DatabaseFails, rowVars
    <2>2. ~Owes(t, d)
        BY <1>0, <2>1 DEF Owes
    <2> QED BY <1>1, <1>2, <2>1, <2>2 DEF One
<1>17. CASE ReadRows(w)
    <2> DEFINE new == Rows(PendingOf(w) \cap Listed(w))
    <2>1. t = [s EXCEPT !.pc = "next", !.todo = new] /\ UNCHANGED <<delivery, attempts>>
          /\ s.pc = "read"
        BY <1>0, <1>17 DEF ReadRows, rowVars, s, t
    <2>2. \A r \in new : delivery[r.d] = "pending" /\ r.count = attempts[r.d]
        BY DEF Rows, PendingOf
    <2> HIDE DEF new
    <2>3. s.todo = {} /\ s.cur = None
        BY <1>0, <2>1 DEF HandOK, Coherent, Sending
    <2>4. t.todo = new /\ t.cur = None
        BY <1>0, <2>1, <2>3 DEF SlotState
    <2>5. ~Owes(s, d) /\ ~AtLast(s, d)
        BY <1>0, <2>3 DEF Owes, AtLast
    <2>6. Owes(t, d) => delivery[d] = "pending"
        BY <1>0, <2>2, <2>4 DEF Owes
    <2>7. Owes(t, d) /\ attempts[d] >= MaxRetries => AtLast(t, d)
        BY <1>0, <2>2, <2>4 DEF Owes, AtLast
    <2> QED BY <1>1, <1>2, <2>1, <2>5, <2>6, <2>7 DEF One
<1>18. CASE TakeNext(w)
    <2>1. PICK r \in s.todo : t = Taking(s, r) \/ t = [s EXCEPT !.todo = @ \ {r}]
        <3>1. \E r \in s.todo : \/ slot' = [slot EXCEPT ![w] = Taking(s, r)]
                                \/ slot' = [slot EXCEPT ![w].todo = @ \ {r}]
            BY <1>18 DEF TakeNext, s
        <3>2. ASSUME NEW r \in s.todo, slot' = [slot EXCEPT ![w] = Taking(s, r)]
              PROVE  t = Taking(s, r)
            BY <1>0, <3>2 DEF t
        <3>3. ASSUME NEW r \in s.todo, slot' = [slot EXCEPT ![w].todo = @ \ {r}]
              PROVE  t = [s EXCEPT !.todo = @ \ {r}]
            BY <1>0, <3>3 DEF s, t
        <3> QED BY <3>1, <3>2, <3>3
    <2>2. attempts' = attempts /\ s.cur = None
        BY <1>0, <1>18 DEF TakeNext, rowVars, Coherent, Sending, s
    <2>3. CASE t = Taking(s, r)
        <3>1. t.todo = s.todo \ {r} /\ t.cur = r.d /\ t.count = r.count /\ t.pc = "send"
            BY <1>0, <2>3 DEF Taking, SlotState
        <3>2. /\ Owes(t, d) => Owes(s, d)
              /\ AtLast(s, d) => AtLast(t, d)
            BY <1>0, <2>1, <2>2, <3>1 DEF Owes, AtLast
        <3> QED BY <1>1, <1>2, <2>2, <3>2 DEF One
    <2>4. CASE t = [s EXCEPT !.todo = @ \ {r}]
        <3>1. t.todo = s.todo \ {r} /\ t.cur = None
            BY <1>0, <2>2, <2>4 DEF SlotState
        <3>2. CASE r.d = d
            <4>1. Owes(s, d) /\ ~Owes(t, d)
                BY <1>0, <2>1, <3>1, <3>2 DEF Owes, HandOK
            <4> QED BY <1>1, <1>2, <2>2, <4>1 DEF One
        <3>3. CASE r.d # d
            <4>1. (Owes(t, d) => Owes(s, d)) /\ (AtLast(s, d) => AtLast(t, d))
                BY <1>0, <2>2, <3>1, <3>3 DEF Owes, AtLast
            <4> QED BY <1>1, <1>2, <2>2, <4>1 DEF One
        <3> QED BY <3>2, <3>3
    <2> QED BY <2>1, <2>3, <2>4
<1> QED BY <1>10, <1>11, <1>12, <1>13, <1>14, <1>15, <1>16, <1>17, <1>18 DEF JobStep

\* A slot that starts owes an attempt at a pending delivery alone, and a last one
\* if every delay was used.
LEMMA OwedAtStart ==
    ASSUME TypeOK, HandInvariant, NEW w \in Slots, Start(w), NEW d \in Delivery
    PROVE  /\ UNCHANGED <<delivery, attempts, faults>>
           /\ ~Owes(slot[w], d) /\ ~AtLast(slot[w], d)
           /\ Owes(slot'[w], d) => delivery[d] = "pending"
           /\ Owes(slot'[w], d) /\ attempts[d] >= MaxRetries => AtLast(slot'[w], d)
<1> USE DEF rowVars
<1>0. d # None
    BY NoneAssumption
<1>1. UNCHANGED <<delivery, attempts, faults>>
    BY DEF Start, StartEvent, StartRetry
<1>2. slot[w].todo = {} /\ slot[w].cur = None
    BY StartMoves DEF HandInvariant, HandOK, TypeOK, SlotType, SlotOK, Coherent, Sending
<1>3. ASSUME NEW left \in 0..1, NEW a \in Alerts,
             slot'[w] = [Idle EXCEPT !.pc = "prepare", !.ids = active,
                           !.job = [kind |-> "event", of |-> a, left |-> left]]
      PROVE  ~Owes(slot'[w], d)
    BY <1>0, <1>3 DEF Idle, Owes
<1>4. ASSUME NEW left \in 0..1, NEW c \in Delivery,
             slot'[w] = [Idle EXCEPT !.pc = "next",
                           !.job = [kind |-> "retry", of |-> c, left |-> left]]
      PROVE  ~Owes(slot'[w], d)
    BY <1>0, <1>4 DEF Idle, Owes
<1>5. ASSUME NEW left \in 0..1, NEW c \in Delivery, delivery[c] = "pending",
             slot'[w] = [Idle EXCEPT !.pc = "load", !.cur = c, !.count = attempts[c],
                           !.job = [kind |-> "retry", of |-> c, left |-> left]]
      PROVE  /\ Owes(slot'[w], d) => delivery[d] = "pending"
             /\ Owes(slot'[w], d) /\ attempts[d] >= MaxRetries => AtLast(slot'[w], d)
    BY <1>0, <1>5 DEF Idle, Owes, AtLast
<1>6. ~Owes(slot[w], d) /\ ~AtLast(slot[w], d)
    BY <1>0, <1>2 DEF Owes, AtLast
<1>7. /\ Owes(slot'[w], d) => delivery[d] = "pending"
      /\ Owes(slot'[w], d) /\ attempts[d] >= MaxRetries => AtLast(slot'[w], d)
    BY <1>3, <1>4, <1>5, StartMoves
<1> QED BY <1>1, <1>6, <1>7

\* Whoever owes an attempt or is at the last one holds the delivery.
LEMMA OwedIsHeld ==
    ASSUME NEW s, NEW d
    PROVE  (Owes(s, d) => Holds(s, d)) /\ (AtLast(s, d) => Holds(s, d))
BY DEF Owes, AtLast, Holds

\* A row that comes to be pending is a new one: nothing was tried, nobody holds it.
LEMMA NewRow ==
    ASSUME TypeOK, TypeOK', [Next]_vars, PreparedInvariant, NEW d \in Delivery,
           delivery[d] # "pending", delivery'[d] = "pending"
    PROVE  attempts'[d] = 0 /\ \A w \in Slots : ~Holds(slot'[w], d)
<1>1. (\E w \in Slots : Prepare(w)) /\ delivery[d] = "none"
    BY WhoWritesRows DEF Prepare, MarkSuccess, Finish, Final, TypeOK, DatabaseType
<1>2. attempts' = attempts
    BY <1>1 DEF Prepare
<1>3. attempts[d] = 0
    <2>1. attempts[d] \in Nat /\ pushes[d] \in Nat
        BY DEF TypeOK, DatabaseType, HistoryType
    <2>2. ~(pushes[d] + attempts[d] > 0)
        BY <1>1 DEF PreparedInvariant
    <2> QED BY <2>1, <2>2
<1>4. \A w \in Slots : ~Holds(slot[w], d)
    BY <1>1, NoneAssumption DEF PreparedInvariant, HoldsRows, Holds
<1>5. ASSUME NEW w \in Slots, Holds(slot'[w], d) PROVE FALSE
    BY <1>1, <1>4, <1>5, HeldInStep
<1> QED BY <1>2, <1>3, <1>5

\* The attempts through a step.
LEMMA AttemptsStep ==
    ASSUME TypeOK, TypeOK', [Next]_vars, HandInvariant, PreparedInvariant,
           ChainInvariant', AttemptsInvariant
    PROVE  AttemptsInvariant'
<1> SUFFICES ASSUME NEW d \in Delivery
             PROVE  /\ attempts'[d] + Cardinality(Owing(d)') <= Allowed' + Together'
                    /\ delivery'[d] = "pending"
                           => attempts'[d] + Cardinality(Owing(d)') <= Allowed' + Cardinality(Lasting(d)')
    BY DEF AttemptsInvariant, Owing, Lasting, Owes, AtLast
<1> DEFINE N == Cardinality(Slots)
           D == Cardinality(Owing(d))
           DNow == Cardinality(Owing(d)')
           L == Cardinality(Lasting(d))
           LNow == Cardinality(Lasting(d)')
           db == faults["database"]
           dbNow == faults'["database"]
           loss == Losses
           lossNow == Losses'
           all == Allowed
           allNow == Allowed'
           tog == Together
           togNow == Together'
<1>1. /\ D \in Nat /\ DNow \in Nat /\ L \in Nat /\ LNow \in Nat /\ N \in Nat
      /\ D <= N /\ DNow <= N /\ L <= N /\ LNow <= N
    BY CountSlots DEF Owing, Lasting
<1>2. /\ attempts[d] \in Nat /\ attempts'[d] \in Nat /\ db \in Nat /\ dbNow \in Nat /\ db <= dbNow
      /\ loss \in Nat /\ lossNow \in Nat /\ loss <= lossNow
      /\ WorkerCrash => lossNow > loss
    BY CountersGrow, LossesGrow DEF TypeOK, DatabaseType, HistoryType, FaultKind
<1>3. /\ all = MaxRetries + db + N * loss
      /\ allNow = MaxRetries + dbNow + N * lossNow
      /\ tog = (IF loss = 0 THEN 1 ELSE N)
      /\ togNow = (IF lossNow = 0 THEN 1 ELSE N)
    BY DEF Allowed, Together
<1>4. /\ N * loss \in Nat /\ N * lossNow \in Nat /\ N * loss <= N * lossNow
      /\ lossNow > loss => N * loss + N <= N * lossNow
      /\ lossNow > 0 => N <= N * lossNow
    <2>1. \A n, x, y \in Nat : n * x \in Nat /\ (x <= y => n * x <= n * y)
                               /\ (x < y => n * x + n <= n * y)
        <3> SUFFICES ASSUME NEW n \in Nat, NEW x \in Nat, NEW y \in Nat
                     PROVE  n * x \in Nat /\ (x <= y => n * x <= n * y)
                            /\ (x < y => n * x + n <= n * y)
            OBVIOUS
        <3>1. n * x \in Nat
            OBVIOUS
        <3>2. ASSUME x <= y PROVE n * x <= n * y
            <4>1. PICK z \in Nat : y = x + z
                BY <3>2
            <4>2. n * y = n * x + n * z /\ n * z \in Nat
                BY <4>1
            <4> QED BY <3>1, <4>2
        <3>3. ASSUME x < y PROVE n * x + n <= n * y
            <4>1. PICK z \in Nat : y = x + 1 + z
                <5>1. y - x - 1 \in Nat /\ y = x + 1 + (y - x - 1)
                    BY <3>3
                <5> QED BY <5>1
            <4>2. n * y = n * x + n + n * z /\ n * z \in Nat
                BY <4>1
            <4> QED BY <3>1, <4>2
        <3> QED BY <3>1, <3>2, <3>3
    <2>2. N * loss \in Nat /\ N * lossNow \in Nat /\ N * loss <= N * lossNow
        BY <1>1, <1>2, <2>1
    <2>3. lossNow > loss => N * loss + N <= N * lossNow
        BY <1>1, <1>2, <2>1
    <2>4. lossNow > 0 => N <= N * lossNow
        <3>1. N * 0 = 0
            BY <1>1
        <3>2. 0 < lossNow => N * 0 + N <= N * lossNow
            <4>1. 0 \in Nat
                OBVIOUS
            <4> QED BY <1>1, <1>2, <2>1, <4>1
        <3> QED BY <1>1, <3>1, <3>2
    <2> QED BY <2>2, <2>3, <2>4
<1>5. DNow <= togNow /\ LNow <= togNow
    <2>1. CASE lossNow = 0
        <3>1. \A v, w \in Slots : Holds(slot'[v], d) /\ Holds(slot'[w], d) => v = w
            BY <2>1 DEF ChainInvariant, Holds
        <3>2. DNow <= 1 /\ LNow <= 1
            BY <3>1, OwedIsHeld, CountSlots DEF Owing, Lasting, Owes, AtLast
        <3> QED BY <1>3, <2>1, <3>2
    <2> QED BY <1>1, <1>3, <2>1
<1>6. /\ attempts[d] + D <= all + tog
      /\ delivery[d] = "pending" => attempts[d] + D <= all + L
    BY DEF AttemptsInvariant
<1>7. /\ Owing(d)' = {v \in Slots : Owes(slot'[v], d)}
      /\ Lasting(d)' = {v \in Slots : AtLast(slot'[v], d)}
    BY DEF Owing, Lasting, Owes, AtLast
<1>8. MaxRetries \in Nat
    BY RetriesAssumption
<1> DEFINE early == attempts'[d] + DNow <= allNow + togNow
           late == attempts'[d] + DNow <= allNow + LNow
<1> HIDE DEF N, D, DNow, L, LNow, db, dbNow, loss, lossNow, all, allNow, tog, togNow
<1> SUFFICES early /\ (delivery'[d] = "pending" => late)
    BY DEF DNow, LNow, allNow, togNow
<1>9. late => early
    BY <1>1, <1>2, <1>3, <1>4, <1>5, <1>8
<1>10. CASE attempts'[d] < MaxRetries
    <2>1. late
        <3>1. CASE lossNow = 0
            BY <1>1, <1>2, <1>3, <1>4, <1>5, <1>8, <1>10, <3>1
        <3>2. CASE lossNow > 0
            BY <1>1, <1>2, <1>3, <1>4, <1>5, <1>8, <1>10, <3>2
        <3> QED BY <1>2, <3>1, <3>2
    <2> QED BY <1>9, <2>1
<1>11. CASE delivery[d] # "pending" /\ delivery'[d] = "pending"
    <2>1. attempts'[d] = 0 /\ \A w \in Slots : ~Owes(slot'[w], d)
        BY <1>11, NewRow, OwedIsHeld
    <2>2. DNow = 0
        BY <1>7, <2>1, FS_EmptySet DEF DNow
    <2>3. late
        BY <1>1, <1>2, <1>3, <1>4, <1>8, <2>1, <2>2
    <2> QED BY <1>9, <2>3
<1>12. CASE WorkerCrash
    <2>1. attempts' = attempts /\ \A w \in Slots : slot'[w] = Idle
        BY <1>12 DEF WorkerCrash, rowVars
    <2>2. DNow = 0
        BY <1>7, <2>1, NoneAssumption, FS_EmptySet DEF DNow, Owes, Idle
    <2>3. N * loss + N <= N * lossNow
        BY <1>2, <1>4, <1>12
    <2>4. late
        <3>1. attempts[d] <= all + tog
            BY <1>1, <1>2, <1>3, <1>4, <1>6, <1>8
        <3>2. N > 0
            BY SlotsAssumption, <1>1, FS_EmptySet DEF N
        <3>3. tog <= N
            BY <1>1, <1>2, <1>3, <3>2
        <3> QED BY <1>1, <1>2, <1>3, <1>4, <1>8, <2>1, <2>2, <2>3, <3>1, <3>3
    <2> QED BY <1>9, <2>4
<1>13. ASSUME all <= allNow, attempts' = attempts, DNow = D, LNow = L
       PROVE  early /\ (delivery'[d] = "pending" => late)
    <2>0. all \in Nat /\ allNow \in Nat /\ tog \in Nat /\ togNow \in Nat
        BY <1>1, <1>2, <1>3, <1>4, <1>8
    <2>1. delivery[d] = "pending" => late
        BY <1>1, <1>2, <1>6, <1>13, <2>0
    <2>2. delivery[d] # "pending" /\ delivery'[d] # "pending" => early
        <3>1. tog <= togNow
            <4>1. N > 0
                BY SlotsAssumption, <1>1, FS_EmptySet DEF N
            <4> QED BY <1>1, <1>2, <1>3, <4>1
        <3> QED BY <1>1, <1>2, <1>3, <1>4, <1>6, <1>8, <1>13, <3>1
    <2> QED BY <1>9, <1>11, <2>1, <2>2
<1>14. all <= allNow /\ tog <= togNow /\ all + dbNow <= allNow + db
    <2>1. N > 0
        BY SlotsAssumption, <1>1, FS_EmptySet DEF N
    <2>2. tog <= togNow
        BY <1>1, <1>2, <1>3, <2>1
    <2> QED BY <1>1, <1>2, <1>3, <1>4, <1>8, <2>2
<1>15. CASE Users \/ Events \/ UNCHANGED vars
    <2>1. slot' = slot /\ attempts' = attempts
        BY <1>15 DEF Users, Subscribe, Revoke, Events, Raise, Publish, PublishUncommitted, vars,
               rowVars
    <2>2. DNow = D /\ LNow = L
        BY <1>7, <2>1 DEF D, DNow, L, LNow, Owing, Lasting
    <2> QED BY <1>13, <1>14, <2>1, <2>2
<1>16. CASE RedisLoss
    <2>1. attempts' = attempts
        BY <1>16 DEF RedisLoss, rowVars
    <2>2. ASSUME NEW v \in Slots
          PROVE  slot'[v].todo = slot[v].todo /\ slot'[v].cur = slot[v].cur
                 /\ slot'[v].count = slot[v].count /\ slot'[v].pc = slot[v].pc
        <3>1. slot[v] \in SlotState
            BY DEF TypeOK, SlotType, SlotOK
        <3>2. slot'[v] = IF slot[v].pc = "idle" THEN slot[v] ELSE [slot[v] EXCEPT !.job.left = 0]
            BY <1>16 DEF RedisLoss
        <3> QED BY <3>1, <3>2 DEF SlotState
    <2>3. \A v \in Slots : /\ Owes(slot'[v], d) <=> Owes(slot[v], d)
                           /\ AtLast(slot'[v], d) <=> AtLast(slot[v], d)
        BY <2>2 DEF Owes, AtLast
    <2>4. Owing(d)' = Owing(d) /\ Lasting(d)' = Lasting(d)
        BY <1>7, <2>3 DEF Owing, Lasting
    <2>5. DNow = D /\ LNow = L
        BY <2>4 DEF D, DNow, L, LNow
    <2> QED BY <1>13, <1>14, <2>1, <2>5
<1>17. ASSUME NEW w \in Slots, Start(w) \/ JobStep(w)
       PROVE  early /\ (delivery'[d] = "pending" => late)
    <2> DEFINE o == One(Owes(slot[w], d))
               oNow == One(Owes(slot'[w], d))
               l == One(AtLast(slot[w], d))
               lNow == One(AtLast(slot'[w], d))
    <2>1. /\ delivery'[d] # "pending" => attempts'[d] + oNow + db <= attempts[d] + o + dbNow
          /\ delivery'[d] = "pending" /\ attempts'[d] >= MaxRetries
             => attempts'[d] + oNow + l + db <= attempts[d] + o + lNow + dbNow
        <3>1. CASE JobStep(w)
            BY <3>1, OwedByJob DEF db, dbNow
        <3>2. CASE Start(w)
            <4>1. /\ delivery'[d] = delivery[d] /\ attempts'[d] = attempts[d] /\ dbNow = db
                  /\ o = 0 /\ l = 0
                BY <3>2, OwedAtStart DEF One, db, dbNow
            <4>2. /\ oNow \in 0..1 /\ lNow \in 0..1
                  /\ delivery[d] # "pending" => oNow = 0
                  /\ attempts[d] >= MaxRetries => oNow <= lNow
                BY <3>2, OwedAtStart DEF One
            <4> HIDE DEF o, oNow, l, lNow
            <4> QED BY <1>2, <4>1, <4>2
        <3> QED BY <1>17, <3>1, <3>2
    <2>2. DNow + o = D + oNow
        <3>1. Owing(d) \in SUBSET Slots /\ Owing(d)' \in SUBSET Slots
            BY <1>7 DEF Owing
        <3>2. \A v \in Slots : v # w => (v \in Owing(d) <=> v \in Owing(d)')
            BY <1>7, <1>17, OthersStay DEF Owing
        <3>3. DNow + One(w \in Owing(d)) = D + One(w \in Owing(d)')
            BY <3>1, <3>2, CountOne DEF D, DNow
        <3> QED BY <1>7, <3>3 DEF Owing, One
    <2>3. LNow + l = L + lNow
        <3>1. Lasting(d) \in SUBSET Slots /\ Lasting(d)' \in SUBSET Slots
            BY <1>7 DEF Lasting
        <3>2. \A v \in Slots : v # w => (v \in Lasting(d) <=> v \in Lasting(d)')
            BY <1>7, <1>17, OthersStay DEF Lasting
        <3>3. LNow + One(w \in Lasting(d)) = L + One(w \in Lasting(d)')
            BY <3>1, <3>2, CountOne DEF L, LNow
        <3> QED BY <1>7, <3>3 DEF Lasting, One
    <2>4. o \in 0..1 /\ oNow \in 0..1 /\ l \in 0..1 /\ lNow \in 0..1
        BY DEF One
    <2>5. all \in Nat /\ allNow \in Nat /\ tog \in Nat /\ togNow \in Nat
        BY <1>1, <1>2, <1>3, <1>4, <1>8
    <2> HIDE DEF o, oNow, l, lNow
    <2>6. CASE delivery'[d] # "pending"
        <3>1. attempts'[d] + DNow + db <= attempts[d] + D + dbNow
            BY <1>1, <1>2, <2>1, <2>2, <2>4, <2>6
        <3> QED BY <1>1, <1>2, <1>6, <1>14, <2>5, <2>6, <3>1
    <2>7. CASE delivery'[d] = "pending" /\ delivery[d] = "pending" /\ attempts'[d] >= MaxRetries
        <3>1. attempts'[d] + DNow + L + db <= attempts[d] + D + LNow + dbNow
            BY <1>1, <1>2, <2>1, <2>2, <2>3, <2>4, <2>7
        <3>2. late
            BY <1>1, <1>2, <1>6, <1>14, <2>5, <2>7, <3>1
        <3> QED BY <1>9, <3>2
    <2> QED BY <1>2, <1>8, <1>10, <1>11, <2>6, <2>7
<1> QED BY <1>12, <1>15, <1>16, <1>17 DEF Next

-----------------------------------------------------------------------------
(* Something looks after every pending delivery.                            *)

\* No job and no statement was lost, and the process once at most.
Quiet == faults["queue"] + faults["database"] + faults["redis"] = 0 /\ faults["crash"] <= 1

\* The slot has the delivery to send, or is about to find that it has.
Tends(s, d) == Holds(s, d) \/ Preparing(s, d[1])

RetryWaits(d) == \E left \in 0..1 : jobs[[kind |-> "retry", of |-> d, left |-> left]] > 0
EventWaits(a) == \E left \in 0..1 : jobs[[kind |-> "event", of |-> a, left |-> left]] > 0

\* Until the process is lost every job has its redelivery left, so what a slot
\* tends comes back to the queue.
TendedInvariant ==
    Quiet =>
        /\ faults["crash"] = 0 =>
               /\ \A j \in Job : jobs[j] > 0 => j.left = 1
               /\ \A w \in Slots : slot[w].pc # "idle" => slot[w].job.left = 1
        /\ \A d \in Delivery : delivery[d] = "pending" =>
               RetryWaits(d) \/ EventWaits(d[1]) \/ d \in skipped \/ \E w \in Slots : Tends(slot[w], d)

LEMMA TendedIsEnough == TendedInvariant => PendingIsLookedAfter
BY DEF TendedInvariant, PendingIsLookedAfter, Quiet, RetryWaits, EventWaits, Tends, Holds,
       Preparing, LookedAfter

\* Quiet now means quiet before, and a step in quiet loses nothing else.
LEMMA QuietBefore ==
    ASSUME TypeOK, TypeOK', [Next]_vars, Quiet'
    PROVE  /\ Quiet
           /\ faults'["crash"] = 0 => faults["crash"] = 0
           /\ ~Fault("queue") /\ ~Fault("database") /\ ~Fault("redis")
           /\ Fault("crash") => faults["crash"] = 0
<1>1. \A k \in FaultKind : faults[k] \in Nat /\ faults'[k] \in Nat /\ faults[k] <= faults'[k]
    BY CountersGrow DEF TypeOK, HistoryType
<1>2. /\ faults["queue"] \in Nat /\ faults["database"] \in Nat
      /\ faults["redis"] \in Nat /\ faults["crash"] \in Nat
      /\ faults'["queue"] \in Nat /\ faults'["database"] \in Nat
      /\ faults'["redis"] \in Nat /\ faults'["crash"] \in Nat
      /\ faults["queue"] <= faults'["queue"] /\ faults["database"] <= faults'["database"]
      /\ faults["redis"] <= faults'["redis"] /\ faults["crash"] <= faults'["crash"]
    BY <1>1 DEF FaultKind
<1>3. \A k \in FaultKind : Fault(k) => faults'[k] = faults[k] + 1
    BY DEF Fault, TypeOK, HistoryType
<1>4. /\ Fault("queue") => faults'["queue"] = faults["queue"] + 1
      /\ Fault("database") => faults'["database"] = faults["database"] + 1
      /\ Fault("redis") => faults'["redis"] = faults["redis"] + 1
      /\ Fault("crash") => faults'["crash"] = faults["crash"] + 1
    BY <1>3 DEF FaultKind
<1>5. /\ faults'["queue"] + faults'["database"] + faults'["redis"] = 0
      /\ faults'["crash"] <= 1
    BY DEF Quiet
<1>6. faults'["queue"] = 0 /\ faults'["database"] = 0 /\ faults'["redis"] = 0
    BY <1>2, <1>5
<1> QED BY <1>2, <1>4, <1>5, <1>6 DEF Quiet

\* A job that goes on tends a pending delivery until it is scheduled or passed over.
LEMMA TendedByJob ==
    ASSUME TypeOK, TypeOK', [Next]_vars, Quiet', HandInvariant, NEW w \in Slots, JobStep(w),
           NEW d \in Delivery, delivery[d] = "pending", delivery'[d] = "pending",
           Tends(slot[w], d)
    PROVE  Tends(slot'[w], d) \/ jobs'[RetryJob(d)] > 0 \/ d \in skipped'
<1> DEFINE s == slot[w]
           t == slot'[w]
<1>0. /\ s \in SlotState /\ slot = [v \in Slots |-> slot[v]] /\ Coherent(s)
      /\ HandOK(s, attempts, Blamed) /\ d # None /\ RetryJob(d) \in Job
      /\ jobs \in [Job -> Nat]
    BY NoneAssumption, JobsAreJobs DEF TypeOK, SlotType, SlotOK, HandInvariant, QueueType
<1>1. \A step : Goto(w, step) => t = [s EXCEPT !.pc = step]
    BY <1>0 DEF Goto
<1>2. \A why : Fails(w, why) => t = [s EXCEPT !.pc = "recordFailure", !.why = why]
    BY <1>0 DEF Fails
<1>3. NextDelivery(w) => t.todo = s.todo
    BY <1>0 DEF NextDelivery, SlotState
<1>4. ~Fault("queue") /\ ~Fault("database")
    BY QuietBefore
<1> HIDE DEF s, t
<1> SUFFICES Tends(t, d) \/ jobs'[RetryJob(d)] > 0 \/ d \in skipped'
    BY DEF t
<1>5. Tends(s, d)
    BY DEF s
<1>6. CASE Prepare(w)
    <2>1. t = [s EXCEPT !.pc = "read"] /\ s.pc = "prepare"
        BY <1>1, <1>6 DEF Prepare, s
    <2> QED BY <1>0, <1>5, <2>1 DEF Tends, Holds, Preparing, SlotState
<1>7. ASSUME s.pc \notin {"prepare", "read"},
             (\E step : t = [s EXCEPT !.pc = step])
               \/ \E why : t = [s EXCEPT !.pc = "recordFailure", !.why = why]
      PROVE  Tends(t, d)
    BY <1>0, <1>5, <1>7 DEF Tends, Holds, Preparing, SlotState
<1>8. CASE Load(w) \/ RecordSuccess(w) \/ RecordFailure(w) \/ Invalidate(w)
    BY <1>1, <1>7, <1>8 DEF Load, RecordSuccess, RecordFailure, Invalidate, s
<1>9. CASE Send(w)
    BY <1>1, <1>2, <1>7, <1>9 DEF Send, s
<1>10. CASE SuccessIsNotRecorded(w) \/ DatabaseFails(w)
    BY <1>4, <1>10 DEF SuccessIsNotRecorded, DatabaseFails
<1>11. CASE Abandon(w) \/ MarkSuccess(w) \/ MarkInvalid(w) \/ Bury(w)
    <2>1. t.todo = s.todo /\ s.pc \notin {"prepare", "read"}
        BY <1>3, <1>11 DEF Abandon, MarkSuccess, MarkInvalid, Bury, s
    <2>2. s.cur # d
        BY <1>11 DEF Abandon, MarkSuccess, MarkInvalid, Bury, Finish, s, TypeOK, DatabaseType
    <2> QED BY <1>5, <2>1, <2>2 DEF Tends, Holds, Preparing
<1>12. CASE ScheduleRetry(w)
    <2>1. /\ t.todo = s.todo /\ s.pc \notin {"prepare", "read"}
          /\ jobs' = [jobs EXCEPT ![RetryJob(s.cur)] = @ + 1]
        BY <1>3, <1>4, <1>12 DEF ScheduleRetry, s
    <2>2. CASE s.cur = d
        <3>1. jobs'[RetryJob(d)] = jobs[RetryJob(d)] + 1 /\ jobs[RetryJob(d)] \in Nat
            BY <1>0, <2>1, <2>2
        <3> QED BY <3>1
    <2> QED BY <1>5, <2>1, <2>2 DEF Tends, Holds, Preparing
<1>13. CASE Acknowledge(w)
    BY <1>0, <1>5, <1>13 DEF Acknowledge, Tends, Holds, Preparing, Coherent, Sending, s
<1>14. CASE ReadRows(w)
    <2>1. s.pc = "read" /\ s.todo = {} /\ s.cur = None
        BY <1>0, <1>14 DEF ReadRows, HandOK, Coherent, Sending, s
    <2>2. s.job.of = d[1]
        BY <1>0, <1>5, <2>1 DEF Tends, Holds, Preparing
    <2>3. d \in PendingOf(w)
        BY <2>2 DEF PendingOf, s
    <2>4. CASE d \in Listed(w)
        <3>1. t.todo = Rows(PendingOf(w) \cap Listed(w))
            BY <1>0, <1>14 DEF ReadRows, SlotState, s, t
        <3>2. [d |-> d, count |-> attempts[d]] \in t.todo
            BY <2>3, <2>4, <3>1 DEF Rows
        <3> QED BY <3>2 DEF Tends, Holds
    <2> QED BY <1>14, <2>3, <2>4 DEF ReadRows
<1>15. CASE TakeNext(w)
    <2>1. s.pc = "next" /\ s.cur = None
        BY <1>0, <1>15 DEF TakeNext, Coherent, Sending, s
    <2>2. PICK q \in s.todo : q.d = d
        BY <1>0, <1>5, <2>1 DEF Tends, Holds, Preparing
    <2>3. PICK r \in s.todo :
              \/ slot' = [slot EXCEPT ![w] = Taking(s, r)]
              \/ slot' = [slot EXCEPT ![w].todo = @ \ {r}] /\ skipped' = skipped \cup {r.d}
        BY <1>15 DEF TakeNext, s
    <2>4. CASE slot' = [slot EXCEPT ![w] = Taking(s, r)]
        <3>1. t.todo = s.todo \ {r} /\ t.cur = r.d
            BY <1>0, <2>4 DEF Taking, SlotState, t
        <3> QED BY <2>2, <3>1 DEF Tends, Holds
    <2>5. CASE slot' = [slot EXCEPT ![w].todo = @ \ {r}] /\ skipped' = skipped \cup {r.d}
        <3>1. t.todo = s.todo \ {r}
            BY <1>0, <2>5 DEF SlotState, s, t
        <3> QED BY <2>2, <2>5, <3>1 DEF Tends, Holds
    <2> QED BY <2>3, <2>4, <2>5
<1> QED BY <1>6, <1>8, <1>9, <1>10, <1>11, <1>12, <1>13, <1>14, <1>15 DEF JobStep

\* What the slots of a lost process tended is in the queue again.
LEMMA TendedByQueue ==
    ASSUME TypeOK, HandInvariant, TendedInvariant, Quiet, faults["crash"] = 0, WorkerCrash,
           NEW w \in Slots, NEW d \in Delivery, Tends(slot[w], d)
    PROVE  RetryWaits(d)' \/ EventWaits(d[1])'
<1> DEFINE j == slot[w].job
           k == [j EXCEPT !.left = 0]
<1>1. slot[w].pc # "idle" /\ slot[w] \in SlotState /\ Coherent(slot[w])
    BY NoneAssumption DEF Tends, Holds, Preparing, HandInvariant, HandOK, TypeOK, SlotType, SlotOK,
       Coherent, Sending
<1>2. j \in Job /\ j.left = 1
    BY <1>1, InHand DEF TendedInvariant, TypeOK
<1>3. /\ \/ j.kind = "event" /\ d[1] = j.of
         \/ j.kind = "retry" /\ d = j.of
    BY <1>1, <1>2 DEF Tends, Holds, Preparing, HandInvariant, HandOK, Coherent, Job
<1>4. k \in Job /\ k.left = 0 /\ [k EXCEPT !.left = 1] = j
    <2>1. CASE j \in [kind: {"event"}, of: Alerts, left: 0..1]
        <3>1. j = [kind |-> "event", of |-> j.of, left |-> 1]
            BY <1>2, <2>1
        <3> HIDE DEF j
        <3>2. k = [kind |-> "event", of |-> j.of, left |-> 0]
            BY <3>1
        <3> HIDE DEF k
        <3>3. [k EXCEPT !.left = 1] = [kind |-> "event", of |-> j.of, left |-> 1]
            BY <3>2
        <3> QED BY <2>1, <3>1, <3>2, <3>3 DEF Job
    <2>2. CASE j \in [kind: {"retry"}, of: Delivery, left: 0..1]
        <3>1. j = [kind |-> "retry", of |-> j.of, left |-> 1]
            BY <1>2, <2>2
        <3> HIDE DEF j
        <3>2. k = [kind |-> "retry", of |-> j.of, left |-> 0]
            BY <3>1
        <3> HIDE DEF k
        <3>3. [k EXCEPT !.left = 1] = [kind |-> "retry", of |-> j.of, left |-> 1]
            BY <3>2
        <3> QED BY <2>2, <3>1, <3>2, <3>3 DEF Job
    <2> QED BY <1>2, <2>1, <2>2 DEF Job
<1> HIDE DEF k
<1>5. Redelivered(k) > 0
    <2> DEFINE A == {v \in Slots : slot[v].job = [k EXCEPT !.left = 1]}
    <2>1. Redelivered(k) = Cardinality(A)
        BY <1>4 DEF Redelivered
    <2>2. w \in A /\ IsFiniteSet(A) /\ A # {}
        BY <1>4, SlotsAssumption, FS_Subset
    <2>3. Cardinality(A) \in Nat /\ Cardinality(A) # 0
        BY <2>2, FS_CardinalityType, FS_EmptySet
    <2> QED BY <2>1, <2>3
<1>6. jobs'[k] > 0
    <2>1. jobs'[k] = jobs[k] + Redelivered(k) /\ jobs[k] \in Nat
        BY <1>4 DEF WorkerCrash, TypeOK, QueueType
    <2>2. Redelivered(k) \in Nat
        BY SlotsAssumption, FS_Subset, FS_CardinalityType DEF Redelivered
    <2> QED BY <1>5, <2>1, <2>2
<1>7. \/ k = [kind |-> "event", of |-> d[1], left |-> 0]
      \/ k = [kind |-> "retry", of |-> d, left |-> 0]
    BY <1>2, <1>3 DEF Job, k
<1> QED BY <1>6, <1>7 DEF RetryWaits, EventWaits

\* No job is used up while the process was never lost.
LEMMA RedeliveriesStep ==
    ASSUME TypeOK, TypeOK', [Next]_vars, TendedInvariant, Quiet', faults'["crash"] = 0
    PROVE  /\ \A j \in Job : jobs'[j] > 0 => j.left = 1
           /\ \A w \in Slots : slot'[w].pc # "idle" => slot'[w].job.left = 1
<1> USE DEF alertVars, rowVars, queueVars, pushVars
<1>0. /\ Quiet /\ faults["crash"] = 0 /\ ~WorkerCrash /\ ~RedisLoss
      /\ \A j \in Job : jobs[j] \in Nat
    BY QuietBefore, CountersGrow DEF WorkerCrash, RedisLoss, TypeOK, QueueType, HistoryType, FaultKind
<1>1. /\ \A j \in Job : jobs[j] > 0 => j.left = 1
      /\ \A w \in Slots : slot[w].pc # "idle" => slot[w].job.left = 1
    BY <1>0 DEF TendedInvariant
<1>2. ASSUME NEW j \in Job, jobs' = [jobs EXCEPT ![j] = @ + 1], j.left = 1
      PROVE  \A k \in Job : jobs'[k] > 0 => k.left = 1
    BY <1>1, <1>2 DEF TypeOK, QueueType
<1>3. CASE Users \/ Events \/ UNCHANGED vars
    <2>1. slot' = slot
        BY <1>3 DEF Users, Subscribe, Revoke, Events, Raise, Publish, PublishUncommitted, vars
    <2>2. jobs' = jobs \/ \E a \in Alerts : jobs' = [jobs EXCEPT ![EventJob(a)] = @ + 1]
        BY <1>3 DEF Users, Subscribe, Revoke, Events, Raise, Publish, PublishUncommitted, vars, QueueAdd
    <2> QED BY <1>1, <1>2, <2>1, <2>2, JobsAreJobs, JobsDiffer
<1>4. ASSUME NEW w \in Slots, Start(w)
      PROVE  /\ \A j \in Job : jobs'[j] > 0 => j.left = 1
             /\ slot'[w].job.left = 1
    <2>1. PICK j \in Job : jobs[j] > 0 /\ jobs' = [jobs EXCEPT ![j] = @ - 1] /\ slot'[w].job = j
        <3>1. ASSUME NEW left \in 0..1, NEW a \in Alerts, StartEvent(w, a, left)
              PROVE  \E j \in Job : jobs[j] > 0 /\ jobs' = [jobs EXCEPT ![j] = @ - 1] /\ slot'[w].job = j
            BY <3>1, JobsAreJobs DEF StartEvent, Idle, TypeOK, SlotType
        <3>2. ASSUME NEW left \in 0..1, NEW d \in Delivery, StartRetry(w, d, left)
              PROVE  \E j \in Job : jobs[j] > 0 /\ jobs' = [jobs EXCEPT ![j] = @ - 1] /\ slot'[w].job = j
            BY <3>2, JobsAreJobs DEF StartRetry, Idle, TypeOK, SlotType
        <3> QED BY <1>4, <3>1, <3>2 DEF Start
    <2> QED BY <1>0, <1>1, <2>1 DEF TypeOK, QueueType
<1>5. ASSUME NEW w \in Slots, JobStep(w)
      PROVE  /\ \A j \in Job : jobs'[j] > 0 => j.left = 1
             /\ slot'[w].pc # "idle" => slot'[w].job.left = 1
    <2>1. \A j \in Job : jobs'[j] > 0 => j.left = 1
        BY <1>1, <1>2, <1>5, QueueOfJob, JobsAreJobs, JobsDiffer
    <2>2. slot'[w].pc # "idle" => slot'[w].job = slot[w].job
        <3>0. slot[w] \in SlotState
            BY DEF TypeOK, SlotType, SlotOK
        <3>1. ASSUME NEW step, slot'[w] = [slot[w] EXCEPT !.pc = step]
              PROVE  slot'[w].job = slot[w].job
            BY <3>0, <3>1 DEF SlotState
        <3>2. ASSUME NEW why, slot'[w] = [slot[w] EXCEPT !.pc = "recordFailure", !.why = why]
              PROVE  slot'[w].job = slot[w].job
            BY <3>0, <3>2 DEF SlotState
        <3>3. CASE slot'[w] = [slot[w] EXCEPT !.pc = "next", !.cur = None, !.count = 0, !.why = "none"]
            BY <3>0, <3>3 DEF SlotState
        <3>4. ASSUME NEW new, slot'[w] = [slot[w] EXCEPT !.pc = "next", !.todo = new]
              PROVE  slot'[w].job = slot[w].job
            BY <3>0, <3>4 DEF SlotState
        <3>5. ASSUME NEW r, slot'[w] = Taking(slot[w], r) \/ slot'[w] = [slot[w] EXCEPT !.todo = @ \ {r}]
              PROVE  slot'[w].job = slot[w].job
            BY <3>0, <3>5 DEF SlotState, Taking
        <3>6. CASE slot'[w] = Idle
            BY <3>6 DEF Idle
        <3> QED BY <1>5, <3>1, <3>2, <3>3, <3>4, <3>5, <3>6, JobMoves
    <2> QED BY <1>1, <1>5, <2>1, <2>2, JobMoves
<1> QED BY <1>0, <1>1, <1>3, <1>4, <1>5, OthersStay DEF Next

\* What looks after the deliveries, through a step.
LEMMA TendedStep ==
    ASSUME TypeOK, TypeOK', [Next]_vars, HandInvariant, TendedInvariant
    PROVE  TendedInvariant'
<1> USE DEF alertVars, rowVars, queueVars, pushVars
<1> SUFFICES ASSUME Quiet', NEW d \in Delivery, delivery'[d] = "pending"
             PROVE  RetryWaits(d)' \/ EventWaits(d[1])' \/ d \in skipped'
                    \/ \E w \in Slots : Tends(slot'[w], d)
    BY RedeliveriesStep DEF TendedInvariant, Quiet, Tends, Holds, Preparing
<1>1. /\ Quiet /\ ~RedisLoss
      /\ \A j \in Job : jobs[j] \in Nat
      /\ RetryJob(d) \in Job /\ d[1] \in Alerts
    BY QuietBefore, JobsAreJobs, JobsDiffer DEF RedisLoss, TypeOK, QueueType
<1>2. CASE delivery[d] # "pending"
    <2>1. PICK w \in Slots : Prepare(w) /\ delivery'[d] # delivery[d]
        BY <1>2, WhoWritesRows DEF Prepare, MarkSuccess, Finish, Final, TypeOK, DatabaseType
    <2>2. d[1] = slot[w].job.of
        BY <2>1 DEF Prepare
    <2>3. slot[w] \in SlotState /\ slot'[w] = [slot[w] EXCEPT !.pc = "read"]
        BY <2>1 DEF Prepare, Goto, TypeOK, SlotType, SlotOK
    <2> QED BY <2>2, <2>3 DEF Tends, Preparing, SlotState
<1>3. CASE delivery[d] = "pending"
    <2>0. skipped \subseteq skipped'
        <3>1. CASE Users \/ Events \/ WorkerCrash \/ RedisLoss \/ UNCHANGED vars
            BY <3>1 DEF Users, Subscribe, Revoke, Events, Raise, Publish, PublishUncommitted,
                   WorkerCrash, RedisLoss, vars
        <3>2. CASE \E w \in Slots : Start(w)
            BY <3>2 DEF Start, StartEvent, StartRetry
        <3>3. CASE \E w \in Slots : JobStep(w)
            BY <3>3 DEF JobStep, Prepare, ReadRows, TakeNext, Acknowledge, Load, Abandon, Send,
                   RecordSuccess, MarkSuccess, SuccessIsNotRecorded, RecordFailure, Invalidate,
                   MarkInvalid, ScheduleRetry, Bury, DatabaseFails
        <3> QED BY <3>1, <3>2, <3>3 DEF Next
    <2>1. ASSUME NEW j \in Job, jobs[j] > 0,
                 \/ j.kind = "retry" /\ j.of = d
                 \/ j.kind = "event" /\ j.of = d[1]
          PROVE  \/ jobs'[j] > 0
                 \/ \E w \in Slots : Tends(slot'[w], d)
        <3>1. CASE Users \/ Events \/ UNCHANGED vars
            BY <1>1, <2>1, <3>1, JobsAreJobs DEF Users, Subscribe, Revoke, Events, Raise, Publish,
                PublishUncommitted, vars, QueueAdd, TypeOK, QueueType
        <3>2. CASE WorkerCrash
            <4>1. jobs'[j] = jobs[j] + Redelivered(j)
                BY <3>2 DEF WorkerCrash
            <4>2. Redelivered(j) \in Nat
                BY SlotsAssumption, FS_Subset, FS_CardinalityType DEF Redelivered
            <4> QED BY <1>1, <2>1, <4>1, <4>2
        <3>3. ASSUME NEW w \in Slots, JobStep(w) PROVE jobs'[j] > 0
            <4>1. jobs' = jobs \/ \E c \in Delivery : jobs' = [jobs EXCEPT ![RetryJob(c)] = @ + 1]
                BY <3>3, QueueOfJob
            <4> QED BY <1>1, <2>1, <4>1, JobsAreJobs DEF TypeOK, QueueType
        <3>4. ASSUME NEW w \in Slots, NEW left \in 0..1, NEW a \in Alerts, StartEvent(w, a, left)
              PROVE  jobs'[j] > 0 \/ Tends(slot'[w], d)
            <4> DEFINE k == [kind |-> "event", of |-> a, left |-> left]
            <4>1. jobs' = [jobs EXCEPT ![k] = @ - 1] /\ k.of = a /\ k.kind = "event"
                BY <3>4 DEF StartEvent
            <4> HIDE DEF k
            <4>2. CASE j = k
                <5>1. Preparing(slot'[w], d[1])
                    BY <2>1, <3>4, <4>1, <4>2, HeldAtStart, <1>1
                <5> QED BY <5>1 DEF Tends
            <4> QED BY <2>1, <4>1, <4>2 DEF TypeOK, QueueType
        <3>5. ASSUME NEW w \in Slots, NEW left \in 0..1, NEW c \in Delivery, StartRetry(w, c, left)
              PROVE  jobs'[j] > 0 \/ Tends(slot'[w], d)
            <4> DEFINE k == [kind |-> "retry", of |-> c, left |-> left]
            <4>1. jobs' = [jobs EXCEPT ![k] = @ - 1] /\ k.of = c /\ k.kind = "retry"
                BY <3>5 DEF StartRetry
            <4>2. CASE j = k
                <5>1. c = d
                    BY <2>1, <4>1, <4>2
                <5>2. slot'[w].cur = d
                    BY <1>3, <3>5, <5>1 DEF StartRetry, Idle, TypeOK, SlotType
                <5> QED BY <5>2 DEF Tends, Holds
            <4> HIDE DEF k
            <4> QED BY <2>1, <4>1, <4>2 DEF TypeOK, QueueType
        <3> QED BY <1>1, <3>1, <3>2, <3>3, <3>4, <3>5 DEF Next, Start
    <2>2. CASE RetryWaits(d)
        <3>1. PICK left \in 0..1 : jobs[[kind |-> "retry", of |-> d, left |-> left]] > 0
            BY <2>2 DEF RetryWaits
        <3>2. \/ jobs'[[kind |-> "retry", of |-> d, left |-> left]] > 0
              \/ \E w \in Slots : Tends(slot'[w], d)
            BY <2>1, <3>1, JobsAreJobs
        <3> QED BY <3>2 DEF RetryWaits
    <2>3. CASE EventWaits(d[1])
        <3>1. PICK left \in 0..1 : jobs[[kind |-> "event", of |-> d[1], left |-> left]] > 0
            BY <2>3 DEF EventWaits
        <3>2. \/ jobs'[[kind |-> "event", of |-> d[1], left |-> left]] > 0
              \/ \E w \in Slots : Tends(slot'[w], d)
            BY <1>1, <2>1, <3>1, JobsAreJobs
        <3> QED BY <3>2 DEF EventWaits
    <2>4. ASSUME NEW w \in Slots, Tends(slot[w], d)
          PROVE  RetryWaits(d)' \/ EventWaits(d[1])' \/ d \in skipped' \/ Tends(slot'[w], d)
        <3>1. CASE slot'[w] = slot[w]
            BY <2>4, <3>1
        <3>2. CASE Users \/ Events \/ UNCHANGED vars
            BY <3>1, <3>2 DEF Users, Subscribe, Revoke, Events, Raise, Publish, PublishUncommitted, vars
        <3>3. CASE JobStep(w)
            <4>1. Tends(slot'[w], d) \/ jobs'[RetryJob(d)] > 0 \/ d \in skipped'
                BY <1>3, <2>4, <3>3, TendedByJob
            <4>2. jobs'[RetryJob(d)] > 0 => RetryWaits(d)'
                BY DEF RetryWaits, RetryJob
            <4> QED BY <4>1, <4>2
        <3>4. CASE Start(w)
            <4>1. slot[w].pc = "idle" /\ slot[w].cur = None /\ slot[w].todo = {} /\ d # None
                BY <3>4, StartMoves, NoneAssumption DEF HandInvariant, HandOK, TypeOK, SlotType, SlotOK,
                   Coherent, Sending
            <4> QED BY <2>4, <4>1 DEF Tends, Holds, Preparing
        <3>5. CASE WorkerCrash
            <4>1. faults["crash"] = 0
                BY <3>5, QuietBefore DEF WorkerCrash
            <4> QED BY <1>1, <2>4, <3>5, <4>1, TendedByQueue
        <3> QED BY <1>1, <3>1, <3>2, <3>3, <3>4, <3>5, OthersStay DEF Next
    <2>5. CASE d \in skipped
        BY <2>0, <2>5
    <2> QED BY <1>1, <1>3, <2>2, <2>3, <2>4, <2>5 DEF TendedInvariant
<1> QED BY <1>2, <1>3

-----------------------------------------------------------------------------
(* Together.                                                                *)

DeliveryInvariant ==
    /\ TypeOK /\ PreparedInvariant /\ HandInvariant /\ ChainInvariant /\ AloneInvariant
    /\ AttemptsInvariant /\ NotGivenUpEarly /\ TendedInvariant

LEMMA DeliveryInvariantAtFirst == Init => DeliveryInvariant
<1> SUFFICES ASSUME Init PROVE DeliveryInvariant
    OBVIOUS
<1>1. TypeOK
    BY InitType
<1>2. PreparedInvariant
    BY DEF Init, PreparedInvariant, HoldsRows, Idle
<1>3. /\ \A w \in Slots : slot[w] = Idle
      /\ \A d \in Delivery : delivery[d] = "none" /\ attempts[d] = 0 /\ d # None
      /\ \A j \in Job : jobs[j] = 0
      /\ Losses = 0 /\ faults["crash"] = 0 /\ faults["database"] = 0
      /\ \A a \in Alerts : EventJob(a) \in Job
      /\ \A d \in Delivery : RetryJob(d) \in Job /\ d[1] \in Alerts
    BY NoneAssumption, JobsAreJobs, JobsDiffer DEF Init, Losses, FaultKind
<1>4. \A w \in Slots : HandOK(slot[w], attempts, Blamed)
    BY <1>3 DEF HandOK, Holds, Idle
<1>5. \A w \in Slots : /\ \A d \in Delivery : ~Holds(slot[w], d)
                       /\ \A a \in Alerts : ~Preparing(slot[w], a)
    BY <1>3 DEF Holds, Preparing, Idle
<1>6. ChainInvariant
    BY <1>3, <1>5 DEF ChainInvariant, Init
<1>7. AttemptsInvariant
    <2>1. ASSUME NEW d \in Delivery
          PROVE  attempts[d] + Cardinality(Owing(d)) = 0
        <3>1. Owing(d) = {}
            BY <1>5, OwedIsHeld DEF Owing
        <3> QED BY <1>3, <3>1, FS_EmptySet
    <2>2. Allowed = MaxRetries /\ Together = 1
        <3>1. Cardinality(Slots) \in Nat
            BY SlotsAssumption, FS_CardinalityType
        <3> QED BY <1>3, <3>1, RetriesAssumption DEF Allowed, Together
    <2> QED BY <1>3, <2>1, <2>2, RetriesAssumption DEF AttemptsInvariant
<1>8. AloneInvariant /\ NotGivenUpEarly
    BY <1>3, <1>5 DEF AloneInvariant, NotGivenUpEarly
<1>9. TendedInvariant
    BY <1>3 DEF TendedInvariant, Idle
<1> QED BY <1>1, <1>2, <1>4, <1>6, <1>7, <1>8, <1>9 DEF DeliveryInvariant, HandInvariant

LEMMA DeliveryInvariantStep ==
    ASSUME DeliveryInvariant, TypeOK', PreparedInvariant', [Next]_vars
    PROVE  DeliveryInvariant'
<1>1. HandInvariant'
    BY HandStep DEF DeliveryInvariant
<1>2. ChainInvariant'
    BY ChainStep DEF DeliveryInvariant
<1>3. AloneInvariant'
    BY AloneStep DEF DeliveryInvariant
<1>4. AttemptsInvariant'
    BY <1>2, AttemptsStep DEF DeliveryInvariant
<1>5. NotGivenUpEarly'
    BY GivenUpStep DEF DeliveryInvariant
<1>6. TendedInvariant'
    BY TendedStep DEF DeliveryInvariant
<1> QED BY <1>1, <1>2, <1>3, <1>4, <1>5, <1>6 DEF DeliveryInvariant

LEMMA DeliveryIsKept == Spec => []DeliveryInvariant
<1>1. DeliveryInvariant /\ (TypeOK /\ PreparedInvariant)' /\ [Next]_vars => DeliveryInvariant'
    BY DeliveryInvariantStep
<1>2. Spec => [](TypeOK /\ PreparedInvariant)
    BY TypeCorrect, PreparedAlways, PTL
<1> QED BY <1>1, <1>2, DeliveryInvariantAtFirst, PTL DEF Spec

\* What is allowed is what the bound says.
LEMMA AttemptsAreEnough == TypeOK /\ AttemptsInvariant => AttemptsAreBounded
<1> SUFFICES ASSUME TypeOK, AttemptsInvariant, NEW d \in Delivery
             PROVE  attempts[d] <= MaxRetries + faults["database"]
                        + IF Losses = 0 THEN 1 ELSE Cardinality(Slots) * (1 + Losses)
    BY DEF AttemptsAreBounded, Losses
<1> DEFINE n == Cardinality(Slots)
           db == faults["database"]
<1>1. /\ attempts[d] \in Nat /\ db \in Nat /\ Losses \in Nat
      /\ Cardinality(Owing(d)) \in Nat /\ n \in Nat /\ MaxRetries \in Nat
    BY CountSlots, RetriesAssumption DEF Owing, TypeOK, DatabaseType, HistoryType, FaultKind, Losses
<1>2. attempts[d] + Cardinality(Owing(d)) <= MaxRetries + db + n * Losses + Together
    BY DEF AttemptsInvariant, Allowed
<1> HIDE DEF n, db
<1>3. CASE Losses = 0
    <2>1. n * Losses = 0 /\ Together = 1
        BY <1>1, <1>3 DEF Together
    <2> QED BY <1>1, <1>2, <1>3, <2>1 DEF db
<1>4. CASE Losses # 0
    <2>1. n * (1 + Losses) = n + n * Losses /\ n * Losses \in Nat
        BY <1>1
    <2>2. Together = n
        BY <1>4 DEF Together, n
    <2> QED BY <1>1, <1>2, <1>4, <2>1, <2>2 DEF n, db
<1> QED BY <1>3, <1>4

\* A pending delivery is kept, and not for ever: something looks after it while
\* nothing but the process is lost, it is not given up before its delays are used,
\* and its attempts are bounded (NotificationService.consume, retry, deliver).
THEOREM DeliveryIsKeptUntilItEnds == Spec => []PendingDeliveryIsKept
<1>1. DeliveryInvariant => PendingDeliveryIsKept
    BY TendedIsEnough, AttemptsAreEnough DEF DeliveryInvariant, PendingDeliveryIsKept
<1> QED BY <1>1, DeliveryIsKept, PTL

\* Only the slot that has a delivery in hand pushes it.
LEMMA WhoPushes ==
    ASSUME TypeOK, [Next]_vars, NEW d \in Delivery, pushes'[d] # pushes[d]
    PROVE  \E w \in Slots : Send(w) /\ slot[w].cur = d
<1> USE DEF alertVars, rowVars, queueVars, pushVars
<1>1. ~(Users \/ Events \/ WorkerCrash \/ RedisLoss \/ UNCHANGED vars)
    BY DEF Users, Subscribe, Revoke, Events, Raise, Publish, PublishUncommitted,
           WorkerCrash, RedisLoss, vars
<1>2. \A w \in Slots : ~Start(w)
    BY DEF Start, StartEvent, StartRetry
<1>3. ASSUME NEW w \in Slots, JobStep(w) PROVE Send(w)
    BY <1>3 DEF JobStep, Prepare, ReadRows, TakeNext, Acknowledge, Load, Abandon,
           RecordSuccess, MarkSuccess, SuccessIsNotRecorded, RecordFailure, Invalidate,
           MarkInvalid, ScheduleRetry, Bury, DatabaseFails
<1>4. ASSUME NEW w \in Slots, Send(w) PROVE slot[w].cur = d
    BY <1>4 DEF Send, TypeOK, HistoryType
<1> QED BY <1>1, <1>2, <1>3, <1>4 DEF Next

\* A delivery that has ended is not pushed again, by one slot ever and by several
\* while no process and no Redis was lost (NotificationService.deliver).
THEOREM OnlyPendingIsPushed == Spec => PushedOnlyWhilePending
<1>1. DeliveryInvariant /\ [Next]_vars
      => [Cardinality(Slots) = 1 \/ faults["crash"] + faults["redis"] = 0
             => \A d \in Delivery : pushes'[d] # pushes[d] => delivery[d] = "pending"]_vars
    <2> SUFFICES ASSUME DeliveryInvariant, [Next]_vars, Alone,
                        NEW d \in Delivery, pushes'[d] # pushes[d]
                 PROVE  delivery[d] = "pending"
        BY DEF Alone, Losses
    <2>1. PICK w \in Slots : Send(w) /\ slot[w].cur = d
        BY WhoPushes DEF DeliveryInvariant
    <2> QED BY <2>1 DEF Holds, DeliveryInvariant, AloneInvariant
<1> QED BY <1>1, DeliveryIsKept, PTL DEF Spec, PushedOnlyWhilePending
=============================================================================
