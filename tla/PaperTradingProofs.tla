------------------------- MODULE PaperTradingProofs -------------------------
(***************************************************************************)
(* Proofs about PaperTrading, for any number of orders, cancellations,     *)
(* passes, broker changes and faults.                                      *)
(***************************************************************************)
EXTENDS PaperTrading, TLAPS

-----------------------------------------------------------------------------
(* What the transition table of OrderLifecycle guarantees, for every state  *)
(* and every event.                                                         *)

\* The table, state by state.
LEMMA AllowedTable ==
    /\ Allowed["draft"] = {"command.confirmed"}
    /\ Allowed["confirmed"] = {"command.submit_requested"}
    /\ Allowed["pending_submission"] = (RemoteStatus \ {"canceled", "expired"}) \cup {"command.reconciling"}
    /\ Allowed["reconciling"] = RemoteStatus
    /\ Allowed["accepted"] = (RemoteStatus \ {"accepted"}) \cup {"command.cancel_requested"}
    /\ Allowed["new"] = (RemoteStatus \ {"accepted", "new"}) \cup {"command.cancel_requested"}
    /\ Allowed["partially_filled"] = {"filled", "canceled", "expired", "command.cancel_requested"}
    /\ Allowed["cancel_pending"] = RemoteStatus \ {"accepted", "new"}
<1>1. Allowed["draft"] = {"command.confirmed"}
    BY DEF Allowed, LocalOrderState, RemoteStatus
<1>2. Allowed["confirmed"] = {"command.submit_requested"}
    BY DEF Allowed, LocalOrderState, RemoteStatus
<1>3. Allowed["pending_submission"] = (RemoteStatus \ {"canceled", "expired"}) \cup {"command.reconciling"}
    BY DEF Allowed, LocalOrderState, RemoteStatus
<1>4. Allowed["reconciling"] = RemoteStatus
    BY DEF Allowed, LocalOrderState, RemoteStatus
<1>5. Allowed["accepted"] = (RemoteStatus \ {"accepted"}) \cup {"command.cancel_requested"}
    BY DEF Allowed, LocalOrderState, RemoteStatus
<1>6. Allowed["new"] = (RemoteStatus \ {"accepted", "new"}) \cup {"command.cancel_requested"}
    BY DEF Allowed, LocalOrderState, RemoteStatus
<1>7. Allowed["partially_filled"] = {"filled", "canceled", "expired", "command.cancel_requested"}
    BY DEF Allowed, LocalOrderState, RemoteStatus
<1>8. Allowed["cancel_pending"] = RemoteStatus \ {"accepted", "new"}
    BY DEF Allowed, LocalOrderState, RemoteStatus
<1> QED BY <1>1, <1>2, <1>3, <1>4, <1>5, <1>6, <1>7, <1>8

\* transition returns a state.
LEMMA TransitionType ==
    ASSUME NEW s \in LocalOrderState, NEW e \in OrderLifecycleEvent, Accepts(s, e)
    PROVE  StateAfter(s, e) \in LocalOrderState
BY DEF LocalOrderState, OrderLifecycleEvent, RemoteStatus, CommandEvent, StateAfter

\* A remote event leads to the status it reports.
LEMMA RemoteEventIsItsStatus ==
    ASSUME NEW e \in RemoteStatus
    PROVE  StateAfter(e, e) = e /\ \A s : StateAfter(s, e) = e
BY DEF RemoteStatus, StateAfter

\* A terminal state is left by no event.
LEMMA TerminalIsFinal ==
    ASSUME NEW s \in TerminalStates, NEW e \in OrderLifecycleEvent, Accepts(s, e)
    PROVE  e = s /\ StateAfter(s, e) = s
BY DEF TerminalStates, OrderLifecycleEvent, RemoteStatus, CommandEvent, StateAfter, Accepts

\* No event takes an order back.
LEMMA TransitionIsForward ==
    ASSUME NEW s \in LocalOrderState, NEW e \in OrderLifecycleEvent, Accepts(s, e)
    PROVE  Progress(s) <= Progress(StateAfter(s, e))
<1>1. CASE e = s
    <2>1. e \in RemoteStatus
        BY <1>1 DEF LocalOrderState, OrderLifecycleEvent, RemoteStatus, CommandEvent
    <2>2. StateAfter(s, e) = s
        BY <1>1, <2>1, RemoteEventIsItsStatus
    <2> QED BY <2>2 DEF Progress
<1>2. CASE s \notin TerminalStates /\ e \in Allowed[s]
    <2> USE AllowedTable DEF RemoteStatus, StateAfter, Progress
    <2>1. CASE s = "draft"
        BY <1>2, <2>1
    <2>2. CASE s = "confirmed"
        BY <1>2, <2>2
    <2>3. CASE s = "pending_submission"
        BY <1>2, <2>3
    <2>4. CASE s = "reconciling"
        BY <1>2, <2>4
    <2>5. CASE s = "accepted"
        BY <1>2, <2>5
    <2>6. CASE s = "new"
        BY <1>2, <2>6
    <2>7. CASE s = "partially_filled"
        BY <1>2, <2>7
    <2>8. CASE s = "cancel_pending"
        BY <1>2, <2>8
    <2> QED BY <1>2, <2>1, <2>2, <2>3, <2>4, <2>5, <2>6, <2>7, <2>8 DEF LocalOrderState, TerminalStates
<1> QED BY <1>1, <1>2 DEF Accepts

\* Doubt about a submission arises only while the intent is merely pending, and
\* a cancellation is recorded only for an order the broker is known to have.
LEMMA CommandsAreGuarded ==
    ASSUME NEW s \in LocalOrderState
    PROVE  /\ Accepts(s, "command.reconciling") => s = "pending_submission"
           /\ Accepts(s, "command.cancel_requested")
                => s \in {"accepted", "new", "partially_filled"}
BY AllowedTable DEF Accepts, LocalOrderState, RemoteStatus, TerminalStates

-----------------------------------------------------------------------------
(* What the jobs, the broker and its faults keep.                           *)

\* The order of a job is an order.
LEMMA OrderOfJob == \A j \in Job : OrderOf(j) \in Orders
BY TargetAssumption DEF Job, OrderOf

\* Recording an event keeps the projection a state and the log a set of ids.
LEMMA AppendType ==
    ASSUME DatabaseType, NEW o \in Orders, NEW e \in OrderLifecycleEvent, NEW id \in EventId,
           AppendOrderEvent(o, e, id)
    PROVE  /\ proj' \in [Orders -> LocalOrderState]
           /\ log' \subseteq EventId
<1>1. CASE id \in log
    BY <1>1 DEF AppendOrderEvent, DatabaseType
<1>2. CASE id \notin log
    <2>1. Accepts(proj[o], e) /\ proj' = [proj EXCEPT ![o] = StateAfter(@, e)]
          /\ log' = log \cup {id}
        BY <1>2 DEF AppendOrderEvent
    <2>2. StateAfter(proj[o], e) \in LocalOrderState
        BY <2>1, TransitionType DEF DatabaseType
    <2> QED BY <2>1, <2>2 DEF DatabaseType
<1> QED BY <1>1, <1>2

\* The same for an observation, recorded or thrown.
LEMMA ObservedType ==
    ASSUME DatabaseType, NEW m \in Observation, AppendObserved(m)
    PROVE  /\ proj' \in [Orders -> LocalOrderState]
           /\ log' \subseteq EventId
<1>1. m.order \in Orders /\ m.status \in OrderLifecycleEvent /\ m \in EventId
    BY DEF Observation, OrderLifecycleEvent, EventId
<1>2. CASE Throws(m.order, m.status, m)
    BY <1>2 DEF AppendObserved, DatabaseType
<1>3. CASE ~Throws(m.order, m.status, m)
    BY <1>1, <1>3, AppendType DEF AppendObserved
<1> QED BY <1>2, <1>3

\* The type holds at the start; the lemmas after it take it through a step,
\* one part at a time.
LEMMA InitType == Init => TypeOK
BY BoundsAssumption DEF Init, TypeOK, DatabaseType, QueueType, WorkerType, ObserverType,
    BrokerType, HistoryType, NoPass, StepName, LocalOrderState, RemoteStatus

\* Requests, refusals and faults are counted.
LEMMA HistoryStep == TypeOK /\ [Next]_vars => HistoryType'
<1> SUFFICES ASSUME TypeOK, [Next]_vars PROVE HistoryType'
    OBVIOUS
<1> USE DEF TypeOK, HistoryType, Fault, Refuse, brokerVars, postVars, queueVars, eventVars,
           streamVars, workerVars
<1>1. CASE Api
    BY <1>1 DEF Api, Confirm, RequestCancel, Publish, PublishUncommitted
<1>2. CASE Start
    BY <1>2 DEF Start, StartJob
<1>3. CASE JobStep
    BY <1>3 DEF JobStep, LookupFinds, LookupMisses, LookupFails, PostAccepted,
           PostRefused, PostTimesOut, ReplyArrives, ReplyFails, AppendReply,
           MarkReconciling, Schedule, RecordCancel, Delete, DeleteFails,
           CommitInbox, Acknowledge
<1>4. CASE Stream
    BY <1>4 DEF Stream, StreamReceives, StreamLoses, StreamAppends
<1>5. CASE Reconciliation
    BY <1>5 DEF Reconciliation, PassLists, PassBinds, PassAppends
<1>6. CASE Broker
    BY <1>6 DEF Broker, BrokerUpdates, OrphanArrives
<1>7. CASE WorkerCrash \/ RedisLoss
    BY <1>7 DEF WorkerCrash, RedisLoss
<1>8. CASE UNCHANGED vars
    BY <1>8 DEF vars
<1> QED BY <1>1, <1>2, <1>3, <1>4, <1>5, <1>6, <1>7, <1>8 DEF Next

\* The rows of PostgreSQL.
LEMMA DatabaseStep == TypeOK /\ [Next]_vars => DatabaseType'
<1> SUFFICES ASSUME TypeOK, [Next]_vars PROVE DatabaseType'
    OBVIOUS
<1> USE DEF TypeOK, DatabaseType, brokerVars, postVars, queueVars, eventVars,
           streamVars, workerVars
<1>1. CASE Api
    <2>1. ASSUME NEW o \in Orders, Confirm(o) PROVE DatabaseType'
        BY <2>1 DEF Confirm, Commands, LocalOrderState
    <2>2. ASSUME NEW c \in Cancels, RequestCancel(c) PROVE DatabaseType'
        BY <2>2 DEF RequestCancel, Commands
    <2>3. ASSUME NEW e \in Commands, Publish(e) \/ PublishUncommitted(e)
          PROVE  DatabaseType'
        BY <2>3 DEF Publish, PublishUncommitted
    <2> QED BY <1>1, <2>1, <2>2, <2>3 DEF Api
<1>2. CASE Start
    BY <1>2 DEF Start, StartJob
<1>3. CASE JobStep
    <2>1. CASE LookupFinds \/ ReplyArrives
        BY <2>1, OrderOfJob DEF LookupFinds, ReplyArrives, WorkerType, Current
    <2>2. CASE AppendReply
        <3>1. reply \in Observation /\ AppendObserved(reply)
            BY <2>2 DEF AppendReply, WorkerType
        <3> QED BY <2>2, <3>1, ObservedType DEF AppendReply
    <2>3. CASE MarkReconciling
        <3>1. "command.reconciling" \in OrderLifecycleEvent
              /\ ReconcileId(Current) \in EventId
            BY <2>3, OrderOfJob
               DEF OrderLifecycleEvent, CommandEvent, EventId, ReconcileId,
                   MarkReconciling, WorkerType, Current
        <3> QED BY <2>3, <3>1, OrderOfJob, AppendType DEF MarkReconciling, WorkerType, Current
    <2>4. CASE RecordCancel
        <3>1. "command.cancel_requested" \in OrderLifecycleEvent
              /\ [cancel |-> job.of] \in EventId
            BY <2>4 DEF OrderLifecycleEvent, CommandEvent, EventId, RecordCancel,
                        WorkerType, Job
        <3> QED BY <2>4, <3>1, OrderOfJob, AppendType DEF RecordCancel, WorkerType, Current
    <2>5. CASE CommitInbox
        BY <2>5 DEF CommitInbox, WorkerType, Job, Commands
    <2>6. CASE LookupMisses \/ LookupFails \/ PostAccepted \/ PostRefused \/
              PostTimesOut \/ ReplyFails \/ Schedule \/ Delete \/ DeleteFails
              \/ Acknowledge
        BY <2>6 DEF LookupMisses, LookupFails, PostAccepted, PostRefused,
               PostTimesOut, ReplyFails, Schedule, Delete, DeleteFails,
               Acknowledge
    <2> QED BY <1>3, <2>1, <2>2, <2>3, <2>4, <2>5, <2>6 DEF JobStep
<1>4. CASE Stream
    <2>1. ASSUME NEW m \in net, StreamReceives(m) \/ StreamLoses(m)
          PROVE  DatabaseType'
        BY <2>1 DEF StreamReceives, StreamLoses, BrokerType, Observation
    <2>2. ASSUME NEW m \in observing, StreamAppends(m) PROVE DatabaseType'
        <3>1. m \in Observation /\ AppendObserved(m)
            BY <2>2 DEF StreamAppends, ObserverType
        <3> QED BY <2>2, <3>1, ObservedType DEF StreamAppends
    <2> QED BY <1>4, <2>1, <2>2 DEF Stream
<1>5. CASE Reconciliation
    <2>1. ASSUME NEW p \in Passes, PassLists(p) \/ PassBinds(p)
          PROVE  DatabaseType'
        BY <2>1 DEF PassLists, PassBinds, ObserverType, Observation
    <2>2. ASSUME NEW p \in Passes, PassAppends(p) PROVE DatabaseType'
        <3>1. PICK m \in Observation : AppendObserved(m)
            BY <2>2 DEF PassAppends, ObserverType
        <3> QED BY <2>2, <3>1, ObservedType DEF PassAppends
    <2> QED BY <1>5, <2>1, <2>2 DEF Reconciliation
<1>6. CASE Broker
    BY <1>6 DEF Broker, BrokerUpdates, OrphanArrives
<1>7. CASE WorkerCrash \/ RedisLoss
    BY <1>7 DEF WorkerCrash, RedisLoss
<1>8. CASE UNCHANGED vars
    BY <1>8 DEF vars
<1> QED BY <1>1, <1>2, <1>3, <1>4, <1>5, <1>6, <1>7, <1>8 DEF Next

\* The jobs and ids in Redis.
LEMMA QueueStep == TypeOK /\ [Next]_vars => QueueType'
<1> SUFFICES ASSUME TypeOK, [Next]_vars PROVE QueueType'
    OBVIOUS
<1> USE DEF TypeOK, QueueType, QueueAdd, ReconcileJob, brokerVars, postVars, queueVars, eventVars,
           streamVars, workerVars
<1>1. CASE Api
    BY <1>1 DEF Api, Confirm, RequestCancel, Publish, PublishUncommitted
<1>2. CASE Start
    BY <1>2 DEF Start, StartJob
<1>3. CASE JobStep
    BY <1>3 DEF JobStep, LookupFinds, LookupMisses, LookupFails, PostAccepted,
           PostRefused, PostTimesOut, ReplyArrives, ReplyFails, AppendReply,
           MarkReconciling, Schedule, RecordCancel, Delete, DeleteFails,
           CommitInbox, Acknowledge
<1>4. CASE Stream
    BY <1>4 DEF Stream, StreamReceives, StreamLoses, StreamAppends
<1>5. CASE Reconciliation
    BY <1>5 DEF Reconciliation, PassLists, PassBinds, PassAppends
<1>6. CASE Broker
    BY <1>6 DEF Broker, BrokerUpdates, OrphanArrives
<1>7. CASE WorkerCrash \/ RedisLoss
    BY <1>7 DEF WorkerCrash, RedisLoss
<1>8. CASE UNCHANGED vars
    BY <1>8 DEF vars
<1> QED BY <1>1, <1>2, <1>3, <1>4, <1>5, <1>6, <1>7, <1>8 DEF Next

\* The processor.
LEMMA WorkerStep == TypeOK /\ [Next]_vars => WorkerType'
<1> SUFFICES ASSUME TypeOK, [Next]_vars PROVE WorkerType'
    OBVIOUS
<1> USE DEF TypeOK, WorkerType, Goto, BecomeIdle, JobFails, CommandEnds,
           Current, StepName, brokerVars, postVars, queueVars, eventVars,
           streamVars, workerVars
<1>1. CASE Api
    BY <1>1 DEF Api, Confirm, RequestCancel, Publish, PublishUncommitted
<1>2. CASE Start
    <2> PICK j \in Job : StartJob(j)
        BY <1>2 DEF Start
    <2>1. OrderOf(j) \in Orders
        BY OrderOfJob
    <2> QED BY <2>1 DEF StartJob, FirstStep, DatabaseType, Job
<1>3. CASE JobStep
    <2>1. CASE LookupFinds
        <3>1. Report(Current) \in Observation /\ Report(Current).order = Current
            BY <2>1, OrderOfJob DEF LookupFinds, Report, Observation, BrokerType
        <3> QED BY <2>1, <3>1 DEF LookupFinds
    <2>2. CASE PostAccepted
        <3>1. [order |-> Current, status |-> "accepted", ver |-> 1] \in Observation
            BY <2>2, OrderOfJob, BoundsAssumption DEF PostAccepted, Observation, RemoteStatus
        <3> QED BY <2>2, <3>1 DEF PostAccepted
    <2>3. CASE LookupMisses \/ LookupFails \/ PostRefused \/ PostTimesOut \/
              ReplyArrives \/ ReplyFails \/ AppendReply \/ MarkReconciling \/
              Schedule \/ RecordCancel \/ Delete \/ DeleteFails \/ CommitInbox
              \/ Acknowledge
        BY <2>3 DEF LookupMisses, LookupFails, PostRefused, PostTimesOut,
               ReplyArrives, ReplyFails, AppendReply, MarkReconciling,
               Schedule, RecordCancel, Delete, DeleteFails, CommitInbox,
               Acknowledge, LocalOrderState
    <2> QED BY <1>3, <2>1, <2>2, <2>3 DEF JobStep
<1>4. CASE Stream
    BY <1>4 DEF Stream, StreamReceives, StreamLoses, StreamAppends
<1>5. CASE Reconciliation
    BY <1>5 DEF Reconciliation, PassLists, PassBinds, PassAppends
<1>6. CASE Broker
    BY <1>6 DEF Broker, BrokerUpdates, OrphanArrives
<1>7. CASE WorkerCrash \/ RedisLoss
    <2>1. CASE WorkerCrash
        BY <2>1 DEF WorkerCrash, LocalOrderState
    <2>2. CASE RedisLoss
        <3>1. job' = job \/ (pc # "idle" /\ job' = [job EXCEPT !.left = 0])
            BY <2>2 DEF RedisLoss
        <3>2. pc # "idle" => /\ job' \in Job
                             /\ job'.kind = job.kind
                             /\ OrderOf(job') = OrderOf(job)
            BY <3>1 DEF Job, OrderOf
        <3> QED BY <2>2, <3>1, <3>2 DEF RedisLoss
    <2> QED BY <1>7, <2>1, <2>2
<1>8. CASE UNCHANGED vars
    BY <1>8 DEF vars
<1> QED BY <1>1, <1>2, <1>3, <1>4, <1>5, <1>6, <1>7, <1>8 DEF Next

\* The observers.
LEMMA ObserverStep == TypeOK /\ [Next]_vars => ObserverType'
<1> SUFFICES ASSUME TypeOK, [Next]_vars PROVE ObserverType'
    OBVIOUS
<1> USE DEF TypeOK, ObserverType, brokerVars, postVars, queueVars, eventVars,
           streamVars, workerVars
<1>1. CASE Api
    BY <1>1 DEF Api, Confirm, RequestCancel, Publish, PublishUncommitted
<1>2. CASE Start
    BY <1>2 DEF Start, StartJob
<1>3. CASE JobStep
    BY <1>3 DEF JobStep, LookupFinds, LookupMisses, LookupFails, PostAccepted,
           PostRefused, PostTimesOut, ReplyArrives, ReplyFails, AppendReply,
           MarkReconciling, Schedule, RecordCancel, Delete, DeleteFails,
           CommitInbox, Acknowledge
<1>4. CASE Stream
    <2>1. ASSUME NEW m \in net, StreamReceives(m) \/ StreamLoses(m)
          PROVE  ObserverType'
        BY <2>1 DEF StreamReceives, StreamLoses, BrokerType
    <2>2. ASSUME NEW m \in observing, StreamAppends(m) PROVE ObserverType'
        BY <2>2 DEF StreamAppends
    <2> QED BY <1>4, <2>1, <2>2 DEF Stream
<1>5. CASE Reconciliation
    <2>1. ASSUME NEW p \in Passes, PassLists(p) PROVE ObserverType'
        <3>1. \A o \in OpenOrders : Report(o) \in Observation
            BY DEF OpenOrders, Report, Observation, BrokerType
        <3> QED BY <2>1, <3>1 DEF PassLists
    <2>2. ASSUME NEW p \in Passes, PassBinds(p) PROVE ObserverType'
        BY <2>2 DEF PassBinds
    <2>3. ASSUME NEW p \in Passes, PassAppends(p) PROVE ObserverType'
        BY <2>3 DEF PassAppends, NoPass
    <2> QED BY <1>5, <2>1, <2>2, <2>3 DEF Reconciliation
<1>6. CASE Broker
    BY <1>6 DEF Broker, BrokerUpdates, OrphanArrives
<1>7. CASE WorkerCrash \/ RedisLoss
    BY <1>7 DEF WorkerCrash, RedisLoss, NoPass
<1>8. CASE UNCHANGED vars
    BY <1>8 DEF vars
<1> QED BY <1>1, <1>2, <1>3, <1>4, <1>5, <1>6, <1>7, <1>8 DEF Next

\* The broker takes a POST: a new order with its first version.
LEMMA AcceptType ==
    ASSUME BrokerType, NEW o \in Orders, BrokerAccepts(o)
    PROVE  /\ status' \in [Orders -> RemoteStatus \cup {"absent"}]
           /\ ver' \in [Orders -> 0..MaxVersion]
           /\ \A x \in Orders : ver'[x] = 0 <=> status'[x] = "absent"
           /\ net' \subseteq Observation
BY BoundsAssumption DEF BrokerType, BrokerAccepts, Observation, RemoteStatus

\* Every move of the broker is to a status.
LEMMA MovesType == \A s \in RemoteStatus : BrokerMoves[s] \subseteq RemoteStatus
BY DEF BrokerMoves, RemoteStatus

\* The broker and what is under way from and to it.
LEMMA BrokerStep == TypeOK /\ [Next]_vars => BrokerType'
<1> SUFFICES ASSUME TypeOK, [Next]_vars PROVE BrokerType'
    OBVIOUS
<1> USE DEF TypeOK, BrokerType, brokerVars, postVars, queueVars, eventVars,
           streamVars, workerVars
<1>1. CASE Api
    BY <1>1 DEF Api, Confirm, RequestCancel, Publish, PublishUncommitted
<1>2. CASE Start
    BY <1>2 DEF Start, StartJob
<1>3. CASE JobStep
    <2>1. CASE PostAccepted
        <3>1. BrokerAccepts(Current) /\ Current \in Orders
            BY <2>1, OrderOfJob DEF PostAccepted, WorkerType, Current
        <3> QED BY <2>1, <3>1, AcceptType DEF PostAccepted
    <2>2. CASE Delete
        BY <2>2, OrderOfJob DEF Delete, WorkerType, Current
    <2>3. CASE LookupFinds \/ LookupMisses \/ LookupFails \/ PostRefused \/
              PostTimesOut \/ ReplyArrives \/ ReplyFails \/ AppendReply \/
              MarkReconciling \/ Schedule \/ RecordCancel \/ DeleteFails \/
              CommitInbox \/ Acknowledge
        BY <2>3 DEF LookupFinds, LookupMisses, LookupFails, PostRefused,
               PostTimesOut, ReplyArrives, ReplyFails, AppendReply,
               MarkReconciling, Schedule, RecordCancel, DeleteFails,
               CommitInbox, Acknowledge
    <2> QED BY <1>3, <2>1, <2>2, <2>3 DEF JobStep
<1>4. CASE Stream
    BY <1>4 DEF Stream, StreamReceives, StreamLoses, StreamAppends
<1>5. CASE Reconciliation
    BY <1>5 DEF Reconciliation, PassLists, PassBinds, PassAppends
<1>6. CASE Broker
    <2>1. ASSUME NEW o \in Orders, BrokerUpdates(o) PROVE BrokerType'
        <3>1. PICK s \in BrokerMoves[status[o]] :
                  /\ status' = [status EXCEPT ![o] = s]
                  /\ ver' = [ver EXCEPT ![o] = @ + 1]
                  /\ net' = net \cup {[order |-> o, status |-> s, ver |-> ver[o] + 1]}
            BY <2>1 DEF BrokerUpdates
        <3>2. s \in RemoteStatus /\ ver[o] + 1 \in 1..MaxVersion
            BY <2>1, BoundsAssumption, MovesType DEF BrokerUpdates
        <3>3. [order |-> o, status |-> s, ver |-> ver[o] + 1] \in Observation
            BY <3>2 DEF Observation
        <3>4. orphans' = orphans /\ cancelSent' = cancelSent
            BY <2>1 DEF BrokerUpdates
        <3> QED BY <3>1, <3>2, <3>3, <3>4 DEF RemoteStatus
    <2>2. ASSUME NEW o \in Orders, OrphanArrives(o) PROVE BrokerType'
        BY <2>2, AcceptType DEF OrphanArrives
    <2> QED BY <1>6, <2>1, <2>2 DEF Broker
<1>7. CASE WorkerCrash \/ RedisLoss
    BY <1>7 DEF WorkerCrash, RedisLoss
<1>8. CASE UNCHANGED vars
    BY <1>8 DEF vars
<1> QED BY <1>1, <1>2, <1>3, <1>4, <1>5, <1>6, <1>7, <1>8 DEF Next

\* A step keeps the type: its parts put together.
LEMMA TypeStep == TypeOK /\ [Next]_vars => TypeOK'
BY HistoryStep, DatabaseStep, QueueStep, WorkerStep, ObserverStep, BrokerStep DEF TypeOK

\* The state always has its type, for any number of orders and any faults.
THEOREM TypeCorrect == Spec => []TypeOK
BY InitType, TypeStep, PTL DEF Spec

----------------------------------------------------------------------------
(* How the projection and the broker's status may move.  Every later proof  *)
(* about them rests on the three lemmas of this section.                    *)

\* One order's projection moves: the user confirms it, the worker records a
\* command, or an observer records what the broker has reported.
Recorded(o, e) ==
    /\ Accepts(proj[o], e)
    /\ proj' = [proj EXCEPT ![o] = StateAfter(proj[o], e)]

ProjectionMoves(o) ==
    \/ /\ outbox[o] = "none" /\ outbox' = [outbox EXCEPT ![o] = "pending"]
       /\ proj' = [proj EXCEPT ![o] = "pending_submission"]
    \/ \E e \in {"command.reconciling", "command.cancel_requested"} : Recorded(o, e)
    \/ \E s \in RemoteStatus : Reported(o, s) /\ Recorded(o, s)

\* appendOrderEvent moves the projection by its event or not at all.
LEMMA AppendMoves ==
    ASSUME DatabaseType, NEW o \in Orders, NEW e, NEW id, AppendOrderEvent(o, e, id)
    PROVE  proj' = proj \/ Recorded(o, e)
BY DEF AppendOrderEvent, DatabaseType, Recorded

\* So does an observation, recorded or thrown.
LEMMA ObservedMoves ==
    ASSUME DatabaseType, NEW m \in Observation, Reported(m.order, m.status),
           AppendObserved(m)
    PROVE  proj' = proj \/ \E o \in Orders : ProjectionMoves(o)
<1>1. m.order \in Orders /\ m.status \in RemoteStatus
    BY DEF Observation
<1>2. CASE Throws(m.order, m.status, m)
    BY <1>2 DEF AppendObserved
<1>3. CASE ~Throws(m.order, m.status, m)
    BY <1>1, <1>3, AppendMoves DEF AppendObserved, ProjectionMoves
<1> QED BY <1>2, <1>3

\* No step moves the projection of two orders, or a projection and the broker.
LEMMA ProjectionStep ==
    ASSUME TypeOK, ReportsArePast, [Next]_vars
    PROVE  \/ proj' = proj
           \/ status' = status /\ \E o \in Orders : ProjectionMoves(o)
<1> USE DEF TypeOK, brokerVars, postVars, queueVars, eventVars, streamVars, workerVars
<1>1. CASE Api
    BY <1>1 DEF Api, Confirm, RequestCancel, Publish, PublishUncommitted, ProjectionMoves
<1>2. CASE Start
    BY <1>2 DEF Start, StartJob
<1>3. CASE JobStep
    <2>1. CASE AppendReply
        <3>1. /\ reply \in Observation /\ AppendObserved(reply)
              /\ Reported(reply.order, reply.status)
            BY <2>1 DEF AppendReply, WorkerType, ReportsArePast
        <3> QED BY <2>1, <3>1, ObservedMoves DEF AppendReply
    <2>2. CASE MarkReconciling
        BY <2>2, OrderOfJob, AppendMoves DEF MarkReconciling, WorkerType, Current, ProjectionMoves
    <2>3. CASE RecordCancel
        BY <2>3, OrderOfJob, AppendMoves DEF RecordCancel, WorkerType, Current, ProjectionMoves
    <2>4. CASE LookupFinds \/ LookupMisses \/ LookupFails \/ PostAccepted \/
              PostRefused \/ PostTimesOut \/ ReplyArrives \/ ReplyFails \/
              Schedule \/ Delete \/ DeleteFails \/ CommitInbox \/ Acknowledge
        BY <2>4 DEF LookupFinds, LookupMisses, LookupFails, PostAccepted, PostRefused,
               PostTimesOut, ReplyArrives, ReplyFails, Schedule, Delete, DeleteFails,
               CommitInbox, Acknowledge
    <2> QED BY <1>3, <2>1, <2>2, <2>3, <2>4 DEF JobStep
<1>4. CASE Stream
    <2>1. ASSUME NEW m \in net, StreamReceives(m) \/ StreamLoses(m) PROVE proj' = proj
        BY <2>1 DEF StreamReceives, StreamLoses
    <2>2. ASSUME NEW m \in observing, StreamAppends(m)
          PROVE  status' = status /\ (proj' = proj \/ \E o \in Orders : ProjectionMoves(o))
        <3>1. m \in Observation /\ AppendObserved(m) /\ Reported(m.order, m.status)
            BY <2>2 DEF StreamAppends, ObserverType, ReportsArePast
        <3> QED BY <2>2, <3>1, ObservedMoves DEF StreamAppends
    <2> QED BY <1>4, <2>1, <2>2 DEF Stream
<1>5. CASE Reconciliation
    <2>1. ASSUME NEW p \in Passes, PassLists(p) \/ PassBinds(p) PROVE proj' = proj
        BY <2>1 DEF PassLists, PassBinds
    <2>2. ASSUME NEW p \in Passes, PassAppends(p)
          PROVE  status' = status /\ (proj' = proj \/ \E o \in Orders : ProjectionMoves(o))
        <3>1. PICK m \in Observation : AppendObserved(m) /\ Reported(m.order, m.status)
            BY <2>2 DEF PassAppends, ObserverType, ReportsArePast
        <3> QED BY <2>2, <3>1, ObservedMoves DEF PassAppends
    <2> QED BY <1>5, <2>1, <2>2 DEF Reconciliation
<1>6. CASE Broker
    BY <1>6 DEF Broker, BrokerUpdates, OrphanArrives
<1>7. CASE WorkerCrash \/ RedisLoss
    BY <1>7 DEF WorkerCrash, RedisLoss
<1>8. CASE UNCHANGED vars
    BY <1>8 DEF vars
<1> QED BY <1>1, <1>2, <1>3, <1>4, <1>5, <1>6, <1>7, <1>8 DEF Next

\* One order moves at the broker: it is taken, or takes on a later status.
StatusMoves(o) ==
    \/ status[o] = "absent" /\ status' = [status EXCEPT ![o] = "accepted"]
    \/ /\ status[o] # "absent"
       /\ \E s \in BrokerMoves[status[o]] : status' = [status EXCEPT ![o] = s]

\* No step moves two orders at the broker, and none but these moves one.
LEMMA StatusStep ==
    ASSUME TypeOK, [Next]_vars
    PROVE  status' = status \/ \E o \in Orders : StatusMoves(o)
<1> USE DEF TypeOK, brokerVars, postVars, queueVars, eventVars, streamVars, workerVars
<1>1. CASE Api
    BY <1>1 DEF Api, Confirm, RequestCancel, Publish, PublishUncommitted
<1>2. CASE Start
    BY <1>2 DEF Start, StartJob
<1>3. CASE JobStep
    <2>1. CASE PostAccepted
        BY <2>1, OrderOfJob DEF PostAccepted, BrokerAccepts, StatusMoves, WorkerType, Current
    <2>2. CASE LookupFinds \/ LookupMisses \/ LookupFails \/ PostRefused \/ PostTimesOut
              \/ ReplyArrives \/ ReplyFails \/ AppendReply \/ MarkReconciling \/ Schedule
              \/ RecordCancel \/ Delete \/ DeleteFails \/ CommitInbox \/ Acknowledge
        BY <2>2 DEF LookupFinds, LookupMisses, LookupFails, PostRefused, PostTimesOut,
               ReplyArrives, ReplyFails, AppendReply, MarkReconciling, Schedule,
               RecordCancel, Delete, DeleteFails, CommitInbox, Acknowledge
    <2> QED BY <1>3, <2>1, <2>2 DEF JobStep
<1>4. CASE Stream
    BY <1>4 DEF Stream, StreamReceives, StreamLoses, StreamAppends
<1>5. CASE Reconciliation
    BY <1>5 DEF Reconciliation, PassLists, PassBinds, PassAppends
<1>6. CASE Broker
    BY <1>6 DEF Broker, BrokerUpdates, OrphanArrives, BrokerAccepts, StatusMoves
<1>7. CASE WorkerCrash \/ RedisLoss
    BY <1>7 DEF WorkerCrash, RedisLoss
<1>8. CASE UNCHANGED vars
    BY <1>8 DEF vars
<1> QED BY <1>1, <1>2, <1>3, <1>4, <1>5, <1>6, <1>7, <1>8 DEF Next

\* The broker, too, only moves forward, and a closed order is closed for good.
LEMMA BrokerIsForward ==
    ASSUME NEW s \in RemoteStatus, NEW t \in BrokerMoves[s]
    PROVE  t \in RemoteStatus /\ Progress(s) <= Progress(t) /\ s \notin TerminalStates
BY DEF BrokerMoves, RemoteStatus, Progress, TerminalStates

\* Progress is a number.
LEMMA ProgressType == \A s : Progress(s) \in Nat
BY DEF Progress

\* What has been reported of an order stays in the past.
LEMMA ReportedStays ==
    ASSUME TypeOK, [Next]_vars, NEW o \in Orders, NEW s, Reported(o, s)
    PROVE  Reached(status'[o], s)
<1>1. CASE status' = status
    BY <1>1 DEF Reported, Reached
<1>2. ASSUME NEW q \in Orders, StatusMoves(q) PROVE Reached(status'[o], s)
    <2>1. CASE q # o
        BY <1>2, <2>1 DEF StatusMoves, Reported, Reached, TypeOK, BrokerType
    <2>2. CASE q = o
        <3>1. status[o] \in RemoteStatus
            BY DEF Reported, Reached, TypeOK, BrokerType
        <3>2. PICK t \in BrokerMoves[status[o]] : status' = [status EXCEPT ![o] = t]
            BY <1>2, <2>2, <3>1 DEF StatusMoves, RemoteStatus
        <3>3. status'[o] = t
            BY <3>2 DEF TypeOK, BrokerType
        <3>4. t \in RemoteStatus /\ Progress(status[o]) <= Progress(t)
              /\ status[o] \notin TerminalStates
            BY <3>1, BrokerIsForward
        <3>5. s \notin TerminalStates
            BY <3>4 DEF Reported, Reached
        <3>6. Progress(s) <= Progress(t)
            BY <3>4, ProgressType DEF Reported, Reached
        <3> QED BY <3>3, <3>4, <3>5, <3>6 DEF Reported, Reached, RemoteStatus
    <2> QED BY <2>1, <2>2
<1> QED BY <1>1, <1>2, StatusStep

\* What the broker says now has happened.
LEMMA PresentIsReported ==
    ASSUME NEW o \in Orders, status[o] # "absent"
    PROVE  Reported(o, status[o])
BY ProgressType DEF Reported, Reached

----------------------------------------------------------------------------
(* Nothing in transit is ahead of the broker.                               *)

\* A step leaves no report ahead of the broker: what is in transit stays in the
\* past, and what is sent out now is the present.
LEMMA ReportsStep ==
    ASSUME TypeOK, ReportsArePast, [Next]_vars
    PROVE  ReportsArePast'
<1>1. \A m \in Observation :
          Reported(m.order, m.status) => Reached(status'[m.order], m.status)
    <2> SUFFICES ASSUME NEW m \in Observation, Reported(m.order, m.status)
                 PROVE  Reached(status'[m.order], m.status)
        OBVIOUS
    <2>1. m.order \in Orders
        BY DEF Observation
    <2> QED BY <2>1, ReportedStays
<1>2. \A o, s : s = status'[o] /\ s # "absent" => Reached(status'[o], s)
    BY ProgressType DEF Reported, Reached
<1>3. /\ \A m \in net \cup observing : m \in Observation /\ Reached(status'[m.order], m.status)
      /\ \A p \in Passes : \A m \in pass[p].todo \cup pass[p].cur :
             m \in Observation /\ Reached(status'[m.order], m.status)
      /\ pc \in {"reply", "append"} => Reached(status'[reply.order], reply.status)
    BY <1>1 DEF ReportsArePast, Reported, TypeOK, BrokerType, ObserverType, WorkerType
<1> USE DEF brokerVars, postVars, queueVars, eventVars, streamVars, workerVars
<1>4. CASE Api
    BY <1>3, <1>4 DEF Api, Confirm, RequestCancel, Publish, PublishUncommitted, ReportsArePast, Reported
<1>5. CASE Start
    BY <1>3, <1>5 DEF Start, StartJob, FirstStep, ReportsArePast, Reported
<1>6. CASE JobStep
    <2>1. CASE LookupFinds
        <3>1. reply' = Report(Current) /\ status' = status /\ status[Current] # "absent"
            BY <2>1 DEF LookupFinds
        <3>2. Reached(status'[reply'.order], reply'.status)
            BY <1>2, <3>1 DEF Report
        <3>3. UNCHANGED <<net, observing, pass>>
            BY <2>1 DEF LookupFinds
        <3> QED BY <1>3, <3>2, <3>3 DEF ReportsArePast, Reported
    <2>2. CASE PostAccepted
        <3>1. Current \in Orders
            BY <2>2, OrderOfJob DEF PostAccepted, TypeOK, WorkerType, Current
        <3>2. /\ reply' = [order |-> Current, status |-> "accepted", ver |-> 1]
              /\ net' = net \cup {reply'}
              /\ status'[Current] = "accepted"
              /\ UNCHANGED <<observing, pass>>
            BY <2>2, <3>1 DEF PostAccepted, BrokerAccepts, TypeOK, BrokerType
        <3>3. Reached(status'[reply'.order], reply'.status)
            BY <1>2, <3>2
        <3> QED BY <1>3, <3>2, <3>3 DEF ReportsArePast, Reported
    <2>3. CASE ReplyArrives
        BY <1>3, <2>3 DEF ReplyArrives, Goto, ReportsArePast, Reported
    <2>4. CASE LookupMisses \/ LookupFails \/ PostRefused \/ PostTimesOut \/ ReplyFails
              \/ AppendReply \/ MarkReconciling \/ Schedule \/ RecordCancel \/ Delete
              \/ DeleteFails \/ CommitInbox \/ Acknowledge
        BY <1>3, <2>4
        DEF LookupMisses, LookupFails, PostRefused, PostTimesOut, ReplyFails,
            AppendReply, MarkReconciling, Schedule, RecordCancel, Delete, DeleteFails,
            CommitInbox, Acknowledge, Goto, JobFails, BecomeIdle, CommandEnds, ReportsArePast, Reported
    <2> QED BY <1>6, <2>1, <2>2, <2>3, <2>4 DEF JobStep
<1>7. CASE Stream
    BY <1>3, <1>7 DEF Stream, StreamReceives, StreamLoses, StreamAppends, ReportsArePast, Reported
<1>8. CASE Reconciliation
    <2>1. ASSUME NEW p \in Passes, PassLists(p) PROVE ReportsArePast'
        <3>1. pass' = [pass EXCEPT ![p].todo = {Report(o) : o \in OpenOrders}]
              /\ UNCHANGED <<net, observing, status, pc, reply>>
            BY <2>1 DEF PassLists
        <3>2. \A o \in OpenOrders : Reached(status'[Report(o).order], Report(o).status)
            BY <1>2, <3>1 DEF OpenOrders, Report
        <3> QED BY <1>3, <3>1, <3>2 DEF ReportsArePast, Reported, TypeOK, ObserverType
    <2>2. ASSUME NEW p \in Passes, PassBinds(p) \/ PassAppends(p) PROVE ReportsArePast'
        BY <1>3, <2>2 DEF PassBinds, PassAppends, NoPass, ReportsArePast, Reported, TypeOK, ObserverType
    <2> QED BY <1>8, <2>1, <2>2 DEF Reconciliation
<1>9. CASE Broker
    <2>1. ASSUME NEW o \in Orders, BrokerUpdates(o) \/ OrphanArrives(o)
          PROVE  /\ \E s, v : /\ net' \subseteq net \cup {[order |-> o, status |-> s, ver |-> v]}
                              /\ (net' = net \/ (s = status'[o] /\ s # "absent"))
                 /\ UNCHANGED <<observing, pass, pc, reply>>
        <3>1. CASE BrokerUpdates(o)
            BY <3>1, BrokerIsForward
            DEF BrokerUpdates, TypeOK, BrokerType, RemoteStatus
        <3>2. CASE OrphanArrives(o)
            BY <3>2 DEF OrphanArrives, BrokerAccepts, TypeOK, BrokerType
        <3> QED BY <2>1, <3>1, <3>2
    <2> QED BY <1>2, <1>3, <1>9, <2>1 DEF Broker, ReportsArePast, Reported
<1>10. CASE WorkerCrash \/ RedisLoss
    BY <1>3, <1>10 DEF WorkerCrash, RedisLoss, BecomeIdle, NoPass, ReportsArePast, Reported
<1>11. CASE UNCHANGED vars
    BY <1>3, <1>11 DEF vars, ReportsArePast, Reported
<1> QED BY <1>4, <1>5, <1>6, <1>7, <1>8, <1>9, <1>10, <1>11 DEF Next

\* The projection repeats what has been reported, so it is not ahead either.
LEMMA NeverAheadStep ==
    ASSUME TypeOK, ReportsArePast, NeverAheadOfBroker, [Next]_vars
    PROVE  NeverAheadOfBroker'
<1> SUFFICES ASSUME NEW o \in Orders, proj'[o] \in RemoteStatus
             PROVE  Reached(status'[o], proj'[o])
    BY DEF NeverAheadOfBroker, Reported
<1> USE DEF TypeOK, DatabaseType
<1>1. CASE proj'[o] = proj[o]
    <2>1. Reported(o, proj[o])
        BY <1>1 DEF NeverAheadOfBroker
    <2> QED BY <1>1, <2>1, ReportedStays
<1>2. CASE proj'[o] # proj[o]
    <2>1. status' = status /\ ProjectionMoves(o)
        BY <1>2, ProjectionStep DEF ProjectionMoves, Recorded
    <2>2. PICK s \in RemoteStatus : Reported(o, s) /\ Recorded(o, s)
        BY <2>1 DEF ProjectionMoves, Recorded, StateAfter, RemoteStatus
    <2>3. proj'[o] = s
        BY <2>2, RemoteEventIsItsStatus DEF Recorded
    <2> QED BY <2>1, <2>2, <2>3 DEF Reported, Reached
<1> QED BY <1>1, <1>2

\* At first nothing is in transit and nothing is shown.
LEMMA InitReports == Init => ReportsArePast /\ NeverAheadOfBroker
BY DEF Init, ReportsArePast, NeverAheadOfBroker, Reported, NoPass, RemoteStatus

----------------------------------------------------------------------------
(* The broker only ever gets orders that the user confirmed.                *)

\* Only a confirmation ends the draft of an order.
LEMMA DraftStays ==
    ASSUME TypeOK, ReportsArePast, [Next]_vars, outbox' = outbox, NEW o \in Orders
    PROVE  proj'[o] = "draft" <=> proj[o] = "draft"
<1>1. CASE proj' = proj
    BY <1>1
<1>2. ASSUME NEW q \in Orders, ProjectionMoves(q)
      PROVE  proj'[o] = "draft" <=> proj[o] = "draft"
    <2>1. outbox'[q] # "pending" \/ outbox[q] # "none"
        OBVIOUS
    <2>2. PICK e \in RemoteStatus \cup {"command.reconciling", "command.cancel_requested"} :
              Recorded(q, e)
        BY <1>2, <2>1 DEF ProjectionMoves, TypeOK, DatabaseType, Commands
    <2>3. StateAfter(proj[q], e) # "draft"
        BY DEF StateAfter, RemoteStatus
    <2>4. proj[q] # "draft"
        BY <2>2, AllowedTable DEF Recorded, Accepts, RemoteStatus
    <2> QED BY <2>2, <2>3, <2>4 DEF Recorded, TypeOK, DatabaseType
<1> QED BY <1>1, <1>2, ProjectionStep

\* A step of the worker or the broker is about an order that a job, a request or
\* the broker knew before it.
LEMMA ConfirmedStep ==
    ASSUME TypeOK, ReportsArePast, OnlyConfirmedOrders, [Next]_vars
    PROVE  OnlyConfirmedOrders'
<1> USE DEF brokerVars, postVars, queueVars, eventVars, streamVars, workerVars
<1>1. CASE Api
    <2>1. ASSUME NEW o \in Orders, Confirm(o) PROVE OnlyConfirmedOrders'
        <3>1. /\ outbox' = [outbox EXCEPT ![o] = "pending"]
              /\ proj' = [proj EXCEPT ![o] = "pending_submission"]
              /\ UNCHANGED <<jobs, pc, job, orphans, status>>
            BY <2>1 DEF Confirm
        <3>2. \A x \in Commands : outbox[x] # "none" => outbox'[x] # "none"
            BY <3>1 DEF TypeOK, DatabaseType
        <3> QED BY <3>1, <3>2, OrderOfJob, CommandsAssumption, TargetAssumption
                DEF OnlyConfirmedOrders, TypeOK, DatabaseType, WorkerType, Current, Commands
    <2>2. ASSUME NEW c \in Cancels, RequestCancel(c) PROVE OnlyConfirmedOrders'
        <3>1. /\ outbox' = [outbox EXCEPT ![c] = "pending"]
              /\ outbox[Target[c]] # "none"
              /\ UNCHANGED <<proj, jobs, pc, job, orphans, status>>
            BY <2>2 DEF RequestCancel
        <3>2. \A o \in Orders : outbox'[o] = outbox[o]
            BY <3>1, CommandsAssumption DEF TypeOK, DatabaseType, Commands
        <3> QED BY <3>1, <3>2, OrderOfJob, TargetAssumption
                DEF OnlyConfirmedOrders, TypeOK, DatabaseType, WorkerType, Current, Commands
    <2>3. ASSUME NEW e \in Commands, Publish(e) \/ PublishUncommitted(e)
          PROVE  OnlyConfirmedOrders'
        <3>1. /\ outbox[e] = "pending"
              /\ QueueAdd(e)
              /\ \A x \in Commands : outbox'[x] = "none" <=> outbox[x] = "none"
              /\ UNCHANGED <<proj, pc, job, orphans, status>>
            BY <2>3 DEF Publish, PublishUncommitted, TypeOK, DatabaseType
        <3>2. outbox[OrderOf(CommandJob(e))] # "none"
            BY <3>1, CommandsAssumption DEF OnlyConfirmedOrders, OrderOf, CommandJob, Commands
        <3>3. \A j \in Job : jobs'[j] > 0 => jobs[j] > 0 \/ j = CommandJob(e)
            BY <3>1 DEF QueueAdd, TypeOK, QueueType
        <3>4. \A j \in Job : jobs'[j] > 0 => outbox'[OrderOf(j)] # "none"
            BY <3>1, <3>2, <3>3, OrderOfJob DEF OnlyConfirmedOrders, Commands
        <3>5. pc # "idle" => outbox'[Current] # "none"
            BY <3>1, OrderOfJob DEF OnlyConfirmedOrders, TypeOK, WorkerType, Current, Commands
        <3> QED BY <3>1, <3>4, <3>5, TargetAssumption
                DEF OnlyConfirmedOrders, Current, Commands
    <2> QED BY <1>1, <2>1, <2>2, <2>3 DEF Api
<1>2. CASE UNCHANGED outbox
    <2>1. \A o \in Orders : outbox'[o] = "none" <=> proj'[o] = "draft"
        BY <1>2, DraftStays DEF OnlyConfirmedOrders
    <2>2. /\ \A j \in Job : jobs'[j] > 0 => outbox[OrderOf(j)] # "none"
          /\ pc' # "idle" => outbox[Current'] # "none"
          /\ \A o \in Orders : orphans'[o] > 0 \/ status'[o] # "absent" => outbox[o] # "none"
        <3>1. CASE Start
            BY <3>1 DEF Start, StartJob, OnlyConfirmedOrders, TypeOK, QueueType, Current
        <3>2. CASE JobStep
            <4>1. outbox[Current] # "none" /\ Current \in Orders /\ job \in Job
                BY <3>2, OrderOfJob
                DEF JobStep, LookupFinds, LookupMisses, LookupFails, PostAccepted,
                    PostRefused, PostTimesOut, ReplyArrives, ReplyFails, AppendReply,
                    MarkReconciling, Schedule, RecordCancel, Delete, DeleteFails,
                    CommitInbox, Acknowledge, OnlyConfirmedOrders, TypeOK, WorkerType, Current
            <4>2. job' = job \/ pc' = "idle"
                BY <3>2
                DEF JobStep, LookupFinds, LookupMisses, LookupFails, PostAccepted,
                    PostRefused, PostTimesOut, ReplyArrives, ReplyFails, AppendReply,
                    MarkReconciling, Schedule, RecordCancel, Delete, DeleteFails,
                    CommitInbox, Acknowledge, Goto, JobFails, BecomeIdle, CommandEnds
            <4>3. \A j \in Job : jobs'[j] > 0 => jobs[j] > 0 \/ j = ReconcileJob(Current)
                BY <3>2
                DEF JobStep, LookupFinds, LookupMisses, LookupFails, PostAccepted,
                    PostRefused, PostTimesOut, ReplyArrives, ReplyFails, AppendReply,
                    MarkReconciling, Schedule, RecordCancel, Delete, DeleteFails,
                    CommitInbox, Acknowledge, TypeOK, QueueType
            <4>4. \A o \in Orders : orphans'[o] > 0 \/ status'[o] # "absent"
                                    => orphans[o] > 0 \/ status[o] # "absent" \/ o = Current
                BY <3>2
                DEF JobStep, LookupFinds, LookupMisses, LookupFails, PostAccepted,
                    PostRefused, PostTimesOut, ReplyArrives, ReplyFails, AppendReply,
                    MarkReconciling, Schedule, RecordCancel, Delete, DeleteFails,
                    CommitInbox, Acknowledge, BrokerAccepts, TypeOK, BrokerType
            <4>5. OrderOf(ReconcileJob(Current)) = Current
                BY DEF OrderOf, ReconcileJob
            <4> QED BY <4>1, <4>2, <4>3, <4>4, <4>5 DEF OnlyConfirmedOrders, Current
        <3>3. CASE Stream
            BY <3>3 DEF Stream, StreamReceives, StreamLoses, StreamAppends,
                        OnlyConfirmedOrders, Current
        <3>4. CASE Reconciliation
            BY <3>4 DEF Reconciliation, PassLists, PassBinds, PassAppends,
                        OnlyConfirmedOrders, Current
        <3>5. CASE Broker
            BY <3>5 DEF Broker, BrokerUpdates, OrphanArrives, BrokerAccepts,
                        OnlyConfirmedOrders, Current, TypeOK, BrokerType
        <3>6. CASE WorkerCrash
            <4>1. /\ pc' = "idle" /\ status' = status
                  /\ \A o \in Orders : orphans'[o] > 0
                        => orphans[o] > 0 \/ (o = Current /\ pc # "idle")
                BY <3>6 DEF WorkerCrash, BecomeIdle, TypeOK, BrokerType
            <4>2. \A j \in Job : jobs'[j] > 0
                        => jobs[j] > 0 \/ (OrderOf(j) = Current /\ pc # "idle")
                BY <3>6 DEF WorkerCrash, Redelivers, TypeOK, QueueType, OrderOf, Current,
                            WorkerType, Job
            <4> QED BY <4>1, <4>2 DEF OnlyConfirmedOrders
        <3>7. CASE RedisLoss
            <4>1. /\ pc' = pc /\ UNCHANGED <<status, orphans>>
                  /\ \A j \in Job : jobs'[j] = 0
                BY <3>7 DEF RedisLoss
            <4>2. pc # "idle" => Current' = Current
                BY <3>7 DEF RedisLoss, TypeOK, WorkerType, Job, Current, OrderOf
            <4> QED BY <4>1, <4>2 DEF OnlyConfirmedOrders
        <3>8. CASE UNCHANGED vars
            BY <3>8 DEF vars, OnlyConfirmedOrders, Current
        <3>9. CASE Api
            BY <1>2, <1>1, <3>9 DEF OnlyConfirmedOrders
        <3> QED BY <3>1, <3>2, <3>3, <3>4, <3>5, <3>6, <3>7, <3>8, <3>9 DEF Next
    <2> QED BY <1>2, <2>1, <2>2 DEF OnlyConfirmedOrders
<1>3. Api \/ UNCHANGED outbox
    BY DEF Next, Start, StartJob, JobStep, LookupFinds, LookupMisses, LookupFails,
           PostAccepted, PostRefused, PostTimesOut, ReplyArrives, ReplyFails, AppendReply,
           MarkReconciling, Schedule, RecordCancel, Delete, DeleteFails, CommitInbox,
           Acknowledge, Stream, StreamReceives, StreamLoses, StreamAppends,
           Reconciliation, PassLists, PassBinds, PassAppends, Broker, BrokerUpdates,
           OrphanArrives, WorkerCrash, RedisLoss, vars
<1> QED BY <1>1, <1>2, <1>3

\* At first there is no intent, no job and no remote order.
LEMMA InitConfirmed == Init => OnlyConfirmedOrders
BY CommandsAssumption, TargetAssumption DEF Init, OnlyConfirmedOrders, Commands

----------------------------------------------------------------------------
(* Cancellations and submissions in doubt.                                  *)

\* The log only grows, and the worker records a doubt only while it marks the
\* intent, which is in doubt from then on.
LEMMA LogStep ==
    ASSUME TypeOK, [Next]_vars
    PROVE  /\ log \subseteq log'
           /\ \A o \in Orders : ReconcileId(o) \in log' \ log =>
                  pc = "mark" /\ pc' # "lookup" /\ proj'[o] = "reconciling"
<1> USE DEF TypeOK, brokerVars, postVars, queueVars, eventVars, streamVars, workerVars
<1>1. \A m \in Observation, o \in Orders : m # ReconcileId(o)
    BY DEF Observation, ReconcileId
<1>2. ASSUME NEW m \in Observation, AppendObserved(m)
      PROVE  log \subseteq log' /\ \A o \in Orders : ReconcileId(o) \notin log' \ log
    BY <1>1, <1>2 DEF AppendObserved, AppendOrderEvent
<1>3. CASE Api
    BY <1>3 DEF Api, Confirm, RequestCancel, Publish, PublishUncommitted
<1>4. CASE Start
    BY <1>4 DEF Start, StartJob
<1>5. CASE JobStep
    <2>1. CASE AppendReply
        BY <1>2, <2>1 DEF AppendReply, WorkerType
    <2>2. CASE MarkReconciling
        <3>1. Current \in Orders
            BY <2>2, OrderOfJob DEF MarkReconciling, WorkerType, Current
        <3>2. \A o \in Orders : ReconcileId(Current) = ReconcileId(o) => Current = o
            BY DEF ReconcileId
        <3>3. pc' # "lookup" /\ pc = "mark"
            BY <2>2 DEF MarkReconciling, Goto, JobFails, BecomeIdle
        <3>4. \/ UNCHANGED <<proj, log>>
              \/ /\ log' = log \cup {ReconcileId(Current)}
                 /\ proj' = [proj EXCEPT ![Current] = StateAfter(@, "command.reconciling")]
            BY <2>2 DEF MarkReconciling, AppendOrderEvent
        <3>5. \A s : StateAfter(s, "command.reconciling") = "reconciling"
            BY DEF StateAfter
        <3> QED BY <3>1, <3>2, <3>3, <3>4, <3>5 DEF DatabaseType
    <2>3. CASE RecordCancel
        <3>1. \A o \in Orders : [cancel |-> job.of] # ReconcileId(o)
            BY DEF ReconcileId
        <3> QED BY <2>3, <3>1 DEF RecordCancel, AppendOrderEvent
    <2>4. CASE LookupFinds \/ LookupMisses \/ LookupFails \/ PostAccepted \/
              PostRefused \/ PostTimesOut \/ ReplyArrives \/ ReplyFails \/
              Schedule \/ Delete \/ DeleteFails \/ CommitInbox \/ Acknowledge
        BY <2>4 DEF LookupFinds, LookupMisses, LookupFails, PostAccepted, PostRefused,
               PostTimesOut, ReplyArrives, ReplyFails, Schedule, Delete, DeleteFails,
               CommitInbox, Acknowledge
    <2> QED BY <1>5, <2>1, <2>2, <2>3, <2>4 DEF JobStep
<1>6. CASE Stream
    BY <1>2, <1>6 DEF Stream, StreamReceives, StreamLoses, StreamAppends, ObserverType
<1>7. CASE Reconciliation
    BY <1>2, <1>7 DEF Reconciliation, PassLists, PassBinds, PassAppends, ObserverType
<1>8. CASE Broker
    BY <1>8 DEF Broker, BrokerUpdates, OrphanArrives
<1>9. CASE WorkerCrash \/ RedisLoss
    BY <1>9 DEF WorkerCrash, RedisLoss
<1>10. CASE UNCHANGED vars
    BY <1>10 DEF vars
<1> QED BY <1>3, <1>4, <1>5, <1>6, <1>7, <1>8, <1>9, <1>10 DEF Next

\* The DELETE is sent by a processor that has just recorded the request.
CancelInvariant ==
    /\ CancelSentOnRecord
    /\ pc = "delete" => job.kind = "cancel" /\ [cancel |-> job.of] \in log

\* The invariant of cancellations through a step.
LEMMA CancelStep ==
    ASSUME TypeOK, CancelInvariant, [Next]_vars
    PROVE  CancelInvariant'
<1> USE DEF TypeOK, CancelInvariant, CancelSentOnRecord, brokerVars, postVars, queueVars,
           eventVars, streamVars, workerVars
<1>1. log \subseteq log'
    BY LogStep
<1>2. CASE UNCHANGED <<pc, job, cancelSent>>
    BY <1>1, <1>2
<1>3. CASE pc' # "delete" /\ UNCHANGED cancelSent
    BY <1>1, <1>3
<1>4. CASE RecordCancel
    <2>1. cancelSent' = cancelSent
        BY <1>4 DEF RecordCancel
    <2>2. pc' = "delete" => job' = job /\ [cancel |-> job.of] \in log'
        BY <1>4 DEF RecordCancel, AppendOrderEvent, Goto, JobFails, BecomeIdle
    <2>3. job.kind = "cancel"
        BY <1>4 DEF RecordCancel, WorkerType
    <2> QED BY <1>1, <2>1, <2>2, <2>3
<1>5. CASE Delete
    <2>1. cancelSent' = cancelSent \cup {Target[job.of]} /\ job.of \in Cancels
        BY <1>5 DEF Delete, Current, OrderOf, WorkerType, Job
    <2>2. pc' # "delete"
        BY <1>5 DEF Delete, Goto, JobFails, BecomeIdle
    <2> QED BY <1>1, <1>5, <2>1, <2>2 DEF Delete
<1>6. CASE RedisLoss
    <2>1. /\ pc' = pc /\ cancelSent' = cancelSent
          /\ pc = "delete" => job' = [job EXCEPT !.left = 0]
        BY <1>6 DEF RedisLoss
    <2>2. pc = "delete" => job'.kind = job.kind /\ job'.of = job.of
        BY <2>1 DEF WorkerType, Job
    <2> QED BY <1>1, <2>1, <2>2
<1>7. CASE Start
    BY <1>1, <1>7 DEF Start, StartJob, FirstStep
<1>8. CASE Api \/ Stream \/ Reconciliation \/ Broker \/ WorkerCrash \/ UNCHANGED vars
    BY <1>2, <1>3, <1>8
    DEF Api, Confirm, RequestCancel, Publish, PublishUncommitted, Stream, StreamReceives,
        StreamLoses, StreamAppends, Reconciliation, PassLists, PassBinds, PassAppends,
        Broker, BrokerUpdates, OrphanArrives, WorkerCrash, BecomeIdle, vars
<1>9. CASE LookupFinds \/ LookupMisses \/ LookupFails \/ PostAccepted \/ PostRefused
           \/ PostTimesOut \/ ReplyArrives \/ ReplyFails \/ AppendReply
           \/ MarkReconciling \/ Schedule \/ DeleteFails \/ CommitInbox \/ Acknowledge
    BY <1>3, <1>9
    DEF LookupFinds, LookupMisses, LookupFails, PostAccepted, PostRefused, PostTimesOut,
        ReplyArrives, ReplyFails, AppendReply, MarkReconciling, Schedule, DeleteFails,
        CommitInbox, Acknowledge, Goto, JobFails, BecomeIdle, CommandEnds
<1> QED BY <1>4, <1>5, <1>6, <1>7, <1>8, <1>9 DEF Next, JobStep

\* A submission is sent for an order that the broker does not have and whose
\* intent was read as merely pending; that intent is not in doubt meanwhile,
\* because only the worker records a doubt.
DoubtInvariant ==
    /\ \A o \in Orders :
          /\ ReconcileId(o) \in log => proj[o] \notin {"draft", "pending_submission"}
          /\ proj[o] # "confirmed"
          /\ proj[o] = "cancel_pending" => status[o] # "absent"
    /\ pc = "lookup" =>
          /\ snap \in {"pending_submission", "reconciling"} \/ status[Current] # "absent"
          /\ snap = "pending_submission" => ReconcileId(Current) \notin log

\* An order the broker has does not disappear.
LEMMA StatusStays ==
    ASSUME TypeOK, [Next]_vars, NEW o \in Orders, status[o] # "absent"
    PROVE  status'[o] # "absent"
<1>1. Reported(o, status[o])
    BY PresentIsReported
<1> QED BY <1>1, ReportedStays DEF Reached

\* The invariant of submissions in doubt through a step.
LEMMA DoubtStep ==
    ASSUME TypeOK, ReportsArePast, NeverAheadOfBroker, OnlyConfirmedOrders,
           DoubtInvariant, [Next]_vars
    PROVE  DoubtInvariant'
<1> USE DEF TypeOK, brokerVars, postVars, queueVars, eventVars, streamVars, workerVars
<1>1. ASSUME NEW o \in Orders
      PROVE  /\ ReconcileId(o) \in log' => proj'[o] \notin {"draft", "pending_submission"}
             /\ proj'[o] # "confirmed"
             /\ proj'[o] = "cancel_pending" => status'[o] # "absent"
    <2>1. ReconcileId(o) \in log' => ReconcileId(o) \in log \/ proj'[o] = "reconciling"
        BY LogStep
    <2>2. CASE proj'[o] = proj[o]
        BY <2>1, <2>2, StatusStays DEF DoubtInvariant
    <2>3. CASE proj'[o] # proj[o]
        <3>1. status' = status /\ ProjectionMoves(o)
            BY <2>3, ProjectionStep DEF ProjectionMoves, Recorded, DatabaseType
        <3>2. CASE outbox[o] = "none" /\ proj' = [proj EXCEPT ![o] = "pending_submission"]
            <4>1. proj[o] = "draft" /\ proj'[o] = "pending_submission"
                BY <3>2 DEF OnlyConfirmedOrders, DatabaseType
            <4> QED BY <2>1, <4>1 DEF DoubtInvariant
        <3>3. ASSUME NEW e \in RemoteStatus \cup {"command.reconciling", "command.cancel_requested"},
                     Recorded(o, e)
              PROVE  /\ proj'[o] \notin {"draft", "pending_submission", "confirmed"}
                     /\ proj'[o] = "cancel_pending" => status[o] # "absent"
            <4>1. proj'[o] = StateAfter(proj[o], e) /\ Accepts(proj[o], e)
                  /\ proj[o] \in LocalOrderState
                BY <3>3 DEF Recorded, DatabaseType
            <4>2. StateAfter(proj[o], e) \notin {"draft", "pending_submission", "confirmed"}
                  /\ (StateAfter(proj[o], e) = "cancel_pending" => e = "command.cancel_requested")
                BY DEF StateAfter, RemoteStatus
            <4>3. e = "command.cancel_requested" => proj[o] \in RemoteStatus
                BY <4>1, CommandsAreGuarded DEF RemoteStatus
            <4> QED BY <4>1, <4>2, <4>3 DEF NeverAheadOfBroker, Reported, Reached
        <3> QED BY <3>1, <3>2, <3>3 DEF ProjectionMoves
    <2> QED BY <2>2, <2>3
<1>2. ASSUME pc' = "lookup"
      PROVE  /\ snap' \in {"pending_submission", "reconciling"} \/ status'[Current'] # "absent"
             /\ snap' = "pending_submission" => ReconcileId(Current') \notin log'
    <2>1. ASSUME NEW j \in Job, StartJob(j)
          PROVE  /\ snap' \in {"pending_submission", "reconciling"}
                        \/ status'[Current'] # "absent"
                 /\ snap' = "pending_submission" => ReconcileId(Current') \notin log'
        <3>1. /\ Current' = OrderOf(j) /\ OrderOf(j) \in Orders
              /\ snap' = proj[OrderOf(j)] /\ snap' \notin TerminalStates
              /\ outbox[OrderOf(j)] # "none"
              /\ UNCHANGED <<status, log>>
            BY <1>2, <2>1, OrderOfJob
            DEF StartJob, FirstStep, Current, OnlyConfirmedOrders, QueueType
        <3>2. snap' \in {"pending_submission", "reconciling", "cancel_pending"} \cup RemoteStatus
            BY <3>1 DEF DoubtInvariant, OnlyConfirmedOrders, DatabaseType, LocalOrderState
        <3> QED BY <3>1, <3>2 DEF DoubtInvariant, NeverAheadOfBroker, Reported, Reached
    <2>2. CASE pc = "lookup" /\ snap' = snap /\ Current' = Current
        <3>1. Current \in Orders
            BY <2>2, OrderOfJob DEF Current, WorkerType
        <3> QED BY <2>2, <3>1, LogStep, StatusStays DEF DoubtInvariant
    <2>3. CASE UNCHANGED <<pc, job, snap>>
        BY <1>2, <2>2, <2>3 DEF Current
    <2>4. CASE RedisLoss
        <3>1. pc' = pc /\ snap' = snap /\ job' = [job EXCEPT !.left = 0] /\ job \in Job
            BY <1>2, <2>4 DEF RedisLoss, WorkerType
        <3> QED BY <1>2, <2>2, <3>1 DEF Job, Current, OrderOf
    <2>5. JobStep => FALSE
        BY <1>2 DEF JobStep, LookupFinds, LookupMisses, LookupFails, PostAccepted, PostRefused,
               PostTimesOut, ReplyArrives, ReplyFails, AppendReply, MarkReconciling, Schedule,
               RecordCancel, Delete, DeleteFails, CommitInbox, Acknowledge, Goto, JobFails,
               BecomeIdle, CommandEnds
    <2>6. Api \/ Stream \/ Reconciliation \/ Broker \/ UNCHANGED vars => UNCHANGED <<pc, job, snap>>
        BY DEF Api, Confirm, RequestCancel, Publish, PublishUncommitted, Stream,
               StreamReceives, StreamLoses, StreamAppends, Reconciliation, PassLists,
               PassBinds, PassAppends, Broker, BrokerUpdates, OrphanArrives, vars
    <2>7. WorkerCrash => FALSE
        BY <1>2 DEF WorkerCrash, BecomeIdle
    <2> QED BY <2>1, <2>3, <2>4, <2>5, <2>6, <2>7 DEF Next, Start
<1> QED BY <1>1, <1>2 DEF DoubtInvariant

----------------------------------------------------------------------------
(* The theorems.                                                            *)

OrderInvariant == TypeOK /\ ReportsArePast /\ NeverAheadOfBroker /\ OnlyConfirmedOrders

\* The four invariants are inductive together.
LEMMA OrderInvariantHolds == Spec => []OrderInvariant
<1>1. Init => OrderInvariant
    BY InitType, InitReports, InitConfirmed DEF OrderInvariant
<1>2. OrderInvariant /\ [Next]_vars => OrderInvariant'
    BY TypeStep, ReportsStep, NeverAheadStep, ConfirmedStep DEF OrderInvariant
<1> QED BY <1>1, <1>2, PTL DEF Spec

\* However stale the answers, updates and listings, the projection never says
\* more than the broker did, and a terminal state is the broker's own.
THEOREM BrokerWins == Spec => []NeverAheadOfBroker
<1>1. OrderInvariant => NeverAheadOfBroker
    BY DEF OrderInvariant
<1> QED BY <1>1, OrderInvariantHolds, PTL

\* Jobs, requests and remote orders exist only for orders the user confirmed.
THEOREM ConfirmedOnly == Spec => []OnlyConfirmedOrders
<1>1. OrderInvariant => OnlyConfirmedOrders
    BY DEF OrderInvariant
<1> QED BY <1>1, OrderInvariantHolds, PTL

\* What is shown of an order never goes back.
THEOREM ForwardOnly == Spec => ViewOnlyMovesForward
<1>1. OrderInvariant /\ [Next]_vars
      => [\A o \in Orders : Progress(proj[o]) <= Progress(proj'[o])]_vars
    <2> SUFFICES ASSUME OrderInvariant, [Next]_vars, NEW o \in Orders
                 PROVE  Progress(proj[o]) <= Progress(proj'[o])
        OBVIOUS
    <2>1. CASE proj'[o] = proj[o]
        BY <2>1, ProgressType
    <2>2. ASSUME NEW q \in Orders, ProjectionMoves(q), proj'[o] # proj[o]
          PROVE  Progress(proj[o]) <= Progress(proj'[o])
        <3>1. q = o /\ proj[o] \in LocalOrderState
            BY <2>2 DEF ProjectionMoves, Recorded, OrderInvariant, TypeOK, DatabaseType
        <3>2. CASE outbox[o] = "none" /\ proj' = [proj EXCEPT ![o] = "pending_submission"]
            BY <3>2, ProgressType
            DEF OrderInvariant, OnlyConfirmedOrders, TypeOK, DatabaseType, Progress
        <3>3. ASSUME NEW e \in OrderLifecycleEvent, Recorded(o, e)
              PROVE  Progress(proj[o]) <= Progress(proj'[o])
            BY <3>1, <3>3, TransitionIsForward
            DEF Recorded, OrderInvariant, TypeOK, DatabaseType
        <3> QED BY <2>2, <3>1, <3>2, <3>3
                DEF ProjectionMoves, OrderLifecycleEvent, CommandEvent
    <2> QED BY <2>1, <2>2, ProjectionStep DEF OrderInvariant
<1> QED BY <1>1, OrderInvariantHolds, PTL DEF Spec, ViewOnlyMovesForward

\* The broker is asked to cancel only after the cancellation is on record.
THEOREM CancelIsRecorded == Spec => []CancelSentOnRecord
<1>1. Init => CancelInvariant
    BY DEF Init, CancelInvariant, CancelSentOnRecord
<1>2. OrderInvariant /\ CancelInvariant /\ [Next]_vars => CancelInvariant'
    BY CancelStep DEF OrderInvariant
<1>3. CancelInvariant => CancelSentOnRecord
    BY DEF CancelInvariant
<1> QED BY <1>1, <1>2, <1>3, OrderInvariantHolds, PTL DEF Spec

\* Once the doubt about a submission is on record it is never sent again,
\* whatever jobs, crashes and lost answers follow.
THEOREM NoResubmission == Spec => NeverResubmitsInDoubt
<1>1. Init => DoubtInvariant
    BY DEF Init, DoubtInvariant
<1>2. OrderInvariant /\ DoubtInvariant /\ [Next]_vars => DoubtInvariant'
    BY DoubtStep DEF OrderInvariant
<1>3. OrderInvariant /\ DoubtInvariant /\ [Next]_vars
      => [\A o \in Orders : sent'[o] # sent[o] => ReconcileId(o) \notin log]_vars
    <2> SUFFICES ASSUME OrderInvariant, DoubtInvariant, [Next]_vars,
                        NEW o \in Orders, sent'[o] # sent[o]
                 PROVE  ReconcileId(o) \notin log
        OBVIOUS
    <2>1. LookupMisses
        BY DEF Next, vars, Api, Confirm, RequestCancel, Publish, PublishUncommitted, Start,
               StartJob, JobStep, LookupFinds, LookupFails, PostAccepted, PostRefused,
               PostTimesOut, ReplyArrives, ReplyFails, AppendReply, MarkReconciling,
               Schedule, RecordCancel, Delete, DeleteFails, CommitInbox, Acknowledge,
               Stream, StreamReceives, StreamLoses, StreamAppends, Reconciliation,
               PassLists, PassBinds, PassAppends, Broker, BrokerUpdates, OrphanArrives,
               WorkerCrash, RedisLoss, postVars
    <2>2. o = Current /\ snap # "reconciling" /\ pc = "lookup" /\ status[Current] = "absent"
        BY <2>1 DEF LookupMisses, OrderInvariant, TypeOK, HistoryType
    <2> QED BY <2>2 DEF DoubtInvariant
<1> QED BY <1>1, <1>2, <1>3, OrderInvariantHolds, PTL DEF Spec, NeverResubmitsInDoubt

\* A move of a projection is a step of the contract, or none that it tells apart.
LEMMA ViewMoves ==
    ASSUME OrderInvariant, NEW o \in Orders, ProjectionMoves(o), status' = status
    PROVE  [Contract!Next]_(Contract!vars)
<1>1. /\ [q \in Orders |-> TruthOf(status'[q])] = [q \in Orders |-> TruthOf(status[q])]
      /\ \A q \in Orders : q # o => proj'[q] = proj[q]
      /\ proj \in [Orders -> LocalOrderState]
    BY DEF TruthOf, ProjectionMoves, Recorded, OrderInvariant, TypeOK, DatabaseType
<1>2. [q \in Orders |-> ViewOf(proj'[q])]
            = [[q \in Orders |-> ViewOf(proj[q])] EXCEPT ![o] = ViewOf(proj'[o])]
    <2>1. \A q \in Orders : q # o => ViewOf(proj'[q]) = ViewOf(proj[q])
        BY <1>1
    <2> QED BY <2>1
<1>3. CASE ViewOf(proj'[o]) = ViewOf(proj[o])
    BY <1>1, <1>2, <1>3 DEF Contract!vars
<1>4. CASE ViewOf(proj'[o]) # ViewOf(proj[o])
    <2>1. CASE outbox[o] = "none" /\ proj' = [proj EXCEPT ![o] = "pending_submission"]
        <3>1. proj[o] = "draft" /\ proj'[o] = "pending_submission"
            BY <1>1, <2>1 DEF OrderInvariant, OnlyConfirmedOrders
        <3>2. ViewOf(proj[o]) = "none" /\ ViewOf(proj'[o]) = "submitting"
            BY <3>1 DEF ViewOf, TerminalStates
        <3>3. Contract!Request(o)
            BY <1>1, <1>2, <3>2 DEF Contract!Request
        <3> QED BY <3>3 DEF Contract!Next
    <2>2. ASSUME NEW e \in {"command.reconciling", "command.cancel_requested"},
                 Recorded(o, e)
          PROVE  FALSE
        <3>1. proj[o] \in {"pending_submission", "accepted", "new", "partially_filled"}
            BY <1>1, <2>2, CommandsAreGuarded DEF Recorded
        <3>2. proj'[o] = StateAfter(proj[o], e)
            BY <1>1, <2>2 DEF Recorded
        <3> QED BY <1>1, <1>4, <2>2, <3>1, <3>2, CommandsAreGuarded
                DEF ViewOf, StateAfter, TerminalStates, Recorded
    <2>3. ASSUME NEW s \in RemoteStatus, Reported(o, s), Recorded(o, s)
          PROVE  Contract!ShowWorking(o) \/ Contract!ShowClosed(o)
        <3>1. proj'[o] = s /\ Accepts(proj[o], s)
            BY <1>1, <2>3, RemoteEventIsItsStatus DEF Recorded
        <3>2. ViewOf(proj[o]) \in {"submitting", "working"}
            BY <1>1, <1>4, <3>1, AllowedTable
            DEF ViewOf, Accepts, TerminalStates, LocalOrderState, RemoteStatus
        <3>3. CASE s \in TerminalStates
            <4>1. ViewOf(proj'[o]) = s /\ TruthOf(status[o]) = s
                BY <2>3, <3>1, <3>3
                DEF ViewOf, TruthOf, Reported, Reached, TerminalStates
            <4> QED BY <1>1, <1>2, <3>2, <3>3, <4>1 DEF Contract!ShowClosed
        <3>4. CASE s \notin TerminalStates
            <4>1. ViewOf(proj'[o]) = "working" /\ ViewOf(proj[o]) = "submitting" /\ TruthOf(status[o]) # "none"
                BY <1>4, <2>3, <3>1, <3>2, <3>4
                DEF ViewOf, TruthOf, Reported, Reached, TerminalStates, RemoteStatus
            <4> QED BY <1>1, <1>2, <4>1 DEF Contract!ShowWorking
        <3> QED BY <3>3, <3>4
    <2> QED BY <2>1, <2>2, <2>3 DEF ProjectionMoves, Contract!Next
<1> QED BY <1>3, <1>4

\* A move of the broker is a step of the contract, or none that it tells apart.
LEMMA TruthMoves ==
    ASSUME OrderInvariant, NEW o \in Orders, StatusMoves(o), proj' = proj,
           OnlyConfirmedOrders', outbox' = outbox
    PROVE  [Contract!Next]_(Contract!vars)
<1>1. /\ [q \in Orders |-> ViewOf(proj'[q])] = [q \in Orders |-> ViewOf(proj[q])]
      /\ \A q \in Orders : q # o => status'[q] = status[q]
      /\ status \in [Orders -> RemoteStatus \cup {"absent"}]
    BY DEF ViewOf, StatusMoves, OrderInvariant, TypeOK, BrokerType
<1>2. [q \in Orders |-> TruthOf(status'[q])] = [[q \in Orders |-> TruthOf(status[q])] EXCEPT ![o] = TruthOf(status'[o])]
    <2>1. \A q \in Orders : q # o => TruthOf(status'[q]) = TruthOf(status[q])
        BY <1>1
    <2> QED BY <2>1
<1>3. CASE status[o] = "absent" /\ status' = [status EXCEPT ![o] = "accepted"]
    <2>1. TruthOf(status[o]) = "none" /\ TruthOf(status'[o]) = "open"
        BY <1>1, <1>3 DEF TruthOf, TerminalStates
    <2>2. proj[o] # "draft"
        BY <1>1, <1>3 DEF OnlyConfirmedOrders, OrderInvariant
    <2>3. ViewOf(proj[o]) # "none"
        BY <2>2 DEF ViewOf, TerminalStates
    <2> QED BY <1>1, <1>2, <2>1, <2>3 DEF Contract!Open, Contract!Next
<1>4. ASSUME status[o] # "absent", NEW s \in BrokerMoves[status[o]],
             status' = [status EXCEPT ![o] = s]
      PROVE  [Contract!Next]_(Contract!vars)
    <2>1. s \in RemoteStatus /\ status[o] \notin TerminalStates /\ status'[o] = s
        BY <1>1, <1>4, BrokerIsForward
    <2>2. TruthOf(status[o]) = "open"
        BY <1>4, <2>1 DEF TruthOf
    <2>3. CASE s \in TerminalStates
        <3>1. TruthOf(status'[o]) = s
            BY <2>1, <2>3 DEF TruthOf, TerminalStates
        <3> QED BY <1>1, <1>2, <2>2, <2>3, <3>1 DEF Contract!Close, Contract!Next
    <2>4. CASE s \notin TerminalStates
        <3>1. TruthOf(status'[o]) = "open"
            BY <2>1, <2>4 DEF TruthOf, RemoteStatus
        <3>2. [q \in Orders |-> TruthOf(status'[q])] = [q \in Orders |-> TruthOf(status[q])]
            BY <1>2, <2>2, <3>1
        <3> QED BY <1>1, <3>2 DEF Contract!vars
    <2> QED BY <2>3, <2>4
<1> QED BY <1>3, <1>4 DEF StatusMoves

\* A step that moves the broker confirms nothing.
LEMMA BrokerMovesAlone ==
    ASSUME TypeOK, [Next]_vars, NEW o \in Orders, StatusMoves(o), proj' = proj
    PROVE  status' = status \/ outbox' = outbox
BY DEF Next, vars, Api, Confirm, RequestCancel, Publish, PublishUncommitted, Start, StartJob,
       JobStep, LookupFinds, LookupMisses, LookupFails, PostAccepted, PostRefused,
       PostTimesOut, ReplyArrives, ReplyFails, AppendReply, MarkReconciling, Schedule,
       RecordCancel, Delete, DeleteFails, CommitInbox, Acknowledge, Stream,
       StreamReceives, StreamLoses, StreamAppends, Reconciliation, PassLists, PassBinds,
       PassAppends, Broker, BrokerUpdates, OrphanArrives, WorkerCrash, RedisLoss,
       brokerVars, eventVars

\* PaperTrading implements the contract of an order: each step keeps its
\* promise or leaves what the user sees and what the broker holds alone.
THEOREM Refinement == Spec => ImplementsContract
<1>1. Init => Contract!Init
    <2>1. ViewOf("draft") = "none" /\ TruthOf("absent") = "none"
        BY DEF ViewOf, TruthOf, TerminalStates
    <2>2. Init => \A o \in Orders : proj[o] = "draft" /\ status[o] = "absent"
        BY DEF Init
    <2> QED BY <2>1, <2>2 DEF Contract!Init
<1>2. OrderInvariant /\ [Next]_vars => [Contract!Next]_(Contract!vars)
    <2> SUFFICES ASSUME OrderInvariant, [Next]_vars PROVE [Contract!Next]_(Contract!vars)
        OBVIOUS
    <2>1. CASE proj' = proj /\ status' = status
        BY <2>1 DEF Contract!vars, ViewOf, TruthOf
    <2>2. ASSUME status' = status, NEW o \in Orders, ProjectionMoves(o)
          PROVE  [Contract!Next]_(Contract!vars)
        BY <2>2, ViewMoves
    <2>3. ASSUME proj' = proj, status' # status, NEW o \in Orders, StatusMoves(o)
          PROVE  [Contract!Next]_(Contract!vars)
        BY <2>3, TruthMoves, BrokerMovesAlone, ConfirmedStep DEF OrderInvariant
    <2> QED BY <2>1, <2>2, <2>3, ProjectionStep, StatusStep DEF OrderInvariant
<1> QED BY <1>1, <1>2, OrderInvariantHolds, PTL DEF Spec, ImplementsContract, Contract!Spec

----------------------------------------------------------------------------
(* Submissions are accounted for.                                           *)

\* What a submission leaves in the log shows in the projection, and what the
\* processor has read of the order it is about still bears on it: an intent read
\* as pending is not in doubt before the processor says so, one that was past
\* pending stays past it, and only a consumed command is in the inbox.
Asking == {"lookup", "posting", "reply", "append", "mark"}

ProcessorTrace ==
    /\ pc \in Asking =>
           /\ job.kind # "cancel"
           /\ snap = "pending_submission" => ReconcileId(Current) \notin log
           /\ snap # "pending_submission" => proj[Current] # "pending_submission"
    /\ pc = "posting" => snap = "pending_submission"
    /\ pc \in {"schedule", "commit"} /\ job.kind # "cancel" => proj[Current] # "pending_submission"
    /\ pc \notin {"idle", "ack"} /\ job.kind = "submit" => job.of \notin inbox

TraceInvariant ==
    /\ \A o \in Orders :
           /\ o \in inbox => proj[o] \notin {"draft", "pending_submission"}
           /\ proj[o] = "reconciling" => ReconcileId(o) \in log
    /\ \A m \in Observation :
           m \in log => proj[m.order] \notin {"draft", "pending_submission", "reconciling"}
    /\ ProcessorTrace

\* A submission of the order may still be under way, unanswered and unmarked.
Submitting(o) == pc \in {"posting", "mark"} /\ Current = o /\ snap = "pending_submission"

\* Each POST beyond the first is paid for by a crash, and the last one too as soon
\* as another might follow: the broker has no order, no doubt is on record and no
\* processor is about to put one there.
PostInvariant ==
    \A o \in Orders : refused[o] = "no" =>
        /\ sent[o] <= 1 + faults["crash"]
        /\ sent[o] <= faults["crash"] \/ status[o] # "absent" \/ ReconcileId(o) \in log
           \/ Submitting(o)

\* A job that will come to look at the order: a submit command of an order that is
\* consumed already will not.
LooksAfter(j, o) ==
    /\ j.kind # "cancel" /\ j.of = o
    /\ j.kind = "reconcile" \/ o \notin inbox
    /\ jobs[j] > 0 \/ (job = j /\ pc \notin {"idle", "commit", "ack"})

NothingIsLost == faults["redis"] + faults["queue"] + faults["fatal"] = 0

\* Until the first crash no job has been handed out twice; an order in doubt is
\* looked after, and at a commit by a job that waits.
TrackInvariant ==
    /\ NothingIsLost /\ faults["crash"] = 0 =>
           /\ \A j \in Job : jobs[j] > 0 => j.left = 1
           /\ pc # "idle" => job.left = 1
    /\ NothingIsLost /\ faults["crash"] <= 1 =>
           /\ \A o \in Orders : proj[o] = "reconciling" => \E j \in Job : LooksAfter(j, o)
           /\ pc = "commit" /\ job.kind = "submit" /\ proj[Current] = "reconciling" =>
                  \E j \in Job : j.kind = "reconcile" /\ LooksAfter(j, Current)

\* The record of a step: nothing, a confirmation, what the broker reported, a
\* doubt, or a requested cancellation.
Observes(m) ==
    /\ proj' = [proj EXCEPT ![m.order] = m.status]
    /\ log' = log \cup {m}

RecordsDoubt ==
    /\ MarkReconciling /\ snap = "pending_submission" /\ Goto("schedule")
    /\ proj[Current] = "pending_submission"
    /\ proj' = [proj EXCEPT ![Current] = "reconciling"]
    /\ log' = log \cup {ReconcileId(Current)}

RecordsRequest ==
    /\ RecordCancel
    /\ proj[Current] \in {"accepted", "new", "partially_filled"}
    /\ proj' = [proj EXCEPT ![Current] = "cancel_pending"]
    /\ log' = log \cup {[cancel |-> job.of]}

\* An observation is recorded as the status it reports, or not at all.
LEMMA ObservedEffect ==
    ASSUME DatabaseType, NEW m \in Observation, AppendObserved(m)
    PROVE  UNCHANGED <<proj, log>> \/ Observes(m)
<1>1. m.status \in RemoteStatus
    BY DEF Observation
<1>2. StateAfter(proj[m.order], m.status) = m.status
    BY <1>1, RemoteEventIsItsStatus
<1> QED BY <1>2 DEF AppendObserved, AppendOrderEvent, Observes, DatabaseType

\* Who writes projections and the log.
LEMMA WhoRecords ==
    ASSUME TypeOK, [Next]_vars
    PROVE  \/ UNCHANGED <<proj, log>>
           \/ \E o \in Orders : Confirm(o)
           \/ \E m \in Observation : Observes(m)
           \/ RecordsDoubt
           \/ RecordsRequest
<1> USE DEF TypeOK, brokerVars, postVars, queueVars, eventVars, streamVars, workerVars
<1>1. CASE Api
    BY <1>1 DEF Api, RequestCancel, Publish, PublishUncommitted
<1>2. CASE Start
    BY <1>2 DEF Start, StartJob
<1>3. CASE JobStep
    <2>1. CASE AppendReply
        <3>1. reply \in Observation /\ AppendObserved(reply)
            BY <2>1 DEF AppendReply, WorkerType
        <3> QED BY <3>1, ObservedEffect
    <2>2. CASE MarkReconciling
        <3>1. Current \in Orders
            BY <2>2, OrderOfJob DEF MarkReconciling, WorkerType, Current
        <3>2. \/ UNCHANGED <<proj, log>>
              \/ /\ Accepts(proj[Current], "command.reconciling")
                 /\ proj' = [proj EXCEPT ![Current] = StateAfter(@, "command.reconciling")]
                 /\ log' = log \cup {ReconcileId(Current)}
                 /\ snap = "pending_submission" /\ Goto("schedule")
            BY <2>2 DEF MarkReconciling, AppendOrderEvent
        <3>3. \A s : StateAfter(s, "command.reconciling") = "reconciling"
            BY DEF StateAfter
        <3>4. Accepts(proj[Current], "command.reconciling") => proj[Current] = "pending_submission"
            BY <3>1, CommandsAreGuarded DEF DatabaseType
        <3> QED BY <2>2, <3>1, <3>2, <3>3, <3>4 DEF RecordsDoubt, DatabaseType
    <2>3. CASE RecordCancel
        <3>1. Current \in Orders
            BY <2>3, OrderOfJob DEF RecordCancel, WorkerType, Current
        <3>2. \/ UNCHANGED <<proj, log>>
              \/ /\ Accepts(proj[Current], "command.cancel_requested")
                 /\ proj' = [proj EXCEPT ![Current] = StateAfter(@, "command.cancel_requested")]
                 /\ log' = log \cup {[cancel |-> job.of]}
            BY <2>3 DEF RecordCancel, AppendOrderEvent
        <3>3. \A s : StateAfter(s, "command.cancel_requested") = "cancel_pending"
            BY DEF StateAfter
        <3>4. Accepts(proj[Current], "command.cancel_requested")
              => proj[Current] \in {"accepted", "new", "partially_filled"}
            BY <3>1, CommandsAreGuarded DEF DatabaseType
        <3> QED BY <2>3, <3>1, <3>2, <3>3, <3>4 DEF RecordsRequest, DatabaseType
    <2>4. CASE LookupFinds \/ LookupMisses \/ LookupFails \/ PostAccepted \/
              PostRefused \/ PostTimesOut \/ ReplyArrives \/ ReplyFails \/
              Schedule \/ Delete \/ DeleteFails \/ CommitInbox \/ Acknowledge
        BY <2>4 DEF LookupFinds, LookupMisses, LookupFails, PostAccepted, PostRefused,
               PostTimesOut, ReplyArrives, ReplyFails, Schedule, Delete, DeleteFails,
               CommitInbox, Acknowledge
    <2> QED BY <1>3, <2>1, <2>2, <2>3, <2>4 DEF JobStep
<1>4. CASE Stream
    BY <1>4, ObservedEffect DEF Stream, StreamReceives, StreamLoses, StreamAppends, ObserverType
<1>5. CASE Reconciliation
    <2>1. ASSUME NEW p \in Passes, PassAppends(p)
          PROVE  UNCHANGED <<proj, log>> \/ \E m \in Observation : Observes(m)
        BY <2>1, ObservedEffect DEF PassAppends, ObserverType
    <2> QED BY <1>5, <2>1 DEF Reconciliation, PassLists, PassBinds
<1>6. CASE Broker
    BY <1>6 DEF Broker, BrokerUpdates, OrphanArrives
<1>7. CASE WorkerCrash \/ RedisLoss
    BY <1>7 DEF WorkerCrash, RedisLoss
<1>8. CASE UNCHANGED vars
    BY <1>8 DEF vars
<1> QED BY <1>1, <1>2, <1>3, <1>4, <1>5, <1>6, <1>7, <1>8 DEF Next

\* An intent that is past pending stays so, and one that is past its doubt, too.
LEMMA PastStaysPast ==
    ASSUME TypeOK, OnlyConfirmedOrders, [Next]_vars, NEW o \in Orders,
           proj[o] \notin {"draft", "pending_submission"}
    PROVE  /\ proj'[o] \notin {"draft", "pending_submission"}
           /\ proj[o] # "reconciling" => proj'[o] # "reconciling"
<1>1. CASE UNCHANGED <<proj, log>>
    BY <1>1
<1>2. ASSUME NEW q \in Orders, Confirm(q)
      PROVE  proj'[o] = proj[o]
    BY <1>2 DEF Confirm, OnlyConfirmedOrders, TypeOK, DatabaseType
<1>3. ASSUME NEW m \in Observation, Observes(m)
      PROVE  proj'[o] \in {proj[o]} \cup RemoteStatus
    BY <1>3 DEF Observes, Observation, TypeOK, DatabaseType
<1>4. CASE RecordsDoubt
    BY <1>4 DEF RecordsDoubt, TypeOK, DatabaseType
<1>5. CASE RecordsRequest
    BY <1>5 DEF RecordsRequest, TypeOK, DatabaseType
<1> QED BY <1>1, <1>2, <1>3, <1>4, <1>5, WhoRecords DEF RemoteStatus

\* Everyone but the job processor leaves what it holds, and the inbox, alone.
LEMMA ProcessorAlone ==
    ASSUME Api \/ Stream \/ Reconciliation \/ Broker \/ UNCHANGED vars
    PROVE  UNCHANGED <<pc, job, snap, inbox>>
BY DEF Api, Confirm, RequestCancel, Publish, PublishUncommitted, Stream, StreamReceives,
       StreamLoses, StreamAppends, Reconciliation, PassLists, PassBinds, PassAppends,
       Broker, BrokerUpdates, OrphanArrives, vars, eventVars, workerVars

\* The log forgets nothing, and a doubt is recorded only of the current order.
LEMMA DoubtIsCurrent ==
    ASSUME TypeOK, [Next]_vars
    PROVE  /\ log \subseteq log'
           /\ \A o \in Orders : ReconcileId(o) \in log' \ log => RecordsDoubt /\ o = Current
<1>1. \A m \in Observation, o \in Orders : m # ReconcileId(o)
    BY DEF Observation, ReconcileId
<1>2. \A o, q \in Orders : ReconcileId(o) = ReconcileId(q) => o = q
    BY DEF ReconcileId
<1>3. CASE UNCHANGED <<proj, log>>
    BY <1>3
<1>4. ASSUME NEW q \in Orders, Confirm(q) PROVE log' = log
    BY <1>4 DEF Confirm
<1>5. ASSUME NEW m \in Observation, Observes(m)
      PROVE  log \subseteq log' /\ \A o \in Orders : ReconcileId(o) \in log' => ReconcileId(o) \in log
    BY <1>1, <1>5 DEF Observes
<1>6. CASE RecordsDoubt
    <2>1. Current \in Orders
        BY <1>6, OrderOfJob DEF RecordsDoubt, MarkReconciling, TypeOK, WorkerType, Current
    <2> QED BY <1>2, <1>6, <2>1 DEF RecordsDoubt
<1>7. CASE RecordsRequest
    <2>1. \A o \in Orders : ReconcileId(o) # [cancel |-> job.of]
        BY DEF ReconcileId
    <2> QED BY <1>7, <2>1 DEF RecordsRequest
<1> QED BY <1>3, <1>4, <1>5, <1>6, <1>7, WhoRecords

\* Doubts and observations on record show in the projection.
LEMMA RecordStep ==
    ASSUME TypeOK, OnlyConfirmedOrders, TraceInvariant, [Next]_vars
    PROVE  /\ \A o \in Orders : proj'[o] = "reconciling" => ReconcileId(o) \in log'
           /\ \A m \in Observation :
                  m \in log' => proj'[m.order] \notin {"draft", "pending_submission", "reconciling"}
<1>1. ASSUME NEW o \in Orders, proj'[o] = "reconciling"
      PROVE  ReconcileId(o) \in log'
    <2>1. CASE proj[o] = "reconciling"
        BY <2>1, DoubtIsCurrent DEF TraceInvariant
    <2>2. CASE proj[o] # "reconciling"
        <3>1. ASSUME NEW q \in Orders, Confirm(q) PROVE FALSE
            BY <1>1, <2>2, <3>1 DEF Confirm, TypeOK, DatabaseType
        <3>2. ASSUME NEW m \in Observation, Observes(m) PROVE FALSE
            BY <1>1, <2>2, <3>2 DEF Observes, Observation, RemoteStatus, TypeOK, DatabaseType
        <3>3. ~RecordsRequest
            BY <1>1, <2>2 DEF RecordsRequest, TypeOK, DatabaseType
        <3>4. RecordsDoubt => ReconcileId(o) \in log'
            BY <1>1, <2>2 DEF RecordsDoubt, TypeOK, DatabaseType
        <3> QED BY <1>1, <2>2, <3>1, <3>2, <3>3, <3>4, WhoRecords
    <2> QED BY <2>1, <2>2
<1>2. ASSUME NEW m \in Observation, m \in log'
      PROVE  proj'[m.order] \notin {"draft", "pending_submission", "reconciling"}
    <2>0. m.order \in Orders
        BY DEF Observation
    <2>1. CASE m \in log
        BY <2>0, <2>1, PastStaysPast DEF TraceInvariant
    <2>2. CASE m \notin log
        <3>1. \A o \in Orders : m # ReconcileId(o)
            BY DEF Observation, ReconcileId
        <3>2. \A c : m # [cancel |-> c]
            BY DEF Observation
        <3>3. ASSUME NEW q \in Orders, Confirm(q) PROVE FALSE
            BY <1>2, <2>2, <3>3 DEF Confirm
        <3>4. ~RecordsRequest
            BY <1>2, <2>2, <3>2 DEF RecordsRequest
        <3>5. ~RecordsDoubt
            BY <1>2, <2>2, <3>1, OrderOfJob
            DEF RecordsDoubt, MarkReconciling, TypeOK, WorkerType, Current
        <3>6. PICK n \in Observation : Observes(n)
            BY <1>2, <2>2, <3>3, <3>4, <3>5, WhoRecords
        <3>7. m = n
            BY <1>2, <2>2, <3>6 DEF Observes
        <3> QED BY <2>0, <3>6, <3>7 DEF Observes, Observation, RemoteStatus, TypeOK, DatabaseType
    <2> QED BY <2>1, <2>2
<1> QED BY <1>1, <1>2

\* A processor that keeps its order and what it read keeps what follows from it.
LEMMA ProcessorKeeps ==
    ASSUME TypeOK, OnlyConfirmedOrders, TraceInvariant, [Next]_vars,
           pc # "idle", Current' = Current, job'.kind = job.kind, job'.of = job.of,
           inbox' = inbox, ~RecordsDoubt
    PROVE  /\ pc \in Asking /\ snap' = snap =>
                  /\ job'.kind # "cancel"
                  /\ snap' = "pending_submission" => ReconcileId(Current') \notin log'
                  /\ snap' # "pending_submission" => proj'[Current'] # "pending_submission"
           /\ \/ pc \in {"schedule", "commit"} /\ job'.kind # "cancel"
              \/ pc \in Asking /\ snap # "pending_submission"
              => proj'[Current'] # "pending_submission"
           /\ pc # "ack" /\ job'.kind = "submit" => job'.of \notin inbox'
<1>1. Current \in Orders /\ proj[Current] # "draft"
    BY OrderOfJob DEF TypeOK, WorkerType, Current, OnlyConfirmedOrders
<1>2. proj[Current] # "pending_submission" => proj'[Current] # "pending_submission"
    BY <1>1, PastStaysPast
<1>3. ReconcileId(Current) \in log' => ReconcileId(Current) \in log
    BY <1>1, DoubtIsCurrent
<1> QED BY <1>2, <1>3 DEF TraceInvariant, ProcessorTrace

\* What the processor read and did bears on its order through a step.
LEMMA ProcessorStep ==
    ASSUME TypeOK, OnlyConfirmedOrders, CancelInvariant, DoubtInvariant, TraceInvariant,
           [Next]_vars
    PROVE  ProcessorTrace'
<1>2. CASE UNCHANGED <<pc, job, snap, inbox>>
    <2>1. CASE pc = "idle"
        BY <1>2, <2>1 DEF ProcessorTrace, Asking
    <2>2. CASE pc # "idle"
        <3>1. Current' = Current /\ ~RecordsDoubt
            BY <1>2 DEF Current, RecordsDoubt, MarkReconciling, Goto
        <3> QED BY <1>2, <2>2, <3>1, ProcessorKeeps
                DEF TraceInvariant, ProcessorTrace, ReconcileId
    <2> QED BY <2>1, <2>2
<1>4. ASSUME UNCHANGED <<job, inbox>>, pc # "idle", ~RecordsDoubt,
             \/ /\ pc \in Asking /\ pc' \in Asking /\ snap' = snap
                /\ pc' = "posting" => snap = "pending_submission"
             \/ pc \in Asking /\ pc' = "schedule" /\ snap # "pending_submission"
             \/ pc = "schedule" /\ pc' = "commit"
      PROVE  ProcessorTrace'
    <2>1. Current' = Current
        BY <1>4 DEF Current
    <2> QED BY <1>4, <2>1, ProcessorKeeps DEF ProcessorTrace, Asking, ReconcileId, TraceInvariant
<1> USE DEF TypeOK, brokerVars, postVars, queueVars, eventVars, streamVars, workerVars
<1>1. ASSUME NEW j \in Job, StartJob(j) PROVE ProcessorTrace'
    <2>1. /\ job' = j /\ Current' = OrderOf(j) /\ OrderOf(j) \in Orders
          /\ UNCHANGED <<proj, log, inbox>>
          /\ j.kind # "cancel" => snap' = proj[OrderOf(j)]
          /\ pc' = IF j.kind # "reconcile" /\ j.of \in inbox THEN "ack" ELSE FirstStep(j)
        BY <1>1, OrderOfJob DEF StartJob, Current
    <2>2. pc' = "lookup" => j.kind # "cancel"
        BY <2>1 DEF FirstStep
    <2>3. pc' \in {"schedule", "commit"} /\ j.kind # "cancel" => proj[OrderOf(j)] \in TerminalStates
        BY <2>1 DEF FirstStep
    <2>4. pc' \in {"ack", "commit", "lookup", "schedule", "recordCancel"}
        BY <2>1 DEF FirstStep
    <2>5. proj[OrderOf(j)] = "pending_submission" => ReconcileId(OrderOf(j)) \notin log
        BY <2>1 DEF DoubtInvariant
    <2>6. ReconcileId(OrderOf(j))' = ReconcileId(OrderOf(j))
        BY DEF ReconcileId
    <2> QED BY <2>1, <2>2, <2>3, <2>4, <2>5, <2>6
            DEF ProcessorTrace, Asking, TerminalStates, ReconcileId
<1>3. CASE RedisLoss
    <2>1. UNCHANGED <<pc, snap, inbox, log, proj>>
        BY <1>3 DEF RedisLoss
    <2>2. CASE pc = "idle"
        BY <2>1, <2>2 DEF ProcessorTrace, Asking
    <2>3. CASE pc # "idle"
        <3>1. job' = [job EXCEPT !.left = 0] /\ job \in Job
            BY <1>3, <2>3 DEF RedisLoss, WorkerType
        <3>2. job'.kind = job.kind /\ job'.of = job.of
            BY <3>1 DEF Job
        <3>3. Current' = Current
            BY <3>2 DEF Current, OrderOf
        <3> QED BY <2>1, <3>2, <3>3 DEF TraceInvariant, ProcessorTrace, ReconcileId
    <2> QED BY <2>2, <2>3
<1>5. ASSUME pc' \in {"idle", "ack"} PROVE ProcessorTrace'
    BY <1>5 DEF ProcessorTrace, Asking
<1>6. ASSUME UNCHANGED job, job.kind = "cancel", pc' \in {"delete", "schedule"}
      PROVE  ProcessorTrace'
    BY <1>6 DEF ProcessorTrace, Asking
<1>7. CASE LookupFinds \/ LookupFails \/ PostAccepted \/ PostTimesOut \/ ReplyArrives
           \/ ReplyFails \/ PostRefused
    BY <1>4, <1>5, <1>7
    DEF LookupFinds, LookupFails, PostAccepted, PostTimesOut, ReplyArrives, ReplyFails,
        PostRefused, Goto, JobFails, BecomeIdle, Asking, RecordsDoubt, MarkReconciling
<1>8. CASE LookupMisses
    BY <1>4, <1>8 DEF LookupMisses, DoubtInvariant, Goto, Asking, RecordsDoubt, MarkReconciling
<1>9. CASE AppendReply
    <2>1. CASE Throws(Current, reply.status, reply)
        BY <1>5, <1>9, <2>1 DEF AppendReply, JobFails, BecomeIdle
    <2>2. CASE ~Throws(Current, reply.status, reply)
        <3>1. /\ reply \in Observation /\ reply.order = Current /\ Current \in Orders
              /\ job' = job /\ inbox' = inbox /\ pc' = "commit" /\ Current' = Current
              /\ AppendOrderEvent(Current, reply.status, reply)
            BY <1>9, <2>2, OrderOfJob
            DEF AppendReply, CommandEnds, WorkerType, Current, AppendObserved
        <3>2. StateAfter(proj[Current], reply.status) = reply.status /\ reply.status \in RemoteStatus
            BY <3>1, RemoteEventIsItsStatus DEF Observation
        <3>3. proj'[Current] # "pending_submission"
            BY <3>1, <3>2 DEF AppendOrderEvent, TraceInvariant, DatabaseType, RemoteStatus
        <3> QED BY <1>9, <3>1, <3>3 DEF AppendReply, ProcessorTrace, Asking, TraceInvariant
    <2> QED BY <2>1, <2>2
<1>10. CASE MarkReconciling
    <2>1. CASE RecordsDoubt
        <3>1. /\ Current \in Orders /\ Current' = Current /\ pc' = "schedule"
              /\ UNCHANGED <<job, inbox>>
            BY <1>10, <2>1, OrderOfJob DEF RecordsDoubt, MarkReconciling, Goto, WorkerType, Current
        <3>2. proj'[Current] = "reconciling"
            BY <2>1, <3>1 DEF RecordsDoubt, DatabaseType
        <3> QED BY <1>10, <3>1, <3>2 DEF ProcessorTrace, Asking, TraceInvariant, MarkReconciling
    <2>2. CASE ~RecordsDoubt
        <3>1. snap = "pending_submission" => ReconcileId(Current) \notin log
            BY <1>10 DEF MarkReconciling, TraceInvariant, ProcessorTrace, Asking
        <3>2. Current \in Orders
            BY <1>10, OrderOfJob DEF MarkReconciling, WorkerType, Current
        <3>3. /\ proj[Current] \in LocalOrderState
              /\ Accepts(proj[Current], "command.reconciling") => proj[Current] = "pending_submission"
              /\ \A s : StateAfter(s, "command.reconciling") = "reconciling"
            BY <3>2, CommandsAreGuarded DEF DatabaseType, StateAfter
        <3>4. snap = "pending_submission" => pc' = "idle"
            BY <1>10, <2>2, <3>1, <3>3
            DEF MarkReconciling, RecordsDoubt, AppendOrderEvent, JobFails, BecomeIdle, DatabaseType
        <3>5. snap # "pending_submission" => pc' = "schedule" /\ UNCHANGED <<job, inbox>>
            BY <1>10 DEF MarkReconciling, Goto
        <3> QED BY <1>4, <1>5, <1>10, <2>2, <3>4, <3>5 DEF MarkReconciling, Asking
    <2> QED BY <2>1, <2>2
<1>11. CASE Schedule
    BY <1>4, <1>5, <1>11
    DEF Schedule, CommandEnds, JobFails, BecomeIdle, RecordsDoubt, MarkReconciling
<1>12. CASE RecordCancel \/ Delete \/ DeleteFails
    BY <1>5, <1>6, <1>12
    DEF RecordCancel, Delete, DeleteFails, Goto, JobFails, BecomeIdle, WorkerType, CancelInvariant
<1>13. CASE CommitInbox \/ Acknowledge \/ WorkerCrash
    BY <1>5, <1>13 DEF CommitInbox, Acknowledge, WorkerCrash, Goto, BecomeIdle
<1> QED BY <1>1, <1>2, <1>3, <1>7, <1>8, <1>9, <1>10, <1>11, <1>12, <1>13, ProcessorAlone
        DEF Next, Start, JobStep

\* A command is consumed when its own job commits.
LEMMA ConsumedAtCommit ==
    ASSUME TypeOK, [Next]_vars, NEW o \in Orders, o \in inbox', o \notin inbox
    PROVE  CommitInbox /\ job.kind = "submit" /\ job.of = o /\ Current = o
<1>1. CommitInbox
    BY ProcessorAlone
    DEF Next, Start, StartJob, JobStep, LookupFinds, LookupMisses, LookupFails,
        PostAccepted, PostRefused, PostTimesOut, ReplyArrives, ReplyFails, AppendReply,
        MarkReconciling, Schedule, RecordCancel, Delete, DeleteFails, Acknowledge,
        WorkerCrash, RedisLoss, eventVars
<1>2. job.of = o /\ job \in Job /\ job.kind # "reconcile"
    BY <1>1 DEF CommitInbox, TypeOK, WorkerType
<1> QED BY <1>1, <1>2, CommandsAssumption DEF Job, Current, OrderOf

\* The trace of submissions through a step.
LEMMA TraceStep ==
    ASSUME TypeOK, OnlyConfirmedOrders, CancelInvariant, DoubtInvariant, TraceInvariant,
           [Next]_vars
    PROVE  TraceInvariant'
<1>1. ASSUME NEW o \in Orders, o \in inbox' PROVE proj'[o] \notin {"draft", "pending_submission"}
    <2>1. CASE o \in inbox
        BY <2>1, PastStaysPast DEF TraceInvariant
    <2>2. CASE o \notin inbox
        <3>1. CommitInbox /\ job.kind = "submit" /\ Current = o
            BY <1>1, <2>2, ConsumedAtCommit
        <3>2. job.kind # "cancel" /\ pc = "commit" /\ proj' = proj /\ outbox[o] # "none"
            BY <3>1 DEF CommitInbox, OnlyConfirmedOrders
        <3> QED BY <3>1, <3>2 DEF TraceInvariant, ProcessorTrace, OnlyConfirmedOrders
    <2> QED BY <2>1, <2>2
<1> QED BY <1>1, RecordStep, ProcessorStep DEF TraceInvariant

\* Counters of faults only grow, and a refusal is not taken back.
LEMMA CountersGrow ==
    ASSUME TypeOK, [Next]_vars
    PROVE  /\ \A k \in FaultKind : faults[k] <= faults'[k] /\ faults[k] \in Nat /\ faults'[k] \in Nat
           /\ \A o \in Orders : refused'[o] = "no" => refused[o] = "no"
           /\ WorkerCrash => faults'["crash"] = faults["crash"] + 1
           /\ RedisLoss => faults'["redis"] = faults["redis"] + 1
<1>1. faults' = faults \/ \E k \in FaultKind : Fault(k)
    BY DEF Next, vars, Api, Confirm, RequestCancel, Publish, PublishUncommitted, Start, StartJob,
           JobStep, LookupFinds, LookupMisses, LookupFails, PostAccepted, PostRefused,
           PostTimesOut, ReplyArrives, ReplyFails, AppendReply, MarkReconciling, Schedule,
           RecordCancel, Delete, DeleteFails, CommitInbox, Acknowledge, Stream,
           StreamReceives, StreamLoses, StreamAppends, Reconciliation, PassLists, PassBinds,
           PassAppends, Broker, BrokerUpdates, OrphanArrives, WorkerCrash, RedisLoss, FaultKind
<1>2. \A k \in FaultKind : faults[k] <= faults'[k] /\ faults[k] \in Nat /\ faults'[k] \in Nat
    BY <1>1 DEF Fault, TypeOK, HistoryType
<1>3. PostRefused \/ refused' = refused
    BY DEF Next, vars, postVars, Api, Confirm, RequestCancel, Publish, PublishUncommitted, Start,
           StartJob, JobStep, LookupFinds, LookupMisses, LookupFails, PostAccepted,
           PostTimesOut, ReplyArrives, ReplyFails, AppendReply, MarkReconciling, Schedule,
           RecordCancel, Delete, DeleteFails, CommitInbox, Acknowledge, Stream,
           StreamReceives, StreamLoses, StreamAppends, Reconciliation, PassLists, PassBinds,
           PassAppends, Broker, BrokerUpdates, OrphanArrives, WorkerCrash, RedisLoss
<1>4. \A o \in Orders : refused'[o] = "no" => refused[o] = "no"
    BY <1>3 DEF PostRefused, Refuse, TypeOK, HistoryType
<1>5. WorkerCrash => faults'["crash"] = faults["crash"] + 1
    BY DEF WorkerCrash, Fault, TypeOK, HistoryType, FaultKind
<1>6. RedisLoss => faults'["redis"] = faults["redis"] + 1
    BY DEF RedisLoss, Fault, TypeOK, HistoryType, FaultKind
<1> QED BY <1>2, <1>4, <1>5, <1>6

\* A POST is sent by a lookup that finds no order for an intent that was pending.
LEMMA PostIsSent ==
    ASSUME TypeOK, DoubtInvariant, [Next]_vars, NEW o \in Orders, sent'[o] # sent[o]
    PROVE  /\ pc = "lookup" /\ pc' = "posting" /\ Current = o /\ Current' = o
           /\ snap = "pending_submission" /\ snap' = snap
           /\ status[o] = "absent" /\ ReconcileId(o) \notin log
           /\ sent'[o] = sent[o] + 1
<1>1. LookupMisses
    BY DEF Next, vars, Api, Confirm, RequestCancel, Publish, PublishUncommitted, Start,
           StartJob, JobStep, LookupFinds, LookupFails, PostAccepted, PostRefused,
           PostTimesOut, ReplyArrives, ReplyFails, AppendReply, MarkReconciling,
           Schedule, RecordCancel, Delete, DeleteFails, CommitInbox, Acknowledge,
           Stream, StreamReceives, StreamLoses, StreamAppends, Reconciliation,
           PassLists, PassBinds, PassAppends, Broker, BrokerUpdates, OrphanArrives,
           WorkerCrash, RedisLoss, postVars
<1>2. /\ snap # "reconciling" /\ Goto("posting")
      /\ sent' = [sent EXCEPT ![Current] = @ + 1]
    BY <1>1 DEF LookupMisses
<1>3. Current = o /\ sent'[o] = sent[o] + 1
    BY <1>2 DEF TypeOK, HistoryType
<1> QED BY <1>1, <1>2, <1>3 DEF LookupMisses, DoubtInvariant, Goto, Current

\* The end of a submission that is neither answered nor marked is an order at the
\* broker, a doubt on record, a refusal or a crash.
LEMMA SubmittingEnds ==
    ASSUME TypeOK, ReportsArePast, NeverAheadOfBroker, OnlyConfirmedOrders, DoubtInvariant,
           TraceInvariant, [Next]_vars, NEW o \in Orders, Submitting(o), ~Submitting(o)'
    PROVE  status'[o] # "absent" \/ ReconcileId(o) \in log' \/ refused'[o] # "no" \/ WorkerCrash
<1> USE DEF Submitting
<1>1. ~UNCHANGED <<pc, job, snap>>
    BY DEF Current
<1>2. ~RedisLoss
    <2>1. RedisLoss => pc' = pc /\ snap' = snap /\ job' = [job EXCEPT !.left = 0] /\ job \in Job
        BY DEF RedisLoss, TypeOK, WorkerType
    <2> QED BY <2>1 DEF Job, Current, OrderOf
<1>3. CASE JobStep
    <2>1. CASE pc = "posting"
        <3>1. PostAccepted \/ PostRefused \/ PostTimesOut
            BY <1>3, <2>1 DEF JobStep, LookupFinds, LookupMisses, LookupFails, ReplyArrives,
                   ReplyFails, AppendReply, MarkReconciling, Schedule, RecordCancel, Delete,
                   DeleteFails, CommitInbox, Acknowledge
        <3>2. ~PostTimesOut
            BY DEF PostTimesOut, Goto, Current
        <3>3. PostAccepted => status'[o] # "absent"
            BY DEF PostAccepted, BrokerAccepts, TypeOK, BrokerType
        <3>4. PostRefused => refused'[o] # "no"
            BY DEF PostRefused, Refuse, TypeOK, HistoryType
        <3> QED BY <3>1, <3>2, <3>3, <3>4
    <2>2. CASE pc = "mark"
        <3>1. MarkReconciling
            BY <1>3, <2>2 DEF JobStep, LookupFinds, LookupMisses, LookupFails, PostAccepted,
                   PostRefused, PostTimesOut, ReplyArrives, ReplyFails, AppendReply, Schedule,
                   RecordCancel, Delete, DeleteFails, CommitInbox, Acknowledge
        <3>2. CASE AppendOrderEvent(o, "command.reconciling", ReconcileId(o))
            BY <3>2, DoubtIsCurrent DEF AppendOrderEvent
        <3>3. CASE Throws(o, "command.reconciling", ReconcileId(o)) /\ proj' = proj /\ status' = status
            <4>1. proj[o] # "pending_submission" /\ proj[o] # "reconciling" /\ proj[o] # "draft"
                BY <3>3, AllowedTable, <2>2
                DEF Throws, Accepts, TerminalStates, TraceInvariant, OnlyConfirmedOrders
            <4>2. proj[o] \in RemoteStatus \cup {"cancel_pending"}
                BY <4>1 DEF DoubtInvariant, TypeOK, DatabaseType, LocalOrderState
            <4> QED BY <3>3, <4>2 DEF DoubtInvariant, NeverAheadOfBroker, Reported, Reached
        <3> QED BY <3>1, <3>2, <3>3 DEF MarkReconciling, brokerVars
    <2> QED BY <2>1, <2>2
<1>4. ~Start
    BY DEF Start, StartJob
<1> QED BY <1>1, <1>2, <1>3, <1>4, ProcessorAlone DEF Next

\* The count of requests through a step.
LEMMA PostStep ==
    ASSUME TypeOK, ReportsArePast, NeverAheadOfBroker, OnlyConfirmedOrders, DoubtInvariant,
           TraceInvariant, PostInvariant, [Next]_vars
    PROVE  PostInvariant'
<1> SUFFICES ASSUME NEW o \in Orders, refused'[o] = "no"
             PROVE  /\ sent'[o] <= 1 + faults'["crash"]
                    /\ sent'[o] <= faults'["crash"] \/ status'[o] # "absent"
                       \/ ReconcileId(o) \in log' \/ Submitting(o)'
    BY DEF PostInvariant, ReconcileId
<1>1. /\ faults["crash"] \in Nat /\ faults'["crash"] \in Nat /\ faults["crash"] <= faults'["crash"]
      /\ refused[o] = "no" /\ sent[o] \in Nat
      /\ WorkerCrash => faults'["crash"] = faults["crash"] + 1
    BY CountersGrow DEF FaultKind, TypeOK, HistoryType
<1>2. /\ sent[o] <= 1 + faults["crash"]
      /\ sent[o] <= faults["crash"] \/ status[o] # "absent" \/ ReconcileId(o) \in log \/ Submitting(o)
    BY <1>1 DEF PostInvariant
<1>3. CASE sent'[o] # sent[o]
    <2>1. ~Submitting(o) /\ Submitting(o)'
        BY <1>3, PostIsSent DEF Submitting
    <2> QED BY <1>1, <1>2, <1>3, <2>1, PostIsSent
<1>4. CASE sent'[o] = sent[o]
    <2>1. sent'[o] <= 1 + faults'["crash"]
        BY <1>1, <1>2, <1>4
    <2>2. CASE sent[o] <= faults["crash"]
        BY <1>1, <1>4, <2>1, <2>2
    <2>3. CASE status[o] # "absent" \/ ReconcileId(o) \in log
        BY <2>1, <2>3, StatusStays, DoubtIsCurrent
    <2>4. CASE Submitting(o) /\ ~Submitting(o)'
        <3>1. WorkerCrash => sent'[o] <= faults'["crash"]
            BY <1>1, <1>2, <1>4
        <3> QED BY <2>1, <2>4, <3>1, SubmittingEnds
    <2> QED BY <1>2, <2>1, <2>2, <2>3, <2>4
<1> QED BY <1>3, <1>4

\* A waiting job waits until it is handed out, or Redis loses it.
LEMMA WaitingStays ==
    ASSUME TypeOK, [Next]_vars, ~RedisLoss, NEW j \in Job, jobs[j] > 0, ~StartJob(j)
    PROVE  jobs'[j] > 0
<1> USE DEF TypeOK, QueueType, brokerVars, postVars, queueVars, eventVars, streamVars, workerVars
<1>1. ASSUME NEW e \in Commands, QueueAdd(e) PROVE jobs'[j] > 0
    BY <1>1 DEF QueueAdd
<1>2. CASE Api
    BY <1>1, <1>2 DEF Api, Confirm, RequestCancel, Publish, PublishUncommitted
<1>3. CASE Start
    BY <1>3 DEF Start, StartJob
<1>4. CASE JobStep
    BY <1>4 DEF JobStep, LookupFinds, LookupMisses, LookupFails, PostAccepted, PostRefused,
           PostTimesOut, ReplyArrives, ReplyFails, AppendReply, MarkReconciling, Schedule,
           RecordCancel, Delete, DeleteFails, CommitInbox, Acknowledge
<1>5. CASE WorkerCrash
    BY <1>5 DEF WorkerCrash
<1>6. CASE Stream \/ Reconciliation \/ Broker \/ UNCHANGED vars
    BY <1>6 DEF Stream, StreamReceives, StreamLoses, StreamAppends, Reconciliation, PassLists,
           PassBinds, PassAppends, Broker, BrokerUpdates, OrphanArrives, vars
<1> QED BY <1>2, <1>3, <1>4, <1>5, <1>6 DEF Next

\* What has not been lost by now was not lost before.
LEMMA NothingWasLost ==
    ASSUME TypeOK, [Next]_vars, NothingIsLost'
    PROVE  /\ NothingIsLost /\ ~RedisLoss
           /\ faults["fatal"] = faults'["fatal"] /\ faults["queue"] = faults'["queue"]
<1>1. /\ faults["redis"] \in Nat /\ faults["queue"] \in Nat /\ faults["fatal"] \in Nat
      /\ faults'["redis"] \in Nat /\ faults'["queue"] \in Nat /\ faults'["fatal"] \in Nat
      /\ faults["redis"] <= faults'["redis"]
      /\ faults["queue"] <= faults'["queue"]
      /\ faults["fatal"] <= faults'["fatal"]
    BY CountersGrow DEF FaultKind
<1>2. faults'["redis"] = 0 /\ faults'["queue"] = 0 /\ faults'["fatal"] = 0
    <2>1. faults'["redis"] + faults'["queue"] + faults'["fatal"] = 0
        BY DEF NothingIsLost
    <2>2. \A a, b, c \in Nat : a + b + c = 0 => a = 0 /\ b = 0 /\ c = 0
        OBVIOUS
    <2> QED BY <1>1, <2>1, <2>2
<1>3. RedisLoss => faults'["redis"] = faults["redis"] + 1
    BY CountersGrow
<1>4. faults["redis"] = 0 /\ faults["queue"] = 0 /\ faults["fatal"] = 0
    BY <1>1, <1>2
<1> QED BY <1>2, <1>3, <1>4 DEF NothingIsLost

\* Before the first crash a job that waits or runs has not been handed out before.
LEMMA FreshStep ==
    ASSUME TypeOK, TrackInvariant, [Next]_vars, NothingIsLost', faults'["crash"] = 0
    PROVE  /\ \A j \in Job : jobs'[j] > 0 => j.left = 1
           /\ pc' # "idle" => job'.left = 1
<1> USE DEF TypeOK, QueueType, brokerVars, postVars, queueVars, eventVars, streamVars, workerVars
<1>1. /\ NothingIsLost /\ faults["crash"] = 0
      /\ ~WorkerCrash /\ ~RedisLoss
    <2>1. faults["crash"] <= faults'["crash"] /\ faults["crash"] \in Nat
        BY CountersGrow DEF FaultKind
    <2>2. WorkerCrash => faults'["crash"] = faults["crash"] + 1
        BY CountersGrow
    <2> QED BY <2>1, <2>2, NothingWasLost
<1>2. (\A j \in Job : jobs[j] > 0 => j.left = 1) /\ (pc # "idle" => job.left = 1)
    BY <1>1 DEF TrackInvariant
<1>3. CASE Api
    <2>1. \A e \in Commands : CommandJob(e).left = 1
        BY DEF CommandJob
    <2>2. ASSUME NEW e \in Commands, QueueAdd(e)
          PROVE  \A j \in Job : jobs'[j] > 0 => j.left = 1
        BY <1>2, <2>1, <2>2 DEF QueueAdd
    <2> QED BY <1>2, <1>3, <2>2 DEF Api, Confirm, RequestCancel, Publish, PublishUncommitted
<1>4. CASE Start
    BY <1>2, <1>4 DEF Start, StartJob
<1>5. CASE Schedule
    BY <1>2, <1>5 DEF Schedule, ReconcileJob, CommandEnds, JobFails, BecomeIdle
<1>6. CASE JobStep /\ ~Schedule
    BY <1>2, <1>6 DEF JobStep, LookupFinds, LookupMisses, LookupFails, PostAccepted, PostRefused,
           PostTimesOut, ReplyArrives, ReplyFails, AppendReply, MarkReconciling,
           RecordCancel, Delete, DeleteFails, CommitInbox, Acknowledge, Goto, JobFails,
           BecomeIdle, CommandEnds
<1>7. CASE Stream \/ Reconciliation \/ Broker \/ UNCHANGED vars
    BY <1>2, <1>7 DEF Stream, StreamReceives, StreamLoses, StreamAppends, Reconciliation,
           PassLists, PassBinds, PassAppends, Broker, BrokerUpdates, OrphanArrives, vars
<1> QED BY <1>1, <1>3, <1>4, <1>5, <1>6, <1>7 DEF Next

\* A processor that asks for an order in doubt keeps its job, or leaves another.
LEMMA ProcessorTracks ==
    ASSUME TypeOK, CancelInvariant, TraceInvariant, JobStep, NothingIsLost',
           pc \notin {"commit", "ack"}, job.kind # "cancel",
           proj[Current] = "reconciling", proj'[Current] = "reconciling"
    PROVE  \/ pc' \notin {"idle", "commit", "ack"} /\ job' = job
           \/ jobs'[ReconcileJob(Current)] > 0
<1> USE DEF TypeOK, brokerVars, postVars, queueVars, eventVars, streamVars, workerVars
<1>1. ASSUME NEW k \in {"fatal", "queue"}, Fault(k) PROVE FALSE
    BY <1>1 DEF Fault, NothingIsLost, HistoryType, FaultKind
<1>2. job \in Job /\ Current \in Orders /\ ReconcileId(Current) \in log
    BY OrderOfJob DEF JobStep, LookupFinds, LookupMisses, LookupFails, PostAccepted, PostRefused,
           PostTimesOut, ReplyArrives, ReplyFails, AppendReply, MarkReconciling, Schedule,
           RecordCancel, Delete, DeleteFails, CommitInbox, Acknowledge, WorkerType, Current,
           TraceInvariant
<1>3. CASE LookupFinds \/ LookupMisses \/ LookupFails \/ PostAccepted \/ PostTimesOut
           \/ ReplyArrives \/ ReplyFails
    BY <1>1, <1>3 DEF LookupFinds, LookupMisses, LookupFails, PostAccepted, PostTimesOut,
           ReplyArrives, ReplyFails, Goto
<1>4. ~PostRefused
    BY <1>2 DEF PostRefused, TraceInvariant, ProcessorTrace, Asking
<1>5. ~AppendReply
    <2> SUFFICES ASSUME AppendReply PROVE FALSE
        OBVIOUS
    <2>1. reply \in Observation /\ reply.order = Current /\ AppendObserved(reply)
        BY DEF AppendReply, WorkerType
    <2>2. reply \notin log /\ reply.status \in RemoteStatus
        BY <2>1 DEF TraceInvariant, Observation
    <2>3. Accepts(proj[Current], reply.status)
        BY <2>2, AllowedTable DEF Accepts, TerminalStates
    <2>4. AppendOrderEvent(Current, reply.status, reply)
        BY <2>1, <2>3 DEF AppendObserved, Throws
    <2>5. StateAfter(proj[Current], reply.status) = reply.status
        BY <2>2, RemoteEventIsItsStatus
    <2> QED BY <1>2, <2>2, <2>4, <2>5 DEF AppendOrderEvent, DatabaseType, RemoteStatus
<1>6. CASE MarkReconciling
    BY <1>2, <1>6 DEF MarkReconciling, TraceInvariant, ProcessorTrace, Asking, Goto
<1>7. CASE Schedule
    <2>1. ReconcileJob(Current) \in Job
        BY <1>2 DEF ReconcileJob, Job
    <2> QED BY <1>1, <1>7, <2>1, BoundsAssumption DEF Schedule, QueueType
<1>8. ~RecordCancel /\ ~Delete /\ ~DeleteFails /\ ~CommitInbox /\ ~Acknowledge
    BY DEF RecordCancel, Delete, DeleteFails, CommitInbox, Acknowledge, WorkerType, CancelInvariant
<1> QED BY <1>3, <1>4, <1>5, <1>6, <1>7, <1>8 DEF JobStep

\* An order in doubt is looked after through a step.
LEMMA DoubtIsTracked ==
    ASSUME TypeOK, OnlyConfirmedOrders, CancelInvariant, TraceInvariant, TrackInvariant,
           [Next]_vars, NothingIsLost', faults'["crash"] <= 1,
           NEW o \in Orders, proj'[o] = "reconciling"
    PROVE  \E j \in Job : LooksAfter(j, o)'
<1> USE DEF TypeOK, QueueType, brokerVars, postVars, queueVars, eventVars, streamVars, workerVars
<1>1. /\ NothingIsLost /\ ~RedisLoss /\ faults["crash"] <= 1
      /\ WorkerCrash => faults["crash"] = 0
    <2>1. faults["crash"] <= faults'["crash"] /\ faults["crash"] \in Nat /\ faults'["crash"] \in Nat
        BY CountersGrow DEF FaultKind
    <2>2. WorkerCrash => faults'["crash"] = faults["crash"] + 1
        BY CountersGrow
    <2> QED BY <2>1, <2>2, NothingWasLost
<1>2. CASE proj[o] # "reconciling"
    <2>1. ASSUME NEW q \in Orders, Confirm(q) PROVE FALSE
        BY <1>2, <2>1 DEF Confirm, DatabaseType
    <2>2. ASSUME NEW m \in Observation, Observes(m) PROVE FALSE
        BY <1>2, <2>2 DEF Observes, Observation, RemoteStatus, DatabaseType
    <2>3. RecordsDoubt
        BY <1>2, <2>1, <2>2, WhoRecords DEF RecordsRequest, DatabaseType
    <2>4. job \in Job /\ job' = job /\ pc = "mark" /\ pc' = "schedule" /\ inbox' = inbox
          /\ job.kind # "cancel" /\ Current = o
        BY <1>2, <2>3, OrderOfJob
        DEF RecordsDoubt, MarkReconciling, Goto, TraceInvariant, ProcessorTrace, Asking,
            WorkerType, DatabaseType, Current
    <2> QED BY <2>4 DEF LooksAfter, Current, OrderOf, Job, TraceInvariant, ProcessorTrace
<1>3. CASE proj[o] = "reconciling"
    <2>1. PICK j \in Job : LooksAfter(j, o)
        BY <1>1, <1>3 DEF TrackInvariant
    <2>2. j.kind # "cancel" /\ j.of = o /\ OrderOf(j) = o /\ j.kind \in {"submit", "reconcile"}
        BY <2>1 DEF LooksAfter, OrderOf, Job
    <2>3. CASE jobs[j] > 0 /\ StartJob(j)
        <3>1. j.kind = "reconcile" \/ o \notin inbox
            BY <2>1 DEF LooksAfter
        <3> QED BY <1>3, <2>2, <2>3, <3>1 DEF StartJob, FirstStep, TerminalStates, LooksAfter
    <2>4. CASE jobs[j] > 0 /\ ~StartJob(j)
        <3>1. jobs'[j] > 0
            BY <1>1, <2>4, WaitingStays
        <3>2. CASE j.kind = "reconcile" \/ o \notin inbox'
            BY <2>2, <3>1, <3>2 DEF LooksAfter
        <3>3. CASE j.kind # "reconcile" /\ o \in inbox'
            <4>1. o \notin inbox
                BY <2>1, <3>3 DEF LooksAfter
            <4>2. CommitInbox /\ job.kind = "submit" /\ Current = o /\ pc = "commit"
                BY <3>3, <4>1, ConsumedAtCommit DEF CommitInbox
            <4>3. PICK k \in Job : k.kind = "reconcile" /\ LooksAfter(k, o)
                BY <1>1, <1>3, <4>2 DEF TrackInvariant
            <4> QED BY <4>2, <4>3 DEF LooksAfter, CommitInbox
        <3> QED BY <3>2, <3>3
    <2>5. CASE job = j /\ pc \notin {"idle", "commit", "ack"}
        <3>2. o \in inbox' => o \in inbox
            BY <2>5, ConsumedAtCommit DEF CommitInbox
        <3>3. Current = o
            BY <2>2, <2>5 DEF Current
        <3>4. CASE UNCHANGED <<pc, job>>
            BY <2>1, <2>2, <2>5, <3>2, <3>4 DEF LooksAfter
        <3>5. CASE JobStep
            <4>1. CASE pc' \notin {"idle", "commit", "ack"} /\ job' = job
                BY <2>1, <2>2, <2>5, <3>2, <4>1 DEF LooksAfter
            <4>2. CASE jobs'[ReconcileJob(o)] > 0
                BY <4>2 DEF LooksAfter, ReconcileJob, Job
            <4> QED BY <1>3, <2>2, <2>5, <3>3, <3>5, <4>1, <4>2, ProcessorTracks
        <3>6. CASE WorkerCrash
            <4>1. job.left = 1
                BY <1>1, <2>5, <3>6 DEF TrackInvariant
            <4> DEFINE k == [job EXCEPT !.left = 0]
            <4>2. k \in Job /\ k.kind = j.kind /\ k.of = j.of
                BY <2>5 DEF Job
            <4>3. jobs'[k] > 0 /\ inbox' = inbox
                BY <2>5, <3>6, <4>1, <4>2, BoundsAssumption DEF WorkerCrash, Redelivers
            <4> QED BY <2>1, <2>2, <4>2, <4>3 DEF LooksAfter
        <3>7. ~Start
            BY <2>5 DEF Start, StartJob
        <3> QED BY <1>1, <3>4, <3>5, <3>6, <3>7, ProcessorAlone DEF Next
    <2> QED BY <2>1, <2>3, <2>4, <2>5 DEF LooksAfter
<1> QED BY <1>2, <1>3

\* A submit command in doubt leaves its reconcile job waiting when it commits.
LEMMA CommitIsTracked ==
    ASSUME TypeOK, TraceInvariant, TrackInvariant, [Next]_vars, NothingIsLost',
           faults'["crash"] <= 1,
           pc' = "commit", job'.kind = "submit", proj'[Current'] = "reconciling"
    PROVE  \E j \in Job : j.kind = "reconcile" /\ LooksAfter(j, Current)'
<1> USE DEF TypeOK, QueueType, brokerVars, postVars, queueVars, eventVars, streamVars, workerVars
<1>1. NothingIsLost /\ ~RedisLoss /\ faults["crash"] <= 1
    <2>1. faults["crash"] <= faults'["crash"] /\ faults["crash"] \in Nat /\ faults'["crash"] \in Nat
        BY CountersGrow DEF FaultKind
    <2> QED BY <2>1, NothingWasLost
<1>2. CASE UNCHANGED <<pc, job>>
    <2>1. job \in Job /\ Current' = Current /\ Current \in Orders
        BY <1>2, OrderOfJob DEF Current, WorkerType
    <2>2. proj[Current] = "reconciling"
        <3>1. ASSUME NEW q \in Orders, Confirm(q), proj[Current] # "reconciling" PROVE FALSE
            BY <2>1, <3>1 DEF Confirm, DatabaseType
        <3>2. ASSUME NEW m \in Observation, Observes(m), proj[Current] # "reconciling" PROVE FALSE
            BY <2>1, <3>2 DEF Observes, Observation, RemoteStatus, DatabaseType
        <3> QED BY <1>2, <2>1, <3>1, <3>2, WhoRecords
                DEF RecordsDoubt, MarkReconciling, RecordsRequest, RecordCancel
    <2>3. PICK j \in Job : j.kind = "reconcile" /\ LooksAfter(j, Current)
        BY <1>1, <1>2, <2>2 DEF TrackInvariant
    <2>4. jobs[j] > 0 /\ ~StartJob(j)
        BY <1>2, <2>3 DEF LooksAfter, StartJob
    <2> QED BY <1>1, <2>1, <2>3, <2>4, WaitingStays DEF LooksAfter
<1>3. ~Start
    <2> SUFFICES ASSUME NEW j \in Job, StartJob(j) PROVE FALSE
        BY DEF Start
    <2>1. job' = j /\ proj' = proj /\ Current' = OrderOf(j)
        BY DEF StartJob, Current
    <2>2. proj[OrderOf(j)] \in TerminalStates
        BY <2>1 DEF StartJob, FirstStep
    <2> QED BY <2>1, <2>2 DEF TerminalStates
<1>4. ~AppendReply
    <2> SUFFICES ASSUME AppendReply PROVE FALSE
        OBVIOUS
    <2>1. reply \in Observation /\ reply.order = Current /\ Current \in Orders /\ Current' = Current
          /\ AppendOrderEvent(Current, reply.status, reply)
        BY OrderOfJob
        DEF AppendReply, AppendObserved, CommandEnds, JobFails, BecomeIdle, WorkerType, Current
    <2>2. StateAfter(proj[Current], reply.status) = reply.status /\ reply.status \in RemoteStatus
        BY <2>1, RemoteEventIsItsStatus DEF Observation
    <2> QED BY <2>1, <2>2 DEF AppendOrderEvent, TraceInvariant, DatabaseType, RemoteStatus
<1>5. CASE Schedule
    <2>1. job \in Job /\ Current' = Current /\ Current \in Orders
        BY <1>5, OrderOfJob DEF Schedule, CommandEnds, JobFails, BecomeIdle, Current, WorkerType
    <2>2. ReconcileJob(Current) \in Job
        BY <2>1 DEF ReconcileJob, Job
    <2>3. jobs'[ReconcileJob(Current)] > 0
        BY <1>5, <2>2, BoundsAssumption DEF Schedule, JobFails, BecomeIdle
    <2> QED BY <2>1, <2>2, <2>3 DEF LooksAfter, ReconcileJob
<1>6. CASE JobStep /\ ~Schedule
    BY <1>4, <1>6 DEF JobStep, LookupFinds, LookupMisses, LookupFails, PostAccepted, PostRefused,
           PostTimesOut, ReplyArrives, ReplyFails, MarkReconciling, RecordCancel, Delete,
           DeleteFails, CommitInbox, Acknowledge, Goto, JobFails, BecomeIdle
<1>7. ~WorkerCrash
    BY DEF WorkerCrash, BecomeIdle
<1> QED BY <1>1, <1>2, <1>3, <1>5, <1>6, <1>7, ProcessorAlone DEF Next

\* Orders in doubt are looked after through a step.
LEMMA TrackStep ==
    ASSUME TypeOK, OnlyConfirmedOrders, CancelInvariant, TraceInvariant, TrackInvariant, [Next]_vars
    PROVE  TrackInvariant'
<1>1. ASSUME NothingIsLost', faults'["crash"] = 0
      PROVE  /\ \A j \in Job : jobs'[j] > 0 => j.left = 1
             /\ pc' # "idle" => job'.left = 1
    BY <1>1, FreshStep
<1>2. ASSUME NothingIsLost', faults'["crash"] <= 1
      PROVE  /\ \A o \in Orders : proj'[o] = "reconciling" => \E j \in Job : LooksAfter(j, o)'
             /\ pc' = "commit" /\ job'.kind = "submit" /\ proj'[Current'] = "reconciling" =>
                    \E j \in Job : j.kind = "reconcile" /\ LooksAfter(j, Current)'
    BY <1>2, DoubtIsTracked, CommitIsTracked
<1> QED BY <1>1, <1>2 DEF TrackInvariant

\* A submission is accounted for at any moment, through crashes, lost answers
\* and repeated jobs: consumed, it has left its trace; repeated, it was refused
\* or its job was handed out again; in doubt, a job looks after it.
THEOREM SubmissionsAreAccounted == Spec => []SubmitIsAccountedFor
<1> DEFINE Inv == /\ CancelInvariant /\ DoubtInvariant
                  /\ TraceInvariant /\ PostInvariant /\ TrackInvariant
<1>1. Init => Inv
    BY DEF Init, CancelInvariant, CancelSentOnRecord, DoubtInvariant, TraceInvariant,
           ProcessorTrace, Asking, PostInvariant, TrackInvariant, NothingIsLost, FaultKind
<1>2. OrderInvariant /\ Inv /\ [Next]_vars => Inv'
    BY CancelStep, DoubtStep, TraceStep, PostStep, TrackStep DEF OrderInvariant
<1>3. OrderInvariant /\ Inv => SubmitIsAccountedFor
    <2> SUFFICES ASSUME OrderInvariant, Inv PROVE SubmitIsAccountedFor
        OBVIOUS
    <2>1. ConsumedSubmitLeavesTrace
        BY DEF TraceInvariant, ConsumedSubmitLeavesTrace
    <2>2. OnePostUnlessRefused
        <3> SUFFICES ASSUME NEW o \in Orders, sent[o] > 1 + faults["crash"], refused[o] = "no"
                     PROVE  FALSE
            BY DEF OnePostUnlessRefused
        <3>1. sent[o] <= 1 + faults["crash"] /\ sent[o] \in Nat /\ faults["crash"] \in Nat
            BY DEF PostInvariant, OrderInvariant, TypeOK, HistoryType, FaultKind
        <3> QED BY <3>1
    <2>3. ReconcilingIsTracked
        <3>1. \A j \in Job, o \in Orders : LooksAfter(j, o) => TrackedBy(j, o)
            BY DEF LooksAfter, TrackedBy
        <3> QED BY <3>1 DEF ReconcilingIsTracked, TrackInvariant, NothingIsLost
    <2> QED BY <2>1, <2>2, <2>3 DEF SubmitIsAccountedFor
<1> QED BY <1>1, <1>2, <1>3, OrderInvariantHolds, PTL DEF Spec
=============================================================================
