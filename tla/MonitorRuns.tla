---------------------------- MODULE MonitorRuns ----------------------------
(* Background monitoring: two schedulers (the monitor worker and the API's     *)
(* POST /monitor/runs) claim the periods that are due in monitor.run and add a *)
(* job for each; the worker runs one job at a time, evaluates the conditions   *)
(* and commits evaluations and alerts with the end of the run. One action for  *)
(* each await. A period is a time; the calendar is a set of trading times.     *)
EXTENDS ConditionEvaluation, SequencesExt

CONSTANTS
  Markets,       \* what a quote and the calendar of events may say at each time
  QuoteStates, GroupStates,  \* states an answer of the gateway may be in
  Schedules,     \* sets of run types whose job schedulers are set up together
  Withdrawable,  \* conditions the user may withdraw
  TradingTimes,  \* times with a session, whose daily runs are due too
  MaxTime, MaxTries, MaxCrashes

MonitorType == {"price", "event"}
Run == MonitorType \X (1..MaxTime)
Schedulers == {"api", "worker"}

ASSUME MonitorAssumption ==
  /\ IsFiniteSet(Conditions)
  /\ 1 \in TradingTimes /\ TradingTimes \subseteq Nat
  /\ MaxTime \in Nat \ {0} /\ MaxTries \in Nat \ {0} /\ MaxCrashes \in Nat
  /\ Markets \subseteq [quote : [1..MaxTime -> Nat], listed : [1..MaxTime -> SUBSET Nat]]
  /\ Schedules \subseteq SUBSET MonitorType
  /\ QuoteStates \union GroupStates \subseteq AnswerState /\ Withdrawable \subseteq Conditions

VARIABLES
  types,        \* the run types with a job scheduler
  market,       \* what the providers know, whether or not they can be reached
  clock,
  runs,         \* monitor.run: the status of each (type, natural period)
  lastSuccess,  \* monitor.schedule_state, 0 before the first success
  jobs,         \* the queue monitor-runs
  claimed,      \* of each scheduler: a claim whose job is not added yet
  work,         \* the execution of the worker
  evaluations,  \* monitor.condition_evaluation of each condition, as inserted
  alerts,       \* monitor.alert, with the answers each rests on
  monitored,    \* conditions of the latest thesis versions that are not archived
  interrupted,  \* runs whose start, failure or job was refused or lost (history)
  crashes

vars == <<types, market, clock, runs, lastSuccess, jobs, claimed, work, evaluations, alerts,
          monitored, interrupted, crashes>>

NoJob == [state |-> "none", tries |-> 0, stalls |-> 0]
Idle == [run |-> None, stage |-> "idle", conditions |-> {}, at |-> 0,
         quotes |-> None, groups |-> None, retryable |-> FALSE]

TypeOK ==
  /\ types \in Schedules /\ market \in Markets
  /\ clock \in 1..MaxTime
  /\ runs \in [Run -> {"unclaimed", "claimed", "running", "succeeded", "failed"}]
  /\ lastSuccess \in [MonitorType -> 0..MaxTime]
  /\ jobs \in [Run -> [state : {"none", "waiting", "delayed", "active", "done", "failed", "stalled"},
                       tries : 0..MaxTries, stalls : 0..2]]
  /\ claimed \in [Schedulers -> {None} \union {Some(r) : r \in Run}]
  /\ monitored \subseteq Conditions
  /\ interrupted \subseteq Run
  /\ crashes \in 0..MaxCrashes

Init ==
  /\ types \in Schedules /\ market \in Markets
  /\ clock = 1
  /\ runs = [r \in Run |-> "unclaimed"]
  /\ lastSuccess = [t \in MonitorType |-> 0]
  /\ jobs = [r \in Run |-> NoJob]
  /\ claimed = [s \in Schedulers |-> None]
  /\ work = Idle
  /\ evaluations = [c \in Conditions |-> <<>>]
  /\ alerts = <<>>
  /\ monitored = Conditions
  /\ interrupted = {}
  /\ crashes = 0

-----------------------------------------------------------------------------
(* Scheduling *)

Tick ==
  /\ clock < MaxTime
  /\ clock' = clock + 1
  /\ UNCHANGED <<types, market, runs, lastSuccess, jobs, claimed, work, evaluations, alerts,
                 monitored, interrupted, crashes>>

LatestDue == Max({t \in TradingTimes : t <= clock})

\* requiredRunPeriods: the current period of each type, never an older one.
Required ==
  {r \in {<<"price", clock>>, <<"event", LatestDue>>} :
     /\ r[1] \in types
     /\ r[1] = "price" => clock \in TradingTimes
     /\ r[2] # lastSuccess[r[1]]}

\* reconcile, for one period: the unique key (run_type, natural_period) keeps it from
\* a second claim. The worker's tick is a job of the same queue: it overlaps no run.
\* A period that was due when the pass began and is not any more was claimed since.
Claim(s, r) ==
  /\ claimed[s] = None
  /\ s = "worker" => work = Idle
  /\ r \in Required /\ runs[r] = "unclaimed"
  /\ runs' = [runs EXCEPT ![r] = "claimed"]
  /\ claimed' = [claimed EXCEPT ![s] = Some(r)]
  /\ UNCHANGED <<types, market, clock, lastSuccess, jobs, work, evaluations, alerts, monitored,
                 interrupted, crashes>>

AddJob(s) ==
  /\ claimed[s] # None
  /\ jobs' = [jobs EXCEPT ![The(claimed[s])].state = "waiting"]
  /\ claimed' = [claimed EXCEPT ![s] = None]
  /\ UNCHANGED <<types, market, clock, runs, lastSuccess, work, evaluations, alerts, monitored,
                 interrupted, crashes>>

\* The queue refuses the job: the claim stays, and keeps its period from another one.
AddFails(s) ==
  /\ claimed[s] # None
  /\ claimed' = [claimed EXCEPT ![s] = None]
  /\ interrupted' = interrupted \union {The(claimed[s])}
  /\ UNCHANGED <<types, market, clock, runs, lastSuccess, jobs, work, evaluations, alerts,
                 monitored, crashes>>

-----------------------------------------------------------------------------
(* MonitorRunService.run *)

BelongsToRun(c, type) == IF c.kind = "event" THEN type = "event" ELSE type = "price"

\* start, then listActiveForRun: without conditions there is nothing to load.
Start(r) ==
  /\ work = Idle /\ claimed["worker"] = None
  /\ jobs[r].state = "waiting"
  /\ jobs' = [jobs EXCEPT ![r].state = "active"]
  /\ runs' = [runs EXCEPT ![r] = "running"]
  /\ LET listed == {c \in monitored : BelongsToRun(c, r[1])}
     IN  work' = [Idle EXCEPT !.run = Some(r), !.at = clock, !.conditions = listed,
                              !.stage = IF listed = {} THEN "commit" ELSE "load"]
  /\ UNCHANGED <<types, market, clock, lastSuccess, claimed, evaluations, alerts, monitored,
                 interrupted, crashes>>

\* An error that is not the snapshot request's ends the job, whatever attempts it has.
EndOfJob(r) == [jobs EXCEPT ![r].tries = @ + 1, ![r].state = "failed"]

\* start is outside the try: refused, it fails the job and leaves the run as it was.
StartFails(r) ==
  /\ work = Idle /\ claimed["worker"] = None
  /\ jobs[r].state = "waiting"
  /\ jobs' = EndOfJob(r)
  /\ interrupted' = interrupted \union {r}
  /\ UNCHANGED <<types, market, clock, runs, lastSuccess, claimed, work, evaluations, alerts,
                 monitored, crashes>>

(* A fresh answer tells what is so now, a fallback what was so a time ago.     *)
AsOf(state) == IF state = "fresh" THEN clock ELSE Max({clock - 1, 1})
QuoteIn(state) ==
  [state |-> state, data |-> Some(market.quote[AsOf(state)]), asOf |-> AsOf(state)]
GroupsIn(states) ==
  [g \in DOMAIN states |->
     [state |-> states[g],
      data |-> IF g = "earnings" THEN market.listed[AsOf(states[g])] \intersect EventWindow(work.conditions)
               ELSE {},
      asOf |-> AsOf(states[g])]]

\* A condition that cannot be evaluated throws, whatever the others are worth.
Load ==
  /\ work.stage = "load"
  /\ \E quotes \in QuoteStates, groups \in [{"earnings", "macro"} -> GroupStates] :
       LET next == IF \A c \in work.conditions : c.valid THEN "commit" ELSE "fail"
       IN  work' = IF The(work.run)[1] = "event"
                   THEN [work EXCEPT !.groups = Some(GroupsIn(groups)), !.stage = next]
                   ELSE [work EXCEPT !.quotes = Some(QuoteIn(quotes)), !.stage = next]
  /\ UNCHANGED <<types, market, clock, runs, lastSuccess, jobs, claimed, evaluations, alerts,
                 monitored, interrupted, crashes>>

LoadFails ==
  /\ work.stage = "load"
  /\ \E retryable \in BOOLEAN : work' = [work EXCEPT !.stage = "fail", !.retryable = retryable]
  /\ UNCHANGED <<types, market, clock, runs, lastSuccess, jobs, claimed, evaluations, alerts,
                 monitored, interrupted, crashes>>

FreshOf(c) == {i \in DOMAIN evaluations[c] : evaluations[c][i].dataState = "fresh"}

LatestEffective(c) == IF FreshOf(c) = {} THEN None ELSE Some(evaluations[c][Max(FreshOf(c))])

Evaluated(c) ==
  Evaluate(c, Snapshot(work.quotes, work.groups, work.at), LatestEffective(c), work.at)

\* recordEvaluation: one row for a state, a status and a date of the data.
Recorded(c, e) ==
  IF \E i \in DOMAIN evaluations[c] :
       /\ evaluations[c][i].dataState = e.dataState
       /\ evaluations[c][i].status = e.status
       /\ evaluations[c][i].asOf = e.asOf
  THEN evaluations[c] ELSE Append(evaluations[c], e)

FromStatus(c) == IF LatestEffective(c) = None THEN "pending" ELSE The(LatestEffective(c)).status

IsAlert(c) ==
  LET e == Evaluated(c)
  IN  e.dataState = "fresh" /\ e.status # "pending" /\ e.status # FromStatus(c)

AlertOf(c) ==
  [condition |-> c, from |-> FromStatus(c), to |-> Evaluated(c).status,
   period |-> The(work.run)[2],
   basis |-> IF c.kind = "metric" THEN [quotes |-> The(work.quotes).state]
             ELSE [g \in DOMAIN The(work.groups) |-> The(work.groups)[g].state]]

\* Mutated form: the key without the statuses.
SamePeriod(a, b) == a.condition = b.condition /\ a.period = b.period

SameAlert(a, b) ==
  a.condition = b.condition /\ a.from = b.from /\ a.to = b.to /\ a.period = b.period

NewAlerts ==
  {a \in {AlertOf(c) : c \in {d \in work.conditions : IsAlert(d)}} :
     \A i \in DOMAIN alerts : ~SameAlert(alerts[i], a)}

\* One transaction: evaluations, alerts with their outbox events, end of the run.
Commit ==
  /\ work.stage = "commit"
  /\ evaluations' = [c \in Conditions |->
                       IF c \in work.conditions THEN Recorded(c, Evaluated(c)) ELSE evaluations[c]]
  /\ alerts' = alerts \o SetToSeq(NewAlerts)
  /\ runs' = [runs EXCEPT ![The(work.run)] = "succeeded"]
  /\ lastSuccess' = [lastSuccess EXCEPT ![The(work.run)[1]] = The(work.run)[2]]
  /\ work' = [work EXCEPT !.stage = "complete"]
  /\ UNCHANGED <<types, market, clock, jobs, claimed, monitored, interrupted, crashes>>

\* Any statement of the try that is refused; the transaction leaves nothing behind.
CommitFails ==
  /\ work.stage = "commit"
  /\ work' = [work EXCEPT !.stage = "fail", !.retryable = FALSE]
  /\ UNCHANGED <<types, market, clock, runs, lastSuccess, jobs, claimed, evaluations, alerts,
                 monitored, interrupted, crashes>>

Complete ==
  /\ work.stage = "complete"
  /\ jobs' = [jobs EXCEPT ![The(work.run)].state = "done"]
  /\ work' = Idle
  /\ UNCHANGED <<types, market, clock, runs, lastSuccess, claimed, evaluations, alerts, monitored,
                 interrupted, crashes>>

\* Mutated form: the failure is not recorded.
FailUnrecorded ==
  /\ work.stage = "fail"
  /\ LET r == The(work.run)
     IN  jobs' = [jobs EXCEPT ![r].tries = @ + 1,
                    ![r].state = IF work.retryable /\ jobs[r].tries + 1 < MaxTries
                                 THEN "delayed" ELSE "failed"]
  /\ work' = Idle
  /\ UNCHANGED <<types, market, clock, runs, lastSuccess, claimed, evaluations, alerts,
                 monitored, interrupted, crashes>>

\* fail, and the error goes on to the queue: only a retryable error of the snapshot
\* request leaves the job its attempts.
Fail ==
  /\ work.stage = "fail"
  /\ LET r == The(work.run)
         tries == jobs[r].tries + 1
     IN  /\ runs' = [runs EXCEPT ![r] = "failed"]
         /\ jobs' = [jobs EXCEPT ![r].tries = tries,
                       ![r].state = IF work.retryable /\ tries < MaxTries THEN "delayed" ELSE "failed"]
  /\ work' = Idle
  /\ UNCHANGED <<types, market, clock, lastSuccess, claimed, evaluations, alerts, monitored,
                 interrupted, crashes>>

\* Refused itself, fail throws in the place of the error: the job fails for good.
FailRefused ==
  /\ work.stage = "fail"
  /\ jobs' = EndOfJob(The(work.run))
  /\ interrupted' = interrupted \union {The(work.run)}
  /\ work' = Idle
  /\ UNCHANGED <<types, market, clock, runs, lastSuccess, claimed, evaluations, alerts, monitored,
                 crashes>>

Backoff(r) ==
  /\ jobs[r].state = "delayed"
  /\ jobs' = [jobs EXCEPT ![r].state = "waiting"]
  /\ UNCHANGED <<types, market, clock, runs, lastSuccess, claimed, work, evaluations, alerts,
                 monitored, interrupted, crashes>>

\* Mutated form: a stalled job is not delivered again.
CrashForGood ==
  /\ crashes < MaxCrashes
  /\ work # Idle
  /\ work' = Idle
  /\ claimed' = [claimed EXCEPT !["worker"] = None]
  /\ crashes' = crashes + 1
  /\ UNCHANGED <<types, market, clock, runs, lastSuccess, jobs, evaluations, alerts, monitored,
                 interrupted>>

\* The worker dies; its job stalls and is delivered once more. A claim whose
\* job it had still to add is lost.
Crash ==
  /\ crashes < MaxCrashes
  /\ work # Idle \/ claimed["worker"] # None
  /\ work' = Idle
  /\ claimed' = [claimed EXCEPT !["worker"] = None]
  /\ jobs' = [r \in Run |->
                IF work.run # Some(r) THEN jobs[r]
                ELSE [jobs[r] EXCEPT !.state = IF @ = "active" /\ jobs[r].stalls = 0
                                               THEN "waiting" ELSE "stalled",
                                     !.stalls = @ + 1]]
  /\ interrupted' = interrupted \union {r \in Run : claimed["worker"] = Some(r)}
  /\ crashes' = crashes + 1
  /\ UNCHANGED <<types, market, clock, runs, lastSuccess, evaluations, alerts, monitored>>

\* The user archives the thesis of a condition, deletes it or saves a new version.
Withdraw(c) ==
  /\ c \in monitored \intersect Withdrawable
  /\ monitored' = monitored \ {c}
  /\ UNCHANGED <<types, market, clock, runs, lastSuccess, jobs, claimed, work, evaluations,
                 alerts, interrupted, crashes>>

WorkStep == Load \/ LoadFails \/ Commit \/ CommitFails \/ Complete \/ Fail \/ FailRefused

Next ==
  \/ Tick \/ Crash \/ WorkStep
  \/ \E s \in Schedulers : AddJob(s) \/ AddFails(s) \/ \E r \in Run : Claim(s, r)
  \/ \E r \in Run : Start(r) \/ StartFails(r) \/ Backoff(r)
  \/ \E c \in Conditions : Withdraw(c)

\* A process goes on with what it began, the queue delivers every job, and a
\* delayed job comes back; nobody has to tick, to ask or to withdraw.
Fairness ==
  /\ WF_vars(WorkStep)
  /\ WF_vars(\E s \in Schedulers : AddJob(s) \/ AddFails(s))
  /\ WF_vars(\E r \in Run : Start(r) \/ StartFails(r) \/ Backoff(r))

Spec == Init /\ [][Next]_vars /\ Fairness

-----------------------------------------------------------------------------
(* Properties *)

\* What a provider said long ago (monitorSnapshotLoader.ts:9) decides nothing: no
\* alert rests on an answer past its expiry, and one on a metric only on a fresh one.
StaleDataDecidesNothing ==
  \A i \in DOMAIN alerts : \A source \in DOMAIN alerts[i].basis :
    alerts[i].basis[source] \in IF source = "quotes" THEN {"fresh"} ELSE AnswerState \ {"expired"}

\* What the first n alerts leave the reader of a condition with: the status of the last
\* one, or of one whose run was delivered again, for what that run finds the second time
\* may have the key of its first alert (monitorRunService.ts:116, SameAlert).
Told(c, n) ==
  LET told == {i \in 1..n : alerts[i].condition = c}
      twice(i) == jobs[<<"price", alerts[i].period>>].stalls > 0
  IN  IF told = {} THEN {"pending"}
      ELSE {alerts[i].to : i \in {k \in told : twice(k)} \union {Max(told)}}

\* The alerts of a metric condition (monitorRunService.ts:109-116) tell its story:
\* each begins where those before it ended, over failures, retries, periods run
\* late or out of order and a worker that dies.
MetricAlertsChain ==
  \A j \in DOMAIN alerts :
    alerts[j].condition.kind = "metric" => alerts[j].from \in Told(alerts[j].condition, j - 1)

\* A run and its job end together (monitorRunService.ts:96-124, monitorWorker.ts:22-26,
\* monitorScheduler.ts:41-44): a job that is done left its run succeeded, one that failed or
\* is to be tried again left it failed, and a run that has not ended still has a job to end
\* it, or one to come, unless the queue gave that up after two deaths of the worker. Only a
\* refused statement or job, or a claim that died with the worker, sets the two apart, and
\* then for good: nothing runs for such a run any more.
RunsAndJobsEndTogether ==
  \A r \in Run :
    /\ jobs[r].state = "done" => runs[r] = "succeeded"
    /\ jobs[r].state = "delayed" => runs[r] = "failed"
    /\ IF r \in interrupted THEN jobs[r].state \in {"none", "failed"}
       ELSE /\ jobs[r].state = "failed" => runs[r] = "failed"
            /\ runs[r] \in {"claimed", "running"} =>
                 \/ jobs[r].state \in {"waiting", "active", "stalled"}
                 \/ \E s \in Schedulers : claimed[s] = Some(r)

\* The alerts and the conclusion a metric condition stands at agree, whatever fails or
\* comes twice (monitorRunService.ts:63-72, monitorStateRepository.ts:11-33): its last
\* fresh evaluation says what its alerts told, and there is none without the other.
ConclusionsWereAlerted ==
  \A c \in Conditions : c.kind = "metric" =>
    /\ FromStatus(c) \in Told(c, Len(alerts))
    /\ LatestEffective(c) = None <=> \A i \in DOMAIN alerts : alerts[i].condition # c

\* The alerts of a metric, read in order, are the whole story of its status, and end where
\* its conclusion stands (commitEvaluation).
AlertsTellTheChanges == TypeOK /\ MetricAlertsChain /\ ConclusionsWereAlerted

\* One status transition produces one application alert (docs/superpowers/specs/
\* 2026-08-10-background-monitoring-push-design.md:113): the status of a metric is what its
\* last alert said. Not so: a run that is delivered again after a later one finds the
\* transition of its first alert once more, and drops the alert as a duplicate.
EveryTransitionIsAlerted ==
  \A c \in Conditions : c.kind = "metric" =>
    LET told == {i \in DOMAIN alerts : alerts[i].condition = c}
    IN  told # {} => FromStatus(c) = alerts[Max(told)].to

\* A run whose job was added (monitorScheduler.ts:43) ends: its job is done, failed
\* for good or, after two deaths of the worker, given up by the queue.
AddedJobsEnd ==
  \A r \in Run : (jobs[r].state # "none") ~> (jobs[r].state \in {"done", "failed", "stalled"})

\* An outage raises no alert (docs/superpowers/specs/
\* 2026-08-10-background-monitoring-push-design.md:72): while the earnings cannot be
\* fetched an event condition keeps its status. Not so: eventRoutes.ts:71-82 leaves a failed group out.
OutagesRaiseNoAlert ==
  \A i \in DOMAIN alerts :
    alerts[i].condition.kind = "event" => alerts[i].basis["earnings"] # "rejected"
=============================================================================
