-------------------------- MODULE MonitorRunsProofs --------------------------
(* What background monitoring tells of its metric conditions, for any finite set *)
(* of conditions, any market, every number of periods, attempts and crashes.     *)
EXTENDS MonitorRuns, FiniteSetTheorems, TLAPS

-----------------------------------------------------------------------------
(* The inductive invariant *)

Opt(S) == {None} \union {Some(x) : x \in S}
Quote == [state : QuoteStates, data : Opt(Nat), asOf : 1..MaxTime]
Group == [state : GroupStates, data : SUBSET Nat, asOf : 1..MaxTime]
Groups == [{"earnings", "macro"} -> Group]
Stage == {"idle", "load", "commit", "fail", "complete"}

WorkType ==
  work \in [run : Opt(Run), stage : Stage, conditions : SUBSET Conditions, at : 0..MaxTime,
            quotes : Opt(Quote), groups : Opt(Groups), retryable : BOOLEAN]

\* A worker that is not idle has a job, the conditions of its kind of run, and at the
\* commit the answers that these need; a quote that counts as fresh was so at its time.
WorkInvariant ==
  /\ WorkType
  /\ work.stage = "idle" => work = Idle
  /\ work.stage # "idle" =>
       /\ work.run # None
       /\ \A c \in work.conditions : BelongsToRun(c, The(work.run)[1])
  /\ work.stage = "load" => work.quotes = None
  /\ work.stage = "commit" /\ work.conditions # {} =>
       IF The(work.run)[1] = "event" THEN work.groups # None
       ELSE /\ work.quotes # None
            /\ The(work.quotes).data = Some(market.quote[The(work.quotes).asOf])
            /\ The(work.quotes).asOf <= clock

\* A claim waits for its job, the job at work is active, and only a job that may be
\* tried and delivered again is on its way.
QueueInvariant ==
  /\ \A r \in Run : runs[r] = "unclaimed" => jobs[r].state = "none"
  /\ \A s \in Schedulers : claimed[s] # None =>
       /\ runs[The(claimed[s])] = "claimed" /\ jobs[The(claimed[s])].state = "none"
       /\ The(claimed[s]) \notin interrupted
       /\ \A t \in Schedulers : claimed[t] = claimed[s] => t = s
  /\ \A r \in interrupted : runs[r] # "unclaimed"
  /\ work.stage # "idle" => jobs[The(work.run)].state = "active"
  /\ work.stage = "complete" => runs[The(work.run)] = "succeeded"
  /\ \A r \in Run : jobs[r].state \in {"none", "waiting", "delayed", "active"} =>
       jobs[r].tries < MaxTries /\ jobs[r].stalls <= 1
  /\ RunsAndJobsEndTogether

MetricRecord ==
  [status : Status, dataState : {"fresh", "stale", "missing", "unavailable"},
   asOf : Opt(0..MaxTime)]

StatusOf(c, value) == MapStatus(c.direction, value \in c.accepts)

FreshIn(s) == {i \in DOMAIN s : s[i].dataState = "fresh"}
LatestIn(s) == IF FreshIn(s) = {} THEN None ELSE Some(s[Max(FreshIn(s))])
StatusIn(s) == IF LatestIn(s) = None THEN "pending" ELSE The(LatestIn(s)).status

\* The conclusions on a metric are what the quotes were, in the order of their times.
History(s, c, quote, now) ==
  /\ s \in Seq(MetricRecord)
  /\ \A i \in FreshIn(s) :
       /\ The(s[i].asOf) \in 1..now
       /\ s[i].asOf = Some(The(s[i].asOf))
       /\ s[i].status = StatusOf(c, quote[The(s[i].asOf)])
  /\ \A i, j \in FreshIn(s) : i <= j => The(s[i].asOf) <= The(s[j].asOf)

\* None is of a later time than the fresh quote that is about to be judged.
NoneIsLater(c) ==
  (work.stage = "commit" /\ work.quotes # None /\ The(work.quotes).state = "fresh") =>
      \A i \in FreshIn(evaluations[c]) : The(evaluations[c][i].asOf) <= The(work.quotes).asOf

HistoryInvariant ==
  /\ evaluations = [c \in Conditions |-> evaluations[c]]
  /\ \A c \in Conditions : c.kind = "metric" =>
    History(evaluations[c], c, market.quote, clock) /\ NoneIsLater(c)

ToldIn(as, js, c, n) ==
  LET told == {i \in 1..n : as[i].condition = c}
      twice(i) == js[<<"price", as[i].period>>].stalls > 0
  IN  IF told = {} THEN {"pending"}
      ELSE {as[i].to : i \in {k \in told : twice(k)} \union {Max(told)}}

\* The run that raised an alert is over, at its end, or was delivered again.
RaisedBefore(period) ==
  LET r == <<"price", period>>
  IN  /\ r \in Run
      /\ \/ jobs[r].stalls > 0
         \/ jobs[r].state = "done"
         \/ work.run = Some(r) /\ work.stage = "complete"

AlertInvariant ==
  /\ alerts \in Seq(Range(alerts))
  /\ \A i \in DOMAIN alerts : alerts[i].condition.kind = "metric" => RaisedBefore(alerts[i].period)

MonitorInvariant ==
  /\ TypeOK
  /\ WorkInvariant
  /\ QueueInvariant
  /\ HistoryInvariant
  /\ AlertInvariant
  /\ MetricAlertsChain /\ ConclusionsWereAlerted
  /\ StaleDataDecidesNothing

-----------------------------------------------------------------------------
(* Lemmas *)

\* None and Some are told apart, and The takes out what Some put in.
LEMMA Options ==
  /\ \A x : Some(x) # None /\ The(Some(x)) = x
  /\ \A x, y : Some(x) = Some(y) => x = y
  /\ \A S : \A o \in Opt(S) : o # None => o = Some(The(o)) /\ The(o) \in S
  /\ \A S : \A x \in S : Some(x) \in Opt(S)
  /\ \A S : None \in Opt(S)
<1>1. \A x : Some(x) # None /\ The(Some(x)) = x
  BY DEF Some, None, The
<1>2. \A x, y : Some(x) = Some(y) => x = y
  BY DEF Some
<1>3. \A S : \A o \in Opt(S) : o # None => o = Some(The(o)) /\ The(o) \in S
  BY <1>1 DEF Opt
<1> QED
  BY <1>1, <1>2, <1>3 DEF Opt

\* A fallback is not of a later time than now.
LEMMA TimeOfAnswer ==
  ASSUME TypeOK, NEW state
  PROVE  AsOf(state) \in 1..MaxTime /\ AsOf(state) <= clock /\ (state = "fresh" => AsOf(state) = clock)
<1>1. clock \in 1..MaxTime /\ MaxTime \in Nat
  BY MonitorAssumption DEF TypeOK
<1>2. Max({clock - 1, 1}) \in {clock - 1, 1} /\ \A y \in {clock - 1, 1} : Max({clock - 1, 1}) >= y
  <2>1. \E x \in {clock - 1, 1} : \A y \in {clock - 1, 1} : x >= y
    BY <1>1
  <2> QED
    BY <2>1 DEF Max
<1> QED
  BY <1>1, <1>2 DEF AsOf

\* The set of alerts that are added becomes a sequence of exactly these.
LEMMA InAnyOrder ==
  ASSUME NEW S, IsFiniteSet(S)
  PROVE  /\ SetToSeq(S) \in Seq(S)
         /\ \A i, j \in DOMAIN SetToSeq(S) : SetToSeq(S)[i] = SetToSeq(S)[j] => i = j
         /\ \A x \in S : \E i \in DOMAIN SetToSeq(S) : SetToSeq(S)[i] = x
<1> DEFINE n == Cardinality(S)
           s == SetToSeq(S)
<1>1. n \in Nat /\ ExistsBijection(1..n, S)
  BY FS_CardinalityType
<1>2. \E f \in [1..n -> S] : IsInjective(f)
  BY <1>1 DEF ExistsBijection, Bijection, Injection, IsInjective
<1>3. s \in [1..n -> S] /\ IsInjective(s)
  BY <1>2 DEF SetToSeq
<1>4. s \in Injection(1..n, S)
  BY <1>3 DEF Injection, IsInjective
<1>5. Cardinality(1..n) = n
  BY <1>1, FS_Interval
<1>6. s \in Surjection(1..n, S)
  BY <1>4, <1>5, FS_Injection
<1> HIDE DEF s
<1>7. \A x \in S : \E i \in 1..n : s[i] = x
  BY <1>6 DEF Surjection
<1>8. DOMAIN s = 1..n /\ s \in Seq(S)
  BY <1>1, <1>3
<1>9. \A i, j \in DOMAIN s : s[i] = s[j] => i = j
  BY <1>3, <1>8 DEF IsInjective
<1> QED
  BY <1>7, <1>8, <1>9 DEF s

\* What a longer sequence keeps of a shorter one.
LEMMA Extended ==
  ASSUME NEW s, s \in Seq(Range(s)), NEW S, NEW t \in Seq(S)
  PROVE  /\ Len(s) \in Nat /\ Len(t) \in Nat
         /\ s \o t \in Seq(Range(s \o t))
         /\ DOMAIN s = 1..Len(s) /\ DOMAIN t = 1..Len(t)
         /\ DOMAIN (s \o t) = 1..(Len(s) + Len(t)) /\ Len(s \o t) = Len(s) + Len(t)
         /\ \A i \in 1..Len(s) : (s \o t)[i] = s[i]
         /\ \A i \in 1..Len(t) : (s \o t)[Len(s) + i] = t[i]
<1>1. s \in Seq(Range(s) \union S) /\ t \in Seq(Range(s) \union S)
  BY SMT
<1>2. /\ Len(s) \in Nat /\ Len(t) \in Nat
      /\ DOMAIN s = 1..Len(s) /\ DOMAIN t = 1..Len(t)
      /\ Len(s \o t) = Len(s) + Len(t)
      /\ \A i \in 1..Len(s) : (s \o t)[i] = s[i]
      /\ \A i \in 1..Len(t) : (s \o t)[Len(s) + i] = t[i]
      /\ s \o t \in Seq(Range(s) \union S)
      /\ DOMAIN (s \o t) = 1..(Len(s) + Len(t))
  BY <1>1, SMT
<1>3. s \o t \in Seq(Range(s \o t))
  <2> DEFINE u == s \o t
             n == Len(s) + Len(t)
             X == Range(s) \union S
  <2>0. n \in Nat /\ u \in Seq(X) /\ Len(u) = n
    BY <1>2
  <2> HIDE DEF u, n, X
  <2>1. u \in [1..n -> X] /\ DOMAIN u = 1..n
    BY <2>0
  <2>2. \A i \in 1..n : u[i] \in Range(u)
    BY <2>1 DEF Range
  <2>3. u \in [1..n -> Range(u)]
    BY <2>1, <2>2
  <2>4. u \in Seq(Range(u))
    BY <2>0, <2>3
  <2> QED
    BY <2>4 DEF u
<1> QED
  BY <1>2, <1>3

\* A set of numbers that is bounded has its largest one, which Max chooses.
LEMMA LargestIsMax ==
  ASSUME NEW n \in Nat, NEW T, T \subseteq 1..n, T # {}
  PROVE  Max(T) \in T /\ \A y \in T : y <= Max(T)
<1> DEFINE above(x) == (x + 1)..n
           family == {above(x) : x \in T}
           order == StrictSubsetOrdering(1..n)
<1>1. IsFiniteSet(1..n)
  BY FS_Interval
<1>2. IsWellFoundedOn(order, FiniteSubsetsOf(1..n))
  BY FS_StrictSubsetOrderingWellFounded
<1>3. \A x \in T : above(x) \in SUBSET (1..n)
  OBVIOUS
<1>4. family \subseteq FiniteSubsetsOf(1..n)
  BY <1>1, <1>3, FS_Subset DEF FiniteSubsetsOf
<1>5. family # {}
  OBVIOUS
<1> HIDE DEF order, family
<1>6. PICK least \in family : \A a \in family : ~(<<a, least>> \in order)
  BY <1>2, <1>4, <1>5, WFMin
<1>7. PICK x \in T : least = above(x)
  BY <1>6 DEF family
<1>8. \A y \in T : x >= y
  <2>1. SUFFICES ASSUME NEW y \in T, x < y
                 PROVE  FALSE
    OBVIOUS
  <2>2. above(y) \subseteq above(x) /\ y \in above(x) /\ y \notin above(y)
    BY <2>1
  <2>3. <<above(y), above(x)>> \in order
    BY <1>3, <2>2 DEF order, StrictSubsetOrdering
  <2>4. above(y) \in family
    BY DEF family
  <2> QED
    BY <1>6, <1>7, <2>3, <2>4
<1>9. Max(T) \in T /\ \A y \in T : Max(T) >= y
  BY <1>7, <1>8 DEF Max
<1> QED
  BY <1>9

\* The latest effective evaluation is the last fresh one.
LEMMA LatestIsLast ==
  ASSUME NEW s, NEW c, NEW quote, NEW now, History(s, c, quote, now)
  PROVE  /\ LatestIn(s) = None <=> FreshIn(s) = {}
         /\ LatestIn(s) \in Opt(MetricRecord)
         /\ FreshIn(s) # {} =>
              /\ Max(FreshIn(s)) \in FreshIn(s)
              /\ \A i \in FreshIn(s) : i <= Max(FreshIn(s))
              /\ LatestIn(s) = Some(s[Max(FreshIn(s))])
              /\ StatusIn(s) = s[Max(FreshIn(s))].status
         /\ FreshIn(s) = {} => StatusIn(s) = "pending"
<1>1. CASE FreshIn(s) = {}
  BY <1>1, Options DEF LatestIn, StatusIn
<1>2. CASE FreshIn(s) # {}
  <2>1. Len(s) \in Nat /\ DOMAIN s = 1..Len(s)
    BY DEF History
  <2>2. FreshIn(s) \subseteq 1..Len(s)
    BY <2>1 DEF FreshIn
  <2>4. Max(FreshIn(s)) \in FreshIn(s) /\ \A i \in FreshIn(s) : i <= Max(FreshIn(s))
    BY <1>2, <2>1, <2>2, LargestIsMax
  <2> DEFINE x == Max(FreshIn(s))
  <2>5. x \in FreshIn(s) /\ \A i \in FreshIn(s) : i <= x
    BY <2>4
  <2>6. LatestIn(s) = Some(s[x])
    BY <1>2 DEF LatestIn
  <2> HIDE DEF x
  <2>7. s[x] \in MetricRecord
    BY <2>1, <2>2, <2>5 DEF History
  <2>8. StatusIn(s) = s[x].status
    BY <2>6, Options DEF StatusIn
  <2> QED
    BY <1>2, <2>5, <2>6, <2>7, <2>8, Options DEF x
<1> QED
  BY <1>1, <1>2

\* The model's words for the same.
LEMMA InOtherWords ==
  /\ \A c : LatestEffective(c) = LatestIn(evaluations[c]) /\ FromStatus(c) = StatusIn(evaluations[c])
  /\ \A c, n : Told(c, n) = ToldIn(alerts, jobs, c, n)
<1>1. \A c : LatestEffective(c) = LatestIn(evaluations[c])
  BY DEF LatestEffective, LatestIn, FreshOf, FreshIn
<1>2. \A c : FromStatus(c) = StatusIn(evaluations[c])
  BY <1>1 DEF FromStatus, StatusIn
<1>3. \A c, n : Told(c, n) = ToldIn(alerts, jobs, c, n)
  BY DEF Told, ToldIn
<1> QED
  BY <1>1, <1>2, <1>3

\* What a run makes of a metric: fresh is what a fresh quote decides.
LEMMA MetricJudged ==
  ASSUME TypeOK, WorkInvariant, HistoryInvariant, work.stage = "commit",
         NEW c \in work.conditions, c.kind = "metric"
  PROVE  /\ The(work.run)[1] = "price" /\ work.run = Some(The(work.run)) /\ The(work.run) \in Run
         /\ work.quotes # None /\ The(work.quotes) \in Quote /\ The(work.quotes).asOf \in 1..clock
         /\ Evaluated(c) \in MetricRecord
         /\ Evaluated(c).dataState = "fresh" =>
              /\ The(work.quotes).state = "fresh"
              /\ Evaluated(c).asOf = Some(The(work.quotes).asOf)
              /\ Evaluated(c).status = StatusOf(c, market.quote[The(work.quotes).asOf])
              /\ Evaluated(c).status \in {"confirmed", "breached"}
<1> DEFINE q == The(work.quotes)
           m == MetricOf(q)
           p == LatestEffective(c)
           r == The(work.run)
           snap == Snapshot(work.quotes, work.groups, work.at)
           now == work.at
<1>1. WorkType /\ work.run # None /\ BelongsToRun(c, r[1]) /\ work.conditions # {}
  BY DEF WorkInvariant
<1>2. /\ work.run \in Opt(Run) /\ work.quotes \in Opt(Quote) /\ work.at \in 0..MaxTime
      /\ work.conditions \subseteq Conditions
  BY <1>1 DEF WorkType
<1>3. work.run = Some(r) /\ r \in Run /\ r[1] = "price"
  BY <1>1, <1>2, Options DEF BelongsToRun, Run, MonitorType
<1>4. /\ work.quotes # None /\ q.data = Some(market.quote[q.asOf]) /\ q.asOf <= clock
  BY <1>1, <1>3 DEF WorkInvariant
<1>5. q \in Quote /\ clock \in 1..MaxTime /\ MaxTime \in Nat
  BY <1>2, <1>4, Options, MonitorAssumption DEF TypeOK
<1>6. q.asOf \in 1..clock /\ q.state \in AnswerState
  BY <1>4, <1>5, MonitorAssumption DEF Quote
<1>7. History(evaluations[c], c, market.quote, clock)
  BY <1>2 DEF HistoryInvariant
<1>8. p \in Opt(MetricRecord)
  BY <1>7, LatestIsLast, InOtherWords
<1>9. snap.metric = Some(m) /\ snap.generatedAt = now
  BY <1>4 DEF Snapshot
<1>10. Evaluated(c) = EvaluateMetric(c, snap, p, now)
  BY DEF Evaluated, Evaluate
<1>11. m.dataState \in {"fresh", "stale", "unavailable"} /\ m.asOf \in Opt(1..MaxTime)
  <2>1. CASE q.state = "rejected"
    BY <2>1, Options DEF MetricOf
  <2>2. CASE q.state # "rejected"
    <3>1. m.dataState = EnvelopeState(Envelope(q)) /\ m.asOf = Some(q.asOf)
      BY <2>2, <1>4, Options DEF MetricOf
    <3> QED
      BY <3>1, <1>5, Options DEF EnvelopeState, Quote
  <2> QED
    BY <2>1, <2>2
<1>12. m.dataState = "fresh" => q.state = "fresh" /\ m.asOf = Some(q.asOf) /\ m.value = Some(market.quote[q.asOf])
  <2>1. CASE q.state = "rejected"
    BY <2>1 DEF MetricOf
  <2>2. CASE q.state # "rejected"
    BY <2>2, <1>4, <1>6, Options DEF MetricOf, EnvelopeState, Envelope, AnswerState
  <2> QED
    BY <2>1, <2>2
<1> DEFINE e == EvaluateMetric(c, snap, p, now)
<1> HIDE DEF q, m, p, r, snap, now
<1>13. now \in 0..MaxTime
  BY <1>2 DEF now
<1>14. CASE m.dataState = "fresh"
  <2>1. e = Evaluation(MapStatus(c.direction, market.quote[q.asOf] \in c.accepts), "fresh", m.asOf)
    BY <1>9, <1>12, <1>14, Options DEF EvaluateMetric
  <2>2. MapStatus(c.direction, market.quote[q.asOf] \in c.accepts) \in {"confirmed", "breached"}
    BY DEF MapStatus
  <2>3. /\ e.status = StatusOf(c, market.quote[q.asOf]) /\ e.dataState = "fresh" /\ e.asOf = Some(q.asOf)
    BY <2>1, <1>12, <1>14 DEF Evaluation, StatusOf
  <2>4. e \in MetricRecord
    <3>1. Some(q.asOf) \in Opt(0..MaxTime)
      BY <1>5, <1>6, Options
    <3> QED
      BY <2>1, <2>2, <3>1, <1>12, <1>14 DEF Evaluation, MetricRecord, Status
  <2> QED
    BY <1>3, <1>4, <1>5, <1>6, <1>10, <1>12, <1>14, <2>2, <2>3, <2>4 DEF q, r, p, snap, now, StatusOf
<1>15. CASE m.dataState # "fresh"
  <2>1. e = Waiting(c, m.dataState, m.asOf, p, snap, now)
    BY <1>9, <1>15, Options DEF EvaluateMetric
  <2>2. m.asOf \in Opt(0..MaxTime)
    BY <1>11, <1>5, Options DEF Opt
  <2>3. e.dataState # "fresh" /\ e \in MetricRecord
    <3>1. CASE p # None
      <4>1. The(p) \in MetricRecord
        BY <1>8, <3>1, Options
      <4> QED
        BY <2>1, <2>2, <3>1, <4>1, <1>11, <1>15 DEF Waiting, Evaluation, MetricRecord
    <3>2. CASE p = None
      <4>1. Some(snap.generatedAt) \in Opt(0..MaxTime)
        BY <1>9, <1>13, Options
      <4> QED
        BY <2>1, <2>2, <3>2, <4>1, <1>11, <1>15 DEF Waiting, Evaluation, MetricRecord, Status
    <3> QED
      BY <3>1, <3>2
  <2> QED
    BY <1>3, <1>4, <1>5, <1>6, <1>10, <2>3 DEF q, r, p, snap, now
<1> QED
  BY <1>14, <1>15

\* An alert rests on no answer past its expiry, one on a metric on a fresh one.
LEMMA FreshBasis ==
  ASSUME TypeOK, WorkInvariant, HistoryInvariant, work.stage = "commit",
         NEW c \in work.conditions, IsAlert(c)
  PROVE  \A source \in DOMAIN AlertOf(c).basis :
           AlertOf(c).basis[source] \in IF source = "quotes" THEN {"fresh"} ELSE AnswerState \ {"expired"}
<1>1. CASE c.kind = "metric"
  <2>1. The(work.quotes).state = "fresh"
    BY <1>1, MetricJudged DEF IsAlert
  <2>2. AlertOf(c).basis = [quotes |-> The(work.quotes).state]
    BY <1>1 DEF AlertOf
  <2> QED
    BY <2>1, <2>2
<1>2. CASE c.kind # "metric"
  <2> DEFINE g == The(work.groups)
             r == The(work.run)
             snap == Snapshot(work.quotes, work.groups, work.at)
             p == LatestEffective(c)
             now == work.at
             envelope == EventsEnvelope(g, now)
  <2>1. WorkType /\ work.run # None /\ BelongsToRun(c, r[1]) /\ work.conditions # {}
    BY DEF WorkInvariant
  <2>2. work.groups \in Opt(Groups) /\ c \in Condition
    BY <2>1, ConditionsAssumption DEF WorkType
  <2>3. c.kind = "event"
    BY <1>2, <2>2 DEF Condition
  <2>4. work.groups # None
    BY <2>1, <2>3 DEF WorkInvariant, BelongsToRun
  <2>5. g \in Groups
    BY <2>2, <2>4, Options
  <2>6. snap.eventsState = EnvelopeState(envelope)
    BY <2>4, Options DEF Snapshot
  <2>7. Evaluated(c) = EvaluateEvent(c, snap, p, now)
    BY <1>2 DEF Evaluated, Evaluate
  <2>8. AlertOf(c).basis = [x \in DOMAIN g |-> g[x].state]
    BY <1>2 DEF AlertOf
  <2>9. Evaluated(c).dataState = "fresh"
    BY DEF IsAlert
  <2> HIDE DEF g, r, snap, p, now
  <2>10. snap.eventsState = "fresh"
    <3>1. SUFFICES ASSUME snap.eventsState # "fresh"
                   PROVE  FALSE
      OBVIOUS
    <3>2. EvaluateEvent(c, snap, p, now) = Waiting(c, snap.eventsState, snap.eventsAsOf, p, snap, now)
      BY <3>1 DEF EvaluateEvent
    <3>3. Waiting(c, snap.eventsState, snap.eventsAsOf, p, snap, now).dataState = snap.eventsState
      BY DEF Waiting, Evaluation
    <3> QED
      BY <2>7, <2>9, <3>1, <3>2, <3>3
  <2>11. ~envelope.stale
    BY <2>6, <2>10 DEF EnvelopeState
  <2>12. \A x \in DOMAIN g : g[x].state = "rejected" \/ g[x].state # "expired"
    BY <2>11 DEF EventsEnvelope
  <2>13. \A x \in DOMAIN g : x \in {"earnings", "macro"} /\ g[x].state \in AnswerState
    BY <2>5, MonitorAssumption DEF Groups, Group
  <2> QED
    BY <2>8, <2>12, <2>13
<1> QED
  BY <1>1, <1>2

\* The alerts of a run are those of its conditions that are told and were not told before.
LEMMA AlertsOfARun ==
  ASSUME TypeOK, WorkInvariant
  PROVE  /\ IsFiniteSet(NewAlerts)
         /\ \A a \in NewAlerts : \E c \in work.conditions : IsAlert(c) /\ a = AlertOf(c) /\ a.condition = c
         /\ \A c \in work.conditions : IsAlert(c) =>
              \/ AlertOf(c) \in NewAlerts
              \/ \E i \in DOMAIN alerts : SameAlert(alerts[i], AlertOf(c))
<1> DEFINE told == {d \in work.conditions : IsAlert(d)}
           f == [c \in told |-> AlertOf(c)]
           all == {AlertOf(c) : c \in told}
<1>1. IsFiniteSet(told)
  <2>1. told \in SUBSET Conditions
    BY DEF WorkInvariant, WorkType
  <2> HIDE DEF told
  <2> QED
    BY <2>1, MonitorAssumption, FS_Subset
<1>2. IsFiniteSet(all)
  <2>1. f \in Surjection(told, all)
    BY DEF Surjection
  <2> HIDE DEF told, f, all
  <2> QED
    BY <1>1, <2>1, FS_Surjection
<1>3. NewAlerts \in SUBSET all
  BY DEF NewAlerts
<1>4. IsFiniteSet(NewAlerts)
  <2> HIDE DEF all
  <2> QED
    BY <1>2, <1>3, FS_Subset
<1>5. \A c : AlertOf(c).condition = c
  BY DEF AlertOf
<1>6. \A a \in NewAlerts : \E c \in work.conditions : IsAlert(c) /\ a = AlertOf(c) /\ a.condition = c
  BY <1>3, <1>5
<1>7. \A c \in work.conditions : IsAlert(c) =>
        \/ AlertOf(c) \in NewAlerts
        \/ \E i \in DOMAIN alerts : SameAlert(alerts[i], AlertOf(c))
  BY DEF NewAlerts
<1> QED
  BY <1>4, <1>6, <1>7

\* What the commit of a run adds to the alerts.
LEMMA AlertsGrow ==
  ASSUME TypeOK, WorkInvariant, AlertInvariant, Commit
  PROVE  /\ alerts' \in Seq(Range(alerts'))
         /\ Len(alerts) \in Nat /\ Len(alerts') \in Nat /\ Len(alerts) <= Len(alerts')
         /\ DOMAIN alerts = 1..Len(alerts) /\ DOMAIN alerts' = 1..Len(alerts')
         /\ \A i \in 1..Len(alerts) : alerts'[i] = alerts[i]
         /\ \A i \in (Len(alerts) + 1)..Len(alerts') :
              \E c \in work.conditions : IsAlert(c) /\ alerts'[i] = AlertOf(c) /\ alerts'[i].condition = c
         /\ \A i, j \in (Len(alerts) + 1)..Len(alerts') :
              alerts'[i].condition = alerts'[j].condition => i = j
         /\ \A a \in NewAlerts : \E i \in (Len(alerts) + 1)..Len(alerts') : alerts'[i] = a
<1> DEFINE new == SetToSeq(NewAlerts)
           n == Len(alerts)
<1>1. /\ new \in Seq(NewAlerts)
      /\ \A i, j \in DOMAIN new : new[i] = new[j] => i = j
      /\ \A a \in NewAlerts : \E i \in DOMAIN new : new[i] = a
  BY AlertsOfARun, InAnyOrder
<1>2. alerts' = alerts \o new
  BY DEF Commit
<1> HIDE DEF new
<1>3. /\ n \in Nat /\ Len(new) \in Nat
      /\ alerts \o new \in Seq(Range(alerts \o new))
      /\ DOMAIN alerts = 1..n /\ DOMAIN new = 1..Len(new)
      /\ DOMAIN (alerts \o new) = 1..(n + Len(new)) /\ Len(alerts \o new) = n + Len(new)
      /\ \A i \in 1..n : (alerts \o new)[i] = alerts[i]
      /\ \A i \in 1..Len(new) : (alerts \o new)[n + i] = new[i]
  BY <1>1, Extended DEF AlertInvariant
<1>4. alerts' \in Seq(Range(alerts'))
  BY <1>2, <1>3 DEF Range
<1>5. /\ Len(alerts') = n + Len(new) /\ DOMAIN alerts' = 1..Len(alerts')
      /\ \A i \in 1..n : alerts'[i] = alerts[i]
      /\ \A i \in 1..Len(new) : alerts'[n + i] = new[i]
  BY <1>2, <1>3
<1>6. \A i \in (n + 1)..Len(alerts') : /\ i - n \in 1..Len(new) /\ alerts'[i] = new[i - n]
                                       /\ new[i - n] \in NewAlerts
  <2>1. TAKE i \in (n + 1)..Len(alerts')
  <2>2. i - n \in 1..Len(new) /\ n + (i - n) = i
    BY <1>3, <1>5
  <2> QED
    BY <2>2, <1>1, <1>5
<1>7. \A i \in (n + 1)..Len(alerts') :
        \E c \in work.conditions : IsAlert(c) /\ alerts'[i] = AlertOf(c) /\ alerts'[i].condition = c
  BY <1>6, AlertsOfARun
<1>8. \A i, j \in (n + 1)..Len(alerts') : alerts'[i].condition = alerts'[j].condition => i = j
  <2>1. TAKE i, j \in (n + 1)..Len(alerts')
  <2>2. HAVE alerts'[i].condition = alerts'[j].condition
  <2>3. alerts'[i] = alerts'[j]
    BY <1>7, <2>2
  <2>4. /\ i - n \in DOMAIN new /\ j - n \in DOMAIN new
        /\ new[i - n] = new[j - n]
    BY <1>3, <1>6, <2>3
  <2>5. i - n = j - n
    BY <1>1, <2>4
  <2> QED
    BY <2>5, <1>3, <1>5
<1>9. \A a \in NewAlerts : \E i \in (n + 1)..Len(alerts') : alerts'[i] = a
  <2>1. TAKE a \in NewAlerts
  <2>2. PICK k \in 1..Len(new) : new[k] = a
    BY <1>1, <1>3
  <2>3. n + k \in (n + 1)..Len(alerts') /\ alerts'[n + k] = a
    BY <1>3, <1>5, <2>2
  <2> QED
    BY <2>3
<1> QED
  BY <1>3, <1>4, <1>5, <1>7, <1>8, <1>9

-----------------------------------------------------------------------------
(* The story of a metric *)

\* A conclusion that is added at the end, of a time not before the others, is the latest
\* one if it is fresh, and changes nothing if it is not.
LEMMA HistoryGrows ==
  ASSUME NEW s, NEW c, NEW quote, NEW now \in Nat, History(s, c, quote, now),
         NEW e \in MetricRecord,
         e.dataState = "fresh" =>
           /\ The(e.asOf) \in 1..now /\ e.asOf = Some(The(e.asOf))
           /\ e.status = StatusOf(c, quote[The(e.asOf)])
           /\ \A i \in FreshIn(s) : The(s[i].asOf) <= The(e.asOf)
  PROVE  LET t == Append(s, e)
         IN  /\ History(t, c, quote, now)
             /\ IF e.dataState = "fresh"
                THEN LatestIn(t) = Some(e) /\ StatusIn(t) = e.status
                ELSE LatestIn(t) = LatestIn(s) /\ StatusIn(t) = StatusIn(s)
             /\ \A i \in FreshIn(t) : \/ i \in FreshIn(s) /\ t[i] = s[i]
                                      \/ e.dataState = "fresh" /\ t[i] = e
<1> DEFINE t == Append(s, e)
           n == Len(s)
<1>1. s \in Seq(MetricRecord)
  BY DEF History
<1>2. /\ n \in Nat /\ DOMAIN s = 1..n /\ DOMAIN t = 1..(n + 1) /\ t \in Seq(MetricRecord)
      /\ \A i \in 1..n : t[i] = s[i]
      /\ t[n + 1] = e
  BY <1>1
<1> HIDE DEF t, n
<1>3. CASE e.dataState = "fresh"
  <2>1. FreshIn(t) = FreshIn(s) \union {n + 1}
    <3>1. \A i : i \in FreshIn(t) <=> i \in FreshIn(s) \union {n + 1}
      BY <1>2, <1>3 DEF FreshIn
    <3> QED
      BY <3>1
  <2>2. FreshIn(s) \subseteq 1..n
    BY <1>2 DEF FreshIn
  <2>3. \A i \in FreshIn(t) : i <= n + 1 /\ i \in Nat
    BY <1>2, <2>1, <2>2
  <2>4. \A i \in FreshIn(s) : i # n + 1 /\ t[i] = s[i]
    BY <1>2, <2>2
  <2>5. \A i \in FreshIn(t) : /\ The(t[i].asOf) \in 1..now
                              /\ t[i].asOf = Some(The(t[i].asOf))
                              /\ t[i].status = StatusOf(c, quote[The(t[i].asOf)])
    BY <1>2, <1>3, <2>1, <2>4 DEF History
  <2>6. \A i, j \in FreshIn(t) : i <= j => The(t[i].asOf) <= The(t[j].asOf)
    <3>1. TAKE i, j \in FreshIn(t)
    <3>2. HAVE i <= j
    <3>3. CASE i \in FreshIn(s) /\ j \in FreshIn(s)
      BY <2>4, <3>2, <3>3 DEF History
    <3>4. CASE i \in FreshIn(s) /\ j = n + 1
      BY <1>2, <1>3, <2>4, <3>4
    <3>5. CASE i = n + 1 /\ j = n + 1
      <4>1. The(t[j].asOf) \in Nat
        BY <2>5, <3>1
      <4> QED
        BY <3>5, <4>1
    <3>6. CASE i = n + 1 /\ j \in FreshIn(s)
      BY <1>2, <2>2, <3>2, <3>6
    <3> QED
      BY <2>1, <3>3, <3>4, <3>5, <3>6
  <2>7. History(t, c, quote, now)
    BY <1>2, <2>1, <2>3, <2>5, <2>6 DEF History
  <2>8. Max(FreshIn(t)) = n + 1
    <3>1. Max(FreshIn(t)) \in FreshIn(t) /\ \A i \in FreshIn(t) : i <= Max(FreshIn(t))
      BY <2>1, <2>7, LatestIsLast
    <3> QED
      <4>1. n + 1 \in FreshIn(t) /\ n + 1 <= Max(FreshIn(t)) /\ Max(FreshIn(t)) <= n + 1
        BY <2>1, <2>3, <3>1
      <4>2. Max(FreshIn(t)) \in Nat
        BY <2>3, <3>1
      <4> QED
        BY <1>2, <4>1, <4>2
  <2>9. LatestIn(t) = Some(e) /\ StatusIn(t) = e.status
    BY <1>2, <2>1, <2>7, <2>8, LatestIsLast
  <2>10. \A i \in FreshIn(t) : (i \in FreshIn(s) /\ t[i] = s[i]) \/ t[i] = e
    BY <1>2, <2>1, <2>4
  <2> QED
    BY <1>3, <2>7, <2>9, <2>10 DEF t
<1>4. CASE e.dataState # "fresh"
  <2>1. FreshIn(t) = FreshIn(s)
    <3>1. \A i : i \in FreshIn(t) <=> i \in FreshIn(s)
      BY <1>2, <1>4 DEF FreshIn
    <3> QED
      BY <3>1
  <2>2. \A i \in FreshIn(s) : t[i] = s[i]
    BY <1>2 DEF FreshIn
  <2>3. History(t, c, quote, now)
    BY <1>2, <2>1, <2>2 DEF History
  <2>4. LatestIn(t) = LatestIn(s)
    <3>1. CASE FreshIn(s) = {}
      BY <2>1, <3>1 DEF LatestIn
    <3>2. CASE FreshIn(s) # {}
      BY <2>1, <2>2, <2>3, <3>2, LatestIsLast
    <3> QED
      BY <3>1, <3>2
  <2>5. StatusIn(t) = StatusIn(s)
    BY <2>4 DEF StatusIn
  <2> QED
    BY <1>4, <2>1, <2>2, <2>3, <2>4, <2>5 DEF t
<1> QED
  BY <1>3, <1>4

\* What was told stays told while alerts are added and jobs are delivered again.
LEMMA ToldStays ==
  ASSUME NEW as, NEW as2, NEW js, NEW js2, NEW c, NEW n \in Nat,
         \A i \in 1..n : as2[i] = as[i],
         \A i \in 1..n : as[i].condition = c =>
           (js[<<"price", as[i].period>>].stalls > 0 => js2[<<"price", as[i].period>>].stalls > 0)
  PROVE  ToldIn(as, js, c, n) \subseteq ToldIn(as2, js2, c, n)
<1> DEFINE told == {i \in 1..n : as[i].condition = c}
           told2 == {i \in 1..n : as2[i].condition = c}
<1>1. told = told2
  OBVIOUS
<1>2. CASE told = {}
  BY <1>1, <1>2 DEF ToldIn
<1>3. CASE told # {}
  <2> DEFINE twice == {k \in told : js[<<"price", as[k].period>>].stalls > 0}
             twice2 == {k \in told2 : js2[<<"price", as2[k].period>>].stalls > 0}
  <2>1. ToldIn(as, js, c, n) = {as[i].to : i \in twice \union {Max(told)}}
    BY <1>3 DEF ToldIn
  <2>2. ToldIn(as2, js2, c, n) = {as2[i].to : i \in twice2 \union {Max(told2)}}
    BY <1>1, <1>3 DEF ToldIn
  <2>3. twice \subseteq twice2
    BY <1>1
  <2>4. \A i \in twice : as[i].to = as2[i].to
    OBVIOUS
  <2>5. as[Max(told)].to = as2[Max(told)].to
    <3>1. \A i \in told : as[i].to = as2[i].to
      OBVIOUS
    <3>2. Max(told) \in told
      BY <1>3, LargestIsMax
    <3> QED
      BY <3>1, <3>2
  <2> HIDE DEF told, told2, twice, twice2
  <2> QED
    BY <1>1, <2>1, <2>2, <2>3, <2>4, <2>5
<1> QED
  BY <1>2, <1>3

\* Alerts of other conditions tell nothing of this one.
LEMMA ToldOnlyByItsAlerts ==
  ASSUME NEW as, NEW js, NEW c, NEW n \in Nat, NEW m \in Nat, n <= m,
         \A i \in (n + 1)..m : as[i].condition # c
  PROVE  ToldIn(as, js, c, m) = ToldIn(as, js, c, n)
<1>1. {i \in 1..m : as[i].condition = c} = {i \in 1..n : as[i].condition = c}
  <2>1. \A i \in 1..m : i \in 1..n \/ i \in (n + 1)..m
    OBVIOUS
  <2>2. 1..n \subseteq 1..m
    OBVIOUS
  <2> QED
    BY <2>1, <2>2
<1> QED
  BY <1>1 DEF ToldIn

\* The last alert of a condition tells, and so does one whose run was delivered again.
LEMMA WhatIsTold ==
  ASSUME NEW as, NEW js, NEW c, NEW m \in Nat, NEW k \in 1..m, as[k].condition = c,
         \/ \A i \in (k + 1)..m : as[i].condition # c
         \/ js[<<"price", as[k].period>>].stalls > 0
  PROVE  as[k].to \in ToldIn(as, js, c, m)
<1> DEFINE told == {i \in 1..m : as[i].condition = c}
<1>1. k \in told
  OBVIOUS
<1>2. CASE \A i \in (k + 1)..m : as[i].condition # c
  <2>1. \A i \in told : k >= i
    <3>1. TAKE i \in told
    <3>2. i \in 1..m /\ i \notin (k + 1)..m
      BY <1>2
    <3> QED
      BY <3>2
  <2>2. Max(told) \in told /\ \A i \in told : Max(told) >= i
    BY <1>1, <2>1 DEF Max
  <2>3. Max(told) = k
    <3>1. Max(told) \in 1..m /\ k >= Max(told) /\ Max(told) >= k
      BY <1>1, <2>1, <2>2
    <3> QED
      BY <3>1
  <2> QED
    BY <1>1, <2>3 DEF ToldIn
<1>3. CASE js[<<"price", as[k].period>>].stalls > 0
  BY <1>1, <1>3 DEF ToldIn
<1> QED
  BY <1>2, <1>3

\* The commit of a run records what it made of a metric: the status moves exactly
\* when it is worth an alert.
LEMMA CommitRecords ==
  ASSUME MonitorInvariant, Commit, NEW c \in Conditions, c.kind = "metric"
  PROVE  /\ History(evaluations'[c], c, market.quote, clock)
         /\ IF c \in work.conditions /\ IsAlert(c)
            THEN StatusIn(evaluations'[c]) = Evaluated(c).status /\ LatestIn(evaluations'[c]) # None
            ELSE /\ StatusIn(evaluations'[c]) = StatusIn(evaluations[c])
                 /\ LatestIn(evaluations'[c]) = None <=> LatestIn(evaluations[c]) = None
<1> DEFINE s == evaluations[c]
           e == Evaluated(c)
           t == The(work.quotes).asOf
<1>0. TypeOK /\ WorkInvariant /\ HistoryInvariant /\ work.stage = "commit"
  BY DEF MonitorInvariant, Commit
<1>1. History(s, c, market.quote, clock) /\ NoneIsLater(c)
  BY <1>0 DEF HistoryInvariant
<1>2. CASE c \notin work.conditions
  <2>1. evaluations'[c] = s
    BY <1>2 DEF Commit
  <2> QED
    BY <1>1, <1>2, <2>1
<1>3. CASE c \in work.conditions
  <2>1. evaluations'[c] = Recorded(c, e)
    BY <1>3 DEF Commit
  <2>2. /\ work.quotes # None /\ t \in 1..clock
        /\ e \in MetricRecord
        /\ e.dataState = "fresh" =>
             /\ The(work.quotes).state = "fresh" /\ e.asOf = Some(t)
             /\ e.status = StatusOf(c, market.quote[t]) /\ e.status \in {"confirmed", "breached"}
    BY <1>0, <1>3, MetricJudged
  <2>3. IsAlert(c) <=> e.dataState = "fresh" /\ e.status # "pending" /\ e.status # StatusIn(s)
    BY InOtherWords DEF IsAlert
  <2>4. clock \in Nat
    BY <1>0, MonitorAssumption DEF TypeOK
  <2>5. e.dataState = "fresh" => \A i \in FreshIn(s) : The(s[i].asOf) <= t
    BY <1>0, <1>1, <2>2 DEF NoneIsLater
  <2>6. e.dataState = "fresh" =>
           /\ The(e.asOf) \in 1..clock /\ e.asOf = Some(The(e.asOf))
           /\ e.status = StatusOf(c, market.quote[The(e.asOf)])
           /\ \A i \in FreshIn(s) : The(s[i].asOf) <= The(e.asOf)
    BY <2>2, <2>5, Options
  <2> DEFINE app == Append(s, e)
  <2>7. /\ History(app, c, market.quote, clock)
        /\ IF e.dataState = "fresh"
           THEN LatestIn(app) = Some(e) /\ StatusIn(app) = e.status
           ELSE LatestIn(app) = LatestIn(s) /\ StatusIn(app) = StatusIn(s)
    <3> HIDE DEF s, e, t
    <3> QED
      BY <1>1, <2>2, <2>4, <2>6, HistoryGrows
  <2> HIDE DEF app, s, e, t
  <2>8. CASE evaluations'[c] = app
    <3>1. CASE e.dataState = "fresh" /\ IsAlert(c)
      BY <1>3, <2>7, <2>8, <3>1, Options DEF e
    <3>2. CASE e.dataState = "fresh" /\ ~IsAlert(c)
      <4>1. e.status = StatusIn(s) /\ e.status # "pending"
        BY <2>2, <2>3, <3>2
      <4>2. LatestIn(s) # None
        BY <1>1, <4>1, LatestIsLast
      <4> QED
        BY <2>7, <2>8, <3>2, <4>1, <4>2, Options DEF s
    <3>3. CASE e.dataState # "fresh"
      BY <2>3, <2>7, <2>8, <3>3 DEF s
    <3> QED
      BY <3>1, <3>2, <3>3
  <2>9. CASE evaluations'[c] # app
    <3>1. /\ evaluations'[c] = s
          /\ \E i \in DOMAIN s : s[i].dataState = e.dataState /\ s[i].status = e.status /\ s[i].asOf = e.asOf
      BY <2>1, <2>9 DEF Recorded, app, s, e
    <3>2. ~IsAlert(c)
      <4>1. SUFFICES ASSUME e.dataState = "fresh"
                     PROVE  e.status = StatusIn(s)
        BY <2>3
      <4>2. PICK i \in FreshIn(s) : s[i].status = e.status /\ s[i].asOf = e.asOf
        BY <3>1, <4>1 DEF FreshIn
      <4> DEFINE x == Max(FreshIn(s))
      <4>3. x \in FreshIn(s) /\ i <= x /\ StatusIn(s) = s[x].status
        BY <1>1, <4>2, LatestIsLast
      <4>4. The(s[i].asOf) = t
        BY <2>2, <4>1, <4>2, Options
      <4>5. The(s[i].asOf) <= The(s[x].asOf) /\ The(s[x].asOf) \in 1..clock
        BY <1>1, <4>2, <4>3 DEF History
      <4>6. The(s[x].asOf) <= t
        BY <2>5, <4>1, <4>3
      <4>7. The(s[x].asOf) = t
        BY <2>2, <2>4, <4>4, <4>5, <4>6
      <4>8. s[x].status = StatusOf(c, market.quote[t])
        BY <1>1, <4>3, <4>7 DEF History
      <4> QED
        BY <2>2, <4>1, <4>3, <4>8
    <3> QED
      BY <1>1, <3>1, <3>2 DEF s
  <2> QED
    BY <2>8, <2>9
<1> QED
  BY <1>2, <1>3

\* The commit of a run goes on with the story of every metric where it stood.
LEMMA CommitGoesOn ==
  ASSUME MonitorInvariant, Commit
  PROVE  /\ HistoryInvariant' /\ AlertInvariant'
         /\ MetricAlertsChain' /\ ConclusionsWereAlerted' /\ StaleDataDecidesNothing'
<1> DEFINE n == Len(alerts)
           m == Len(alerts')
           r == The(work.run)
<1>1. TypeOK /\ WorkInvariant /\ HistoryInvariant /\ AlertInvariant /\ work.stage = "commit"
  BY DEF MonitorInvariant, Commit
<1>2. /\ alerts' \in Seq(Range(alerts')) /\ n \in Nat /\ m \in Nat /\ n <= m
      /\ DOMAIN alerts = 1..n /\ DOMAIN alerts' = 1..m
      /\ \A i \in 1..n : alerts'[i] = alerts[i]
      /\ \A i \in (n + 1)..m :
           \E c \in work.conditions : IsAlert(c) /\ alerts'[i] = AlertOf(c) /\ alerts'[i].condition = c
      /\ \A i, j \in (n + 1)..m : alerts'[i].condition = alerts'[j].condition => i = j
      /\ \A a \in NewAlerts : \E i \in (n + 1)..m : alerts'[i] = a
  BY <1>1, AlertsGrow
<1>3. \A i \in 1..m : i \in 1..n \/ i \in (n + 1)..m
  BY <1>2
<1>4. /\ jobs' = jobs /\ market' = market /\ clock' = clock
      /\ work' = [work EXCEPT !.stage = "complete"]
      /\ evaluations' = [c \in Conditions |-> IF c \in work.conditions THEN Recorded(c, Evaluated(c))
                                              ELSE evaluations[c]]
  BY DEF Commit
<1>5. WorkType /\ work.run # None /\ work.conditions \subseteq Conditions
  BY <1>1 DEF WorkInvariant, WorkType
<1>6. work'.stage = "complete" /\ work'.run = work.run
  BY <1>4, <1>5 DEF WorkType
<1>7. r \in Run /\ work.run = Some(r)
  BY <1>5, Options DEF WorkType
<1> HIDE DEF n, m, r
<1>8. \A c \in work.conditions : c.kind = "metric" => r = <<"price", r[2]>>
  <2>1. TAKE c \in work.conditions
  <2>2. HAVE c.kind = "metric"
  <2>3. r[1] = "price"
    BY <1>1, <2>2, MetricJudged DEF r
  <2> QED
    BY <1>7, <2>3 DEF Run
<1>9. HistoryInvariant'
  <2>1. evaluations' = [c \in Conditions |-> evaluations'[c]]
    BY <1>4
  <2>2. ASSUME NEW c \in Conditions, c.kind = "metric"
        PROVE  History(evaluations'[c], c, market'.quote, clock') /\ NoneIsLater(c)'
    BY <1>4, <1>6, <2>2, CommitRecords DEF NoneIsLater
  <2> QED
    BY <2>1, <2>2 DEF HistoryInvariant
<1>10. AlertInvariant'
  <2>1. ASSUME NEW i \in 1..m, alerts'[i].condition.kind = "metric", NEW p, p = alerts'[i].period
        PROVE  RaisedBefore(p)'
    <3>1. CASE i \in 1..n
      <4>1. RaisedBefore(p)
        BY <1>1, <1>2, <2>1, <3>1 DEF AlertInvariant
      <4> QED
        BY <1>1, <1>4, <4>1 DEF RaisedBefore
    <3>2. CASE i \in (n + 1)..m
      <4>1. PICK c \in work.conditions : alerts'[i] = AlertOf(c) /\ alerts'[i].condition = c
        BY <1>2, <3>2
      <4>2. p = r[2] /\ r = <<"price", r[2]>>
        BY <1>8, <2>1, <4>1 DEF AlertOf, r
      <4> QED
        BY <1>6, <1>7, <4>2 DEF RaisedBefore
    <3> QED
      BY <1>3, <2>1, <3>1, <3>2
  <2>2. \A i \in 1..m : alerts'[i].condition.kind = "metric" => RaisedBefore(alerts[i].period)'
    BY <2>1 DEF RaisedBefore
  <2> QED
    BY <1>2, <2>2 DEF AlertInvariant
<1>11. StaleDataDecidesNothing'
  <2>1. ASSUME NEW i \in 1..m
        PROVE  \A source \in DOMAIN alerts'[i].basis :
                 alerts'[i].basis[source] \in IF source = "quotes" THEN {"fresh"} ELSE AnswerState \ {"expired"}
    <3>1. CASE i \in 1..n
      <4>1. StaleDataDecidesNothing
        BY DEF MonitorInvariant
      <4> QED
        BY <1>2, <3>1, <4>1 DEF StaleDataDecidesNothing
    <3>2. CASE i \in (n + 1)..m
      BY <1>1, <1>2, <3>2, FreshBasis
    <3> QED
      BY <1>3, <2>1, <3>1, <3>2
  <2> QED
    BY <1>2, <2>1 DEF StaleDataDecidesNothing
\* What was told before the commit is told after it.
<1>12. ASSUME NEW c \in Conditions, c.kind = "metric", NEW k \in 0..n
       PROVE  ToldIn(alerts, jobs, c, k) \subseteq ToldIn(alerts', jobs', c, k)
  <2>1. \A i \in 1..k : alerts'[i] = alerts[i]
    BY <1>2
  <2> QED
    BY <1>2, <1>4, <2>1, ToldStays
<1>13. ASSUME NEW c \in Conditions, c.kind = "metric"
       PROVE  StatusIn(evaluations[c]) \in ToldIn(alerts, jobs, c, n)
  BY <1>13, InOtherWords DEF MonitorInvariant, ConclusionsWereAlerted, n
<1>14. MetricAlertsChain'
  <2>1. ASSUME NEW j \in 1..m, alerts'[j].condition.kind = "metric"
        PROVE  alerts'[j].from \in ToldIn(alerts', jobs', alerts'[j].condition, j - 1)
    <3> DEFINE c == alerts'[j].condition
    <3>1. CASE j \in 1..n
      <4>1. alerts[j].from \in ToldIn(alerts, jobs, c, j - 1)
        BY <1>2, <2>1, <3>1, InOtherWords DEF MonitorInvariant, MetricAlertsChain
      <4>2. j - 1 \in Nat /\ \A i \in 1..(j - 1) : alerts'[i] = alerts[i]
        BY <1>2, <3>1
      <4>3. ToldIn(alerts, jobs, c, j - 1) \subseteq ToldIn(alerts', jobs', c, j - 1)
        BY <1>4, <4>2, ToldStays
      <4> QED
        BY <1>2, <3>1, <4>1, <4>3
    <3>2. CASE j \in (n + 1)..m
      <4>1. c \in work.conditions /\ alerts'[j] = AlertOf(c) /\ c.kind = "metric"
        BY <1>2, <2>1, <3>2
      <4>2. alerts'[j].from = StatusIn(evaluations[c])
        <5>1. AlertOf(c).from = FromStatus(c)
          BY DEF AlertOf
        <5> QED
          BY <4>1, <5>1, InOtherWords
      <4>3. \A i \in (n + 1)..(j - 1) : alerts'[i].condition # c
        <5>1. TAKE i \in (n + 1)..(j - 1)
        <5>2. i \in (n + 1)..m /\ i # j
          BY <1>2, <3>2
        <5> QED
          BY <1>2, <3>2, <5>2
      <4>4. j - 1 \in Nat /\ n <= j - 1
        BY <1>2, <3>2
      <4> HIDE DEF c
      <4>5. ToldIn(alerts', jobs', c, j - 1) = ToldIn(alerts', jobs', c, n)
        BY <1>2, <4>3, <4>4, ToldOnlyByItsAlerts
      <4>6. StatusIn(evaluations[c]) \in ToldIn(alerts, jobs, c, n)
        BY <1>5, <1>13, <4>1
      <4>7. ToldIn(alerts, jobs, c, n) \subseteq ToldIn(alerts', jobs', c, n)
        BY <1>2, <1>5, <1>12, <4>1
      <4> QED
        BY <4>2, <4>5, <4>6, <4>7 DEF c
    <3> QED
      BY <1>3, <2>1, <3>1, <3>2
  <2>2. \A c, k : Told(c, k)' = ToldIn(alerts', jobs', c, k)
    BY DEF Told, ToldIn
  <2> QED
    BY <1>2, <2>1, <2>2 DEF MetricAlertsChain
<1>15. ConclusionsWereAlerted'
  <2>1. ASSUME NEW c \in Conditions, c.kind = "metric"
        PROVE  /\ StatusIn(evaluations'[c]) \in ToldIn(alerts', jobs', c, m)
               /\ LatestIn(evaluations'[c]) = None <=> \A i \in 1..m : alerts'[i].condition # c
    <3>1. /\ IF c \in work.conditions /\ IsAlert(c)
             THEN StatusIn(evaluations'[c]) = Evaluated(c).status /\ LatestIn(evaluations'[c]) # None
             ELSE /\ StatusIn(evaluations'[c]) = StatusIn(evaluations[c])
                  /\ LatestIn(evaluations'[c]) = None <=> LatestIn(evaluations[c]) = None
      BY <2>1, CommitRecords
    <3>2. /\ AlertOf(c).to = Evaluated(c).status /\ AlertOf(c).condition = c
          /\ AlertOf(c).period = r[2]
      BY DEF AlertOf, r
    <3>3. CASE c \in work.conditions /\ IsAlert(c) /\ AlertOf(c) \in NewAlerts
      <4>1. PICK k \in (n + 1)..m : alerts'[k] = AlertOf(c)
        BY <1>2, <3>3
      <4>2. \A i \in (k + 1)..m : alerts'[i].condition # c
        <5>1. TAKE i \in (k + 1)..m
        <5>2. i \in (n + 1)..m /\ i # k
          BY <1>2
        <5> QED
          BY <1>2, <3>2, <4>1, <5>2
      <4>3. k \in 1..m
        BY <1>2
      <4>4. alerts'[k].to \in ToldIn(alerts', jobs', c, m)
        BY <1>2, <3>2, <4>1, <4>2, <4>3, WhatIsTold
      <4> QED
        BY <3>1, <3>2, <3>3, <4>1, <4>3, <4>4
    <3>4. CASE c \in work.conditions /\ IsAlert(c) /\ AlertOf(c) \notin NewAlerts
      <4>1. PICK k \in 1..n : SameAlert(alerts[k], AlertOf(c))
        BY <1>1, <1>2, <3>4, AlertsOfARun
      <4>2. alerts[k].condition = c /\ alerts[k].to = Evaluated(c).status /\ alerts[k].period = r[2]
        BY <3>2, <4>1 DEF SameAlert
      <4>3. r = <<"price", alerts[k].period>>
        BY <1>8, <2>1, <3>4, <4>2
      <4>4. RaisedBefore(alerts[k].period)
        BY <1>1, <1>2, <2>1, <4>2 DEF AlertInvariant
      <4>5. jobs[r].state = "active"
        BY <1>1 DEF MonitorInvariant, QueueInvariant, r
      <4>6. jobs[<<"price", alerts[k].period>>].stalls > 0
        BY <1>1, <4>3, <4>4, <4>5 DEF RaisedBefore
      <4>7. k \in 1..m /\ alerts'[k] = alerts[k]
        BY <1>2
      <4>8. alerts'[k].to \in ToldIn(alerts', jobs', c, m)
        BY <1>2, <1>4, <4>2, <4>6, <4>7, WhatIsTold
      <4> QED
        BY <3>1, <3>4, <4>2, <4>7, <4>8
    <3>5. CASE ~(c \in work.conditions /\ IsAlert(c))
      <4>1. \A i \in (n + 1)..m : alerts'[i].condition # c
        BY <1>2, <3>5
      <4>2. ToldIn(alerts', jobs', c, m) = ToldIn(alerts', jobs', c, n)
        BY <1>2, <4>1, ToldOnlyByItsAlerts
      <4>3. ToldIn(alerts, jobs, c, n) \subseteq ToldIn(alerts', jobs', c, n)
        BY <1>2, <1>12, <2>1
      <4>4. StatusIn(evaluations[c]) \in ToldIn(alerts, jobs, c, n)
        BY <1>13, <2>1
      <4>5. LatestIn(evaluations[c]) = None <=> \A i \in 1..n : alerts[i].condition # c
        BY <1>2, <2>1, InOtherWords DEF MonitorInvariant, ConclusionsWereAlerted
      <4>6. (\A i \in 1..n : alerts[i].condition # c) <=> \A i \in 1..m : alerts'[i].condition # c
        <5>1. \A i \in 1..n : i \in 1..m
          BY <1>2
        <5> QED
          BY <1>2, <1>3, <4>1, <5>1
      <4> QED
        BY <3>1, <3>5, <4>2, <4>3, <4>4, <4>5, <4>6
    <3> QED
      BY <3>3, <3>4, <3>5
  <2>2. \A c, k : Told(c, k)' = ToldIn(alerts', jobs', c, k)
    BY DEF Told, ToldIn
  <2>3. \A c : LatestEffective(c)' = LatestIn(evaluations'[c])
    BY DEF LatestEffective, LatestIn, FreshOf, FreshIn
  <2>4. \A c : FromStatus(c)' = StatusIn(evaluations'[c])
    BY <2>3 DEF FromStatus, StatusIn
  <2> QED
    BY <1>2, <2>1, <2>2, <2>3, <2>4 DEF ConclusionsWereAlerted, m
<1> QED
  BY <1>9, <1>10, <1>11, <1>14, <1>15

-----------------------------------------------------------------------------
(* The other steps *)

\* A step that adds no alert and no conclusion leaves the story as it is.
LEMMA StoryStays ==
  ASSUME MonitorInvariant, alerts' = alerts, evaluations' = evaluations, market' = market,
         clock' \in Nat, clock <= clock',
         \A r \in Run : jobs[r].stalls > 0 => jobs'[r].stalls > 0,
         \A p : RaisedBefore(p) => RaisedBefore(p)',
         \A c \in Conditions : c.kind = "metric" => NoneIsLater(c)'
  PROVE  /\ HistoryInvariant' /\ AlertInvariant'
         /\ MetricAlertsChain' /\ ConclusionsWereAlerted' /\ StaleDataDecidesNothing'
<1>1. TypeOK /\ HistoryInvariant /\ AlertInvariant /\ clock \in Nat
  BY MonitorAssumption DEF MonitorInvariant, TypeOK
<1>2. HistoryInvariant'
  <2>1. ASSUME NEW c \in Conditions, c.kind = "metric"
        PROVE  History(evaluations[c], c, market.quote, clock')
    <3>1. History(evaluations[c], c, market.quote, clock)
      BY <1>1, <2>1 DEF HistoryInvariant
    <3>2. 1..clock \subseteq 1..clock'
      BY <1>1
    <3> QED
      BY <3>1, <3>2 DEF History
  <2> QED
    BY <1>1, <2>1 DEF HistoryInvariant
<1>3. AlertInvariant'
  BY <1>1 DEF AlertInvariant, RaisedBefore
<1>4. \A i \in DOMAIN alerts : alerts[i].condition.kind = "metric" => <<"price", alerts[i].period>> \in Run
  BY <1>1 DEF AlertInvariant, RaisedBefore
<1>5. Len(alerts) \in Nat /\ DOMAIN alerts = 1..Len(alerts)
  BY <1>1 DEF AlertInvariant
<1>6. ASSUME NEW c, c.kind = "metric", NEW n \in 0..Len(alerts)
      PROVE  Told(c, n) \subseteq Told(c, n)'
  <2>1. \A i \in 1..n : alerts[i].condition = c =>
          (jobs[<<"price", alerts[i].period>>].stalls > 0 => jobs'[<<"price", alerts[i].period>>].stalls > 0)
    BY <1>4, <1>5, <1>6
  <2>2. ToldIn(alerts, jobs, c, n) \subseteq ToldIn(alerts, jobs', c, n)
    BY <1>5, <2>1, ToldStays
  <2>3. Told(c, n) = ToldIn(alerts, jobs, c, n) /\ Told(c, n)' = ToldIn(alerts, jobs', c, n)
    BY DEF Told, ToldIn
  <2> QED
    BY <2>2, <2>3
<1>7. MetricAlertsChain'
  <2>1. ASSUME NEW j \in 1..Len(alerts), alerts[j].condition.kind = "metric", NEW c, c = alerts[j].condition
        PROVE  alerts[j].from \in Told(c, j - 1)'
    <3>1. j - 1 \in 0..Len(alerts)
      BY <1>5
    <3>2. alerts[j].from \in Told(c, j - 1)
      BY <1>5, <2>1 DEF MonitorInvariant, MetricAlertsChain
    <3> QED
      BY <1>6, <2>1, <3>1, <3>2
  <2>2. \A j \in 1..Len(alerts) : alerts[j].condition.kind = "metric" =>
          alerts[j].from \in Told(alerts[j].condition, j - 1)'
    BY <2>1 DEF Told
  <2> QED
    BY <1>5, <2>2 DEF MetricAlertsChain
<1>8. ConclusionsWereAlerted'
  <2>1. \A c : LatestEffective(c)' = LatestEffective(c) /\ FromStatus(c)' = FromStatus(c)
    BY DEF LatestEffective, FreshOf, FromStatus
  <2>2. ASSUME NEW c \in Conditions, c.kind = "metric"
        PROVE  Told(c, Len(alerts)) \subseteq Told(c, Len(alerts))'
    <3>1. Len(alerts) \in 0..Len(alerts)
      BY <1>5
    <3>2. ASSUME NEW n \in 0..Len(alerts), n = Len(alerts)
          PROVE  Told(c, n) \subseteq Told(c, n)'
      BY <1>6, <2>2
    <3> QED
      BY <3>1, <3>2 DEF Told
  <2>3. ConclusionsWereAlerted
    BY DEF MonitorInvariant
  <2> QED
    BY <2>1, <2>2, <2>3 DEF ConclusionsWereAlerted
<1>9. StaleDataDecidesNothing'
  BY DEF MonitorInvariant, StaleDataDecidesNothing
<1> QED
  BY <1>2, <1>3, <1>7, <1>8, <1>9

\* The types that the steps of a scheduler or of the worker rely on.
LEMMA Types ==
  ASSUME MonitorInvariant
  PROVE  /\ TypeOK /\ WorkInvariant /\ QueueInvariant /\ HistoryInvariant /\ WorkType
         /\ clock \in 1..MaxTime /\ MaxTime \in Nat /\ MaxTries \in Nat \ {0} /\ MaxCrashes \in Nat
         /\ \A r \in Run : /\ jobs[r].tries \in 0..MaxTries /\ jobs[r].stalls \in 0..2
                           /\ r = <<r[1], r[2]>> /\ r[1] \in MonitorType /\ r[2] \in 1..MaxTime
         /\ work.run # None => work.run = Some(The(work.run)) /\ The(work.run) \in Run
         /\ \A s \in Schedulers : claimed[s] # None =>
              claimed[s] = Some(The(claimed[s])) /\ The(claimed[s]) \in Run
<1>1. TypeOK /\ WorkInvariant /\ QueueInvariant /\ HistoryInvariant /\ WorkType
  BY DEF MonitorInvariant, WorkInvariant
<1>2. clock \in 1..MaxTime /\ MaxTime \in Nat /\ MaxTries \in Nat \ {0} /\ MaxCrashes \in Nat
  BY <1>1, MonitorAssumption DEF TypeOK
<1>3. \A r \in Run : /\ jobs[r].tries \in 0..MaxTries /\ jobs[r].stalls \in 0..2
                     /\ r = <<r[1], r[2]>> /\ r[1] \in MonitorType /\ r[2] \in 1..MaxTime
  BY <1>1 DEF TypeOK, Run
<1>4. work.run # None => work.run = Some(The(work.run)) /\ The(work.run) \in Run
  BY <1>1, Options DEF WorkType
<1>5. \A s \in Schedulers : claimed[s] \in Opt(Run)
  BY <1>1 DEF TypeOK, Opt
<1> QED
  BY <1>1, <1>2, <1>3, <1>4, <1>5, Options

\* A tick only makes what is known older.
LEMMA TickKeeps ==
  ASSUME MonitorInvariant, Tick
  PROVE  MonitorInvariant'
<1>1. TypeOK'
  BY Types DEF TypeOK, Tick
<1>2. WorkInvariant'
  <2>1. WorkType'
    BY Types DEF WorkType, Tick
  <2>2. work.stage = "commit" /\ work.conditions # {} /\ The(work.run)[1] # "event" =>
          The(work.quotes).asOf <= clock + 1
    <3>1. work.quotes \in Opt(Quote)
      BY Types DEF WorkType
    <3>2. work.quotes # None => The(work.quotes) \in Quote
      BY <3>1, Options
    <3>3. work.quotes # None => The(work.quotes).asOf \in Nat
      BY <3>2, Types DEF Quote
    <3> QED
      BY <3>3, Types DEF WorkInvariant
  <2> QED
    BY <2>1, <2>2, Types DEF WorkInvariant, Tick
<1>3. QueueInvariant'
  BY Types DEF QueueInvariant, RunsAndJobsEndTogether, Tick
<1>4. /\ HistoryInvariant' /\ AlertInvariant'
      /\ MetricAlertsChain' /\ ConclusionsWereAlerted' /\ StaleDataDecidesNothing'
  <2>1. \A c \in Conditions : c.kind = "metric" => NoneIsLater(c)'
    BY Types DEF HistoryInvariant, NoneIsLater, Tick
  <2>2. \A p : RaisedBefore(p) => RaisedBefore(p)'
    BY DEF RaisedBefore, Tick
  <2>3. /\ alerts' = alerts /\ evaluations' = evaluations /\ market' = market /\ jobs' = jobs
        /\ clock' \in Nat /\ clock <= clock'
    BY Types DEF Tick
  <2> QED
    BY <2>1, <2>2, <2>3, StoryStays
<1> QED
  BY <1>1, <1>2, <1>3, <1>4 DEF MonitorInvariant

\* A claim takes a period nobody took.
LEMMA ClaimKeeps ==
  ASSUME MonitorInvariant, NEW s \in Schedulers, NEW r \in Run, Claim(s, r)
  PROVE  MonitorInvariant'
<1>1. Some(r) # None /\ The(Some(r)) = r
  BY Options
<1>2. /\ claimed[s] = None /\ runs[r] = "unclaimed"
      /\ runs' = [runs EXCEPT ![r] = "claimed"] /\ claimed' = [claimed EXCEPT ![s] = Some(r)]
      /\ UNCHANGED <<types, market, clock, lastSuccess, jobs, work, evaluations, alerts,
                     monitored, interrupted, crashes>>
  BY DEF Claim
<1>3. TypeOK'
  BY <1>2, Types DEF TypeOK
<1>4. WorkInvariant'
  BY <1>2, Types DEF WorkInvariant, WorkType
<1>5. QueueInvariant'
  <2>1. jobs[r].state = "none"
    BY <1>2, Types DEF QueueInvariant
  <2>2. work.stage = "complete" => The(work.run) # r
    BY <1>2, Types DEF QueueInvariant
  <2>3. \A t \in Schedulers : claimed'[t] # None =>
          /\ runs'[The(claimed'[t])] = "claimed" /\ jobs'[The(claimed'[t])].state = "none"
          /\ The(claimed'[t]) \notin interrupted
          /\ \A u \in Schedulers : claimed'[u] = claimed'[t] => u = t
    <3>1. TAKE t \in Schedulers
    <3>2. HAVE claimed'[t] # None
    <3>3. r \notin interrupted /\ \A u \in Schedulers : claimed[u] # Some(r)
      BY <1>1, <1>2, Types DEF QueueInvariant
    <3>4. CASE t = s
      BY <1>1, <1>2, <2>1, <3>3, <3>4, Types DEF TypeOK
    <3>5. CASE t # s
      BY <1>1, <1>2, <2>1, <3>2, <3>3, <3>5, Types DEF TypeOK, QueueInvariant
    <3> QED
      BY <3>4, <3>5
  <2>4. RunsAndJobsEndTogether'
    <3>1. claimed'[s] = Some(r) /\ \A t \in Schedulers : claimed[t] # None => claimed'[t] = claimed[t]
      BY <1>2, Types DEF TypeOK
    <3>2. runs'[r] = "claimed" /\ \A q \in Run : q # r => runs'[q] = runs[q]
      BY <1>2, Types DEF TypeOK
    <3>3. ASSUME NEW q \in Run, q # r, \E t \in Schedulers : claimed[t] = Some(q)
          PROVE  \E t \in Schedulers : claimed'[t] = Some(q)
      BY <3>1, <3>3, Options
    <3>4. r \notin interrupted
      BY <1>2, Types DEF QueueInvariant
    <3> QED
      BY <1>2, <2>1, <3>1, <3>2, <3>3, <3>4, Types DEF QueueInvariant, RunsAndJobsEndTogether
  <2>5. \A q \in interrupted : runs'[q] # "unclaimed"
    BY <1>2, Types DEF QueueInvariant, TypeOK
  <2>6. \A q \in Run : runs'[q] = "unclaimed" => jobs'[q].state = "none"
    BY <1>2, Types DEF QueueInvariant, TypeOK
  <2> QED
    BY <1>2, <2>1, <2>2, <2>3, <2>4, <2>5, <2>6, Types DEF QueueInvariant, TypeOK, WorkInvariant
<1>6. /\ HistoryInvariant' /\ AlertInvariant'
      /\ MetricAlertsChain' /\ ConclusionsWereAlerted' /\ StaleDataDecidesNothing'
  <2>1. \A c \in Conditions : c.kind = "metric" => NoneIsLater(c)'
    BY <1>2, Types DEF HistoryInvariant, NoneIsLater
  <2>2. \A p : RaisedBefore(p) => RaisedBefore(p)'
    BY <1>2 DEF RaisedBefore
  <2> QED
    BY <1>2, <2>1, <2>2, StoryStays, Types
<1> QED
  BY <1>3, <1>4, <1>5, <1>6 DEF MonitorInvariant

\* The job of a claim is new.
LEMMA AddJobKeeps ==
  ASSUME MonitorInvariant, NEW s \in Schedulers, AddJob(s)
  PROVE  MonitorInvariant'
<1> DEFINE r == The(claimed[s])
<1>1. /\ claimed[s] = Some(r) /\ r \in Run /\ runs[r] = "claimed" /\ jobs[r].state = "none"
      /\ r \notin interrupted
      /\ jobs' = [jobs EXCEPT ![r].state = "waiting"] /\ claimed' = [claimed EXCEPT ![s] = None]
      /\ UNCHANGED <<types, market, clock, runs, lastSuccess, work, evaluations, alerts,
                     monitored, interrupted, crashes>>
  BY Types DEF AddJob, QueueInvariant
<1>2. \A t \in Schedulers : claimed[t] = claimed[s] => t = s
  BY <1>1, Options, Types DEF QueueInvariant
<1> HIDE DEF r
<1>3. jobs' \in [Run -> [state : {"none", "waiting", "delayed", "active", "done", "failed", "stalled"},
                         tries : 0..MaxTries, stalls : 0..2]]
  BY <1>1, Types DEF TypeOK
<1>4. /\ \A q \in Run : jobs'[q].stalls = jobs[q].stalls /\ jobs'[q].tries = jobs[q].tries
      /\ \A q \in Run : q # r => jobs'[q] = jobs[q]
      /\ jobs'[r].state = "waiting"
  BY <1>1, Types DEF TypeOK
<1>5. TypeOK'
  BY <1>1, <1>3, Types DEF TypeOK
<1>6. WorkInvariant'
  BY <1>1, Types DEF WorkInvariant, WorkType
<1>7. QueueInvariant'
  <2>1. \A t \in Schedulers : claimed'[t] # None =>
          /\ runs'[The(claimed'[t])] = "claimed" /\ jobs'[The(claimed'[t])].state = "none"
          /\ The(claimed'[t]) \notin interrupted
          /\ \A u \in Schedulers : claimed'[u] = claimed'[t] => u = t
    <3>1. TAKE t \in Schedulers
    <3>2. HAVE claimed'[t] # None
    <3>3. t # s /\ claimed'[t] = claimed[t]
      BY <1>1, <3>2, Types DEF TypeOK
    <3>4. The(claimed[t]) # r
      BY <1>1, <1>2, <3>2, <3>3, Types
    <3>5. The(claimed[t]) \in Run
      BY <3>2, <3>3, Types
    <3>6. \A u \in Schedulers : claimed'[u] = claimed'[t] => u # s /\ claimed'[u] = claimed[u]
      BY <1>1, <3>2, <3>3, Types DEF TypeOK
    <3> QED
      BY <1>1, <1>4, <3>2, <3>3, <3>4, <3>5, <3>6, Types DEF QueueInvariant
  <2>2. work.stage # "idle" => The(work.run) # r /\ The(work.run) \in Run
    BY <1>1, Types DEF QueueInvariant, WorkInvariant
  <2>3. \A q \in Run : runs'[q] = "unclaimed" => jobs'[q].state = "none"
    BY <1>1, <1>4, Types DEF QueueInvariant
  <2>4. RunsAndJobsEndTogether'
    <3>1. ASSUME NEW q \in Run, q # r, NEW t \in Schedulers, claimed[t] = Some(q)
          PROVE  claimed'[t] = Some(q)
      BY <1>1, <3>1, Options, Types DEF TypeOK
    <3> QED
      BY <1>1, <1>4, <3>1, Types DEF QueueInvariant, RunsAndJobsEndTogether
  <2>5. \A q \in Run : jobs'[q].state \in {"none", "waiting", "delayed", "active"} =>
          jobs'[q].tries < MaxTries /\ jobs'[q].stalls <= 1
    BY <1>1, <1>4, Types DEF QueueInvariant
  <2> QED
    BY <1>1, <1>4, <2>1, <2>2, <2>3, <2>4, <2>5, Types DEF QueueInvariant
<1>8. /\ HistoryInvariant' /\ AlertInvariant'
      /\ MetricAlertsChain' /\ ConclusionsWereAlerted' /\ StaleDataDecidesNothing'
  <2>1. \A c \in Conditions : c.kind = "metric" => NoneIsLater(c)'
    BY <1>1, Types DEF HistoryInvariant, NoneIsLater
  <2>2. \A p : RaisedBefore(p) => RaisedBefore(p)'
    <3>1. TAKE p
    <3>2. HAVE RaisedBefore(p)
    <3> DEFINE q == <<"price", p>>
    <3>3. q \in Run
      BY <3>2 DEF RaisedBefore
    <3>4. q # r => jobs'[q] = jobs[q]
      BY <1>4, <3>3
    <3>5. jobs[q].state # "none" => q # r
      BY <1>1
    <3> QED
      BY <1>1, <1>4, <3>2, <3>3, <3>4, <3>5 DEF RaisedBefore
  <2> QED
    BY <1>1, <1>4, <2>1, <2>2, StoryStays, Types
<1> QED
  BY <1>5, <1>6, <1>7, <1>8 DEF MonitorInvariant

\* A claim whose job the queue refused stays a claim, and nothing else comes of it.
LEMMA AddFailsKeeps ==
  ASSUME MonitorInvariant, NEW s \in Schedulers, AddFails(s)
  PROVE  MonitorInvariant'
<1> DEFINE r == The(claimed[s])
<1>1. /\ claimed[s] = Some(r) /\ r \in Run /\ runs[r] = "claimed" /\ jobs[r].state = "none"
      /\ claimed' = [claimed EXCEPT ![s] = None] /\ interrupted' = interrupted \union {r}
      /\ UNCHANGED <<types, market, clock, runs, lastSuccess, jobs, work, evaluations, alerts,
                     monitored, crashes>>
  BY Types DEF AddFails, QueueInvariant
<1>2. \A t \in Schedulers : claimed[t] = claimed[s] => t = s
  BY <1>1, Options, Types DEF QueueInvariant
<1> HIDE DEF r
<1>3. TypeOK'
  BY <1>1, Types DEF TypeOK
<1>4. WorkInvariant'
  BY <1>1, Types DEF WorkInvariant, WorkType
<1>5. QueueInvariant'
  <2>1. \A t \in Schedulers : claimed'[t] # None => t # s /\ claimed'[t] = claimed[t]
    BY <1>1, Types DEF TypeOK
  <2>2. \A t \in Schedulers : claimed'[t] # None =>
          /\ runs'[The(claimed'[t])] = "claimed" /\ jobs'[The(claimed'[t])].state = "none"
          /\ The(claimed'[t]) \notin interrupted'
          /\ \A u \in Schedulers : claimed'[u] = claimed'[t] => u = t
    <3>1. TAKE t \in Schedulers
    <3>2. HAVE claimed'[t] # None
    <3>3. The(claimed[t]) # r
      BY <1>1, <1>2, <2>1, <3>2, Types
    <3> QED
      BY <1>1, <2>1, <3>2, <3>3, Types DEF QueueInvariant
  <2>3. RunsAndJobsEndTogether'
    <3>1. ASSUME NEW q \in Run, q # r, NEW t \in Schedulers, claimed[t] = Some(q)
          PROVE  claimed'[t] = Some(q)
      BY <1>1, <3>1, Options, Types DEF TypeOK
    <3> QED
      BY <1>1, <3>1, Types DEF QueueInvariant, RunsAndJobsEndTogether
  <2> QED
    BY <1>1, <2>2, <2>3, Types DEF QueueInvariant
<1>6. /\ HistoryInvariant' /\ AlertInvariant'
      /\ MetricAlertsChain' /\ ConclusionsWereAlerted' /\ StaleDataDecidesNothing'
  <2>1. \A c \in Conditions : c.kind = "metric" => NoneIsLater(c)'
    BY <1>1, Types DEF HistoryInvariant, NoneIsLater
  <2>2. \A p : RaisedBefore(p) => RaisedBefore(p)'
    BY <1>1 DEF RaisedBefore
  <2> QED
    BY <1>1, <2>1, <2>2, StoryStays, Types
<1> QED
  BY <1>3, <1>4, <1>5, <1>6 DEF MonitorInvariant

\* A run starts with nothing loaded, and ends at once when it has no conditions.
LEMMA StartKeeps ==
  ASSUME MonitorInvariant, NEW r \in Run, Start(r)
  PROVE  MonitorInvariant'
<1> DEFINE listed == {c \in monitored : BelongsToRun(c, r[1])}
           stage == IF listed = {} THEN "commit" ELSE "load"
<1>1. /\ work = Idle /\ jobs[r].state = "waiting"
      /\ jobs' = [jobs EXCEPT ![r].state = "active"] /\ runs' = [runs EXCEPT ![r] = "running"]
      /\ work' = [Idle EXCEPT !.run = Some(r), !.at = clock, !.conditions = listed, !.stage = stage]
      /\ UNCHANGED <<types, market, clock, lastSuccess, claimed, evaluations, alerts, monitored,
                     interrupted, crashes>>
  BY DEF Start
<1>2. /\ work'.run = Some(r) /\ work'.stage = stage /\ work'.conditions = listed /\ work'.at = clock
      /\ work'.quotes = None /\ work'.groups = None /\ work'.retryable = FALSE
      /\ work' = [run |-> Some(r), stage |-> stage, conditions |-> listed, at |-> clock,
                  quotes |-> None, groups |-> None, retryable |-> FALSE]
  BY <1>1 DEF Idle
<1>3. jobs' \in [Run -> [state : {"none", "waiting", "delayed", "active", "done", "failed", "stalled"},
                         tries : 0..MaxTries, stalls : 0..2]]
  BY <1>1, Types DEF TypeOK
<1>4. /\ \A q \in Run : jobs'[q].stalls = jobs[q].stalls /\ jobs'[q].tries = jobs[q].tries
      /\ \A q \in Run : q # r => jobs'[q] = jobs[q] /\ runs'[q] = runs[q]
      /\ jobs'[r].state = "active" /\ runs'[r] = "running"
  BY <1>1, Types DEF TypeOK
<1>5. listed \subseteq Conditions /\ \A c \in listed : BelongsToRun(c, r[1])
  BY Types DEF TypeOK
<1>6. /\ Some(r) \in Opt(Run) /\ Some(r) # None /\ The(Some(r)) = r
      /\ None \in Opt(Quote) /\ None \in Opt(Groups)
  BY Options
<1>7. stage \in {"commit", "load"} /\ (stage = "commit" => listed = {})
  OBVIOUS
<1> HIDE DEF listed, stage
<1>8. TypeOK'
  BY <1>1, <1>3, Types DEF TypeOK
<1>9. WorkInvariant'
  <2>1. WorkType'
    BY <1>2, <1>5, <1>6, <1>7, Types DEF WorkType, Stage
  <2> QED
    BY <1>2, <1>5, <1>6, <1>7, <2>1 DEF WorkInvariant
<1>10. QueueInvariant'
  <2>1. \A t \in Schedulers : claimed[t] # None => The(claimed[t]) # r /\ The(claimed[t]) \in Run
    BY <1>1, Types DEF QueueInvariant
  <2>2. \A q \in Run : runs'[q] = "unclaimed" => jobs'[q].state = "none"
    BY <1>4, Types DEF QueueInvariant
  <2>3. \A q \in Run : jobs'[q].state \in {"none", "waiting", "delayed", "active"} =>
          jobs'[q].tries < MaxTries /\ jobs'[q].stalls <= 1
    BY <1>1, <1>4, Types DEF QueueInvariant
  <2>4. RunsAndJobsEndTogether'
    BY <1>1, <1>4, Types DEF QueueInvariant, RunsAndJobsEndTogether
  <2>6. \A q \in interrupted : runs'[q] # "unclaimed"
    BY <1>1, <1>4, Types DEF QueueInvariant, TypeOK
  <2>5. \A t \in Schedulers : claimed'[t] # None =>
          /\ runs'[The(claimed'[t])] = "claimed" /\ jobs'[The(claimed'[t])].state = "none"
          /\ The(claimed'[t]) \notin interrupted'
          /\ \A u \in Schedulers : claimed'[u] = claimed'[t] => u = t
    BY <1>1, <1>4, <2>1, Types DEF QueueInvariant
  <2> QED
    BY <1>2, <1>4, <1>6, <1>7, <2>2, <2>3, <2>4, <2>5, <2>6, <1>1 DEF QueueInvariant
<1>11. /\ HistoryInvariant' /\ AlertInvariant'
       /\ MetricAlertsChain' /\ ConclusionsWereAlerted' /\ StaleDataDecidesNothing'
  <2>1. \A c \in Conditions : c.kind = "metric" => NoneIsLater(c)'
    BY <1>2 DEF NoneIsLater
  <2>2. \A p : RaisedBefore(p) => RaisedBefore(p)'
    <3>1. TAKE p
    <3>2. HAVE RaisedBefore(p)
    <3> DEFINE q == <<"price", p>>
    <3>3. q \in Run
      BY <3>2 DEF RaisedBefore
    <3>4. work.stage # "complete"
      BY <1>1 DEF Idle
    <3> QED
      BY <1>1, <1>4, <3>2, <3>3, <3>4 DEF RaisedBefore
  <2> QED
    BY <1>1, <1>4, <2>1, <2>2, StoryStays, Types
<1> QED
  BY <1>8, <1>9, <1>10, <1>11 DEF MonitorInvariant

\* A job that may be tried has a try left to end with.
LEMMA EndedJob ==
  ASSUME MonitorInvariant, NEW r \in Run, jobs[r].tries < MaxTries
  PROVE  LET job == [jobs[r] EXCEPT !.tries = @ + 1, !.state = "failed"]
         IN  /\ job \in [state : {"failed"}, tries : 0..MaxTries, stalls : 0..2]
             /\ job.stalls = jobs[r].stalls /\ job.state = "failed"
<1> DEFINE tries == jobs[r].tries + 1
<1>1. jobs[r] \in [state : {"none", "waiting", "delayed", "active", "done", "failed", "stalled"},
                   tries : 0..MaxTries, stalls : 0..2]
  BY Types DEF TypeOK
<1>2. tries \in 0..MaxTries
  BY <1>1, Types
<1>3. jobs[r] = [state |-> jobs[r].state, tries |-> jobs[r].tries, stalls |-> jobs[r].stalls]
  BY <1>1
<1> DEFINE job == [jobs[r] EXCEPT !.tries = @ + 1, !.state = "failed"]
<1>4. job.state = "failed" /\ job.tries = tries /\ job.stalls = jobs[r].stalls
  BY <1>1, <1>3
<1>5. job \in [state : {"none", "waiting", "delayed", "active", "done", "failed", "stalled"},
              tries : 0..MaxTries, stalls : 0..2]
  BY <1>1, <1>2
<1> HIDE DEF tries, job
<1>6. job \in [state : {"failed"}, tries : 0..MaxTries, stalls : 0..2]
  BY <1>4, <1>5
<1> QED
  BY <1>4, <1>6 DEF job

\* A run that could not be started keeps its state, and its job is over.
LEMMA StartFailsKeeps ==
  ASSUME MonitorInvariant, NEW r \in Run, StartFails(r)
  PROVE  MonitorInvariant'
<1>1. /\ work = Idle /\ jobs[r].state = "waiting" /\ jobs' = EndOfJob(r)
      /\ interrupted' = interrupted \union {r}
      /\ UNCHANGED <<types, market, clock, runs, lastSuccess, claimed, work, evaluations, alerts,
                     monitored, crashes>>
  BY DEF StartFails
<1>2. jobs[r].tries < MaxTries /\ runs[r] # "unclaimed"
  BY <1>1, Types DEF QueueInvariant
<1>3. /\ jobs' \in [Run -> [state : {"none", "waiting", "delayed", "active", "done", "failed", "stalled"},
                            tries : 0..MaxTries, stalls : 0..2]]
      /\ \A q \in Run : jobs'[q].stalls = jobs[q].stalls
      /\ \A q \in Run : q # r => jobs'[q] = jobs[q]
      /\ jobs'[r].state = "failed"
  <2> DEFINE job == [jobs[r] EXCEPT !.tries = @ + 1, !.state = "failed"]
  <2>1. /\ job \in [state : {"failed"}, tries : 0..MaxTries, stalls : 0..2]
        /\ job.stalls = jobs[r].stalls /\ job.state = "failed"
    BY <1>2, EndedJob
  <2>2. jobs' = [jobs EXCEPT ![r] = job]
    BY <1>1, Types DEF EndOfJob, TypeOK
  <2> HIDE DEF job
  <2> QED
    BY <2>1, <2>2, Types DEF TypeOK
<1>4. TypeOK'
  BY <1>1, <1>3, Types DEF TypeOK
<1>5. WorkInvariant'
  BY <1>1, Types DEF WorkInvariant, WorkType
<1>6. QueueInvariant'
  <2>1. \A t \in Schedulers : claimed[t] # None => The(claimed[t]) # r /\ The(claimed[t]) \in Run
    BY <1>1, Types DEF QueueInvariant
  <2>2. \A q \in Run : runs'[q] = "unclaimed" => jobs'[q].state = "none"
    BY <1>1, <1>2, <1>3, Types DEF QueueInvariant
  <2>3. \A q \in Run : jobs'[q].state \in {"none", "waiting", "delayed", "active"} =>
          jobs'[q].tries < MaxTries /\ jobs'[q].stalls <= 1
    <3>1. TAKE q \in Run
    <3>2. q # r => jobs'[q] = jobs[q]
      BY <1>3
    <3> QED
      BY <1>3, <3>2, Types DEF QueueInvariant
  <2>4. RunsAndJobsEndTogether'
    BY <1>1, <1>3, Types DEF QueueInvariant, RunsAndJobsEndTogether
  <2>5. \A q \in interrupted' : runs'[q] # "unclaimed"
    BY <1>1, <1>2, Types DEF QueueInvariant
  <2>6. \A t \in Schedulers : claimed'[t] # None =>
          /\ runs'[The(claimed'[t])] = "claimed" /\ jobs'[The(claimed'[t])].state = "none"
          /\ The(claimed'[t]) \notin interrupted'
          /\ \A u \in Schedulers : claimed'[u] = claimed'[t] => u = t
    BY <1>1, <1>3, <2>1, Types DEF QueueInvariant
  <2> QED
    BY <1>1, <2>2, <2>3, <2>4, <2>5, <2>6 DEF QueueInvariant, Idle
<1>7. /\ HistoryInvariant' /\ AlertInvariant'
      /\ MetricAlertsChain' /\ ConclusionsWereAlerted' /\ StaleDataDecidesNothing'
  <2>1. \A c \in Conditions : c.kind = "metric" => NoneIsLater(c)'
    BY <1>1, Types DEF HistoryInvariant, NoneIsLater
  <2>2. \A p : RaisedBefore(p) => RaisedBefore(p)'
    BY <1>1, <1>3 DEF RaisedBefore
  <2> QED
    BY <1>1, <1>3, <2>1, <2>2, StoryStays, Types
<1> QED
  BY <1>4, <1>5, <1>6, <1>7 DEF MonitorInvariant

\* What a provider answers has its type, and what it says of a symbol is of its time.
LEMMA AnswersHaveTheirType ==
  ASSUME TypeOK
  PROVE  /\ \A state \in QuoteStates :
              /\ QuoteIn(state) \in Quote /\ QuoteIn(state).state = state
              /\ QuoteIn(state).asOf <= clock /\ (state = "fresh" => QuoteIn(state).asOf = clock)
              /\ QuoteIn(state).data = Some(market.quote[QuoteIn(state).asOf])
         /\ \A states \in [{"earnings", "macro"} -> GroupStates] : GroupsIn(states) \in Groups
<1>1. market \in [quote : [1..MaxTime -> Nat], listed : [1..MaxTime -> SUBSET Nat]]
  BY MonitorAssumption DEF TypeOK
<1>2. ASSUME NEW state \in QuoteStates
      PROVE  /\ QuoteIn(state) \in Quote /\ QuoteIn(state).state = state
             /\ QuoteIn(state).asOf <= clock /\ (state = "fresh" => QuoteIn(state).asOf = clock)
             /\ QuoteIn(state).data = Some(market.quote[QuoteIn(state).asOf])
  <2>1. AsOf(state) \in 1..MaxTime /\ AsOf(state) <= clock /\ (state = "fresh" => AsOf(state) = clock)
    BY TimeOfAnswer
  <2>2. Some(market.quote[AsOf(state)]) \in Opt(Nat)
    BY <1>1, <2>1, Options
  <2> QED
    BY <2>1, <2>2 DEF QuoteIn, Quote
<1>3. ASSUME NEW states \in [{"earnings", "macro"} -> GroupStates]
      PROVE  GroupsIn(states) \in Groups
  <2>1. ASSUME NEW g \in {"earnings", "macro"}
        PROVE  GroupsIn(states)[g] \in Group
    <3> DEFINE state == states[g]
               data == IF g = "earnings"
                       THEN market.listed[AsOf(state)] \intersect EventWindow(work.conditions) ELSE {}
    <3>1. AsOf(state) \in 1..MaxTime
      BY TimeOfAnswer
    <3>2. data \in SUBSET Nat
      BY <1>1, <3>1
    <3>3. GroupsIn(states)[g] = [state |-> state, data |-> data, asOf |-> AsOf(state)]
      BY DEF GroupsIn
    <3>4. state \in GroupStates
      OBVIOUS
    <3> HIDE DEF state, data
    <3> QED
      BY <3>1, <3>2, <3>3, <3>4 DEF Group
  <2>2. GroupsIn(states) = [g \in {"earnings", "macro"} |-> GroupsIn(states)[g]]
    BY DEF GroupsIn
  <2> QED
    BY <2>1, <2>2 DEF Groups
<1> QED
  BY <1>2, <1>3

\* A step that only moves the worker on leaves the queue and the story as they are.
LEMMA WorkerMovesOn ==
  ASSUME MonitorInvariant, WorkInvariant', work.stage \in {"load", "commit"},
         work'.run = work.run, work'.stage \in {"commit", "fail"},
         \A c \in Conditions : c.kind = "metric" => NoneIsLater(c)',
         UNCHANGED <<types, market, clock, runs, lastSuccess, jobs, claimed, evaluations, alerts,
                     monitored, interrupted, crashes>>
  PROVE  MonitorInvariant'
<1>1. TypeOK'
  BY Types DEF TypeOK
<1>2. QueueInvariant'
  BY Types DEF QueueInvariant, RunsAndJobsEndTogether
<1>3. \A p : RaisedBefore(p) => RaisedBefore(p)'
  BY DEF RaisedBefore
<1>4. /\ HistoryInvariant' /\ AlertInvariant'
      /\ MetricAlertsChain' /\ ConclusionsWereAlerted' /\ StaleDataDecidesNothing'
  BY <1>3, StoryStays, Types
<1> QED
  BY <1>1, <1>2, <1>4 DEF MonitorInvariant

\* What a run loads has its type, and a fresh quote is the latest there is.
LEMMA LoadKeeps ==
  ASSUME MonitorInvariant, Load
  PROVE  MonitorInvariant'
<1>1. PICK state \in QuoteStates, states \in [{"earnings", "macro"} -> GroupStates] :
        LET next == IF \A c \in work.conditions : c.valid THEN "commit" ELSE "fail"
        IN  work' = IF The(work.run)[1] = "event"
                    THEN [work EXCEPT !.groups = Some(GroupsIn(states)), !.stage = next]
                    ELSE [work EXCEPT !.quotes = Some(QuoteIn(state)), !.stage = next]
  BY DEF Load
<1>2. /\ work.stage = "load"
      /\ UNCHANGED <<types, market, clock, runs, lastSuccess, jobs, claimed, evaluations, alerts,
                     monitored, interrupted, crashes>>
  BY DEF Load
<1>3. PICK next \in {"commit", "fail"} :
        work' = IF The(work.run)[1] = "event"
                THEN [work EXCEPT !.groups = Some(GroupsIn(states)), !.stage = next]
                ELSE [work EXCEPT !.quotes = Some(QuoteIn(state)), !.stage = next]
  BY <1>1
<1>4. /\ work.run # None /\ work.quotes = None
      /\ \A c \in work.conditions : BelongsToRun(c, The(work.run)[1])
  BY <1>2, Types DEF WorkInvariant
<1>5. CASE The(work.run)[1] = "event"
  <2> DEFINE g == GroupsIn(states)
  <2>1. g \in Groups
    BY AnswersHaveTheirType, Types
  <2> HIDE DEF g
  <2>2. work' = [work EXCEPT !.groups = Some(g), !.stage = next]
    BY <1>3, <1>5 DEF g
  <2>3. /\ work'.run = work.run /\ work'.stage = next /\ work'.conditions = work.conditions
        /\ work'.quotes = work.quotes /\ work'.groups = Some(g)
    BY <2>2, Types DEF WorkType
  <2>4. Some(g) \in Opt(Groups) /\ Some(g) # None
    BY <2>1, Options
  <2>5. WorkType'
    BY <2>2, <2>4, Types DEF WorkType, Stage
  <2>6. WorkInvariant'
    BY <1>4, <1>5, <2>3, <2>4, <2>5 DEF WorkInvariant
  <2>7. \A c \in Conditions : c.kind = "metric" => NoneIsLater(c)'
    BY <1>4, <2>3 DEF NoneIsLater
  <2> QED
    BY <1>2, <2>3, <2>6, <2>7, WorkerMovesOn
<1>6. CASE The(work.run)[1] # "event"
  <2> DEFINE q == QuoteIn(state)
  <2>1. /\ q \in Quote /\ q.asOf <= clock /\ (q.state = "fresh" => q.asOf = clock)
        /\ q.data = Some(market.quote[q.asOf])
    BY AnswersHaveTheirType, Types
  <2> HIDE DEF q
  <2>2. work' = [work EXCEPT !.quotes = Some(q), !.stage = next]
    BY <1>3, <1>6 DEF q
  <2>3. /\ work'.run = work.run /\ work'.stage = next /\ work'.conditions = work.conditions
        /\ work'.quotes = Some(q) /\ work'.groups = work.groups
    BY <2>2, Types DEF WorkType
  <2>4. Some(q) \in Opt(Quote) /\ Some(q) # None /\ The(Some(q)) = q
    BY <2>1, Options
  <2>5. WorkType'
    BY <2>2, <2>4, Types DEF WorkType, Stage
  <2>6. WorkInvariant'
    BY <1>2, <1>4, <1>6, <2>1, <2>3, <2>4, <2>5 DEF WorkInvariant
  <2>7. ASSUME NEW c \in Conditions, c.kind = "metric"
        PROVE  NoneIsLater(c)'
    <3>1. History(evaluations[c], c, market.quote, clock)
      BY <2>7, Types DEF HistoryInvariant
    <3>2. \A i \in FreshIn(evaluations[c]) : The(evaluations[c][i].asOf) <= clock
      BY <3>1, Types DEF History
    <3> QED
      BY <1>2, <2>1, <2>3, <2>4, <3>2 DEF NoneIsLater
  <2> QED
    BY <1>2, <2>3, <2>6, <2>7, WorkerMovesOn
<1> QED
  BY <1>5, <1>6

\* A snapshot that cannot be had decides nothing.
LEMMA LoadFailsKeeps ==
  ASSUME MonitorInvariant, LoadFails
  PROVE  MonitorInvariant'
<1>1. PICK retryable \in BOOLEAN : work' = [work EXCEPT !.stage = "fail", !.retryable = retryable]
  BY DEF LoadFails
<1>2. /\ work.stage = "load"
      /\ UNCHANGED <<types, market, clock, runs, lastSuccess, jobs, claimed, evaluations, alerts,
                     monitored, interrupted, crashes>>
  BY DEF LoadFails
<1>3. /\ work'.run = work.run /\ work'.stage = "fail" /\ work'.conditions = work.conditions
  BY <1>1, Types DEF WorkType
<1>4. WorkType'
  BY <1>1, Types DEF WorkType, Stage
<1>5. WorkInvariant'
  BY <1>2, <1>3, <1>4, Types DEF WorkInvariant
<1>6. \A c \in Conditions : c.kind = "metric" => NoneIsLater(c)'
  BY <1>3 DEF NoneIsLater
<1> QED
  BY <1>2, <1>3, <1>5, <1>6, WorkerMovesOn

\* A transaction that is refused leaves nothing behind.
LEMMA CommitFailsKeeps ==
  ASSUME MonitorInvariant, CommitFails
  PROVE  MonitorInvariant'
<1>1. /\ work.stage = "commit" /\ work' = [work EXCEPT !.stage = "fail", !.retryable = FALSE]
      /\ UNCHANGED <<types, market, clock, runs, lastSuccess, jobs, claimed, evaluations, alerts,
                     monitored, interrupted, crashes>>
  BY DEF CommitFails
<1>2. /\ work'.run = work.run /\ work'.stage = "fail" /\ work'.conditions = work.conditions
  BY <1>1, Types DEF WorkType
<1>3. WorkType'
  BY <1>1, Types DEF WorkType, Stage
<1>4. WorkInvariant'
  BY <1>1, <1>2, <1>3, Types DEF WorkInvariant
<1>5. \A c \in Conditions : c.kind = "metric" => NoneIsLater(c)'
  BY <1>2 DEF NoneIsLater
<1> QED
  BY <1>1, <1>2, <1>4, <1>5, WorkerMovesOn

\* A step of the job at work, r, that ends the work: the queue and the story stay, if
\* the job ends as its run did.
LEMMA WorkEnds ==
  ASSUME MonitorInvariant, work.stage \in {"complete", "fail"}, NEW r \in Run, work.run = Some(r),
         NEW job, job \in [state : {"delayed", "done", "failed"}, tries : 0..MaxTries, stalls : 0..2],
         job.stalls = jobs[r].stalls,
         job.state = "delayed" => job.tries < MaxTries,
         jobs' = [jobs EXCEPT ![r] = job], work' = Idle,
         work.stage = "complete" => job.state = "done",
         \/ /\ runs' = [runs EXCEPT ![r] = IF job.state = "done" THEN "succeeded" ELSE "failed"]
            /\ interrupted' = interrupted
         \/ /\ job.state = "failed" /\ runs' = runs
            /\ interrupted' = interrupted \union {r},
         UNCHANGED <<types, market, clock, lastSuccess, claimed, evaluations, alerts, monitored,
                     crashes>>
  PROVE  MonitorInvariant'
<1>1. The(work.run) = r /\ jobs[r].state = "active" /\ jobs[r].stalls <= 1
  BY Options, Types DEF QueueInvariant
<1>2. /\ jobs' \in [Run -> [state : {"none", "waiting", "delayed", "active", "done", "failed", "stalled"},
                            tries : 0..MaxTries, stalls : 0..2]]
      /\ \A q \in Run : q # r => jobs'[q] = jobs[q] /\ runs'[q] = runs[q]
      /\ \A q \in Run : jobs'[q].stalls = jobs[q].stalls
      /\ jobs'[r] = job
      /\ IF r \in interrupted' THEN job.state = "failed" /\ runs'[r] = runs[r]
         ELSE runs'[r] = IF job.state = "done" THEN "succeeded" ELSE "failed"
      /\ interrupted' \subseteq interrupted \union {r} /\ interrupted \subseteq interrupted'
  <2>1. r \notin interrupted
    BY <1>1, Types DEF QueueInvariant, RunsAndJobsEndTogether
  <2> QED
    BY <2>1, Types DEF TypeOK
<1>7. runs[r] # "unclaimed"
  BY <1>1, Types DEF QueueInvariant
<1>3. TypeOK'
  BY <1>2, Types DEF TypeOK
<1>4. WorkInvariant'
  <2>1. None \in Opt(Run) /\ None \in Opt(Quote) /\ None \in Opt(Groups)
    BY Options
  <2>2. WorkType'
    BY <2>1, Types DEF WorkType, Stage, Idle
  <2> QED
    BY <2>2 DEF WorkInvariant, Idle
<1>5. QueueInvariant'
  <2>1. \A t \in Schedulers : claimed[t] # None => The(claimed[t]) # r /\ The(claimed[t]) \in Run
    BY <1>1, Types DEF QueueInvariant
  <2>2. \A q \in Run : runs'[q] = "unclaimed" => jobs'[q].state = "none"
    BY <1>2, <1>7, Types DEF QueueInvariant
  <2>3. \A q \in Run : jobs'[q].state \in {"none", "waiting", "delayed", "active"} =>
          jobs'[q].tries < MaxTries /\ jobs'[q].stalls <= 1
    BY <1>1, <1>2, Types DEF QueueInvariant
  <2>4. RunsAndJobsEndTogether'
    BY <1>2, Types DEF QueueInvariant, RunsAndJobsEndTogether
  <2>6. \A q \in interrupted' : runs'[q] # "unclaimed"
    BY <1>2, <1>7, Types DEF QueueInvariant, TypeOK
  <2>5. \A t \in Schedulers : claimed'[t] # None =>
          /\ runs'[The(claimed'[t])] = "claimed" /\ jobs'[The(claimed'[t])].state = "none"
          /\ The(claimed'[t]) \notin interrupted'
          /\ \A u \in Schedulers : claimed'[u] = claimed'[t] => u = t
    BY <1>2, <2>1, Types DEF QueueInvariant
  <2> QED
    BY <2>2, <2>3, <2>4, <2>5, <2>6 DEF QueueInvariant, Idle
<1>6. /\ HistoryInvariant' /\ AlertInvariant'
      /\ MetricAlertsChain' /\ ConclusionsWereAlerted' /\ StaleDataDecidesNothing'
  <2>1. \A c \in Conditions : c.kind = "metric" => NoneIsLater(c)'
    BY DEF NoneIsLater, Idle
  <2>2. \A p : RaisedBefore(p) => RaisedBefore(p)'
    <3>1. TAKE p
    <3>2. HAVE RaisedBefore(p)
    <3> DEFINE q == <<"price", p>>
    <3>3. q \in Run
      BY <3>2 DEF RaisedBefore
    <3>4. work.run = Some(q) => q = r
      BY Options
    <3> QED
      BY <1>1, <1>2, <3>2, <3>3, <3>4 DEF RaisedBefore
  <2> QED
    BY <1>2, <2>1, <2>2, StoryStays, Types
<1> QED
  BY <1>3, <1>4, <1>5, <1>6 DEF MonitorInvariant

\* The queue is done with a job whose run succeeded.
LEMMA CompleteKeeps ==
  ASSUME MonitorInvariant, Complete
  PROVE  MonitorInvariant'
<1> DEFINE r == The(work.run)
           job == [jobs[r] EXCEPT !.state = "done"]
<1>1. /\ work.stage = "complete" /\ jobs' = [jobs EXCEPT ![r].state = "done"] /\ work' = Idle
      /\ UNCHANGED <<types, market, clock, runs, lastSuccess, claimed, evaluations, alerts,
                     monitored, interrupted, crashes>>
  BY DEF Complete
<1>2. r \in Run /\ work.run = Some(r) /\ runs[r] = "succeeded"
  BY <1>1, Types DEF WorkInvariant, QueueInvariant
<1>3. jobs' = [jobs EXCEPT ![r] = job]
  BY <1>1
<1>4. job \in [state : {"delayed", "done", "failed"}, tries : 0..MaxTries, stalls : 0..2]
      /\ job.stalls = jobs[r].stalls /\ job.state = "done"
  BY <1>2, Types DEF TypeOK
<1>5. runs' = [runs EXCEPT ![r] = "succeeded"]
  BY <1>1, <1>2, Types DEF TypeOK
<1> HIDE DEF r, job
<1> QED
  BY <1>1, <1>2, <1>3, <1>4, <1>5, WorkEnds

\* A failure is written before the job goes back or is given up.
LEMMA FailKeeps ==
  ASSUME MonitorInvariant, Fail
  PROVE  MonitorInvariant'
<1> DEFINE r == The(work.run)
           tries == jobs[r].tries + 1
           state == IF work.retryable /\ tries < MaxTries THEN "delayed" ELSE "failed"
           job == [jobs[r] EXCEPT !.tries = tries, !.state = state]
<1>1. /\ work.stage = "fail" /\ work' = Idle /\ runs' = [runs EXCEPT ![r] = "failed"]
      /\ jobs' = [jobs EXCEPT ![r].tries = tries, ![r].state = state]
      /\ UNCHANGED <<types, market, clock, lastSuccess, claimed, evaluations, alerts, monitored,
                     interrupted, crashes>>
  BY DEF Fail
<1>2. r \in Run /\ work.run = Some(r) /\ jobs[r].tries < MaxTries
  BY <1>1, Types DEF WorkInvariant, QueueInvariant
<1>3. jobs' = [jobs EXCEPT ![r] = job]
  BY <1>1, <1>2, Types DEF TypeOK
<1>4. /\ job \in [state : {"delayed", "done", "failed"}, tries : 0..MaxTries, stalls : 0..2]
      /\ job.stalls = jobs[r].stalls /\ job.state \in {"delayed", "failed"}
      /\ job.state = "delayed" => job.tries < MaxTries
  <2> DEFINE States == {"none", "waiting", "delayed", "active", "done", "failed", "stalled"}
  <2>1. jobs[r] \in [state : States, tries : 0..MaxTries, stalls : 0..2]
    BY <1>2, Types DEF TypeOK
  <2>2. tries \in 0..MaxTries /\ state \in {"delayed", "failed"} /\ (state = "delayed" => tries < MaxTries)
    BY <1>2, Types
  <2>3. state \in States
    BY <2>2
  <2> HIDE DEF state, tries, r, States
  <2>4. /\ job \in [state : States, tries : 0..MaxTries, stalls : 0..2]
        /\ job.state = state /\ job.tries = tries /\ job.stalls = jobs[r].stalls
    BY <2>1, <2>2, <2>3
  <2> HIDE DEF job
  <2> QED
    BY <2>2, <2>4
<1> HIDE DEF r, job
<1>5. runs' = [runs EXCEPT ![r] = IF job.state = "done" THEN "succeeded" ELSE "failed"]
  BY <1>1, <1>4
<1> QED
  BY <1>1, <1>2, <1>3, <1>4, <1>5, WorkEnds

\* A failure that could not be written ends the job all the same.
LEMMA FailRefusedKeeps ==
  ASSUME MonitorInvariant, FailRefused
  PROVE  MonitorInvariant'
<1> DEFINE r == The(work.run)
           job == [jobs[r] EXCEPT !.tries = @ + 1, !.state = "failed"]
<1>1. /\ work.stage = "fail" /\ jobs' = EndOfJob(r) /\ work' = Idle
      /\ interrupted' = interrupted \union {r}
      /\ UNCHANGED <<types, market, clock, runs, lastSuccess, claimed, evaluations, alerts,
                     monitored, crashes>>
  BY DEF FailRefused
<1>2. r \in Run /\ work.run = Some(r) /\ jobs[r].tries < MaxTries
  BY <1>1, Types DEF WorkInvariant, QueueInvariant
<1>3. jobs' = [jobs EXCEPT ![r] = job]
  BY <1>1, <1>2, Types DEF EndOfJob, TypeOK
<1>4. /\ job \in [state : {"delayed", "done", "failed"}, tries : 0..MaxTries, stalls : 0..2]
      /\ job.stalls = jobs[r].stalls /\ job.state = "failed"
  <2>1. /\ job \in [state : {"failed"}, tries : 0..MaxTries, stalls : 0..2]
        /\ job.stalls = jobs[r].stalls /\ job.state = "failed"
    BY <1>2, EndedJob
  <2> HIDE DEF r, job
  <2> QED
    BY <2>1
<1> HIDE DEF r, job
<1> QED
  BY <1>1, <1>2, <1>3, <1>4, WorkEnds

\* One transaction ends the run and goes on with the story.
LEMMA CommitKeeps ==
  ASSUME MonitorInvariant, Commit
  PROVE  MonitorInvariant'
<1> DEFINE r == The(work.run)
<1>1. /\ work.stage = "commit" /\ runs' = [runs EXCEPT ![r] = "succeeded"]
      /\ lastSuccess' = [lastSuccess EXCEPT ![r[1]] = r[2]]
      /\ work' = [work EXCEPT !.stage = "complete"]
      /\ UNCHANGED <<types, market, clock, jobs, claimed, monitored, interrupted, crashes>>
  BY DEF Commit
<1>2. r \in Run /\ work.run = Some(r) /\ jobs[r].state = "active" /\ r[1] \in MonitorType /\ r[2] \in 0..MaxTime
  BY <1>1, Types DEF WorkInvariant, QueueInvariant
<1>3. /\ work'.run = work.run /\ work'.stage = "complete" /\ work'.conditions = work.conditions
  BY <1>1, Types DEF WorkType
<1>4. TypeOK'
  BY <1>1, <1>2, Types DEF TypeOK
<1>5. WorkInvariant'
  <2>1. WorkType'
    BY <1>1, Types DEF WorkType, Stage
  <2> QED
    BY <1>1, <1>3, <2>1, Types DEF WorkInvariant
<1>6. QueueInvariant'
  <2>1. \A t \in Schedulers : claimed[t] # None => The(claimed[t]) # r /\ The(claimed[t]) \in Run
    BY <1>2, Types DEF QueueInvariant
  <2>2. /\ \A q \in Run : q # r => runs'[q] = runs[q]
        /\ runs'[r] = "succeeded"
    BY <1>1, <1>2, Types DEF TypeOK
  <2>3. RunsAndJobsEndTogether'
    BY <1>1, <1>2, <2>2, Types DEF QueueInvariant, RunsAndJobsEndTogether
  <2>4. /\ work'.stage # "idle" => jobs'[The(work'.run)].state = "active"
        /\ work'.stage = "complete" => runs'[The(work'.run)] = "succeeded"
    BY <1>1, <1>2, <1>3, <2>2
  <2> QED
    BY <1>1, <2>1, <2>2, <2>3, <2>4, Types DEF QueueInvariant
<1> QED
  BY <1>4, <1>5, <1>6, CommitGoesOn DEF MonitorInvariant

\* A delayed job waits again, its run still failed.
LEMMA BackoffKeeps ==
  ASSUME MonitorInvariant, NEW r \in Run, Backoff(r)
  PROVE  MonitorInvariant'
<1>1. /\ jobs[r].state = "delayed" /\ jobs' = [jobs EXCEPT ![r].state = "waiting"]
      /\ UNCHANGED <<types, market, clock, runs, lastSuccess, claimed, work, evaluations, alerts,
                     monitored, interrupted, crashes>>
  BY DEF Backoff
<1>2. jobs' \in [Run -> [state : {"none", "waiting", "delayed", "active", "done", "failed", "stalled"},
                         tries : 0..MaxTries, stalls : 0..2]]
  BY <1>1, Types DEF TypeOK
<1>3. /\ \A q \in Run : jobs'[q].stalls = jobs[q].stalls /\ jobs'[q].tries = jobs[q].tries
      /\ \A q \in Run : q # r => jobs'[q] = jobs[q]
      /\ jobs'[r].state = "waiting"
  BY <1>1, Types DEF TypeOK
<1>4. TypeOK'
  BY <1>1, <1>2, Types DEF TypeOK
<1>5. WorkInvariant'
  BY <1>1, Types DEF WorkInvariant, WorkType
<1>6. QueueInvariant'
  <2>1. \A t \in Schedulers : claimed[t] # None => The(claimed[t]) # r /\ The(claimed[t]) \in Run
    BY <1>1, Types DEF QueueInvariant
  <2>2. work.stage # "idle" => The(work.run) # r /\ The(work.run) \in Run
    BY <1>1, Types DEF QueueInvariant, WorkInvariant
  <2>3. RunsAndJobsEndTogether'
    BY <1>1, <1>3, Types DEF QueueInvariant, RunsAndJobsEndTogether
  <2>4. runs[r] = "failed"
    BY <1>1, Types DEF QueueInvariant, RunsAndJobsEndTogether
  <2>5. \A q \in Run : runs'[q] = "unclaimed" => jobs'[q].state = "none"
    BY <1>1, <1>3, <2>4, Types DEF QueueInvariant
  <2>6. \A q \in Run : jobs'[q].state \in {"none", "waiting", "delayed", "active"} =>
          jobs'[q].tries < MaxTries /\ jobs'[q].stalls <= 1
    BY <1>1, <1>3, Types DEF QueueInvariant
  <2> QED
    BY <1>1, <1>3, <2>1, <2>2, <2>3, <2>5, <2>6, Types DEF QueueInvariant
<1>7. /\ HistoryInvariant' /\ AlertInvariant'
      /\ MetricAlertsChain' /\ ConclusionsWereAlerted' /\ StaleDataDecidesNothing'
  <2>1. \A c \in Conditions : c.kind = "metric" => NoneIsLater(c)'
    BY <1>1, Types DEF HistoryInvariant, NoneIsLater
  <2>2. \A p : RaisedBefore(p) => RaisedBefore(p)'
    BY <1>1, <1>3 DEF RaisedBefore
  <2> QED
    BY <1>1, <1>3, <2>1, <2>2, StoryStays, Types
<1> QED
  BY <1>4, <1>5, <1>6, <1>7 DEF MonitorInvariant

\* The worker dies at any point: its job is delivered again, or given up.
LEMMA CrashKeeps ==
  ASSUME MonitorInvariant, Crash
  PROVE  MonitorInvariant'
<1>1. /\ crashes < MaxCrashes /\ crashes' = crashes + 1 /\ work' = Idle
      /\ claimed' = [claimed EXCEPT !["worker"] = None]
      /\ interrupted' = interrupted \union {r \in Run : claimed["worker"] = Some(r)}
      /\ UNCHANGED <<types, market, clock, runs, lastSuccess, evaluations, alerts, monitored>>
  BY DEF Crash
<1>0. jobs' = [r \in Run |->
                    IF work.run # Some(r) THEN jobs[r]
                    ELSE [jobs[r] EXCEPT !.state = IF @ = "active" /\ jobs[r].stalls = 0
                                                   THEN "waiting" ELSE "stalled",
                                         !.stalls = @ + 1]]
  BY DEF Crash
<1>2. ASSUME NEW r \in Run, work.run = Some(r)
      PROVE  /\ jobs[r].state = "active" /\ jobs[r].stalls \in {0, 1} /\ jobs[r].tries < MaxTries
             /\ jobs'[r].tries = jobs[r].tries /\ jobs'[r].stalls = jobs[r].stalls + 1
             /\ jobs'[r].state = IF jobs[r].stalls = 0 THEN "waiting" ELSE "stalled"
             /\ jobs'[r] \in [state : {"waiting", "stalled"}, tries : 0..MaxTries, stalls : 0..2]
             /\ runs[r] # "unclaimed"
  <2>1. work.stage # "idle" /\ The(work.run) = r
    BY <1>2, Options, Types DEF WorkInvariant, Idle
  <2>2. jobs[r].state = "active" /\ jobs[r].stalls \in {0, 1} /\ jobs[r].tries < MaxTries
    BY <2>1, Types DEF QueueInvariant
  <2>3. jobs[r] = [state |-> jobs[r].state, tries |-> jobs[r].tries, stalls |-> jobs[r].stalls]
    BY Types DEF TypeOK
  <2>4. jobs'[r] = [state |-> IF jobs[r].stalls = 0 THEN "waiting" ELSE "stalled",
                    tries |-> jobs[r].tries, stalls |-> jobs[r].stalls + 1]
    BY <1>0, <1>2, <2>2, <2>3
  <2>5. runs[r] # "unclaimed"
    BY <2>2, Types DEF QueueInvariant
  <2> QED
    BY <2>2, <2>4, <2>5, Types
<1>3. \A r \in Run : work.run # Some(r) => jobs'[r] = jobs[r]
  BY <1>0
<1>4. TypeOK'
  <2>1. jobs' \in [Run -> [state : {"none", "waiting", "delayed", "active", "done", "failed", "stalled"},
                           tries : 0..MaxTries, stalls : 0..2]]
    <3>1. ASSUME NEW r \in Run
          PROVE  jobs'[r] \in [state : {"none", "waiting", "delayed", "active", "done", "failed", "stalled"},
                               tries : 0..MaxTries, stalls : 0..2]
      <4>1. CASE work.run = Some(r)
        BY <1>2, <4>1
      <4>2. CASE work.run # Some(r)
        BY <1>3, <4>2, Types DEF TypeOK
      <4> QED
        BY <4>1, <4>2
    <3>2. jobs' = [r \in Run |-> jobs'[r]]
      BY <1>0
    <3> QED
      BY <3>1, <3>2
  <2>2. claimed' \in [Schedulers -> {None} \union {Some(r) : r \in Run}]
    BY <1>1, Types DEF TypeOK
  <2>3. crashes' \in 0..MaxCrashes
    BY <1>1, Types DEF TypeOK
  <2>4. interrupted' \subseteq Run
    BY <1>1, Types DEF TypeOK
  <2> QED
    BY <1>1, <2>1, <2>2, <2>3, <2>4, Types DEF TypeOK
<1>5. WorkInvariant'
  <2>1. None \in Opt(Run) /\ None \in Opt(Quote) /\ None \in Opt(Groups)
    BY Options
  <2>2. WorkType'
    BY <1>1, <2>1, Types DEF WorkType, Stage, Idle
  <2> QED
    BY <1>1, <2>2 DEF WorkInvariant, Idle
<1>6. QueueInvariant'
  <2>1. \A r \in Run : jobs[r].state = "none" => jobs'[r] = jobs[r]
    BY <1>2, <1>3
  <2>2. \A t \in Schedulers : claimed'[t] # None =>
          /\ claimed'[t] = claimed[t] /\ The(claimed[t]) \in Run
          /\ runs[The(claimed[t])] = "claimed" /\ jobs[The(claimed[t])].state = "none"
          /\ The(claimed[t]) \notin interrupted /\ t # "worker"
    BY <1>1, Types DEF QueueInvariant, TypeOK, Schedulers
  <2>3. \A t, u \in Schedulers : claimed'[t] # None /\ claimed'[u] = claimed'[t] => u = t
    BY <2>2, Types DEF QueueInvariant
  <2>4. \A r \in Run : runs'[r] = "unclaimed" => jobs'[r].state = "none"
    BY <1>1, <1>2, <1>3, Types DEF QueueInvariant
  <2>5. \A r \in Run : jobs'[r].state \in {"none", "waiting", "delayed", "active"} =>
          jobs'[r].tries < MaxTries /\ jobs'[r].stalls <= 1
    <3>1. TAKE r \in Run
    <3>2. CASE work.run = Some(r)
      BY <1>2, <3>2
    <3>3. CASE work.run # Some(r)
      BY <1>3, <3>3, Types DEF QueueInvariant
    <3> QED
      BY <3>2, <3>3
  <2>6. RunsAndJobsEndTogether'
    <3>1. ASSUME NEW r \in Run
          PROVE  /\ jobs'[r].state = "done" => runs[r] = "succeeded"
                 /\ jobs'[r].state = "delayed" => runs[r] = "failed"
                 /\ IF r \in interrupted' THEN jobs'[r].state \in {"none", "failed"}
                    ELSE /\ jobs'[r].state = "failed" => runs[r] = "failed"
                         /\ runs[r] \in {"claimed", "running"} =>
                              \/ jobs'[r].state \in {"waiting", "active", "stalled"}
                              \/ \E s \in Schedulers : claimed'[s] = Some(r)
      <4>1. CASE work.run = Some(r)
        <5>1. r \notin interrupted
          BY <1>2, <4>1, Types DEF QueueInvariant, RunsAndJobsEndTogether
        <5>2. claimed["worker"] # Some(r)
          BY <1>2, <4>1, Options, Types DEF QueueInvariant, Schedulers
        <5> QED
          BY <1>1, <1>2, <4>1, <5>1, <5>2
      <4>2. CASE work.run # Some(r)
        <5>1. jobs'[r] = jobs[r]
          BY <1>3, <4>2
        <5>2. claimed["worker"] = Some(r) => jobs[r].state = "none" /\ r \notin interrupted
          BY Options, Types DEF QueueInvariant, Schedulers
        <5>3. \A s \in Schedulers : claimed[s] = Some(r) /\ s # "worker" => claimed'[s] = Some(r)
          BY <1>1, Types DEF TypeOK
        <5> QED
          BY <1>1, <5>1, <5>2, <5>3, Types DEF QueueInvariant, RunsAndJobsEndTogether
      <4> QED
        BY <4>1, <4>2
    <3> QED
      BY <1>1, <3>1 DEF RunsAndJobsEndTogether
  <2>7. \A r \in interrupted' : runs'[r] # "unclaimed"
    <3>1. TAKE r \in interrupted'
    <3>2. CASE claimed["worker"] = Some(r)
      BY <1>1, <3>2, Options, Types DEF QueueInvariant, Schedulers
    <3>3. CASE claimed["worker"] # Some(r)
      BY <1>1, <3>3, Types DEF QueueInvariant
    <3> QED
      BY <3>2, <3>3
  <2>8. \A t \in Schedulers : claimed'[t] # None => The(claimed'[t]) \notin interrupted'
    <3>1. TAKE t \in Schedulers
    <3>2. HAVE claimed'[t] # None
    <3>3. claimed["worker"] # claimed[t]
      BY <2>2, <3>2, Types DEF QueueInvariant, Schedulers
    <3>4. claimed["worker"] # Some(The(claimed[t]))
      BY <2>2, <3>2, <3>3, Types
    <3> QED
      BY <1>1, <2>2, <3>2, <3>4
  <2> QED
    BY <1>1, <2>1, <2>2, <2>3, <2>4, <2>5, <2>6, <2>7, <2>8 DEF QueueInvariant, Idle
<1>7. /\ HistoryInvariant' /\ AlertInvariant'
      /\ MetricAlertsChain' /\ ConclusionsWereAlerted' /\ StaleDataDecidesNothing'
  <2>1. \A c \in Conditions : c.kind = "metric" => NoneIsLater(c)'
    BY <1>1 DEF NoneIsLater, Idle
  <2>2. \A p : RaisedBefore(p) => RaisedBefore(p)'
    <3>1. TAKE p
    <3>2. HAVE RaisedBefore(p)
    <3> DEFINE q == <<"price", p>>
    <3>3. q \in Run
      BY <3>2 DEF RaisedBefore
    <3>4. CASE work.run = Some(q)
      BY <1>2, <3>3, <3>4 DEF RaisedBefore
    <3>5. CASE work.run # Some(q)
      BY <1>3, <3>2, <3>3, <3>5 DEF RaisedBefore
    <3> QED
      BY <3>4, <3>5
  <2>3. \A r \in Run : jobs[r].stalls > 0 => jobs'[r].stalls > 0
    <3>1. TAKE r \in Run
    <3>2. CASE work.run = Some(r)
      BY <1>2, <3>2
    <3>3. CASE work.run # Some(r)
      BY <1>3, <3>3
    <3> QED
      BY <3>2, <3>3
  <2> QED
    BY <1>1, <2>1, <2>2, <2>3, StoryStays, Types
<1> QED
  BY <1>4, <1>5, <1>6, <1>7 DEF MonitorInvariant

\* A condition that is withdrawn changes no other.
LEMMA WithdrawKeeps ==
  ASSUME MonitorInvariant, NEW c \in Conditions, Withdraw(c)
  PROVE  MonitorInvariant'
<1>1. /\ monitored' \subseteq monitored
      /\ UNCHANGED <<types, market, clock, runs, lastSuccess, jobs, claimed, work, evaluations,
                     alerts, interrupted, crashes>>
  BY DEF Withdraw
<1>2. TypeOK' /\ WorkInvariant' /\ QueueInvariant'
  BY <1>1, Types DEF TypeOK, WorkInvariant, WorkType, QueueInvariant, RunsAndJobsEndTogether
<1>3. \A d \in Conditions : d.kind = "metric" => NoneIsLater(d)'
  BY <1>1, Types DEF HistoryInvariant, NoneIsLater
<1>4. \A p : RaisedBefore(p) => RaisedBefore(p)'
  BY <1>1 DEF RaisedBefore
<1> QED
  BY <1>1, <1>2, <1>3, <1>4, StoryStays, Types DEF MonitorInvariant

-----------------------------------------------------------------------------
(* The theorems *)

\* Nothing is claimed, running or told in the beginning.
LEMMA MonitorBegins == Init => MonitorInvariant
<1> SUFFICES ASSUME Init
             PROVE  MonitorInvariant
  OBVIOUS
<1>1. /\ types \in Schedules /\ market \in Markets /\ clock = 1
      /\ runs = [r \in Run |-> "unclaimed"] /\ lastSuccess = [t \in MonitorType |-> 0]
      /\ jobs = [r \in Run |-> NoJob] /\ claimed = [s \in Schedulers |-> None] /\ work = Idle
      /\ evaluations = [c \in Conditions |-> <<>>] /\ alerts = <<>>
      /\ monitored = Conditions /\ interrupted = {} /\ crashes = 0
  BY DEF Init
<1>2. MaxTime \in Nat \ {0} /\ MaxTries \in Nat \ {0} /\ MaxCrashes \in Nat
  BY MonitorAssumption
<1>3. TypeOK
  BY <1>1, <1>2 DEF TypeOK, NoJob
<1>4. WorkInvariant
  <2>1. None \in Opt(Run) /\ None \in Opt(Quote) /\ None \in Opt(Groups)
    BY Options
  <2>2. WorkType
    BY <1>1, <1>2, <2>1 DEF WorkType, Stage, Idle
  <2> QED
    BY <1>1, <2>2 DEF WorkInvariant, Idle
<1>5. QueueInvariant
  BY <1>1, <1>2 DEF QueueInvariant, RunsAndJobsEndTogether, Idle, NoJob
<1>6. \A c \in Conditions : FreshIn(evaluations[c]) = {}
  BY <1>1 DEF FreshIn
<1>7. HistoryInvariant
  BY <1>1, <1>6 DEF HistoryInvariant, History, NoneIsLater, Idle
<1>8. DOMAIN alerts = {} /\ Len(alerts) = 0 /\ 1..0 = {}
  BY <1>1
<1>9. AlertInvariant /\ MetricAlertsChain /\ StaleDataDecidesNothing
  BY <1>1, <1>8 DEF AlertInvariant, MetricAlertsChain, StaleDataDecidesNothing
<1>10. ConclusionsWereAlerted
  <2>1. \A c \in Conditions : LatestEffective(c) = None /\ FromStatus(c) = "pending"
    BY <1>6 DEF LatestEffective, FreshOf, FreshIn, FromStatus
  <2>2. \A c \in Conditions : Told(c, Len(alerts)) = {"pending"}
    BY <1>8 DEF Told
  <2> QED
    BY <1>8, <2>1, <2>2 DEF ConclusionsWereAlerted
<1> QED
  BY <1>3, <1>4, <1>5, <1>7, <1>9, <1>10 DEF MonitorInvariant

\* Every step keeps the invariant.
LEMMA MonitorGoesOn == MonitorInvariant /\ [Next]_vars => MonitorInvariant'
<1> SUFFICES ASSUME MonitorInvariant, [Next]_vars
             PROVE  MonitorInvariant'
  OBVIOUS
<1>1. CASE Tick
  BY <1>1, TickKeeps
<1>2. CASE Crash
  BY <1>2, CrashKeeps
<1>3. CASE WorkStep
  BY <1>3, LoadKeeps, LoadFailsKeeps, CommitKeeps, CommitFailsKeeps, CompleteKeeps, FailKeeps,
     FailRefusedKeeps DEF WorkStep
<1>4. ASSUME NEW s \in Schedulers, AddJob(s) \/ AddFails(s)
      PROVE  MonitorInvariant'
  BY <1>4, AddJobKeeps, AddFailsKeeps
<1>5. ASSUME NEW s \in Schedulers, NEW r \in Run, Claim(s, r)
      PROVE  MonitorInvariant'
  BY <1>5, ClaimKeeps
<1>6. ASSUME NEW r \in Run, Start(r) \/ StartFails(r) \/ Backoff(r)
      PROVE  MonitorInvariant'
  BY <1>6, StartKeeps, StartFailsKeeps, BackoffKeeps
<1>7. ASSUME NEW c \in Conditions, Withdraw(c)
      PROVE  MonitorInvariant'
  BY <1>7, WithdrawKeeps
<1>8. CASE UNCHANGED vars
  <2>1. UNCHANGED <<types, market, clock, runs, lastSuccess, jobs, claimed, work, evaluations,
                    alerts,
                    monitored, interrupted, crashes>>
    BY <1>8 DEF vars
  <2>2. TypeOK' /\ WorkInvariant' /\ QueueInvariant'
    BY <2>1, Types DEF TypeOK, WorkInvariant, WorkType, QueueInvariant, RunsAndJobsEndTogether
  <2>3. \A d \in Conditions : d.kind = "metric" => NoneIsLater(d)'
    BY <2>1, Types DEF HistoryInvariant, NoneIsLater
  <2>4. \A p : RaisedBefore(p) => RaisedBefore(p)'
    BY <2>1 DEF RaisedBefore
  <2> QED
    BY <2>1, <2>2, <2>3, <2>4, StoryStays, Types DEF MonitorInvariant
<1> QED
  BY <1>1, <1>2, <1>3, <1>4, <1>5, <1>6, <1>7, <1>8 DEF Next

\* So it holds in every state.
LEMMA MonitorInvariantHolds == Spec => []MonitorInvariant
  BY MonitorBegins, MonitorGoesOn, PTL DEF Spec

\* A run and its job end together, or are set apart for good by a statement or a job that
\* was refused, or by a claim that died with the worker.
THEOREM RunsEndWithTheirJobs == Spec => []RunsAndJobsEndTogether
<1>1. MonitorInvariant => RunsAndJobsEndTogether
  BY DEF MonitorInvariant, QueueInvariant
<1> QED
  BY <1>1, MonitorInvariantHolds, PTL

\* No alert rests on an answer past its expiry, and none on a metric on a fallback.
THEOREM StaleDataIsNotTold == Spec => []StaleDataDecidesNothing
<1>1. MonitorInvariant => StaleDataDecidesNothing
  BY DEF MonitorInvariant
<1> QED
  BY <1>1, MonitorInvariantHolds, PTL

\* The alerts of a metric, read in order, tell the story of its status and end where its
\* conclusion stands, however often the worker dies and however late a period is run.
THEOREM AlertsTellTheStory == Spec => []AlertsTellTheChanges
<1>1. MonitorInvariant => AlertsTellTheChanges
  BY DEF MonitorInvariant, AlertsTellTheChanges
<1> QED
  BY <1>1, MonitorInvariantHolds, PTL
=============================================================================
