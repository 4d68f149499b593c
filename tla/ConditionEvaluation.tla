------------------------ MODULE ConditionEvaluation ------------------------
(* What a monitored condition is worth: the answers of the market gateway, the *)
(* composite answer of /api/events (server/routes/eventRoutes.ts), the         *)
(* snapshot that monitorSnapshotLoader.ts makes of them, and                   *)
(* shared/monitoring/conditionEvaluator.ts. A metric's operator and target are *)
(* the set of values they accept; dates are numbers; None is undefined.        *)
EXTENDS Integers, FiniteSetsExt

None == <<>>
Some(x) == <<x>>
The(opt) == opt[1]

CONSTANT Conditions

Condition ==
  [id : STRING, kind : {"metric"}, direction : {"support", "risk"}, valid : BOOLEAN,
   accepts : SUBSET Nat, deadline : Nat]
  \union
  [id : STRING, kind : {"event"}, direction : {"support", "risk"}, valid : BOOLEAN,
   occurrence : {"before-date", "within-range", "not-occurred-by-date"},
   from : Nat, to : Nat, created : Nat, deadline : Nat]

ASSUME ConditionsAssumption == Conditions \subseteq Condition

Status == {"pending", "confirmed", "breached", "expired"}

(* An answer of MarketDataGateway.readThrough: fresh, a fallback to what is in *)
(* the cache (past its expiry or not), or a rejection.                         *)
AnswerState == {"fresh", "fallback", "expired", "rejected"}

Envelope(answer) ==
  [data |-> answer.data, asOf |-> answer.asOf,
   stale |-> answer.state = "expired", fallback |-> answer.state \in {"fallback", "expired"}]

\* batchRequirements: a range has its own first day, any other window begins on the
\* day its condition was made.
WindowFrom(c) == IF c.occurrence = "within-range" THEN c.from ELSE c.created

\* toConditions: the snapshot route makes a range of every window.
AsRange(c) == [c EXCEPT !.occurrence = "within-range", !.from = WindowFrom(c)]

\* MonitorSnapshotLoader: one request for all event conditions of a run, whatever
\* their symbols, from the first day of any to the last day of any.
EventWindow(conditions) ==
  LET from(c) == IF WindowFrom(c) > c.to THEN c.to ELSE WindowFrom(c)
  IN  Min({from(AsRange(c)) : c \in conditions}) .. Max({c.to : c \in conditions})

\* /api/events: the groups that answered, whatever became of the others. The
\* answer does not say that it holds a fallback, or that a group is missing.
EventsEnvelope(groups, now) ==
  LET successful == {g \in DOMAIN groups : groups[g].state # "rejected"}
  IN  [data |-> UNION {groups[g].data : g \in successful},
       asOf |-> IF successful = {} THEN now ELSE Max({groups[g].asOf : g \in successful}),
       stale |-> \E g \in successful : groups[g].state = "expired",
       fallback |-> FALSE]

\* Mutated form: a fallback that has not expired counts as fresh.
StaleState(envelope) == IF envelope.stale THEN "stale" ELSE "fresh"

EnvelopeState(envelope) ==
  IF envelope.stale \/ envelope.fallback THEN "stale" ELSE "fresh"

MetricOf(quotes) ==
  IF quotes.state = "rejected"
  THEN [value |-> None, asOf |-> None, dataState |-> "unavailable"]
  ELSE LET state == EnvelopeState(Envelope(quotes))
       IN  [value |-> quotes.data, asOf |-> Some(quotes.asOf),
            dataState |-> IF state = "fresh" /\ quotes.data = None THEN "missing" ELSE state]

\* The loader asks for what the conditions of the run need.
Snapshot(quotes, groups, now) ==
  LET events == IF groups = None THEN None ELSE Some(EventsEnvelope(The(groups), now))
  IN  [metric |-> IF quotes = None THEN None ELSE Some(MetricOf(The(quotes))),
       events |-> IF events = None THEN {} ELSE The(events).data,
       eventsState |-> IF events = None THEN "fresh" ELSE EnvelopeState(The(events)),
       eventsAsOf |-> IF events = None THEN None ELSE Some(The(events).asOf),
       generatedAt |-> now]

-----------------------------------------------------------------------------
(* evaluateCondition *)

MapStatus(direction, matched) ==
  IF matched <=> direction = "support" THEN "confirmed" ELSE "breached"

Evaluation(status, dataState, asOf) ==
  [status |-> status, dataState |-> dataState, asOf |-> asOf]

\* Without data to decide, the last conclusion stands.
Waiting(c, state, asOf, previous, snapshot, now) ==
  IF previous # None THEN Evaluation(The(previous).status, state, asOf)
  ELSE Evaluation(IF c.deadline > 0 /\ now > c.deadline THEN "expired" ELSE "pending",
                  state, IF asOf = None THEN Some(snapshot.generatedAt) ELSE asOf)

EvaluateMetric(c, snapshot, previous, now) ==
  LET m == The(snapshot.metric)
  IN  IF m.dataState # "fresh" \/ m.value = None
      THEN Waiting(c, IF m.dataState = "fresh" THEN "missing" ELSE m.dataState,
                   m.asOf, previous, snapshot, now)
      ELSE Evaluation(MapStatus(c.direction, The(m.value) \in c.accepts), "fresh", m.asOf)

MatchingEvents(c, snapshot) ==
  {d \in snapshot.events : d <= c.to /\ (c.occurrence = "within-range" => d >= c.from)}

\* The event decides when it is there, its absence once the window is over.
EvaluateEvent(c, snapshot, previous, now) ==
  LET matches == MatchingEvents(c, snapshot)
      matched == IF c.occurrence = "not-occurred-by-date" THEN matches = {} ELSE matches # {}
  IN  IF snapshot.eventsState # "fresh"
      THEN Waiting(c, snapshot.eventsState, snapshot.eventsAsOf, previous, snapshot, now)
      ELSE IF matches = {} /\ now <= c.to
      THEN Evaluation("pending", "fresh", snapshot.eventsAsOf)
      ELSE Evaluation(MapStatus(c.direction, matched), "fresh",
                      IF matches = {} THEN snapshot.eventsAsOf ELSE Some(Min(matches)))

Evaluate(c, snapshot, previous, now) ==
  IF c.kind = "metric" THEN EvaluateMetric(c, snapshot, previous, now)
  ELSE EvaluateEvent(c, snapshot, previous, now)
=============================================================================
