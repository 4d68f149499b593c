--------------------------- MODULE MCMonitorRuns ---------------------------
(* A metric and an event condition of one symbol over a few times.            *)
EXTENDS MonitorRuns, MarketCalendar, AlertInbox

Metric ==
  [id |-> "m", kind |-> "metric", direction |-> "support", valid |-> TRUE,
   accepts |-> {2}, deadline |-> 0]
Event ==
  [id |-> "e", kind |-> "event", direction |-> "support", valid |-> TRUE,
   occurrence |-> "before-date", from |-> 0, to |-> 1, created |-> 1, deadline |-> 0]

MCConditions == {Metric, Event}
MCWithdrawable == {Event}
\* The line of the condition is crossed at some time, or was before the first.
MCMarkets ==
  [quote : {q \in [1..MaxTime -> {1, 2}] : \E t \in 1..MaxTime : q[t] = 2}, listed : {[t \in 1..MaxTime |-> {1}]}]
AllTimes == 1..MaxTime

\* A price that crosses the line of the condition with every period.
OneMetric == {Metric}
Flipping ==
  [quote : {[t \in 1..MaxTime |-> 1 + (t % 2)]}, listed : {[t \in 1..MaxTime |-> {}]}]

-----------------------------------------------------------------------------
\* Bound: event conditions over two days.
SomeEvents ==
  {c \in [id : {"e"}, kind : {"event"}, direction : {"support"}, valid : {TRUE},
          occurrence : {"before-date", "within-range", "not-occurred-by-date"},
          from : 1..2, to : 1..2, created : 1..2, deadline : {0}] :
     c.occurrence = "within-range" => c.from <= c.to}

\* What is made of a condition when the request serves others, too.
EvaluatedIn(c, conditions, listed, now) ==
  Evaluate(c, [events |-> listed \intersect EventWindow(conditions), eventsState |-> "fresh",
               eventsAsOf |-> Some(now), generatedAt |-> now], None, now)

\* The one window that a run asks for (MonitorSnapshotLoader.load, batchRequirements)
\* loses none of a condition's events to another, and changes what a condition comes to
\* only by events from before the condition was made, and never for a range.
ASSUME WindowsLoseNothing ==
  \A c, d \in SomeEvents : \A listed \in SUBSET (0..3) : \A now \in 1..3 :
    LET own == listed \intersect EventWindow({c})
        old == {day \in listed \intersect EventWindow({c, d}) : day < c.created}
    IN  /\ own \subseteq EventWindow({c, d})
        /\ EvaluatedIn(c, {c, d}, listed, now) # EvaluatedIn(c, {c}, listed, now) =>
             c.occurrence # "within-range" /\ old # {}
=============================================================================
