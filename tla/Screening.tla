------------------------------- MODULE Screening -------------------------------
(* The figures a stock is screened by, the universe that offers them, and the      *)
(* screen itself (metricCalculator.ts, universeService.ts, screener.ts). Amounts   *)
(* are exact fractions, None is undefined, and a period is a number.               *)
EXTENDS MarketData

Divided(a, b) == IF a = None \/ b = None \/ b = Zero THEN None ELSE Over(a, b)
Percent(x) == IF x = None THEN None ELSE Times(x, Whole(100))
Growth(a, b) == IF Divided(a, b) = None THEN None ELSE Percent(Minus(Divided(a, b), One))
Difference(a, b) == IF a = None \/ b = None THEN None ELSE Minus(a, b)

\* The facts of a concept, the latest period first: [concept, periodEnd, unit, value].
factRecords(facts, concept) == LatestFirst(SelectSeq(facts, LAMBDA f : f.concept = concept), Period)
ValueAt(records, n) == IF n \in DOMAIN records THEN records[n].value ELSE None
OrZero(x) == IF x = None THEN Zero ELSE x

\* A cost belongs to a revenue of the same period and unit.
grossMarginFor(revenues, costs, n) ==
  IF n \notin DOMAIN revenues \/ ValueAt(revenues, n) = Zero THEN None
  ELSE LET same == SelectSeq(costs, LAMBDA c : /\ c.periodEnd = revenues[n].periodEnd
                                               /\ c.unit = revenues[n].unit)
       IN  IF same = <<>> THEN None
           ELSE Percent(Over(Minus(revenues[n].value, same[1].value), revenues[n].value))

LastBars(bars, n) == SubSeq(bars, Max({1, Len(bars) - n + 1}), Len(bars))
Mean(values) == Over(FoldLeft(Plus, Zero, values), Whole(Max({1, Len(values)})))
Shares(bars) == [i \in DOMAIN bars |-> bars[i].volume]
Turnover(bars) == [i \in DOMAIN bars |-> Times(bars[i].close, bars[i].volume)]

HighOf(bars) ==
  FoldLeft(LAMBDA high, bar : IF high = None THEN bar.high ELSE Larger(high, bar.high), None, bars)

\* The input holds a quote [price, previousClose, volume], bars, facts, the market's value
\* and the earnings; Window and Quarter are the 20 and 64 days of the code.
calculateScreenerMetrics(input, Window, Quarter) ==
  LET bars == input.bars
      last == LastBars(bars, Window)
      of(concept) == factRecords(input.facts, concept)
      revenue == of("Revenues")
      margin(n) == grossMarginFor(revenue, of("CostOfRevenue"), n)
      free == Difference(ValueAt(of("Operations"), 1), ValueAt(of("Capex"), 1))
      debt == Minus(OrZero(ValueAt(of("Debt"), 1)), OrZero(ValueAt(of("Cash"), 1)))
      surprise == Difference(input.epsActual, input.epsEstimate)
  IN  [price                |-> input.price,
       dailyChangePercent   |-> Growth(input.price, input.previousClose),
       revenueGrowthYoY     |-> Growth(ValueAt(revenue, 1), ValueAt(revenue, 2)),
       grossMargin          |-> margin(1),
       grossMarginYoYChange |-> Difference(margin(1), margin(2)),
       operatingMargin      |-> Percent(Divided(ValueAt(of("OperatingIncome"), 1), ValueAt(revenue, 1))),
       freeCashFlow         |-> free,
       freeCashFlowYield    |-> Percent(Divided(free, input.marketCap)),
       netDebtToEbitda      |-> Divided(debt, ValueAt(of("Ebitda"), 1)),
       earningsSurprise     |-> IF surprise = None THEN None
                                ELSE Percent(Divided(surprise, <<Abs(input.epsEstimate[1]), input.epsEstimate[2]>>)),
       priceVs20DayHigh     |-> Growth(input.price, HighOf(last)),
       relativeVolume       |-> Divided(input.volume, Mean(Shares(last))),
       averageDollarVolume20d |-> IF bars = <<>> THEN None
                                  ELSE Over(Mean(Turnover(last)), Whole(1000000)),
       return3Months        |-> IF Len(bars) < Quarter THEN None
                                ELSE Percent(Minus(Over(Last(bars).close, bars[Len(bars) - Quarter + 1].close), One))]

Available(metrics) == Cardinality({m \in DOMAIN metrics : metrics[m] # None})

\* A stock of the universe: without its profile only the quote is used, and it stays
\* "preparing" whatever figures there are.
Coverage(metrics, hasProfile, hasFacts) ==
  IF ~hasProfile \/ Available(metrics) = 0 THEN "preparing" ELSE IF hasFacts THEN "ready" ELSE "partial"

\* Up to max loads run at a time; each writes what it loaded at the place of its item,
\* whichever ends first.
boundedMap(loaded, order) ==
  FoldLeft(LAMBDA results, i : [results EXCEPT ![i] = loaded[i]],
           [i \in DOMAIN loaded |-> None], order)

-----------------------------------------------------------------------------
(* The screen. A condition: [id, metric, period, operator, low, high]; only       *)
(* "between" has a high, and a low that is no number is None.                      *)
Operators == {">", ">=", "<", "<=", "=", "between"}

Usable(c) == c.low # None /\ (c.operator = "between" => c.high # None)
InvalidRange(c) == c.operator = "between" /\ Below(c.high, c.low)

matches(actual, c) ==
  CASE c.operator = ">"  -> Below(c.low, actual)
    [] c.operator = ">=" -> AtMost(c.low, actual)
    [] c.operator = "<"  -> Below(actual, c.low)
    [] c.operator = "<=" -> AtMost(actual, c.low)
    [] c.operator = "="  -> actual = c.low
    [] OTHER -> AtMost(c.low, actual) /\ AtMost(actual, c.high)

\* The conditions on one figure of one period conflict when the largest of their minima
\* exceeds the smallest of their maxima; "=" bounds nothing.
Minimum(c) == IF c.operator \in {">", ">=", "between"} THEN {c.low} ELSE {}
Maximum(c) == CASE c.operator \in {"<", "<="} -> {c.low} [] c.operator = "between" -> {c.high}
                [] OTHER -> {}
Conflicts(same) ==
  \E c, d \in same : \E low \in Minimum(c), high \in Maximum(d) : Below(high, low)

validateConditions(conditions) ==
  LET bounding == {c \in conditions : Usable(c) /\ ~InvalidRange(c)}
      alike(c) == {d \in bounding : d.metric = c.metric /\ d.period = c.period}
  IN  {[id |-> c.id, code |-> "invalid-value"] : c \in {x \in conditions : ~Usable(x)}}
      \union {[id |-> c.id, code |-> "invalid-range"] : c \in {x \in conditions : Usable(x) /\ InvalidRange(x)}}
      \union {[id |-> c.id, code |-> "conflict"] : c \in {x \in bounding : Conflicts(alike(x))}}

Passes(stock, c) == stock[c.metric] # None /\ matches(stock[c.metric], c)

runScreen(stocks, conditions) ==
  IF validateConditions(conditions) # {} THEN <<>>
  ELSE SelectSeq(stocks, LAMBDA stock : \A c \in conditions : Passes(stock, c))

-----------------------------------------------------------------------------
(* What TLC evaluates.                                                        *)
Values == {Whole(0), Whole(1), Whole(2)}
Condition(operators, highs) ==
  [id : {1, 2}, metric : {"price"}, period : {"ttm", "day"}, operator : operators,
   low : Values \union {None}, high : highs]
Conditions == Condition(Operators \ {"between"}, {None}) \union Condition({"between"}, Values)

\* A screen of conditions with proper values finds a stock exactly when its figure meets
\* all of them: refusing a screen for a conflict hides none. Conditions no stock can meet
\* are not all refused (validateConditions, runScreen).
ASSUME ConflictsAreReal ==
  /\ \A c, d \in {x \in Conditions : Usable(x) /\ ~InvalidRange(x)} : \A x \in Values :
       c.id # d.id =>
         ((runScreen(<<[price |-> x]>>, {c, d}) # <<>>) <=> (matches(x, c) /\ matches(x, d)))
  /\ \E c, d \in Conditions :
       /\ c.id # d.id /\ validateConditions({c, d}) = {}
       /\ \A x \in Values : ~(matches(x, c) /\ matches(x, d))

\* The results stand in the order of the items whatever the order of the answers
\* (boundedMap).
ASSUME OrderOfAnswersDoesNotMatter ==
  \A order \in {o \in [1 .. 4 -> 1 .. 4] : IsInjective(o)} :
    boundedMap(<<<<5>>, <<6>>, <<7>>, <<8>>>>, order) = <<<<5>>, <<6>>, <<7>>, <<8>>>>

Revenue(period, unit, value) == [concept |-> "Revenues", periodEnd |-> period, unit |-> unit, value |-> value]
Cost(period, unit, value) == [Revenue(period, unit, value) EXCEPT !.concept = "CostOfRevenue"]
Input(facts, bars, price) ==
  [price |-> price, previousClose |-> None, volume |-> Whole(6), bars |-> bars, facts |-> facts,
   marketCap |-> None, epsActual |-> None, epsEstimate |-> None]

\* The figures do not depend on the order in which the facts arrive, and a margin is made
\* of a revenue and a cost of one period and one unit only (grossMarginFor).
ASSUME MarginsAreOfOnePeriod ==
  \A p, q \in CheckedTimes : \A u, v \in {"USD", "EUR"} : \A worth \in Values :
    LET revenue == Revenue(p, u, worth)
        cost == Cost(q, v, One)
        figures(facts) == calculateScreenerMetrics(Input(facts, <<>>, One), 2, 3)
    IN  /\ figures(<<revenue, cost>>) = figures(<<cost, revenue>>)
        /\ figures(<<revenue, cost>>).grossMargin # None <=> (p = q /\ u = v /\ worth # Zero)

Bar(close) == [close |-> close, high |-> Plus(close, One), volume |-> close]

\* The price stands against the highest of the last days only, and no figure is made of
\* fewer days than it needs (calculateScreenerMetrics).
ASSUME FiguresAreOfTheLastDays ==
  \A closes \in SeqOf({Whole(1), Whole(2)}, 3) :
    LET bars == [i \in DOMAIN closes |-> Bar(closes[i])]
        figures == calculateScreenerMetrics(Input(<<>>, bars, One), 2, 3)
        last == LastBars(bars, 2)
    IN  /\ (figures.return3Months # None) <=> (Len(bars) = 3)
        /\ (figures.priceVs20DayHigh = None) <=> (bars = <<>>)
        /\ bars # <<>> => \A i \in DOMAIN last :
             AtMost(figures.priceVs20DayHigh, Percent(Minus(Over(One, last[i].high), One)))
        /\ Coverage(figures, FALSE, TRUE) = "preparing"
=============================================================================
