------------------------ MODULE PortfolioPerformance ------------------------
(* The performance of the manual portfolio: performanceHistoryLoader.ts asks   *)
(* for closes and splits, portfolioPerformanceEngine.ts values the replayed    *)
(* ledger on each date and links the daily returns, performanceAttribution.ts  *)
(* divides them among the symbols. A date d spans the times 3d (midnight),     *)
(* 3d+1 (the time of its bar) and 3d+2 (the time of a cash event).             *)
EXTENDS ManualPortfolio

CONSTANTS
  Histories,    \* answers of the market client
  CarryLimit,   \* valuation dates a close may be carried over
  From, To      \* the selected range; the portfolio's inception is date 1

VARIABLES report   \* the result on the page, None while the hook loads

vars == <<ledger, ignored, report>>

\* bars: close by symbol and date, bench: the benchmark's, 0 where there is none.
Answers(dates) ==
  [bars : [Symbols -> [dates -> Nat]], bench : [dates -> Nat], splits : SUBSET Entries,
   state : {"fresh", "stale", "unavailable"}]

ASSUME PerformanceAssumption ==
  /\ CarryLimit \in Nat /\ From \in Nat /\ To \in Nat
  /\ \A answer \in Histories : answer \in Answers(1..To)

-----------------------------------------------------------------------------
(* The loader *)

Requested == {ledger[i].symbol : i \in {j \in DOMAIN ledger :
                ledger[j].type \in {"buy", "sell", "split"}}}

HeldOn(events, symbol, date) ==
  QuantityOf(events, {i \in DOMAIN events : events[i].date <= date}, symbol) > 0

\* Splits the provider knows of, neither confirmed nor ignored, of a symbol held.
PendingSplits(splits) ==
  LET events == Sorted
  IN  {split \in splits :
         /\ split.symbol \in Requested
         /\ split.id \notin ignored
         /\ \A i \in DOMAIN ledger : ledger[i].type = "split" => ledger[i].id # split.id
         /\ HeldOn(events, split.symbol, split.date)}

\* What the engine is given: the ledger in order and the answer for its symbols.
History(answer) ==
  [events |-> Sorted, bars |-> [symbol \in Requested |-> answer.bars[symbol]],
   bench |-> answer.bench, pending |-> PendingSplits(answer.splits), state |-> answer.state]

ValuationDates(h) ==
  {d \in 1..To : h.bench[d] > 0 \/ \E symbol \in DOMAIN h.bars : h.bars[symbol][d] > 0}

\* An event counts on the first valuation date that is not before its own.
ValuationDate(h, e) ==
  LET later == {d \in ValuationDates(h) : d >= e.date}
  IN  IF later = {} THEN 0 ELSE Min(later)

\* The places in the ledger of the events that count on a date.
EventsOfDate(h, date) == {i \in DOMAIN h.events : h.events[i].date = date}
EventsOn(h, date) == {i \in DOMAIN h.events : ValuationDate(h, h.events[i]) = date}

-----------------------------------------------------------------------------
(* One valuation date *)

Unmarked == [last |-> 0, age |-> 0, known |-> FALSE, carried |-> FALSE]

\* The close of a symbol: its bar, else what it was bought for, else the last one.
MarkedAt(m, bar, quantity, bought) ==
  CASE bar > 0 -> [last |-> bar, age |-> 0, known |-> TRUE, carried |-> FALSE]
    [] bar = 0 /\ quantity > 0 /\ m.last = 0 /\ bought > 0 ->
         [last |-> bought, age |-> 0, known |-> TRUE, carried |-> TRUE]
    [] bar = 0 /\ quantity > 0 /\ m.last > 0 /\ m.age < CarryLimit ->
         [m EXCEPT !.age = @ + 1, !.known = TRUE, !.carried = TRUE]
    [] OTHER -> [m EXCEPT !.known = FALSE, !.carried = FALSE]

IsValued(p, m) == p.quantity = 0 \/ (p.quantity > 0 /\ m.known)
EndingValue(p, m) == IF p.quantity > 0 /\ m.known THEN p.quantity * m.last ELSE 0

OfSymbol(h, events, symbol) == {i \in events : h.events[i].symbol = symbol}

BoughtFor(h, events, symbol) ==
  LET buys == {i \in OfSymbol(h, events, symbol) : h.events[i].type = "buy"}
  IN  IF buys = {} THEN 0 ELSE h.events[Max(buys)].price

Total(h, events, types, Of(_)) == Sum(h.events, {i \in events : h.events[i].type \in types}, Of)
Amount(e) == e.amount
Traffic(e) == e.quantity * e.price
Inflow(e) == IF e.type = "deposit" THEN e.amount ELSE 0
Flow(e) == IF e.type = "deposit" THEN e.amount ELSE IF e.type = "withdrawal" THEN -e.amount ELSE 0
At(e) == IF e.type = "split" THEN 3 * e.date ELSE 3 * e.date + 2

\* What the cash flows add to the capital at work between two valuations: each for the
\* part of the time that it was there.
Weighted(h, events, start, end) ==
  LET span == end - start
      stay(e) == IF end < At(e) THEN 0 ELSE IF At(e) < start THEN span ELSE end - At(e)
  IN  IF end > start THEN Fraction(Sum(h.events, events, LAMBDA e : Flow(e) * stay(e)), span) ELSE Zero

\* A stretch of valued dates links the returns of its own dates only.
CompoundedForever(fresh, growth, return) ==
  Times(growth, IF return = None THEN One ELSE Plus(One, return))
Compounded(fresh, growth, return) ==
  Times(IF fresh THEN One ELSE growth, IF return = None THEN One ELSE Plus(One, return))

Drawdown(peak, growth) == Over(Minus(peak, growth), peak)

\* The state of the loop over the valuation dates.
Opening ==
  [cash |-> InitialCash, positions |-> <<>>, marks |-> <<>>, total |-> None, valuedAt |-> 3,
   valued |-> FALSE, close |-> 0, entered |-> FALSE, start |-> 0, base |-> 0,
   growth |-> One, peak |-> One, days |-> <<>>]

PositionBefore(s, symbol) == IF symbol \in DOMAIN s.positions THEN s.positions[symbol] ELSE NoPosition
MarkBefore(s, symbol) == IF symbol \in DOMAIN s.marks THEN s.marks[symbol] ELSE Unmarked

\* What the events of a date leave of the positions, and the closes they are valued at.
Replayed(h, s, events) ==
  [symbol \in DOMAIN s.positions \union Traded(h.events, events) |->
     Replay(PositionBefore(s, symbol), h.events, events, symbol)]

Marked(h, s, date, events, positions) ==
  [events |-> events, positions |-> positions,
   marks |-> [symbol \in DOMAIN positions |->
                MarkedAt(MarkBefore(s, symbol), h.bars[symbol][date],
                         positions[symbol].quantity, BoughtFor(h, events, symbol))]]

Ending(at, symbol) == EndingValue(at.positions[symbol], at.marks[symbol])

\* The value of the date, None unless every position has a close and no split is open.
Valued(h, s, date, at) ==
  LET missing == {symbol \in DOMAIN at.positions :
                    at.positions[symbol].quantity > 0 /\ ~at.marks[symbol].known}
      effective == {i \in at.events : h.events[i].type # "dividend" \/ h.events[i].symbol # ""}
      cash == s.cash + Sum(h.events, effective, CashEffect)
      blocked == h.state = "unavailable" \/ \E split \in h.pending : split.date <= date
  IN  [cash |-> cash,
       total |-> IF blocked \/ missing # {} THEN None
                 ELSE Whole(cash + SumFunction([symbol \in DOMAIN at.positions |-> Ending(at, symbol)])),
       begin |-> IF s.total # None THEN s.total
                 ELSE IF s.valued THEN None ELSE Whole(InitialCash)]

\* The capital at work during the date, and the return on it.
Capital(h, s, date, at, value) ==
  IF value.begin = None \/ value.total = None THEN None
  ELSE Plus(value.begin, Weighted(h, at.events, s.valuedAt, 3 * date + 1))

ReturnOn(h, capital, at, value) ==
  IF capital = None \/ AtMost(capital, Zero) THEN None
  ELSE Over(Minus(Minus(value.total, value.begin), Whole(Sum(h.events, at.events, Flow))), capital)

\* What of the date goes on: where the range begins, the linked growth and its peak.
Chained(h, s, date, return) ==
  LET entering == date >= From /\ ~s.entered
      fresh == entering \/ s.start = 0
      opening == IF s.close > 0 THEN s.close ELSE h.bench[date]
      growth == Compounded(fresh, s.growth, return)
  IN  [entering |-> entering, fresh |-> fresh, return |-> return,
       base |-> IF entering \/ (fresh /\ s.base = 0) THEN opening ELSE s.base,
       growth |-> growth, peak |-> Larger(IF fresh THEN One ELSE s.peak, growth)]

Part(h, s, at, symbol) ==
  LET events == OfSymbol(h, at.events, symbol)
  IN  [valued |-> IsValued(at.positions[symbol], at.marks[symbol]), ending |-> Ending(at, symbol),
       beginning |-> PositionBefore(s, symbol).quantity * MarkBefore(s, symbol).last,
       bought |-> Total(h, events, {"buy"}, Traffic),
       sold |-> Total(h, events, {"sell"}, Traffic),
       dividends |-> Total(h, events, {"dividend"}, Amount)]

\* The point of the date on the page.
Day(h, s, date, at, value, capital, link) ==
  [date |-> date, begin |-> value.begin, total |-> value.total, cash |-> value.cash,
   deposits |-> Total(h, at.events, {"deposit"}, Amount),
   withdrawals |-> Total(h, at.events, {"withdrawal"}, Amount),
   fees |-> Total(h, at.events, {"fee"}, Amount),
   denominator |-> capital, return |-> link.return,
   growth |-> IF value.total = None THEN None ELSE link.growth,
   drawdown |-> IF value.total = None THEN None ELSE Drawdown(link.peak, link.growth),
   benchmark |-> IF value.total = None \/ h.bench[date] = 0 \/ link.base = 0 THEN None
                 ELSE Minus(Over(Whole(h.bench[date]), Whole(link.base)), One),
   parts |-> [symbol \in DOMAIN at.positions |-> Part(h, s, at, symbol)],
   state |-> IF value.total = None THEN "unavailable"
             ELSE IF h.state = "stale" \/ \E x \in DOMAIN at.marks : at.marks[x].carried
                  THEN "stale" ELSE "fresh"]

After(h, s, date, at, value, capital, link) ==
  [cash |-> value.cash, positions |-> at.positions, marks |-> at.marks, total |-> value.total,
   valuedAt |-> IF value.total = None THEN 3 ELSE 3 * date + 1,
   valued |-> s.valued \/ value.total # None,
   close |-> IF h.bench[date] > 0 THEN h.bench[date] ELSE s.close,
   entered |-> s.entered \/ link.entering,
   start |-> IF value.total = None THEN 0 ELSE IF link.fresh THEN date ELSE s.start,
   base |-> IF value.total = None THEN 0 ELSE link.base,
   growth |-> link.growth, peak |-> link.peak,
   days |-> IF date >= From THEN Append(s.days, Day(h, s, date, at, value, capital, link)) ELSE s.days]

\* One turn of the loop, each stage from the ones before it.
Value(h, s, date) ==
  LET events == EventsOn(h, date)
      at == Marked(h, s, date, events, Replayed(h, s, events))
      value == Valued(h, s, date, at)
      capital == Capital(h, s, date, at, value)
      link == Chained(h, s, date, ReturnOn(h, capital, at, value))
  IN  After(h, s, date, at, value, capital, link)

-----------------------------------------------------------------------------
(* The result: the points of the range and the last stretch of valued ones *)

\* The loop after each date.
Inner(h) ==
  LET after[d \in 0..To] == IF d = 0 THEN Opening
                            ELSE IF d \in ValuationDates(h) THEN Value(h, after[d - 1], d)
                            ELSE after[d - 1]
  IN  after

LastStretch(days) ==
  LET valued == {i \in DOMAIN days : days[i].total # None}
      gaps(last) == {i \in 1..last : days[i].total = None}
  IN  IF valued = {} THEN <<>>
      ELSE LET last == Max(valued)
           IN  SubSeq(days, Max(gaps(last) \union {0}) + 1, last)

\* The flows of a first day without an opening value belong to that value.
NetFlow(stretch) ==
  SumFunctionOnSet([i \in DOMAIN stretch |-> stretch[i].deposits - stretch[i].withdrawals],
                   {i \in DOMAIN stretch : i > 1 \/ stretch[1].begin # None})

MoneyMade(stretch) ==
  LET first == Head(stretch)
      begin == IF first.begin = None THEN first.total ELSE first.begin
  IN  Minus(Minus(Last(stretch).total, begin), Whole(NetFlow(stretch)))

\* calculateAttribution: what each symbol and the fees contributed.
Contribution(p) == p.ending - p.beginning - p.bought + p.sold + p.dividends

DayMoney(day) ==
  SumFunction([symbol \in DOMAIN day.parts |-> Contribution(day.parts[symbol])]) - day.fees

DayReconciles(day) ==
  /\ day.return # None
  /\ \A symbol \in DOMAIN day.parts : day.parts[symbol].valued
  /\ Over(Whole(DayMoney(day)), day.denominator) = day.return

\* Contributions linked by the growth of the days that follow.
LinkedContribution(days) ==
  LET linked[n \in 0..Len(days)] ==
        IF n = 0 THEN Zero
        ELSE Plus(Times(linked[n - 1], Plus(One, days[n].return)),
                  Over(Whole(DayMoney(days[n])), days[n].denominator))
  IN  linked[Len(days)]

\* They add up to the return, and in money to what the stretch made.
Attributed(stretch) ==
  LET days == IF stretch[1].begin = None /\ stretch[1].return = None THEN Tail(stretch)
              ELSE stretch
  IN  /\ days # <<>>
      /\ \A i \in DOMAIN days : DayReconciles(days[i])
      /\ LinkedContribution(days) = Minus(Last(stretch).growth, One)
      /\ Whole(SumFunction([i \in DOMAIN days |-> DayMoney(days[i])])) = MoneyMade(stretch)

Result(h, end, stretch) ==
  [history |-> h, end |-> end, stretch |-> stretch, reconciled |-> stretch # <<>> /\ Attributed(stretch)]

Performance(h) ==
  LET end == Inner(h)[To]
  IN  Result(h, end, LastStretch(end.days))

-----------------------------------------------------------------------------
Init ==
  /\ ledger = <<>> /\ ignored = {}
  /\ report = None

Enter(e) == AppendEvent(e) /\ report' = None

Ignore(split) ==
  /\ split.id \notin ignored
  /\ \E answer \in Histories : split \in answer.splits
  /\ IgnoreSplit(split.id) /\ report' = None

Load(answer) ==
  /\ report = None
  /\ report' = Performance(History(answer))
  /\ UNCHANGED portfolio

Next ==
  \/ \E e \in Entries : Enter(e)
  \/ \E split \in Entries : Ignore(split)
  \/ \E answer \in Histories : Load(answer)

Spec == Init /\ [][Next]_vars

-----------------------------------------------------------------------------
(* Correctness *)

\* Every sale and every dividend is of something held, in the order of dates,
\* which appending does not check.
Covered(events) ==
  \A i \in DOMAIN events :
    LET e == events[i]
    IN  /\ e.type = "sell" => e.quantity <= QuantityOf(events, 1..(i - 1), e.symbol)
        /\ e.type = "dividend" => e.symbol \in Traded(events, 1..(i - 1))

IsLoaded == report # None
Events == report.history.events
Stretch == IF IsLoaded THEN report.stretch ELSE <<>>
Linked == IF Stretch # <<>> /\ Stretch[1].begin = None THEN Tail(Stretch) ELSE Stretch
CapitalIsPositive == \A i \in DOMAIN Linked : Linked[i].return # None

\* The performance design, section 9: the contributions of the symbols and the
\* fees always add up to the return of each day, to the linked return and to
\* the money made, so the page never shows its diagnostic instead.
AttributionReconciles ==
  Linked # <<>> /\ Covered(Events) /\ CapitalIsPositive => report.reconciled

\* What one share of the first day has become after the splits up to a date.
Factor(symbol, date) ==
  LET splits == {i \in DOMAIN Events : Events[i].type = "split" /\ Events[i].date <= date}
  IN  Replay([NoPosition EXCEPT !.quantity = 1], Events, splits, symbol).quantity

\* What a share of the first day would be worth at each close and trade of a symbol.
PricesSeen(symbol) ==
  LET h == report.history
      trades == {i \in DOMAIN Events : Events[i].symbol = symbol /\ Events[i].type \in {"buy", "sell"}}
  IN  {h.bars[symbol][d] * Factor(symbol, d) : d \in {x \in 1..To : h.bars[symbol][x] > 0}}
        \union {Events[i].price * Factor(symbol, Events[i].date) : i \in trades}

\* No price moves, but for splits, which come with a close.
SteadyPrices ==
  /\ \A symbol \in DOMAIN report.history.bars : \A x, y \in PricesSeen(symbol) : x = y
  /\ \A i \in DOMAIN Events : Events[i].type = "split" =>
       Events[i].date \in 1..To /\ report.history.bars[Events[i].symbol][Events[i].date] > 0

\* Capital that comes and goes, a purchase, a sale and a confirmed split are not
\* a return: where no price moves and nothing is paid, every return is zero.
FlowsAreNotReturns ==
  (/\ IsLoaded /\ Covered(Events) /\ SteadyPrices
   /\ \A i \in DOMAIN Events : Events[i].type \notin {"dividend", "fee"}) =>
    \A i \in DOMAIN report.end.days : report.end.days[i].return \in {None, Zero}

\* Without flows the linked return of the stretch is the growth from its opening
\* to its closing value: nothing from before the range or across a gap enters it.
ReturnIsGrowth ==
  (/\ Linked # <<>> /\ CapitalIsPositive
   /\ \A i \in DOMAIN Linked : Linked[i].deposits = 0 /\ Linked[i].withdrawals = 0) =>
    Times(Last(Linked).growth, Linked[1].begin) = Last(Linked).total

\* The drawdown shown is the worst fall of the normalized value from an earlier
\* value of the same stretch or from its opening, while the portfolio owes nothing.
DrawdownIsWorstFall ==
  Stretch # <<>> /\ (\A i \in DOMAIN Stretch : AtMost(Zero, Stretch[i].growth)) =>
    LET value(i) == IF i = 0 THEN One ELSE Stretch[i].growth
        largest(S) == CHOOSE x \in S \union {Zero} : \A y \in S \union {Zero} : AtMost(y, x)
    IN  largest({Stretch[i].drawdown : i \in DOMAIN Stretch})
          = largest(UNION {{Over(Minus(value(i), value(j)), value(i)) : j \in i..Len(Stretch)}
                           : i \in {x \in 0..Len(Stretch) : Below(Zero, value(x))}})

\* A value on the page rests on closes that are recent: since the last bar or
\* purchase of a symbol it was held on no more than CarryLimit valuation dates.
ClosesAreRecent ==
  IsLoaded =>
    \A i \in DOMAIN report.end.days :
      LET day == report.end.days[i]
          h == report.history
          heldAt(symbol, d) ==
            QuantityOf(Events, {n \in DOMAIN Events : ValuationDate(h, Events[n]) \in 1..d}, symbol) > 0
          marked(symbol, d) ==
            h.bars[symbol][d] > 0 \/ BoughtFor(h, EventsOn(h, d), symbol) > 0
      IN  day.total # None =>
            \A symbol \in {x \in DOMAIN day.parts : heldAt(x, day.date)} :
              \E d \in ValuationDates(h) :
                /\ d <= day.date /\ marked(symbol, d)
                /\ Cardinality({x \in ValuationDates(h) :
                     d < x /\ x <= day.date /\ heldAt(symbol, x)}) <= CarryLimit

\* The two replays of the ledger agree: on its last date the engine has the cash,
\* the positions and the total of the overview at the same prices.
ReplaysAgree ==
  (/\ IsLoaded /\ Covered(Events)
   /\ \A i \in DOMAIN ledger : ValuationDate(report.history, ledger[i]) # 0) =>
    LET end == report.end
        view == Overview([symbol \in Symbols |-> IF symbol \in DOMAIN end.marks
                                                  THEN end.marks[symbol].last ELSE 0])
    IN  /\ view.cash = end.cash
        /\ view.held = {symbol \in DOMAIN end.positions : end.positions[symbol].quantity > 0}
        /\ end.total # None => end.total = view.totalValue

\* The two views of one ledger add up: within the performance page contributions to
\* returns, and between it and the overview cash, positions and totals.
MoneyAddsUp == AttributionReconciles /\ ReplaysAgree

\* What a range reports of its days: growth without flows, the worst fall, and values
\* that rest on recent closes (calculatePortfolioPerformance).
DaysAreMeasuredRight == ReturnIsGrowth /\ DrawdownIsWorstFall /\ ClosesAreRecent
=============================================================================
