------------------------------ MODULE MarketData ------------------------------
(* What the providers make of the answers of Alpaca, FRED, SEC and Finnhub, and     *)
(* what the market routes accept (marketRoutes.ts, providers/). Symbols are given   *)
(* trimmed and in capitals, times and dates are numbers, a field an answer leaves   *)
(* out is None; fields that are only renamed are left out.                          *)
EXTENDS Rational, SequencesExt, FiniteSetsExt

CONSTANTS
  CheckedSymbols,   \* bound: the symbols the assumptions below try
  CheckedTimes      \* bound: the times and dates they try

Fails(code) == [error |-> code, data |-> None]
Answer(asOf, data) == [error |-> "", asOf |-> asOf, data |-> data]

Distinct(s) == FoldLeft(LAMBDA seen, x : IF Contains(seen, x) THEN seen ELSE Append(seen, x), <<>>, s)

\* The newest of some times, or what stands for it when there are none.
Newest(times, otherwise) == IF times = {} THEN otherwise ELSE Max(times)

-----------------------------------------------------------------------------
(* The routes.                                                                *)
MaxSymbols == 100

\* An item of the query is a symbol, blank, or not well formed.
symbolsFrom(items) ==
  LET symbols == Distinct(SelectSeq(items, LAMBDA item : item # "blank"))
  IN  CASE symbols = <<>>                -> Fails("INVALID_SYMBOLS")
        [] Len(symbols) > MaxSymbols     -> Fails("TOO_MANY_SYMBOLS")
        [] Contains(symbols, "malformed") -> Fails("INVALID_SYMBOL")
        [] OTHER                         -> Answer(0, symbols)

Adjustments == {"raw", "split", "dividend", "all"}

\* GET /api/market/bars: None is a date that is missing or not a date.
BatchBarsQuery(items, timeframe, start, end, adjustment) ==
  IF symbolsFrom(items).error # "" THEN symbolsFrom(items)
  ELSE IF \/ timeframe # "1Day" \/ start = None \/ end = None
          \/ adjustment \notin Adjustments
       THEN Fails("INVALID_BATCH_BARS_QUERY")
  ELSE IF start[1] > end[1] THEN Fails("INVALID_BATCH_BARS_QUERY")
  ELSE Answer(0, [symbols |-> symbolsFrom(items).data, start |-> start[1], end |-> end[1],
                  adjustment |-> adjustment])

\* Requests with the same symbols in another order share one entry of the cache.
BatchBarsKey(query) == [query EXCEPT !.symbols = ToSet(@)]

-----------------------------------------------------------------------------
(* Alpaca.                                                                    *)
\* A snapshot: the latest trade [p, t] and the close of the day before, each optional.
QuoteOf(symbol, payload) ==
  LET item == IF symbol \in DOMAIN payload THEN payload[symbol] ELSE [trade |-> None, previous |-> None]
      price == IF item.trade = None THEN None ELSE item.trade.p
      both == price # None /\ item.previous # None
  IN  [symbol |-> symbol, price |-> price, previousClose |-> item.previous,
       change |-> IF both THEN Minus(price, item.previous) ELSE None,
       changePercent |-> IF both /\ item.previous # Zero
                         THEN Times(Minus(Over(price, item.previous), One), Whole(100)) ELSE None]

getQuotes(symbols, payload) ==
  Answer(Newest({payload[s].trade.t : s \in {x \in DOMAIN payload : payload[x].trade # None}}, 0),
         [i \in DOMAIN symbols |-> QuoteOf(symbols[i], payload)])

\* The pages come one after the other, each with some bars of some symbols; only then
\* are they sorted, and the symbols without a bar named.
Paged(symbols, pages) ==
  FoldLeft(LAMBDA data, page :
             [s \in DOMAIN data \union DOMAIN page |->
                (IF s \in DOMAIN data THEN data[s] ELSE <<>>)
                \o (IF s \in DOMAIN page THEN page[s] ELSE <<>>)],
           [s \in ToSet(symbols) |-> <<>>], pages)

ByStart(a, b) == a.t < b.t

getBatchBars(symbols, pages, end) ==
  LET data == Paged(symbols, pages)
  IN  Answer(Newest(UNION {{bar.t : bar \in ToSet(data[s])} : s \in DOMAIN data}, end),
             [symbols |-> [s \in DOMAIN data |-> SortSeq(data[s], ByStart)],
              missing |-> SelectSeq(Distinct(symbols), LAMBDA s : data[s] = <<>>)])

\* The words found in an action's type decide, dividends first; the rates are None where
\* they are missing or no numbers.
ActionType(words) == IF "dividend" \in words THEN "dividend" ELSE IF "split" \in words THEN "split"
                     ELSE "corporate-action"

getCorporateActions(items) ==
  LET rated(i) == /\ items[i].old # None /\ items[i].new # None
                  /\ Below(Zero, items[i].old) /\ Below(Zero, items[i].new)
      type(i) == ActionType(items[i].words)
  IN  [i \in DOMAIN items |->
         [type |-> type(i), symbol |-> items[i].symbol, scheduledAt |-> items[i].date,
          multiplier |-> IF type(i) = "split" /\ rated(i)
                         THEN Over(items[i].new, items[i].old) ELSE None]]

-----------------------------------------------------------------------------
(* FRED, Finnhub and SEC.                                                     *)
\* The last observation that has a value ("." marks one without).
getSeries(observations) ==
  LET valued == SelectSeq(observations, LAMBDA o : o.value # ".")
  IN  IF valued = <<>> THEN Fails("timeout") ELSE Answer(0, Last(valued))

approvedReleaseIds == {10, 18, 50, 53, 54}

EventId(release) == <<release.id, release.date>>

\* new Map keeps the place of the first release with an id and the contents of the last.
getReleaseEvents(releases, from, to) ==
  LET chosen == SelectSeq(releases, LAMBDA r : /\ r.id \in approvedReleaseIds
                                               /\ from <= r.date /\ r.date <= to)
      ids == Distinct([i \in DOMAIN chosen |-> EventId(chosen[i])])
  IN  [i \in DOMAIN ids |-> Last(SelectSeq(chosen, LAMBDA r : EventId(r) = ids[i]))]

Timing(hour) == CASE hour = "amc" -> "after-market" [] hour = "bmo" -> "before-market"
                  [] OTHER -> "all-day"

getEarnings(items) ==
  [i \in DOMAIN items |-> [symbol |-> items[i].symbol, scheduledAt |-> items[i].date,
                           timing |-> Timing(items[i].hour)]]

\* The first entry of the list of tickers, which an unknown symbol does not have.
resolveCik(tickers, symbol) ==
  LET found == SelectSeq(tickers, LAMBDA x : x.ticker = symbol)
  IN  IF found = <<>> THEN Fails("timeout") ELSE Answer(0, found[1].cik)

ReportForms == {"10-K", "10-K/A", "10-Q", "10-Q/A"}
FilingForms == ReportForms \union {"8-K", "8-K/A"}

\* Array.prototype.sort is stable: later first, and in the order of the answer otherwise.
LatestFirst(s, At(_)) ==
  LET order == SortSeq([i \in DOMAIN s |-> i],
                       LAMBDA i, j : At(s[i]) > At(s[j]) \/ (At(s[i]) = At(s[j]) /\ i < j))
  IN  [k \in DOMAIN s |-> s[order[k]]]

Filed(x) == x.filedAt
Period(x) == x.periodEnd

getFilings(recent) ==
  LET filings == LatestFirst(SelectSeq(recent, LAMBDA x : x.form \in FilingForms), Filed)
  IN  Answer(IF filings = <<>> THEN 0 ELSE filings[1].filedAt, filings)

getFinancialFacts(facts) ==
  LET kept == LatestFirst(SelectSeq(facts, LAMBDA x : x.mapped /\ x.form \in ReportForms), Period)
  IN  Answer(IF kept = <<>> THEN 0 ELSE kept[1].filedAt, kept)

-----------------------------------------------------------------------------
(* What TLC evaluates over the bounds.                                        *)
Items == CheckedSymbols \union {"blank", "malformed"}
Few(S) == SeqOf(S, 2)

\* An accepted list names every symbol once and nothing else, and a request in another
\* order finds the same entry of the cache (symbolsFrom, the keys of the routes).
ASSUME AcceptedSymbolsAreDistinct ==
  \A items \in SeqOf(Items, 3) :
    LET s == symbolsFrom(items) IN
    s.error = "" =>
      /\ IsInjective(s.data) /\ ToSet(s.data) = ToSet(items) \ {"blank"}
      /\ s.data # <<>> /\ ToSet(s.data) \subseteq CheckedSymbols
      /\ BatchBarsQuery(items, "1Day", <<1>>, <<1>>, "all").error = ""
      /\ \A other \in SeqOf(Items, 3) :
           (symbolsFrom(other).error = "" /\ ToSet(other) \ {"blank"} = ToSet(items) \ {"blank"}) =>
             BatchBarsKey(BatchBarsQuery(items, "1Day", <<1>>, <<1>>, "all").data)
               = BatchBarsKey(BatchBarsQuery(other, "1Day", <<1>>, <<1>>, "all").data)

Prices == {Whole(0), Whole(2), Whole(3)}
OptionalTrades == {None} \union [p : Prices, t : CheckedTimes]
Snapshots == UNION {[S -> [trade : OptionalTrades, previous : {None} \union Prices]] :
                    S \in SUBSET CheckedSymbols}

\* A quote is answered for every symbol asked, a change only where both prices are known,
\* and no trade of the answer is newer than its asOf (getQuotes).
ASSUME QuotesAreOfTheSymbolsAsked ==
  \A payload \in Snapshots : \A symbols \in {<<s>> : s \in CheckedSymbols} :
    LET answer == getQuotes(symbols, payload) IN
    /\ \A i \in DOMAIN symbols :
         /\ answer.data[i].symbol = symbols[i]
         /\ (answer.data[i].change # None) <=> (answer.data[i].price # None /\ answer.data[i].previousClose # None)
         /\ answer.data[i].change # None =>
              Plus(answer.data[i].previousClose, answer.data[i].change) = answer.data[i].price
    /\ \A s \in DOMAIN payload : payload[s].trade # None => payload[s].trade.t <= answer.asOf

Bars == {[symbol |-> s, t |-> t] : s \in CheckedSymbols \union {"other"}, t \in CheckedTimes}
Page(bars) == [s \in {bar.symbol : bar \in bars} |->
                 SetToSortSeq({bar \in bars : bar.symbol = s}, ByStart)]

\* However the bars are spread over two pages, the answer has them all in the order of
\* time, and names exactly the symbols without one (getBatchBars).
ASSUME PagesDoNotMatter ==
  \A bars \in SUBSET Bars, first \in SUBSET Bars :
    first \subseteq bars =>
      LET answer == getBatchBars(SetToSeq(CheckedSymbols), <<Page(bars \ first), Page(first)>>, 0) IN
      /\ \A s \in DOMAIN answer.data.symbols :
           answer.data.symbols[s] = SetToSortSeq({bar \in bars : bar.symbol = s}, ByStart)
      /\ ToSet(answer.data.missing) = {s \in CheckedSymbols : \A bar \in bars : bar.symbol # s}
      /\ bars # {} => answer.asOf = Max({bar.t : bar \in bars})

Rates == {None, Whole(-1), Whole(0), Whole(1), Whole(4)}

\* A split is offered with a multiplier only when both rates are positive, and a dividend
\* paid in stock is no split (getCorporateActions).
ASSUME MultipliersArePositive ==
  \A words \in SUBSET {"dividend", "split"} : \A old, new \in Rates :
    LET action == getCorporateActions(<<[words |-> words, old |-> old, new |-> new,
                                         symbol |-> "A", date |-> 1]>>)[1] IN
    /\ action.multiplier # None => Below(Zero, action.multiplier) /\ words = {"split"}
    /\ (words = {"split"} /\ old = Whole(1) /\ new = Whole(4)) => action.multiplier = Whole(4)

Releases == [id : {10, 11}, date : CheckedTimes, name : {"n", "m"}]

\* Every approved release of the range is there once, under the name it had last
\* (getReleaseEvents).
ASSUME ReleasesAreThereOnce ==
  \A releases \in SeqOf(Releases, 3) :
    LET events == getReleaseEvents(releases, 1, 1) IN
    /\ {EventId(events[i]) : i \in DOMAIN events}
         = {EventId(r) : r \in {x \in ToSet(releases) : x.id = 10 /\ x.date = 1}}
    /\ \A i, j \in DOMAIN events : EventId(events[i]) = EventId(events[j]) => i = j
    /\ \A i \in DOMAIN events :
         \E k \in DOMAIN releases : releases[k] = events[i]
           /\ \A l \in k + 1 .. Len(releases) : EventId(releases[l]) # EventId(events[i])

\* A series is answered with its newest value, whatever gaps follow it (getSeries).
ASSUME GapsAreSkipped ==
  \A s \in SeqOf([date : CheckedTimes, value : {".", "7"}], 3) :
    LET answer == getSeries(s) IN
    IF \A i \in DOMAIN s : s[i].value = "." THEN answer.error # ""
    ELSE \E i \in DOMAIN s : /\ s[i] = answer.data /\ s[i].value # "."
                             /\ \A j \in i + 1 .. Len(s) : s[j].value = "."

\* The filings are dated by the newest of them, and no form is kept that the program does
\* not know (getFilings).
ASSUME FilingsAreDatedByTheNewest ==
  \A recent \in SeqOf([form : {"10-K", "8-K", "S-1"}, filedAt : CheckedTimes], 3) :
    LET answer == getFilings(recent) IN
    /\ \A i \in DOMAIN answer.data : answer.data[i].form # "S-1" /\ answer.data[i].filedAt <= answer.asOf
    /\ Len(answer.data) = Cardinality({i \in DOMAIN recent : recent[i].form # "S-1"})

Facts == [mapped : {TRUE}, form : {"10-K"}, filedAt : CheckedTimes, periodEnd : CheckedTimes]

\* The facts are dated by the report of the latest period, which a later correction of an
\* older period does not change (getFinancialFacts).
ASSUME FactsAreDatedByTheLatestPeriod ==
  /\ \A facts \in Few(Facts) : facts # <<>> =>
       getFinancialFacts(facts).data[1].periodEnd = Max({x.periodEnd : x \in ToSet(facts)})
  /\ \E facts \in Few(Facts) : \E x \in ToSet(facts) : x.filedAt > getFinancialFacts(facts).asOf
=============================================================================
