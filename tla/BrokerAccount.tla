---------------------------- MODULE BrokerAccount ----------------------------
(* The local books of the broker's account: full reconciliation passes          *)
(* (broker/reconciliationService.ts) that may overlap, the ledger that they      *)
(* fill, the drift that they record, and the previews and confirmations of       *)
(* orders that the drift holds back (routes/paperTradingRoutes.ts).              *)
EXTENDS BrokerLedger, FiniteSets

CONSTANTS
  Symbols,
  Scenarios,     \* what has happened at the broker, what will, and the bounds
  PageSize,      \* activities in one answer of the broker
  Drafts,        \* orders that are previewed
  Assets, Quotes,
  Requests,      \* confirmations at once, each with an idempotency key of its own
  Passes,        \* full passes at once
  Timed,         \* those of the worker's timer; a command in its queue asks for the others
  First          \* the pass that runs before the worker is ready

\* Everything that happens at the broker in some scenario.
Happenings == UNION {Range(sc.past) \union Range(sc.events) : sc \in Scenarios}

ASSUME BrokerAssumption ==
  /\ First \in Timed /\ Timed \subseteq Passes /\ IsFiniteSet(Requests)
  /\ PageSize \in Nat \ {0}
  /\ Scenarios \subseteq [past : Seq(Happenings), events : Seq(Happenings), faults : Nat, orders : Nat]

\* A decimal that is a number of units of the scale, however many places it is written with.
IsDecimal(value, scale) ==
  /\ value.units \in Int /\ value.places \in Nat /\ 10 ^ value.places > 0
  /\ (value.units * 10 ^ scale) % 10 ^ value.places = 0

\* An activity has what it changes the account by: a fill its side, a fill and a split their
\* symbol and quantity, and whatever names no amount is a fill with a price or a split.
ASSUME ActivityAssumption ==
  \A a \in Happenings :
    /\ a.time \in Nat
    /\ a.symbol \in {None} \union {<<s>> : s \in Symbols}
    /\ a.quantity # None => IsDecimal(a.quantity[1], QUANTITY_DECIMAL_SCALE)
    /\ \A value \in {a.price, a.amount} : value # None => IsDecimal(value[1], MONEY_DECIMAL_SCALE)
    /\ a.type \in {"FILL", "SPLIT"} => a.symbol # None /\ a.quantity # None
    /\ a.type = "FILL" => a.side \in {<<"buy">>, <<"sell">>} /\ a.price # None

\* Of two of these the order matters: a split and another change of the same position.
Meet(a, b) ==
  /\ a.symbol = b.symbol
  /\ a.type \in {"FILL", "SPLIT"} /\ b.type \in {"FILL", "SPLIT"} /\ "SPLIT" \in {a.type, b.type}

\* Where the order matters, the times tell it. Of anything else the broker may date what it
\* books as it likes (alpacaTradingProvider.ts:224 takes the date where there is no time).
DatedInOrder(log) ==
  \A i, j \in DOMAIN log : i < j /\ Meet(log[i], log[j]) => log[i].time < log[j].time

ASSUME DateAssumption == \A sc \in Scenarios : DatedInOrder(sc.past \o sc.events)

\* Quantities and prices are integers of the ledger's scales.
ASSUME DraftAssumption ==
  /\ \A d \in Drafts : d.symbol \in Symbols /\ d.quantity \in Int
                       /\ (d.limitPrice # None => d.limitPrice[1] \in Int)
  /\ \A quote \in Quotes : quote.price \in Int

VARIABLES
  scenario,      \* what is still to happen at the broker, the faults and the orders left
  activities,    \* the broker's log of the account, in the order it was booked
  account,       \* cash and positions before the first and after each activity
  life,          \* the worker: "starting", "running", "closing", "stopping", "closed"
  passes,
  activity,      \* broker.activity
  ledger,        \* broker.ledger_event, in the order it was written
  drift,         \* the passes whose broker.drift row is not cleared
  tokens,        \* preview tokens, with what the preview saw
  api,           \* the token of each confirmation that has passed the gate
  orders,        \* broker.order_intent, with the token each was confirmed with
  underDrift,    \* history: orders written since drift was last absent
  caught         \* history: requests past the gate when the drift that stands appeared

broker == <<scenario, activities, account>>
worker == <<life, passes, activity, ledger, drift>>
confirming == <<tokens, api, orders, underDrift, caught>>
vars == <<broker, worker, confirming>>

IdlePass == [stage |-> "idle", quiet |-> TRUE, account |-> None, positions |-> None, listed |-> {},
             paged |-> FALSE, done |-> {}, differs |-> FALSE, swept |-> {}]

TypeOK ==
  /\ life \in {"starting", "running", "closing", "stopping", "closed"}
  /\ \A p \in Passes : passes[p].stage \in {"idle", "ask", "ingest", "post", "decide", "insert"}
  /\ activity \subseteq DOMAIN activities
  /\ Range(ledger) \subseteq activity
  /\ drift \subseteq Passes
  /\ scenario.faults \in Nat /\ scenario.orders \in Nat
  /\ underDrift \in 0..Len(orders) /\ caught \subseteq Requests

-----------------------------------------------------------------------------
(* The broker *)

\* A decimal in units of a scale, in full.
UnitsOf(value, scale) == (value.units * 10 ^ scale) \div 10 ^ value.places

Magnitude(n) == IF n < 0 THEN -n ELSE n

\* No neighbour of r is nearer to n / d, nor as near and further from zero.
IsNearest(r, n, d) ==
  \A x \in {r - 1, r + 1} :
    \/ Magnitude(r * d - n) < Magnitude(x * d - n)
    \/ Magnitude(r * d - n) = Magnitude(x * d - n) /\ Magnitude(r) > Magnitude(x)

Nearest(n, d) == CHOOSE r \in {n \div d, n \div d + 1} : IsNearest(r, n, d)

\* What an activity does to the account, by the broker's own bookkeeping: in the units of
\* the ledger, to the nearest of which the worth of a fill and a split are taken.
BrokerPosts(books, a) ==
  LET q == UnitsOf(a.quantity[1], QUANTITY_DECIMAL_SCALE)
      worth == Nearest(q * UnitsOf(a.price[1], MONEY_DECIMAL_SCALE), 10 ^ QUANTITY_DECIMAL_SCALE)
      held == books.positions[a.symbol[1]]
      buys == a.type = "FILL" /\ a.side = <<"buy">>
      sells == a.type = "FILL" /\ a.side = <<"sell">>
      cash == CASE a.amount # None -> UnitsOf(a.amount[1], MONEY_DECIMAL_SCALE)
                [] a.amount = None /\ buys -> -worth
                [] a.amount = None /\ sells -> worth
                [] OTHER -> 0
  IN  [cash |-> books.cash + cash,
       positions |->
         CASE buys -> [books.positions EXCEPT ![a.symbol[1]] = held + q]
           [] sells -> [books.positions EXCEPT ![a.symbol[1]] = held - q]
           [] a.type = "SPLIT" ->
                [books.positions EXCEPT ![a.symbol[1]] = Nearest(held * q, 10 ^ QUANTITY_DECIMAL_SCALE)]
           [] OTHER -> books.positions]

EmptyAccount == [cash |-> 0, positions |-> [s \in Symbols |-> 0]]

\* Cash and positions before the first and after each of some activities.
AccountLog(log) ==
  LET books[n \in 0..Len(log)] == IF n = 0 THEN EmptyAccount ELSE BrokerPosts(books[n - 1], log[n])
  IN  [n \in 1..(Len(log) + 1) |-> books[n - 1]]

Init ==
  /\ scenario \in Scenarios /\ activities = scenario.past
  /\ account = AccountLog(activities)
  /\ life = "starting" /\ passes = [p \in Passes |-> IdlePass]
  /\ activity = {} /\ ledger = <<>> /\ drift = {}
  /\ tokens = <<>> /\ api = [k \in Requests |-> None] /\ orders = <<>> /\ underDrift = 0 /\ caught = {}

Now == Len(activities)

Happen ==
  /\ scenario.events # <<>>
  /\ activities' = Append(activities, Head(scenario.events))
  /\ account' = Append(account, BrokerPosts(Last(account), Head(scenario.events)))
  /\ scenario' = [scenario EXCEPT !.events = Tail(@)]
  /\ passes' = [p \in Passes |-> [passes[p] EXCEPT !.quiet = passes[p].stage = "idle"]]
  /\ UNCHANGED <<life, activity, ledger, drift, confirming>>

-----------------------------------------------------------------------------
(* A full pass *)

\* One of the faults that the scenario allows.
Fault == scenario.faults > 0 /\ scenario' = [scenario EXCEPT !.faults = @ - 1]

Goes(p, stage) == passes' = [passes EXCEPT ![p].stage = stage]

\* The first pass is run before the worker is ready. Closing stops the timer's at once, and
\* the queue's only when BullMQ's worker is closed, after the lifecycle.
MayBegin(p) ==
  \/ life = "starting" /\ p = First
  \/ life = "running"
  \/ life = "closing" /\ p \notin Timed

Begin(p) ==
  /\ passes[p].stage = "idle" /\ MayBegin(p)
  /\ passes' = [passes EXCEPT ![p] = [IdlePass EXCEPT !.stage = "ask"]]
  /\ UNCHANGED <<broker, life, activity, ledger, drift, confirming>>

\* The account, the positions and the activities are asked for side by side.
Answer(p, what) ==
  /\ passes[p].stage = "ask" /\ passes[p][what] = None
  /\ passes' = [passes EXCEPT ![p][what] = <<Now>>]
  /\ UNCHANGED <<broker, life, activity, ledger, drift, confirming>>

\* The broker lists activities by their time, and those of one time as it booked them.
Earlier(i, j) ==
  \/ activities[i].time < activities[j].time
  \/ activities[i].time = activities[j].time /\ i < j

\* What the broker has after all of these, which is where the next page begins.
After(sources) == {i \in 1..Now : \A j \in sources : Earlier(j, i)}

PageOf(rest) == {i \in rest : Cardinality({j \in rest : Earlier(j, i)}) < PageSize}

\* A page that is not full ends the list: what is booked meanwhile with an earlier time is
\* not on it.
ListPage(p) ==
  /\ passes[p].stage = "ask" /\ ~passes[p].paged
  /\ passes' = [passes EXCEPT ![p].listed = @ \union PageOf(After(@)),
                              ![p].paged = Cardinality(After(passes[p].listed)) < PageSize]
  /\ UNCHANGED <<broker, life, activity, ledger, drift, confirming>>

\* All have answered: the snapshot is saved and the orders are observed.
Observe(p) ==
  /\ passes[p].stage = "ask"
  /\ passes[p].account # None /\ passes[p].positions # None /\ passes[p].paged
  /\ Goes(p, "ingest")
  /\ UNCHANGED <<broker, life, activity, ledger, drift, confirming>>

\* How a pass ends; the first one that succeeds makes the worker ready.
Ended(p, ok) ==
  /\ passes' = [passes EXCEPT ![p] = IdlePass]
  /\ life' = IF life = "starting" /\ ok THEN "running" ELSE life

\* A request, an order's event or a statement that throws ends the pass.
Fail(p) ==
  /\ passes[p].stage \in {"ask", "ingest", "decide"} /\ Fault
  /\ Ended(p, FALSE)
  /\ UNCHANGED <<activities, account, activity, ledger, drift, confirming>>

\* What a pass has listed and not ingested, in the order of the list.
Upcoming(p) ==
  CHOOSE i \in passes[p].listed \ passes[p].done :
    \A j \in passes[p].listed \ passes[p].done : j = i \/ Earlier(i, j)

HasMore(p) == passes[p].stage = "ingest" /\ passes[p].listed # passes[p].done

Storing(source) == activity \union {source}

StoreActivity(p) ==
  /\ HasMore(p) /\ IsMappable(activities[Upcoming(p)])
  /\ activity' = Storing(Upcoming(p))
  /\ Goes(p, "post")
  /\ UNCHANGED <<broker, life, ledger, drift, confirming>>

\* An activity that cannot be mapped ends this pass, and every later one.
Choke(p) ==
  /\ HasMore(p) /\ ~IsMappable(activities[Upcoming(p)])
  /\ Ended(p, FALSE)
  /\ UNCHANGED <<broker, activity, ledger, drift, confirming>>

\* The mistake of an insert without the conflict clause.
PostingAlways(source) == Append(ledger, source)

\* Written unless an event of the same source is there already.
Posting(source) == IF source \in Range(ledger) THEN ledger ELSE Append(ledger, source)

Post(p) ==
  /\ passes[p].stage = "post"
  /\ ledger' = Posting(Upcoming(p))
  /\ passes' = [passes EXCEPT ![p].stage = "ingest", ![p].done = @ \union {Upcoming(p)}]
  /\ UNCHANGED <<broker, life, activity, drift, confirming>>

\* The mistake of reading the ledger as it was written.
AsWritten(sources) == {sources}

\* The ledger by the times in it; of one time by random ids, which is in any order.
ByTime(sources) ==
  {order \in [DOMAIN sources -> Range(sources)] :
     \A i, j \in DOMAIN sources :
       i < j => order[i] # order[j] /\ activities[order[i]].time <= activities[order[j]].time}

Replayed(order) ==
  replayBrokerPortfolio([i \in DOMAIN order |-> mapBrokerActivity(activities[order[i]])], Symbols)

Differs(p, local) ==
  \/ account[passes[p].account[1] + 1].cash # local.cash
  \/ account[passes[p].positions[1] + 1].positions # local.positions

\* The ledger is read and compared, and the run is recorded.
Replay(p) ==
  /\ passes[p].stage = "ingest" /\ ~HasMore(p)
  /\ \E order \in ByTime(ledger) :
       passes' = [passes EXCEPT ![p] = [IdlePass EXCEPT !.stage = "decide", !.quiet = passes[p].quiet,
                                                        !.differs = Differs(p, Replayed(order))]]
  /\ UNCHANGED <<broker, life, activity, ledger, drift, confirming>>

\* Rows that another transaction is about to clear are locked by it.
Locked(p) == UNION {passes[q].swept : q \in {r \in Passes \ {p} : passes[r].stage = "insert"}}

\* The mistake of clearing only the row of the pass's own making.
ClearedByOwner(p) == drift \ {p}

\* Whoever clears drift clears all of it, whichever pass recorded it.
ClearedBy(p) == {}

Clear(p) ==
  /\ passes[p].stage = "decide" /\ ~passes[p].differs
  /\ drift' = ClearedBy(p)
  /\ underDrift' = IF drift' = {} THEN 0 ELSE underDrift
  /\ caught' = IF drift' = {} THEN {} ELSE caught
  /\ Ended(p, TRUE)
  /\ UNCHANGED <<broker, activity, ledger, tokens, api, orders>>

\* Confirmations that have read the gate and not yet written their order.
InFlight == {k \in Requests : api[k] # None}

\* replaceDrift, first statement: not yet committed.
Sweep(p) ==
  /\ passes[p].stage = "decide" /\ passes[p].differs
  /\ passes' = [passes EXCEPT ![p].stage = "insert", ![p].swept = drift \ Locked(p)]
  /\ UNCHANGED <<broker, life, activity, ledger, drift, confirming>>

\* replaceDrift commits: what it swept is cleared and its own row is active.
Insert(p) ==
  /\ passes[p].stage = "insert" /\ p \notin Locked(p)
  /\ drift' = (drift \ passes[p].swept) \union {p}
  /\ caught' = IF drift = {} THEN InFlight ELSE caught
  /\ Ended(p, TRUE)
  /\ UNCHANGED <<broker, activity, ledger, tokens, api, orders, underDrift>>

-----------------------------------------------------------------------------
(* The worker's life *)

\* The process dies; it also ends when its first pass fails.
Crash ==
  /\ Fault
  /\ passes' = [p \in Passes |-> IdlePass] /\ life' = "starting"
  /\ UNCHANGED <<activities, account, activity, ledger, drift, confirming>>

Close ==
  /\ life = "running" /\ Fault
  /\ life' = "closing"
  /\ UNCHANGED <<activities, account, passes, activity, ledger, drift, confirming>>

\* The lifecycle's close resolves when the passes of its timer have ended.
Closed ==
  /\ life = "closing" /\ \A p \in Timed : passes[p].stage = "idle"
  /\ life' = "stopping"
  /\ UNCHANGED <<broker, passes, activity, ledger, drift, confirming>>

\* BullMQ's worker takes no more jobs, and waits for the one that is processed. If closing
\* it throws, the process ends all the same: that is a crash.
WorkerClosed ==
  /\ life = "stopping" /\ \A p \in Passes : passes[p].stage = "idle"
  /\ life' = "closed"
  /\ UNCHANGED <<broker, passes, activity, ledger, drift, confirming>>

Restart ==
  /\ life = "closed"
  /\ life' = "starting"
  /\ UNCHANGED <<broker, passes, activity, ledger, drift, confirming>>

-----------------------------------------------------------------------------
(* What a preview refuses, in the order in which the code looks                 *)
(* (broker/orderPreviewService.ts).                                             *)

QuantityFactor == 10 ^ QUANTITY_DECIMAL_SCALE
IsFractional(quantity) == quantity % QuantityFactor # 0

\* The price at which the order is weighed: its limit, or the quote.
ExecutionReference(draft, quote) == IF draft.limitPrice = None THEN quote.price ELSE draft.limitPrice[1]

\* The mistake of comparing the wrong way round.
OversellsReversed(draft, position) == draft.side = "sell" /\ position > draft.quantity

Oversells(draft, position) == draft.side = "sell" /\ draft.quantity > position

\* The notional is what was rounded to money.
Overspends(draft, quote, funds) ==
  draft.side = "buy" /\ Notional(draft.quantity, ExecutionReference(draft, quote)) > funds.buyingPower

\* The codes of the refusals, first match first; "" when there is none.
PreviewError(draft, asset, quote, funds, position) ==
  IF draft.quantity <= 0 THEN "INVALID_ORDER_QUANTITY"
  ELSE IF ~asset.tradable THEN "ASSET_NOT_TRADABLE"
  ELSE IF IsFractional(draft.quantity)
          /\ ~(asset.fractionable /\ draft.type = "market" /\ draft.timeInForce = "day")
  THEN "FRACTIONAL_ORDER_UNSUPPORTED"
  ELSE IF ~quote.fresh THEN "FRESH_QUOTE_REQUIRED"
  ELSE IF quote.price <= 0 THEN "INVALID_QUOTE_PRICE"
  ELSE IF draft.type = "limit" /\ (draft.limitPrice = None \/ draft.limitPrice[1] <= 0)
  THEN "LIMIT_PRICE_REQUIRED"
  ELSE IF draft.type = "market" /\ draft.limitPrice # None THEN "MARKET_ORDER_LIMIT_PRICE_FORBIDDEN"
  ELSE IF Oversells(draft, position) THEN "INSUFFICIENT_PAPER_POSITION"
  ELSE IF Overspends(draft, quote, funds) THEN "INSUFFICIENT_BUYING_POWER"
  ELSE ""

-----------------------------------------------------------------------------
(* Previews and confirmations *)

\* The mistake of a gate that is left open.
GateOpen == TRUE

Gate == drift = {}

\* A preview asks the broker itself, not the snapshot, and is kept in a signed token.
IssuePreview(d, asset, quote) ==
  /\ tokens = <<>> /\ scenario.orders > 0 /\ Gate
  /\ LET funds == [buyingPower |-> Last(account).cash]
         position == Last(account).positions[d.symbol]
     IN  /\ PreviewError(d, asset, quote, funds, position) = ""
         /\ tokens' = <<[draft |-> d, asset |-> asset, price |-> ExecutionReference(d, quote),
                         account |-> funds, position |-> position, fresh |-> TRUE]>>
  /\ UNCHANGED <<broker, worker, api, orders, underDrift, caught>>

\* Sixty seconds pass: no confirmation can be verified with the token any more.
Expire ==
  /\ tokens # <<>> /\ tokens[1].fresh
  /\ tokens' = [tokens EXCEPT ![1].fresh = FALSE]
  /\ UNCHANGED <<broker, worker, api, orders, underDrift, caught>>

\* A confirmation reads the gate and verifies the token, and holds no lock on the drift
\* until it writes. Under another key the same token may be confirmed again, also at once.
PassGate(k) ==
  /\ api[k] = None /\ tokens # <<>> /\ Len(orders) + Cardinality(InFlight) < scenario.orders
  /\ Gate /\ tokens[1].fresh
  /\ api' = [api EXCEPT ![k] = <<tokens[1]>>]
  /\ UNCHANGED <<broker, worker, tokens, orders, underDrift, caught>>

Confirm(k) ==
  /\ api[k] # None
  /\ orders' = Append(orders, api[k][1]) /\ api' = [api EXCEPT ![k] = None]
  /\ underDrift' = IF drift = {} THEN 0 ELSE underDrift + 1
  /\ UNCHANGED <<broker, worker, tokens, caught>>

\* The transaction is refused, or the process that serves the request dies.
Abandon(k) ==
  /\ api[k] # None
  /\ api' = [api EXCEPT ![k] = None]
  /\ UNCHANGED <<broker, worker, tokens, orders, underDrift, caught>>

-----------------------------------------------------------------------------
PassStep(p) ==
  \/ Begin(p) \/ \E what \in {"account", "positions"} : Answer(p, what)
  \/ ListPage(p) \/ Observe(p) \/ StoreActivity(p) \/ Post(p) \/ Choke(p)
  \/ Replay(p) \/ Clear(p) \/ Sweep(p) \/ Insert(p)

Next ==
  \/ Happen
  \/ \E p \in Passes : PassStep(p) \/ Fail(p)
  \/ Crash \/ Close \/ Closed \/ WorkerClosed \/ Restart
  \/ \E d \in Drafts, asset \in Assets, quote \in Quotes : IssuePreview(d, asset, quote)
  \/ Expire
  \/ \E k \in Requests : PassGate(k) \/ Confirm(k) \/ Abandon(k)

\* Timers keep firing, so that some pass goes on; a stopped worker is started again
\* and the broker's day runs on. Nothing promises a client's confirmation.
Fairness ==
  /\ WF_vars(Happen \/ Closed \/ WorkerClosed \/ Restart)
  /\ WF_vars(\E p \in Passes : PassStep(p))

Spec == Init /\ [][Next]_vars /\ Fairness

-----------------------------------------------------------------------------
(* Safety *)

\* However many passes ingest the same listing at once, and wherever the worker
\* dies between the two inserts, an activity is posted to the ledger once
\* (brokerReconciliationRepository.ts, ingestActivities).
PostedOnce == IsInjective(ledger)

\* A pass during which nothing happened at the broker finds no difference, whatever was
\* bought, sold and split in fractions, with whatever dates it was booked late, and in
\* whatever order passes that overlapped or missed it on their pages wrote the ledger
\* (reconcileAll): drift is never a product of the ledger's own arithmetic or order.
QuietPassFindsNoDifference ==
  \A p \in Passes :
    passes[p].stage \in {"decide", "insert"} /\ passes[p].quiet => ~passes[p].differs

\* While drift stands, only confirmations that had read the gate before it appeared write
\* their orders, each at most one, however passes that overlap replace and clear it: the
\* gap between reading and writing (paperTradingRoutes.ts:86-101) lets as many through as
\* were in it, and none that came later.
DriftStopsNewOrders ==
  drift # {} => /\ InFlight \subseteq caught
                /\ underDrift + Cardinality(InFlight) <= Cardinality(caught)

\* What an order was confirmed with: a preview whose purchase the buying power
\* covered to within the rounding of the notional, whose sale the position held,
\* and whose fraction the broker takes (OrderPreviewService.preview).
OrdersWereCovered ==
  \A i \in DOMAIN orders :
    LET t == orders[i]
        d == t.draft
    IN  /\ d.side = "buy" =>
             2 * d.quantity * t.price <= (2 * t.account.buyingPower + 1) * 10 ^ QUANTITY_DECIMAL_SCALE
        /\ d.side = "sell" => d.quantity <= t.position
        /\ d.quantity % 10 ^ QUANTITY_DECIMAL_SCALE # 0 => t.asset.fractionable /\ d.type = "market"

\* After the lifecycle's close has resolved, no pass of its timer is left that still writes,
\* nor begins; after BullMQ's worker is closed, none at all (tradingWorker.ts:105-115,
\* workerRuntime.ts:57-58).
ClosedIsQuiet ==
  /\ life \in {"stopping", "closed"} => \A p \in Timed : passes[p].stage = "idle"
  /\ life = "closed" => \A p \in Passes : passes[p].stage = "idle"

-----------------------------------------------------------------------------
(* Liveness *)

AllMappable == \A a \in Range(activities \o scenario.events) : IsMappable(a)

\* Once nothing more happens at the broker the ledger is complete and no drift is
\* left, whatever stale pass recorded or cleared it last and wherever the worker was
\* restarted, provided every activity can be mapped (reconcileAll).
DriftSettles == AllMappable => <>[](drift = {} /\ Len(ledger) = Now /\ scenario.events = <<>>)
=============================================================================
