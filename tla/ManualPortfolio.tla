--------------------------- MODULE ManualPortfolio ---------------------------
(* The manual portfolio: a ledger the user appends to, in any order of dates,  *)
(* and the decisions to ignore a split. server/portfolio/                      *)
(* manualPortfolioRepository.ts checks each new event under a lock of the      *)
(* portfolio; src/features/portfolio replays the ledger for the overview.      *)
(* Dates are numbers; a quantity, a price or an amount is a whole number.      *)
EXTENDS Rational, SequencesExt

CONSTANTS
  Entries,      \* the events a user may enter
  InitialCash,
  MaxEvents     \* bound on the length of the ledger

EventType == {"buy", "sell", "dividend", "fee", "deposit", "withdrawal", "split"}

LedgerEvent ==
  [type : EventType, symbol : STRING, date : Nat, quantity : Nat, price : Nat,
   amount : Nat, id : STRING]

ASSUME PortfolioAssumption ==
  /\ Entries \subseteq LedgerEvent
  /\ \A e \in Entries : e.type \in {"buy", "sell", "split"} => e.symbol # ""
  /\ InitialCash \in Nat
  /\ MaxEvents \in Nat

VARIABLES
  ledger,    \* core.manual_portfolio_ledger_event, by ordinal
  ignored    \* ids in core.manual_portfolio_ignored_split

portfolio == <<ledger, ignored>>

CashEffect(e) ==
  CASE e.type = "buy" -> -(e.quantity * e.price)
    [] e.type = "sell" -> e.quantity * e.price
    [] e.type \in {"dividend", "deposit"} -> e.amount
    [] e.type \in {"fee", "withdrawal"} -> -e.amount
    [] OTHER -> 0

\* What the events at some positions of a ledger add up to.
Sum(events, at, Of(_)) == SumFunctionOnSet([i \in DOMAIN events |-> Of(events[i])], at)

NoPosition == [quantity |-> 0, cost |-> Zero, realized |-> Zero]

\* One event of a position: a sale takes the average cost with it.
PositionAfter(p, e) ==
  LET average == IF p.quantity = 0 THEN Zero ELSE Over(p.cost, Whole(p.quantity))
      sold == Times(average, Whole(e.quantity))
  IN  CASE e.type = "buy" ->
             [p EXCEPT !.quantity = @ + e.quantity,
                       !.cost = Plus(@, Whole(e.quantity * e.price))]
        [] e.type = "sell" ->
             [quantity |-> p.quantity - e.quantity,
              cost |-> Minus(p.cost, sold),
              realized |-> Plus(p.realized, Minus(Whole(e.quantity * e.price), sold))]
        [] e.type = "split" -> [p EXCEPT !.quantity = @ * e.quantity]
        [] OTHER -> p

\* A position of a symbol after the events at some positions of a ledger, in its order.
Replay(p, events, at, symbol) ==
  LET after[n \in 0..Len(events)] ==
        IF n = 0 THEN p
        ELSE IF n \in at /\ events[n].symbol = symbol THEN PositionAfter(after[n - 1], events[n])
        ELSE after[n - 1]
  IN  after[Len(events)]

QuantityOf(events, at, symbol) == Replay(NoPosition, events, at, symbol).quantity

CashUpTo(date) ==
  InitialCash + Sum(ledger, {i \in DOMAIN ledger : ledger[i].date <= date}, CashEffect)

IsValid(e) ==
  IF e.type \in {"buy", "sell"} THEN e.quantity > 0 /\ e.price > 0
  ELSE IF e.type = "split" THEN e.quantity > 0
  ELSE e.amount > 0

\* A split that is there already is answered with the one on record.
IsRepeated(e) == e.type = "split" /\ \E i \in DOMAIN ledger : ledger[i].id = e.id

AppendEvent(e) ==
  /\ Len(ledger) < MaxEvents
  /\ IsValid(e) /\ ~IsRepeated(e)
  /\ e.type = "sell" => e.quantity <= QuantityOf(ledger, DOMAIN ledger, e.symbol)
  /\ e.type = "withdrawal" => e.amount <= CashUpTo(e.date)
  /\ ledger' = Append(ledger, e)
  /\ UNCHANGED ignored

IgnoreSplit(id) ==
  /\ ignored' = ignored \union {id}
  /\ UNCHANGED ledger

-----------------------------------------------------------------------------
(* Replays *)

\* sortLedgerEvents: by market date, splits first, then as they were appended.
Precedes(i, j) ==
  \/ ledger[i].date < ledger[j].date
  \/ /\ ledger[i].date = ledger[j].date
     /\ \/ ledger[i].type = "split" /\ ledger[j].type # "split"
        \/ (ledger[i].type = "split" <=> ledger[j].type = "split") /\ i < j

Sorted ==
  LET before(i) == {j \in DOMAIN ledger : Precedes(j, i)}
  IN  [n \in DOMAIN ledger |-> ledger[CHOOSE i \in DOMAIN ledger : Cardinality(before(i)) = n - 1]]

Symbols == {e.symbol : e \in Entries} \ {""}
Traded(events, at) == {events[i].symbol : i \in {j \in at : events[j].type \in {"buy", "sell"}}}

\* What the positions held made, and the income of the ledger.
CumulativePnl(events, position, worth) ==
  LET profit(s) == Plus(position[s].realized, Minus(Whole(worth[s]), position[s].cost))
      income(e) == IF e.type = "dividend" THEN e.amount
                   ELSE IF e.type = "fee" THEN -e.amount ELSE 0
  IN  FoldSet(LAMBDA s, sum : Plus(sum, profit(s)),
              Whole(Sum(events, DOMAIN events, income)), DOMAIN worth)

\* calculatePortfolio: the overview, from one quote for each symbol.
Overview(quotes) ==
  LET events == Sorted
      position == [s \in Traded(ledger, DOMAIN ledger) |-> Replay(NoPosition, events, DOMAIN events, s)]
      held == {s \in DOMAIN position : position[s].quantity > 0}
      worth == [s \in held |-> position[s].quantity * quotes[s]]
      cash == InitialCash + Sum(events, DOMAIN events, CashEffect)
  IN  [cash |-> cash,
       held |-> held,
       totalValue |-> Whole(cash + SumFunction(worth)),
       cumulativePnl |-> CumulativePnl(events, position, worth)]
=============================================================================
