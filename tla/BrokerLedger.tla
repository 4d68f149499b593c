----------------------------- MODULE BrokerLedger -----------------------------
(* From what the broker says happened to cash and positions:                    *)
(* broker/brokerActivityMapper.ts and broker/brokerLedger.ts. An activity is    *)
(* [type, side, symbol, quantity, price, amount] with None for what is absent;  *)
(* a ledger event has the decimals in the ledger's own scales.                  *)
EXTENDS Integers, SequencesExt

CONSTANTS MONEY_DECIMAL_SCALE, QUANTITY_DECIMAL_SCALE

ASSUME ScaleAssumption ==
  MONEY_DECIMAL_SCALE \in Nat /\ QUANTITY_DECIMAL_SCALE \in Nat

\* Arithmetic that the provers know nothing of, true of every scale.
ASSUME PowerAssumption ==
  /\ 10 ^ QUANTITY_DECIMAL_SCALE > 0
  /\ QUANTITY_DECIMAL_SCALE > 0 => 10 ^ QUANTITY_DECIMAL_SCALE % 2 = 0
  /\ \A scale \in {MONEY_DECIMAL_SCALE, QUANTITY_DECIMAL_SCALE} : \A places \in 0..scale :
       10 ^ places * 10 ^ (scale - places) = 10 ^ scale

None == <<>>

-----------------------------------------------------------------------------
(* Money and quantities as integers of 1/10^scale (broker/fixedDecimal.ts). A   *)
(* decimal in text is [units, places], the value units / 10^places.             *)

Text(units, places) == [units |-> units, places |-> places]

\* More places than the scale are refused, never rounded.
IsFixedDecimal(value, scale) == value.places <= scale

parseFixedDecimal(value, scale) == value.units * 10 ^ (scale - value.places)

formatFixedDecimal(value, scale) == Text(value, scale)

\* The magnitude is rounded half up, the sign put back after.
RoundedQuotient(product, divisor) ==
  LET absolute == IF product < 0 THEN -product ELSE product
      quotient == (absolute + divisor \div 2) \div divisor
  IN  IF product < 0 THEN -quotient ELSE quotient

multiplyFixedDecimalValues(left, right, leftScale, rightScale, resultScale) ==
  IF leftScale + rightScale <= resultScale
  THEN left * right * 10 ^ (resultScale - leftScale - rightScale)
  ELSE RoundedQuotient(left * right, 10 ^ (leftScale + rightScale - resultScale))

\* A quantity at a price, in money.
Notional(quantity, price) ==
  multiplyFixedDecimalValues(quantity, price, QUANTITY_DECIMAL_SCALE, MONEY_DECIMAL_SCALE, MONEY_DECIMAL_SCALE)

-----------------------------------------------------------------------------
(* Activities and the ledger *)

eventType(activity) ==
  CASE activity.type = "FILL" /\ activity.side # None -> activity.side[1]
    [] activity.type \in {"DIV", "DIVIDEND"} -> "dividend"
    [] activity.type \in {"FEE", "CFEE"} -> "fee"
    [] activity.type = "SPLIT" -> "split"
    [] activity.type \in {"CSD", "DEPOSIT"} -> "deposit"
    [] activity.type \in {"CSW", "WITHDRAWAL"} -> "withdrawal"
    [] OTHER -> "unknown"

IsTrade(activity) == eventType(activity) \in {"buy", "sell"}

normalize(value, scale) ==
  IF value = None THEN None ELSE <<parseFixedDecimal(value[1], scale)>>

\* What the mapper throws on: a decimal with too many places, a fill without a
\* positive quantity and price.
IsMappable(activity) ==
  /\ \A value \in {activity.price, activity.amount} :
       value # None => IsFixedDecimal(value[1], MONEY_DECIMAL_SCALE)
  /\ activity.quantity # None => IsFixedDecimal(activity.quantity[1], QUANTITY_DECIMAL_SCALE)
  /\ IsTrade(activity) =>
       \A value \in {activity.quantity, activity.price} : value # None /\ value[1].units > 0

fillAmount(quantity, price, side) ==
  IF side = "buy" THEN -Notional(quantity, price) ELSE Notional(quantity, price)

\* The amount that the broker names is taken; only a fill without one is priced.
mapBrokerActivity(activity) ==
  LET quantity == normalize(activity.quantity, QUANTITY_DECIMAL_SCALE)
      price == normalize(activity.price, MONEY_DECIMAL_SCALE)
      amount == normalize(activity.amount, MONEY_DECIMAL_SCALE)
  IN  [eventType |-> eventType(activity), symbol |-> activity.symbol, quantity |-> quantity,
       amount |-> IF IsTrade(activity) /\ amount = None
                  THEN <<fillAmount(quantity[1], price[1], eventType(activity))>> ELSE amount]

\* The books after one more ledger event: an amount is cash whatever its kind.
Posted(books, event) ==
  LET quantity == IF event.quantity = None THEN 0 ELSE event.quantity[1]
      held == IF event.symbol = None THEN 0 ELSE books.positions[event.symbol[1]]
      after == CASE event.eventType = "buy" -> held + quantity
                 [] event.eventType = "sell" -> held - quantity
                 [] event.eventType = "split" ->
                      multiplyFixedDecimalValues(held, quantity, QUANTITY_DECIMAL_SCALE,
                        QUANTITY_DECIMAL_SCALE, QUANTITY_DECIMAL_SCALE)
                 [] OTHER -> held
  IN  [cash |-> books.cash + (IF event.amount = None THEN 0 ELSE event.amount[1]),
       positions |-> IF event.symbol = None THEN books.positions
                     ELSE [books.positions EXCEPT ![event.symbol[1]] = after]]

\* A position of zero is one that is not listed.
replayBrokerPortfolio(events, symbols) ==
  LET books[n \in 0..Len(events)] ==
        IF n = 0 THEN [cash |-> 0, positions |-> [s \in symbols |-> 0]] ELSE Posted(books[n - 1], events[n])
  IN  books[Len(events)]
=============================================================================
