---------------------------- MODULE MCBrokerAccount ---------------------------
(* One symbol. A purchase and a split that are booked after a deposit of a later *)
(* date, so that a pass may list the split and miss the purchase; a sale after a  *)
(* split, in fractions that round, with a crash or a close of the worker; an       *)
(* activity that cannot be mapped; and orders without drift and under it.          *)
EXTENDS BrokerAccount

CONSTANTS k1, k2

Amount(n) == <<Text(n, 0)>>
Tenths(n) == <<Text(n, 1)>>
Activity(time, type, side, symbol, quantity, price, amount) ==
  [time |-> time, type |-> type, side |-> side, symbol |-> symbol, quantity |-> quantity,
   price |-> price, amount |-> amount]

Deposit(time) == Activity(time, "CSD", None, None, None, None, Amount(4))
Buy(time) == Activity(time, "FILL", <<"buy">>, <<"S">>, Tenths(15), Tenths(25), None)
Split(time) == Activity(time, "SPLIT", None, <<"S">>, Tenths(15), None, None)
Sale(time) == Activity(time, "FILL", <<"sell">>, <<"S">>, Tenths(5), Tenths(5), None)
TooFine(time) == Activity(time, "FILL", <<"buy">>, <<"S">>, Amount(1), <<Text(200, 2)>>, None)

MCScenarios ==
  {[past |-> <<Deposit(3)>>, events |-> <<Buy(2), Split(4)>>, faults |-> 0, orders |-> 0],
   [past |-> <<Buy(1), Split(2)>>, events |-> <<Sale(3)>>, faults |-> 1, orders |-> 0],
   [past |-> <<>>, events |-> <<TooFine(1)>>, faults |-> 0, orders |-> 0],
   [past |-> <<Deposit(1)>>, events |-> <<>>, faults |-> 0, orders |-> 1],
   [past |-> <<>>, events |-> <<Buy(1)>>, faults |-> 0, orders |-> 2]}

MCDrafts ==
  {[symbol |-> "S", side |-> "buy", quantity |-> 5, type |-> "market", timeInForce |-> "day", limitPrice |-> None],
   [symbol |-> "S", side |-> "sell", quantity |-> 10, type |-> "limit", timeInForce |-> "gtc", limitPrice |-> <<5>>]}
MCAssets == {[tradable |-> TRUE, fractionable |-> TRUE]}
MCQuotes == {[price |-> 15, fresh |-> TRUE]}
=============================================================================
