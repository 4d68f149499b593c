----------------------- MODULE MCPortfolioPerformance -----------------------
(* Six dates and two symbols: every ledger of up to four of ten events, and  *)
(* answers with steady, moving, missing and split prices.                      *)
EXTENDS PortfolioPerformance, Screening, BrokerPerformance

event(id, type, symbol, date, quantity, price, amount) ==
  [id |-> id, type |-> type, symbol |-> symbol, date |-> date, quantity |-> quantity,
   price |-> price, amount |-> amount]

SplitOfA == event("s", "split", "A", 3, 2, 0, 0)

MCEntries ==
  {event("b1", "buy", "A", 1, 2, 4, 0), event("b2", "buy", "A", 4, 1, 4, 0),
   event("b3", "buy", "B", 2, 1, 3, 0), event("s1", "sell", "A", 2, 2, 4, 0),
   event("s2", "sell", "A", 4, 1, 2, 0), event("in", "deposit", "", 2, 0, 0, 4),
   event("out", "withdrawal", "", 4, 0, 0, 3), event("div", "dividend", "A", 3, 0, 0, 1),
   event("fee", "fee", "", 3, 0, 0, 1), SplitOfA}

answer(a, b, bench, splits, state) ==
  [bars |-> [s \in {"A", "B"} |-> IF s = "A" THEN a ELSE b], bench |-> bench,
   splits |-> splits, state |-> state]

MCHistories ==
  {answer(<<4, 4, 4, 4, 4, 4>>, <<0, 3, 3, 3, 3, 3>>, <<5, 5, 5, 5, 5, 5>>, {}, "fresh"),
   answer(<<4, 5, 3, 6, 6, 5>>, <<0, 4, 3, 0, 5, 5>>, <<5, 6, 5, 7, 7, 8>>, {}, "stale"),
   answer(<<4, 5, 0, 0, 6, 7>>, <<0, 0, 0, 0, 2, 3>>, <<5, 4, 6, 6, 8, 8>>, {}, "fresh"),
   answer(<<4, 0, 0, 5, 0, 0>>, <<0, 0, 0, 3, 0, 0>>, <<0, 0, 0, 5, 0, 0>>, {}, "fresh"),
   answer(<<4, 4, 2, 2, 2, 2>>, <<0, 3, 3, 3, 3, 3>>, <<5, 5, 5, 5, 5, 5>>, {SplitOfA}, "fresh"),
   answer(<<4, 4, 4, 4, 4, 4>>, <<0, 3, 3, 3, 3, 3>>, <<5, 5, 5, 5, 5, 5>>, {}, "unavailable")}
=============================================================================
