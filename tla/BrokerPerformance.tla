--------------------------- MODULE BrokerPerformance ---------------------------
(* The paper account's ledger as the performance page takes it: what of the broker's *)
(* events is adapted to a ledger of the portfolio, and when the page shows a         *)
(* performance at all (brokerPerformanceAdapter.ts, PaperPortfolioPerformance.tsx).   *)
(* A field is read, missing, or no decimal.                                          *)
EXTENDS Integers, SequencesExt

Read(x) == [is |-> "read", value |-> x]
Unread(why) == [is |-> why, value |-> 0]
Trades == {"buy", "sell"}
Cash == {"fee", "deposit", "withdrawal"}

\* The fields an event of a type cannot do without.
Needed(type) ==
  CASE type \in Trades -> {"symbol", "quantity", "price"} [] type = "dividend" -> {"symbol", "amount"}
    [] type \in Cash -> {"amount"} [] OTHER -> {"symbol", "quantity"}

Adaptable(event) == \A field \in Needed(event.type) : event[field].is = "read"

Magnitude(number) == IF number < 0 THEN -number ELSE number

\* Signs are dropped, whatever the broker means by them; the type carries the direction.
adaptEvent(event) ==
  [field \in {"id", "type", "at"} \union Needed(event.type) |->
     CASE field \in {"id", "type", "at"} -> event[field] [] field = "symbol" -> event[field].value
       [] OTHER -> Magnitude(event[field].value)]

Before(a, b) == a.at < b.at \/ (a.at = b.at /\ a.id < b.id)
Known(event) == event.type # "unknown"

Nothing == [state |-> "unavailable", events |-> <<>>, ignored |-> 0, cashHistoryComplete |-> FALSE]

\* A deposit counts when it is no later than the first trade, whatever its place or size.
adaptBrokerPerformance(activeDrift, ledger) ==
  IF activeDrift THEN Nothing
  ELSE LET ordered == SortSeq(ledger, Before)
           known == SelectSeq(ordered, Known)
           trades == SelectSeq(known, LAMBDA e : e.type \in Trades)
       IN  IF \E i \in DOMAIN known : ~Adaptable(known[i])
           THEN [Nothing EXCEPT !.state = "failed"]
           ELSE [state |-> "fresh", events |-> [i \in DOMAIN known |-> adaptEvent(known[i])],
                 ignored |-> Len(ledger) - Len(known),
                 cashHistoryComplete |->
                   \/ trades = <<>>
                   \/ \E i \in DOMAIN known : known[i].type = "deposit" /\ known[i].at <= trades[1].at]

\* What the page shows; the drift is looked at before the ledger is asked for.
PaperPortfolioPerformance(activeDrift, adaptation) ==
  CASE activeDrift                        -> "drift"
    [] adaptation.state = "failed"        -> "error"
    [] adaptation.events = <<>>           -> "empty"
    [] ~adaptation.cashHistoryComplete    -> "historyTooShort"
    [] OTHER                              -> "performance"

-----------------------------------------------------------------------------
Numbers == {Unread("missing"), Unread("malformed"), Read(-2), Read(3)}
PaperEvent(id, type, at, number) ==
  [id |-> id, type |-> type, at |-> at, symbol |-> Read("A"), quantity |-> number,
   price |-> Read(1), amount |-> number]
PaperEvents(id) == {PaperEvent(id, type, at, number) :
                    type \in {"buy", "deposit", "unknown", "split"}, at \in 1..2, number \in Numbers}
PaperLedgers == {<<a, b>> : a \in PaperEvents(1), b \in PaperEvents(2)}

\* A performance is shown only of a ledger that was understood: no number of it is
\* missing, malformed or negative, and its first trade is not before its first deposit; the
\* order in which the broker's events were recorded does not matter.
ASSUME ShownIsUnderstood ==
  \A ledger \in PaperLedgers :
    LET a == adaptBrokerPerformance(FALSE, ledger) IN
    /\ adaptBrokerPerformance(FALSE, <<ledger[2], ledger[1]>>) = a
    /\ PaperPortfolioPerformance(FALSE, a) = "performance" =>
         /\ \A i \in DOMAIN a.events : \A f \in {"quantity", "amount"} \intersect DOMAIN a.events[i] :
              a.events[i][f] \in {2, 3}
         /\ \A i \in DOMAIN a.events : a.events[i].type = "buy" =>
              \E j \in DOMAIN a.events : a.events[j].type = "deposit" /\ a.events[j].at <= a.events[i].at

\* One event the page cannot read takes the whole performance away, but not one of a type
\* it does not know, which is only counted.
ASSUME UnreadableIsNotSkipped ==
  \A ledger \in PaperLedgers :
    LET a == adaptBrokerPerformance(FALSE, ledger) IN
    /\ a.state = "failed" <=> \E i \in DOMAIN ledger : Known(ledger[i]) /\ ~Adaptable(ledger[i])
    /\ a.state = "fresh" => Len(a.events) + a.ignored = Len(ledger)
=============================================================================
