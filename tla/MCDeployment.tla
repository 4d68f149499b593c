---------------------------- MODULE MCDeployment ----------------------------
(* Two requests, two sockets, two polls, two loads, a form with two    *)
(* prices, and two tabs with the settings page.                            *)
EXTENDS Deployment, ServerConfig

CONSTANTS r1, r2, c1, c2, u1, t1, t2, e1, e2

Form(symbol, type, limitPrice) == [symbol |-> symbol, type |-> type, limitPrice |-> limitPrice]
MCFirstForm == Form("A", "market", "")
MCForms == {MCFirstForm, Form("A", "limit", "5.0"), Form("B", "market", "5.0")}
MCFirstInput == [ledger |-> 0, range |-> "inception", decisions |-> "none"]

\* An older build and two processes of a newer one.
MCKnown == <<2, 3, 3>>

MCNormalized(draft) == [draft EXCEPT !.limitPrice = IF @ = "5.0" THEN "5" ELSE @]
=============================================================================
