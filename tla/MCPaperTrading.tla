-------------------------- MODULE MCPaperTrading --------------------------
(* Instances of PaperTrading for TLC.                                      *)
EXTENDS PaperTrading

CONSTANTS o1, o2, c1, c2, p1

\* Every cancellation is for the first order.
CancelTheFirst == [c \in Cancels |-> o1]

Once(kinds) == [k \in FaultKind |-> IF k \in kinds THEN 1 ELSE 0]

AllOnce       == Once(FaultKind)
OneCrash      == Once({"crash"})
OneRetryable  == Once({"retryable"})
LossyNetwork  == Once({"crash", "retryable", "stream"})

\* Bound of the run with all faults: up to three kinds of them strike an order
\* that stands as it was accepted, one while the broker changes it, none when
\* it changes it twice.
KindsBeside == <<3, 1, 0>>

FewAtOnce ==
    LET struck == {k \in FaultKind : faults[k] > 0}
    IN  \A o \in Orders :
            Cardinality(struck) <= KindsBeside[IF ver[o] = 0 THEN 1 ELSE ver[o]]
=============================================================================
