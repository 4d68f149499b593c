---------------------- MODULE MCNotificationDelivery ----------------------
(* Instances of NotificationDelivery for TLC.                              *)
EXTENDS NotificationDelivery

CONSTANTS a1, a2, s1, s2, w1, w2

Times(kinds, n) == [k \in FaultKind |-> IF k \in kinds THEN n ELSE 0]

OneCrash      == [Times({"crash"}, 1) EXCEPT !["retryable"] = 3]
AllOnce       == Times(FaultKind, 1)
=============================================================================
