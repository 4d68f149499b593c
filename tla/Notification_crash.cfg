SPECIFICATION FairSpec
CONSTANTS
  a1 = a1
  a2 = a2
  s1 = s1
  s2 = s2
  w1 = w1
  w2 = w2
  None = None
  Alerts = {a1}
  Subs = {s1}
  Slots = {w1, w2}
  MaxRetries = 1
  MaxFaults <- OneCrash
INVARIANTS
  PendingDeliveryIsKept
PROPERTIES
  EndedStaysEnded
  DeliveryEnds
CHECK_DEADLOCK FALSE
