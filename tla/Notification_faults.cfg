SPECIFICATION Spec
CONSTANTS
  a1 = a1
  a2 = a2
  s1 = s1
  s2 = s2
  w1 = w1
  w2 = w2
  None = None
  Alerts = {a1}
  Subs = {s1}
  Slots = {w1}
  MaxRetries = 2
  MaxFaults <- AllOnce
INVARIANTS
  OnlyPreparedDeliveries
  SuccessMeansPushed
PROPERTIES
  PushedOnlyWhilePending
CHECK_DEADLOCK FALSE
