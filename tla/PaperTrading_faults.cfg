SPECIFICATION Spec
CONSTANTS
  o1 = o1
  o2 = o2
  c1 = c1
  c2 = c2
  p1 = p1
  None = None
  Orders = {o1}
  Cancels = {c1}
  Target <- CancelTheFirst
  Passes = {p1}
  MaxVersion = 3
  MaxQueued = 1
  MaxFaults <- AllOnce
CONSTRAINT
  FewAtOnce
INVARIANTS
  OnlyConfirmedOrders
  NeverAheadOfBroker
  CancelSentOnRecord
  SubmitIsAccountedFor
PROPERTIES
  NeverResubmitsInDoubt
CHECK_DEADLOCK FALSE
