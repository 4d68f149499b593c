SPECIFICATION FairSpec
CONSTANTS
  o1 = o1
  o2 = o2
  c1 = c1
  c2 = c2
  p1 = p1
  None = None
  Orders = {o1}
  Cancels = {}
  Target <- CancelTheFirst
  Passes = {p1}
  MaxVersion = 2
  MaxQueued = 1
  MaxFaults <- LossyNetwork
PROPERTIES
  ViewOnlyMovesForward
  ImplementsContract
  PendingIsNotForgotten
  DoubtIsResolved
CHECK_DEADLOCK FALSE
