SPECIFICATION Spec
CONSTANTS
  Scenarios <- MCScenarios
  Slots = {1, 2}
  MaxRequests = 4
  MaxCrashes = 1
  MaxExpiries = 1
INVARIANTS
  OneAnswerPerKey
  ListsLoseNothing
PROPERTIES
  SupersededIsFrozen
  RequestsEnd
CHECK_DEADLOCK FALSE
