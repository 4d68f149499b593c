SPECIFICATION Spec
CONSTANTS
  MONEY_DECIMAL_SCALE = 1
  QUANTITY_DECIMAL_SCALE = 1
  Symbols = {"S"}
  Scenarios <- MCScenarios
  Drafts <- MCDrafts
  Assets <- MCAssets
  Quotes <- MCQuotes
  PageSize = 1
  k1 = k1
  k2 = k2
  Requests = {k1, k2}
  Passes = {1, 2}
  Timed = {1}
  First = 1
INVARIANTS
  PostedOnce
  QuietPassFindsNoDifference
  DriftStopsNewOrders
  OrdersWereCovered
PROPERTIES
  DriftSettles
CHECK_DEADLOCK FALSE
