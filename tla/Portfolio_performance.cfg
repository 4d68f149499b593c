SPECIFICATION Spec
CONSTANTS
  Entries <- MCEntries
  Histories <- MCHistories
  InitialCash = 10
  MaxEvents = 4
  CarryLimit = 1
  From = 2
  To = 6
  CheckedSymbols = {"A", "B"}
  CheckedTimes = {1, 2}
INVARIANTS
  MoneyAddsUp
  FlowsAreNotReturns
  DaysAreMeasuredRight
CHECK_DEADLOCK FALSE
