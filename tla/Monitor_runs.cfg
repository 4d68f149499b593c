SPECIFICATION Spec
CONSTANTS
  Conditions <- MCConditions
  Markets <- MCMarkets
  QuoteStates = {"fresh", "fallback", "expired"}
  GroupStates = {"fresh", "expired"}
  Schedules = {{"price"}, {"event"}}
  Withdrawable <- MCWithdrawable
  TradingTimes <- AllTimes
  MaxTime = 2
  InboxTimes = {1, 2}
  CheckedYears = {2024, 2025, 2026, 2027, 2028}
  MaxTries = 2
  MaxCrashes = 1
INVARIANTS
  StaleDataDecidesNothing
  AlertsTellTheChanges
  RunsAndJobsEndTogether
PROPERTIES
  AddedJobsEnd
CHECK_DEADLOCK FALSE
