SPECIFICATION Spec
CONSTANTS
  Conditions <- OneMetric
  Markets <- Flipping
  QuoteStates = {"fresh"}
  GroupStates = {"fresh"}
  Schedules = {{"price"}}
  Withdrawable = {}
  TradingTimes <- AllTimes
  MaxTime = 4
  InboxTimes = {1, 2}
  CheckedYears = {2024, 2025, 2026, 2027, 2028}
  MaxTries = 1
  MaxCrashes = 1
INVARIANT EveryTransitionIsAlerted
CHECK_DEADLOCK FALSE
