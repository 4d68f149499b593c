SPECIFICATION Spec
CONSTANTS
  Conditions <- MCConditions
  Markets <- MCMarkets
  QuoteStates = {"fresh"}
  GroupStates = {"fresh", "rejected"}
  Schedules = {{"event"}}
  Withdrawable = {}
  TradingTimes <- AllTimes
  MaxTime = 2
  InboxTimes = {1, 2}
  CheckedYears = {2024, 2025, 2026, 2027, 2028}
  MaxTries = 2
  MaxCrashes = 0
INVARIANT OutagesRaiseNoAlert
CHECK_DEADLOCK FALSE
