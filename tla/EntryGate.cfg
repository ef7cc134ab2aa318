SPECIFICATION Spec
CONSTANTS
  Timeframes <- TwoTimeframes
  Directions = {"BUY"}
  Regimes = {"RANGE", "HIGH_VOLATILITY"}
  DayLength = 3
  StaleAfter = 4
  MaxOpen = 1
  MaxRange = 1
  HistoryCap = 3
  Bridges <- OneFault
  MayMiss = {"file"}
  MaxTime = 3
  MaxTickets = 2
  MaxRows = 1
INVARIANTS OnePosition RangeLimitInLife CooldownKept
