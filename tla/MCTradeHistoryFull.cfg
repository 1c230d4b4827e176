SPECIFICATION Spec
CONSTANTS
  Instruments = {"EUR_USD"}
  PageSize = 1
  DayLength = 2
  Days = 2
  MaxTrades = 3
INVARIANT FullHistory
CHECK_DEADLOCK FALSE
