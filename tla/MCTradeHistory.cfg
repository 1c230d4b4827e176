SPECIFICATION Spec
CONSTANTS
  Instruments = {"EUR_USD"}
  PageSize = 2
  DayLength = 1
  Days = 3
  MaxTrades = 4
INVARIANTS PagesDescend HolesExplained SummaryGrouped
CHECK_DEADLOCK FALSE
