SPECIFICATION Spec
CONSTANTS
  Unknown = Unknown
  Tape <- SameSecond
  MarkEvery = 2
  Payouts = {1}
  Fee = 1
  TotalLoss = 5
  DailyLoss = 5
  DayStarts = {10}
  Leans = {0}
  MaxOrders = 1
  Capital = 10
  MaxFills = 2
  MaxCrashes = 0
  MaxKills = 1
  MaxLosses = 0
INVARIANT HandledOnce
CHECK_DEADLOCK FALSE
