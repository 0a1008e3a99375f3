SPECIFICATION FairSpec
CONSTANTS
  Unknown = Unknown
  Tape <- Apart
  MarkEvery = 2
  Payouts = {0, Unknown}
  Capital = 10
  Fee = 1
  TotalLoss = 1
  DailyLoss = 2
  DayStarts = {10, 12}
  Leans <- Convictions
  MaxOrders = 1
  MaxFills = 2
  MaxCrashes = 1
  MaxKills = 1
  MaxLosses = 3
INVARIANTS ResumedExactly WholeAndOnce HaltsAreHarmless ReportAgrees FillsAttributed StateIsTrue
PROPERTY EventuallyOver
CHECK_DEADLOCK FALSE
