SPECIFICATION FairSpec
CONSTANTS
  Yes = Yes
  No = No
  One = 4
  Unknown = Unknown
  NoExpiry = NoExpiry
  Winner = Yes
  Capital = 20
  MaxOrderNotional = 9
  MaxPositionShares = 3
  MaxMarketNotional = 4
  MaxTotalExposure = 12
  DailyLossLimit = 1
  TotalLossLimit = 2
  TakerFee <- OneFee
  Quotes <- LoopQuotes
  Takes <- LoopTakes
  Trades <- LoopTrades
  Books <- LoopBooks
  Times <- Clock
  DayLength = 1
  MaxEvents = 2
  MaxOrders = 3
INVARIANTS TypeOK BooksBalance LimitsBind StopObeyed NothingOverdue
PROPERTIES EveryOrderCloses ImplementsLedger
CHECK_DEADLOCK FALSE
