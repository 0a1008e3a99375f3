SPECIFICATION Spec
CONSTANTS
  Yes = Yes
  No = No
  One = 4
  Unknown = Unknown
  NoExpiry = NoExpiry
  Winner = Yes
  Capital = 20
  MaxOrderNotional = 9
  MaxPositionShares = 4
  MaxMarketNotional = 12
  MaxTotalExposure = 12
  DailyLossLimit = 20
  TotalLossLimit = 20
  TakerFee <- NoFee
  Quotes <- MoneyQuotes
  Takes = {}
  Trades <- MoneyTrades
  Books = {}
  Times <- Instant
  DayLength = 1
  MaxEvents = 3
  MaxOrders = 3
INVARIANT NeverOversold
CHECK_DEADLOCK FALSE
