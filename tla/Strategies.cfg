SPECIFICATION CSpec
CONSTANTS
  One = 16
  Tick = 4
  Tops <- Markets
  Prints = {2, 12}
  Fairs = {4, 8, 12}
  References = {1, 2}
  Begins <- Starts
  Offsets = {1, 2, 4}
  Steps <- Moves
  Unknown = Unknown
  Size = 2
  RequoteEvery = 2
  Ttl = 3
  MaxInventory = 2
  MinOrder = 1
  Lookback = 2
  LeanGain = 4
  MaxLean = 16
  MinEdge = 1
  EdgeGain = 2
  MaxRatio = 2
  Shrink = 8
  StopAfter = 3
  MaxEvents = 3
INVARIANTS InventoryBound PairIsWorthIt NothingStale SampledInTime
CHECK_DEADLOCK FALSE
