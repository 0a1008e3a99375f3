SPECIFICATION Spec
CONSTANTS
  Tokens <- MCTokens
  One = 4
  NoBook = NoBook
  NoExpiry = NoExpiry
  QueueModel = FALSE
  AssumedAhead = 1
  InitialParams <- MCParams
  Snapshots <- TakingSnapshots
  Changes <- TakingChanges
  Prints <- TakingPrints
  Requests <- TakingRequests
  Times <- Instant
  MaxOrders = 2
INVARIANTS TypeOK ImmediateOrPassive
PROPERTY TakerWalksTheBook
