SPECIFICATION Spec
CONSTANTS
  Tokens <- MCTokens
  One = 4
  NoBook = NoBook
  NoExpiry = NoExpiry
  QueueModel = TRUE
  AssumedAhead = 1
  InitialParams <- MCParams
  Snapshots <- RestingSnapshots
  Changes <- RestingChanges
  Prints <- RestingPrints
  Requests <- RestingRequests
  Times <- Clock
  MaxOrders = 2
INVARIANTS SharesAccountedFor FillsAreEarned
PROPERTIES PrintIsShared OncePerCrossing ImplementsLedger
