SPECIFICATION Spec
CONSTANTS
  One = 10
  Precision = 40
  Rate = 1
  RateOf = 1
  ExponentIsOne = FALSE
  Raised <- Squares
  RaisedOf = 10000
  Rebate = 1
  RebateOf = 5
  TakerOnly = TRUE
  Levels = {4, 5}
  Sizes = {0, 3}
  Unknown = Unknown
  MaxEvents = 5
  MaxTime = 2
INVARIANTS ScanIsExact TimeIsTrue
CHECK_DEADLOCK FALSE
