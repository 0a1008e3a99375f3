SPECIFICATION Spec
CONSTANTS
  Programs = {cli, mcp}
  None = None
  PageSize = 2
  MaxPages = 2
  MaxTrades = 5
  HeaderLens = {1, 2}
  MaxTime = 1
  MaxWalks = 2
SYMMETRY Alike
INVARIANTS WalkIsWhole LoadedIsWhole
PROPERTY CacheNeverWorse
CHECK_DEADLOCK FALSE
