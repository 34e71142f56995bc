\* The bounds on starts, saves, loads and calls are reached.
CHECK_DEADLOCK FALSE
CONSTANTS
  Byte = 5
  Word = 16
  Lights = 6
  Ids = {0}
  Regular = {r1}
  Extra = {l1, l2}
  Names <- MCNames
  LoadOrders <- MCLoadOrders
  Plugins = {1, 2}
  MaxRecords = 2
  MaxData = 2
  MaxRuns = 3
  Objects = {"o", "p"}
  Scripts = {"s"}
  Keys = {"k", "l"}
  MaxCalls = 3
  MaxLoads = 2
  Gone = Gone
SPECIFICATION MCSpec
INVARIANT MissingLightIsRefused
