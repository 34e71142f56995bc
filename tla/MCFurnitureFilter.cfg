\* The system may stop when the bounds on calls and loads are reached.
CHECK_DEADLOCK FALSE
CONSTANTS
  Objects = {o, p}
  Scripts = {s}
  Keys = {k, l}
  MaxCalls = 3
  MaxLoads = 2
  Gone = Gone
SPECIFICATION RegSpec
INVARIANT FiltersAreKept
