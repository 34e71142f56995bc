CONSTANTS
  Objects = {o1, o2}
  Stacks = {s1, s2}
  NULL = NULL
  MaxLoads = 3
  Functors = {f1, f2}
  Restless = {f1}
  Delays <- MCDelays
  Again = {0, 2}
  MaxFrame = 2
  MaxSaves = 1
  Junk = {0, 1}
SPECIFICATION MCSpec
INVARIANTS HandlesHold FunctorsAreKept
PROPERTIES StorageIsKept FunctorsAreRun
