\* Requests are bounded, the last launch need not end, and the loader returns.
CHECK_DEADLOCK FALSE
CONSTANTS
  Plugins = {p1, p2, p3}
  HabitSets <- MCHabitSets
  MaxRequests <- MCMaxRequests
  MaxDepth = 3
  None = None
  Versions <- MCVersions
  Globals <- MCGlobals
  FrameHook = "frame"
  HealthHook = "health"
  Found <- MCFound
  Calls = {"a"}
  NoAddress = NoAddress
  MaxLaunches = 4
  CommandLines <- MCCommandLines
  ExeKinds = {"missing", "unreadable", "component", "launcher", "otherversion", "packed", "steam", "normal"}
  Installed <- MCInstalled
  whole = whole
  noHealth = noHealth
  noFirst = noFirst
SYMMETRY Symmetry
SPECIFICATION MCSpec
INVARIANTS NoDuplicateListener OrderlyRegistrationHolds HooksUseResolved CleanLaunchHasF4SE
PROPERTY DispatchesAreSound
