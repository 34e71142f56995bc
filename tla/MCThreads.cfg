\* A thread may spin for ever on its own lock, and nothing is called once an identifier is destroyed.
CHECK_DEADLOCK FALSE
CONSTANTS
  mainThread = mainThread
  uiThread = uiThread
  Callers = {c1, c2}
  NoCaller = NoCaller
  Threads = {mainThread, uiThread, plugin}
  NoThread = NoThread
  MaxDepth = 3
  Refs = {r1, r2, r3}
  NoRef = NoRef
  Limit = 1
  MaxNumbers = 5
  GameThreads = {mainThread, uiThread, plugin}
  NoOwner = NoOwner
  tasks = tasks
  uiTasks = uiTasks
  Tasks = {a, b}
  NoTask = NoTask
  Queues <- MCQueues
  Pump <- MCPump
  Reach <- MCReach
SPECIFICATION MCSpec
INVARIANT IdentifierIsCounted
PROPERTIES ImplementsHandle
  LockIsReentrant EveryoneGetsLock
  QueueIsFeed WaitingIsShown
  TasksAreQueued TasksAreRun
