------------------------------ MODULE MCThreads ------------------------------
(***************************************************************************)
(* The parts of the program that threads meet in, each on an instance of   *)
(* its own: identifiers of objects, the spin lock, the queue of damage     *)
(* numbers and the queues of tasks.  A behaviour is about one part, and    *)
(* the others stay in the state they start in.                             *)
(***************************************************************************)
EXTENDS IdentifierLock, SimpleLock, DamageQueue, TaskInterface

CONSTANTS
  mainThread, uiThread,  \* of Threads, the two that drain queues
  tasks, uiTasks         \* the two queues

VARIABLE part

(* A thread that nests its calls may spin for ever on its own lock; one    *)
(* that does not is served.                                                *)
FlatLock == INSTANCE SimpleLock WITH MaxDepth <- 1

(* Tasks of s_tasks add to s_tasks, those of s_uiQueue to both.            *)
MCQueues == {tasks, uiTasks}
MCPump == [q \in MCQueues |-> IF q = tasks THEN mainThread ELSE uiThread]
MCReach == [q \in MCQueues |-> IF q = tasks THEN {tasks} ELSE MCQueues]

vars == <<part, idVars, lockVars, queueVars, taskVars>>

MCInit ==
  /\ part \in {"identifier", "lock", "flat lock", "numbers", "tasks"}
  /\ IdInit /\ LockInit /\ QueueInit /\ TaskInit

MCNext ==
  \/ part = "identifier" /\ IdNext /\ UNCHANGED <<part, lockVars, queueVars, taskVars>>
  \/ part = "lock" /\ LockNext /\ UNCHANGED <<part, idVars, queueVars, taskVars>>
  \/ part = "flat lock" /\ FlatLock!LockNext /\ UNCHANGED <<part, idVars, queueVars, taskVars>>
  \/ part = "numbers" /\ QueueNext /\ UNCHANGED <<part, idVars, lockVars, taskVars>>
  \/ part = "tasks" /\ TaskNext /\ UNCHANGED <<part, idVars, lockVars, queueVars>>

MCFairness ==
  \/ part \in {"identifier", "lock"}
  \/ part = "flat lock" /\ FlatLock!LockFairness
  \/ part = "numbers" /\ DrawFairness
  \/ part = "tasks" /\ TaskFairness

MCSpec == MCInit /\ [][MCNext]_vars /\ MCFairness

-----------------------------------------------------------------------------
(* SimpleLock: a thread that waits gets the lock, unless calls are nested. *)
EveryoneGetsLock == part = "flat lock" => FlatLock!LockServed
=============================================================================
