--------------------------- MODULE TaskInterface ---------------------------
(***************************************************************************)
(* The task queues of f4se/Hooks_Threads.cpp.  s_tasks is drained by       *)
(* MessageQueueProcessTask_Hook, s_uiQueue by ProcessEventQueue_Hook, each *)
(* whenever the game comes by on the thread that pumps it.  A drain holds  *)
(* the queue's critical section from before the first task to after the    *)
(* last, the tasks' own code included.  Critical sections are re-entrant,  *)
(* so a task may add tasks to the queue that is being drained: they are    *)
(* run by the same drain.  A task may also add to the other queue, and     *)
(* then waits for that queue's critical section with its own held.         *)
(***************************************************************************)
EXTENDS Integers, Sequences

CONSTANTS
  GameThreads,  \* threads of the game and of plugins
  NoOwner,      \* no thread
  Queues,       \* the queues: s_tasks and s_uiQueue
  Tasks,        \* ITaskDelegate objects; each is added at most once
  NoTask,       \* no task
  Pump,         \* queue -> the thread whose hook drains it
  Reach         \* queue -> the queues its tasks may add to while they run

ASSUME TaskAssumption ==
  /\ NoOwner \notin GameThreads /\ NoTask \notin Tasks
  /\ Pump \in [Queues -> GameThreads] /\ Reach \in [Queues -> SUBSET Queues]

(* Two drains would wait for each other for ever if tasks of each queue    *)
(* could add to the other.  Plugins are only given AddTask                 *)
(* (PluginManager.cpp:83), so tasks of s_tasks do not add to s_uiQueue.    *)

VARIABLES
  entered,   \* queue -> the thread in its critical section
  nesting,   \* queue -> how many times it has entered
  toRun,     \* queue -> the tasks in the std::queue
  running,   \* queue -> the task in cmd->Run()
  drain,     \* queue -> where the hook is: "idle", "enter", "loop"
  adding,    \* thread -> the AddTask it is in: the queue and the task, or none
  step,      \* thread -> where in AddTask it is: "enter", "push", "leave"
  added      \* queue -> history: all tasks ever pushed, in order

taskVars == <<entered, nesting, toRun, running, drain, adding, step, added>>

Idle == <<>>

TaskInit ==
  /\ entered = [q \in Queues |-> NoOwner]
  /\ nesting = [q \in Queues |-> 0]
  /\ toRun = [q \in Queues |-> << >>]
  /\ running = [q \in Queues |-> NoTask]
  /\ drain = [q \in Queues |-> "idle"]
  /\ adding = [t \in GameThreads |-> Idle]
  /\ step = [t \in GameThreads |-> "enter"]
  /\ added = [q \in Queues |-> << >>]

-----------------------------------------------------------------------------
(* ICriticalSection.                                                       *)
Enter(t, q) ==
  /\ entered[q] \in {NoOwner, t}
  /\ entered' = [entered EXCEPT ![q] = t]
  /\ nesting' = [nesting EXCEPT ![q] = @ + 1]

Leave(t, q) ==
  /\ entered[q] = t
  /\ nesting' = [nesting EXCEPT ![q] = @ - 1]
  /\ entered' = [entered EXCEPT ![q] = IF nesting[q] = 1 THEN NoOwner ELSE t]

-----------------------------------------------------------------------------
(* AddTask and AddUITask.                                                  *)

PushedOn(q) == {added[q][i] : i \in DOMAIN added[q]}
Spent == (UNION {PushedOn(q) : q \in Queues})
         \cup {adding[t][2] : t \in {u \in GameThreads : adding[u] # Idle}}

(* What thread t may do now: anything outside the hooks, nothing in a hook *)
(* between tasks, and what the task it runs may do.                        *)
MayAdd(t, q) ==
  \A p \in Queues : Pump[p] = t /\ drain[p] # "idle" =>
                      running[p] # NoTask /\ q \in Reach[p]

CallAdd(t, q, task) ==
  /\ adding[t] = Idle
  /\ MayAdd(t, q)
  /\ task \notin Spent
  /\ adding' = [adding EXCEPT ![t] = <<q, task>>]
  /\ UNCHANGED <<entered, nesting, toRun, running, drain, step, added>>

AddEnter(t) ==
  /\ adding[t] # Idle
  /\ step[t] = "enter"
  /\ Enter(t, adding[t][1])
  /\ step' = [step EXCEPT ![t] = "push"]
  /\ UNCHANGED <<toRun, running, drain, adding, added>>

AddPush(t) ==
  /\ step[t] = "push"
  /\ LET q == adding[t][1] IN
       /\ toRun' = [toRun EXCEPT ![q] = Append(@, adding[t][2])]
       /\ added' = [added EXCEPT ![q] = Append(@, adding[t][2])]
  /\ step' = [step EXCEPT ![t] = "leave"]
  /\ UNCHANGED <<entered, nesting, running, drain, adding>>

AddLeave(t) ==
  /\ step[t] = "leave"
  /\ Leave(t, adding[t][1])
  /\ step' = [step EXCEPT ![t] = "enter"]
  /\ adding' = [adding EXCEPT ![t] = Idle]
  /\ UNCHANGED <<toRun, running, drain, added>>

-----------------------------------------------------------------------------
(* MessageQueueProcessTask_Hook and ProcessEventQueue_Hook.                *)

(* The game comes by; the thread is not in another call of this code.      *)
Come(q) ==
  /\ drain[q] = "idle"
  /\ adding[Pump[q]] = Idle
  /\ drain' = [drain EXCEPT ![q] = "enter"]
  /\ UNCHANGED <<entered, nesting, toRun, running, adding, step, added>>

DrainEnter(q) ==
  /\ drain[q] = "enter"
  /\ Enter(Pump[q], q)
  /\ drain' = [drain EXCEPT ![q] = "loop"]
  /\ UNCHANGED <<toRun, running, adding, step, added>>

RunNextNewest(q) ==
  /\ drain[q] = "loop"
  /\ running[q] = NoTask
  /\ toRun[q] # << >>
  /\ running' = [running EXCEPT ![q] = toRun[q][Len(toRun[q])]]
  /\ toRun' = [toRun EXCEPT ![q] = SubSeq(@, 1, Len(@) - 1)]
  /\ UNCHANGED <<entered, nesting, drain, adding, step, added>>

RunNext(q) ==
  /\ drain[q] = "loop"
  /\ running[q] = NoTask
  /\ toRun[q] # << >>
  /\ running' = [running EXCEPT ![q] = Head(toRun[q])]
  /\ toRun' = [toRun EXCEPT ![q] = Tail(@)]
  /\ UNCHANGED <<entered, nesting, drain, adding, step, added>>

(* Run returns, and the task is deleted.                                   *)
RunEnds(q) ==
  /\ running[q] # NoTask
  /\ adding[Pump[q]] = Idle
  /\ running' = [running EXCEPT ![q] = NoTask]
  /\ UNCHANGED <<entered, nesting, toRun, drain, adding, step, added>>

DrainLeaveForgets(q) ==
  /\ drain[q] = "loop"
  /\ running[q] = NoTask
  /\ Leave(Pump[q], q)
  /\ toRun' = [toRun EXCEPT ![q] = << >>]
  /\ drain' = [drain EXCEPT ![q] = "idle"]
  /\ UNCHANGED <<running, adding, step, added>>

DrainLeave(q) ==
  /\ drain[q] = "loop"
  /\ running[q] = NoTask
  /\ toRun[q] = << >>
  /\ Leave(Pump[q], q)
  /\ drain' = [drain EXCEPT ![q] = "idle"]
  /\ UNCHANGED <<toRun, running, adding, step, added>>

-----------------------------------------------------------------------------
Adding(t) == AddEnter(t) \/ AddPush(t) \/ AddLeave(t)
Draining(q) == DrainEnter(q) \/ RunNext(q) \/ RunEnds(q) \/ DrainLeave(q)

TaskNext ==
  \/ \E t \in GameThreads, q \in Queues, task \in Tasks : CallAdd(t, q, task)
  \/ \E t \in GameThreads : Adding(t)
  \/ \E q \in Queues : Come(q) \/ Draining(q)

TaskSpec == TaskInit /\ [][TaskNext]_taskVars

(* Threads run, the game comes by for ever, and a critical section is      *)
(* granted in the end to a thread that waits for it: strong fairness for   *)
(* the two ways in, since others may enter and leave in between.           *)
TaskFairness ==
  /\ \A t \in GameThreads : SF_taskVars(AddEnter(t)) /\ WF_taskVars(AddPush(t))
                        /\ WF_taskVars(AddLeave(t))
  /\ \A q \in Queues : /\ WF_taskVars(Come(q)) /\ SF_taskVars(DrainEnter(q))
                       /\ WF_taskVars(RunNext(q)) /\ WF_taskVars(RunEnds(q))
                       /\ WF_taskVars(DrainLeave(q))

TaskFairSpec == TaskSpec /\ TaskFairness

-----------------------------------------------------------------------------
(* Types of all variables.                                                 *)
TaskTypeOK ==
  /\ entered \in [Queues -> GameThreads \cup {NoOwner}]
  /\ nesting \in [Queues -> 0..2]
  /\ toRun \in [Queues -> Seq(Tasks)]
  /\ running \in [Queues -> Tasks \cup {NoTask}]
  /\ drain \in [Queues -> {"idle", "enter", "loop"}]
  /\ adding \in [GameThreads -> {Idle} \cup Queues \X Tasks]
  /\ step \in [GameThreads -> {"enter", "push", "leave"}]
  /\ added \in [Queues -> Seq(Tasks)]

(* A std::queue is not made for threads: whoever is between taking the     *)
(* queue's critical section and giving it back owns it, as many times as it*)
(* is in such a stretch, so pushes and pops of two threads never meet.     *)
Entries(t, q) ==
  (IF adding[t] # Idle /\ adding[t][1] = q /\ step[t] # "enter" THEN 1 ELSE 0)
  + (IF Pump[q] = t /\ drain[q] = "loop" THEN 1 ELSE 0)

QueuesAreGuarded ==
  \A q \in Queues : \A t \in GameThreads :
    Entries(t, q) = IF entered[q] = t THEN nesting[q] ELSE 0

(* Each queue runs its tasks one at a time and in the order they were      *)
(* added, also those that were added by a task that the same drain ran.    *)
Started(q) == Len(added[q]) - Len(toRun[q])
Fifo == INSTANCE TaskFifo WITH
          accepted <- added,
          started  <- [q \in Queues |-> Started(q)],
          current  <- running
ImplementsFifo == Fifo!FifoSpec

(* Hooks_Threads.cpp: each queue of tasks is guarded by its owner, and is  *)
(* first in, first out to whichever threads add to it while it is drained. *)
TasksAreQueued == [](TaskTypeOK /\ QueuesAreGuarded) /\ ImplementsFifo

(* A task that is being added is run in the end, and a hook that has begun *)
(* to drain returns to the game: Tasks is finite, so tasks stop being      *)
(* added at last.  With tasks that add tasks for ever the hook would not.  *)
TasksAreRun ==
  /\ \A t \in GameThreads, q \in Queues, task \in Tasks :
       adding[t] = <<q, task>> ~> running[q] = task
  /\ \A q \in Queues : drain[q] = "enter" ~> drain[q] = "idle"
=============================================================================
