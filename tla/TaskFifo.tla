------------------------------ MODULE TaskFifo ------------------------------
(***************************************************************************)
(* What the task interface promises those who add tasks                    *)
(* (f4se/Hooks_Threads.h): each queue runs its tasks one at a time, in the *)
(* order they were added, and each task once, whoever adds it.             *)
(***************************************************************************)
EXTENDS Naturals, Sequences

CONSTANTS Queues, Tasks, NoTask

VARIABLES
  accepted,   \* queue -> every task that was ever added, in order
  started,    \* queue -> how many of them have been started
  current     \* queue -> the task that is running

fifoVars == <<accepted, started, current>>

FifoInit ==
  /\ accepted = [q \in Queues |-> << >>]
  /\ started = [q \in Queues |-> 0]
  /\ current = [q \in Queues |-> NoTask]

Submit(q, t) ==
  /\ \A p \in Queues : \A i \in DOMAIN accepted[p] : accepted[p][i] # t
  /\ accepted' = [accepted EXCEPT ![q] = Append(@, t)]
  /\ UNCHANGED <<started, current>>

Start(q) ==
  /\ current[q] = NoTask
  /\ started[q] < Len(accepted[q])
  /\ started' = [started EXCEPT ![q] = @ + 1]
  /\ current' = [current EXCEPT ![q] = accepted[q][started[q] + 1]]
  /\ UNCHANGED accepted

Finish(q) ==
  /\ current[q] # NoTask
  /\ current' = [current EXCEPT ![q] = NoTask]
  /\ UNCHANGED <<accepted, started>>

FifoNext ==
  \E q \in Queues : Start(q) \/ Finish(q) \/ \E t \in Tasks : Submit(q, t)

FifoSpec == FifoInit /\ [][FifoNext]_fifoVars
=============================================================================
