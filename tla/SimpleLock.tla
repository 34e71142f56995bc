----------------------------- MODULE SimpleLock -----------------------------
(***************************************************************************)
(* SimpleLock (f4se/f4se/GameTypes.h and GameTypes.cpp): the re-entrant    *)
(* spin lock behind globalDamageLock, globalMenuTableLock and every other  *)
(* SimpleLocker of the code base.  A step is one access to one of the two  *)
(* shared words, threadID and lockCount; what a thread does between two    *)
(* accesses is invisible to the others.                                    *)
(*                                                                         *)
(* A failed compare-exchange followed by Sleep changes nothing but the     *)
(* local spinCount, so a spinning thread is one whose LockCas is disabled. *)
(***************************************************************************)
EXTENDS Integers

CONSTANTS
  Threads,     \* the thread identifiers GetCurrentThreadId can return
  NoThread,    \* the value 0 of threadID, which is no thread's identifier
  MaxDepth     \* how deep the callers nest their Lock calls

ASSUME NoThreadAssumption == NoThread \notin Threads
ASSUME MaxDepthAssumption == MaxDepth \in Nat \ {0}

VARIABLES
  threadID,    \* the word the owner writes its identifier in
  lockCount,   \* the word the compare-exchange and the counting act on
  lpc,         \* lpc[t]: where t is inside Lock or Release
  held         \* held[t]: Lock calls of t that returned and are not released

lockVars == <<threadID, lockCount, lpc, held>>

LockTypeOK ==
  /\ threadID \in Threads \cup {NoThread}
  /\ lockCount \in Nat
  /\ lpc \in [Threads -> {"idle", "inc", "cas", "own", "clear"}]
  /\ held \in [Threads -> 0..MaxDepth]

LockInit ==
  /\ threadID = NoThread
  /\ lockCount = 0
  /\ lpc = [t \in Threads |-> "idle"]
  /\ held = [t \in Threads |-> 0]

-----------------------------------------------------------------------------
(* Lock().  The unsynchronised read of threadID chooses the branch.        *)
LockTest(t) ==
  /\ lpc[t] = "idle"
  /\ held[t] < MaxDepth
  /\ lpc' = [lpc EXCEPT ![t] = IF threadID = t THEN "inc" ELSE "cas"]
  /\ UNCHANGED <<threadID, lockCount, held>>

(* The owner's branch: InterlockedIncrement, and Lock returns.             *)
LockInc(t) ==
  /\ lpc[t] = "inc"
  /\ lockCount' = lockCount + 1
  /\ held' = [held EXCEPT ![t] = @ + 1]
  /\ lpc' = [lpc EXCEPT ![t] = "idle"]
  /\ UNCHANGED threadID

(* A Lock that takes a cleared threadID for a free lock.                   *)
LockCasOnThreadID(t) ==
  /\ lpc[t] = "cas"
  /\ threadID = NoThread
  /\ lockCount' = 1
  /\ lpc' = [lpc EXCEPT ![t] = "own"]
  /\ UNCHANGED <<threadID, held>>

(* The other branch: the compare-exchange that finds 0 and stores 1.       *)
LockCas(t) ==
  /\ lpc[t] = "cas"
  /\ lockCount = 0
  /\ lockCount' = 1
  /\ lpc' = [lpc EXCEPT ![t] = "own"]
  /\ UNCHANGED <<threadID, held>>

(* The winner writes its identifier, and Lock returns.                     *)
LockOwn(t) ==
  /\ lpc[t] = "own"
  /\ threadID' = t
  /\ held' = [held EXCEPT ![t] = @ + 1]
  /\ lpc' = [lpc EXCEPT ![t] = "idle"]
  /\ UNCHANGED lockCount

(* A Release that lets go only of a lock it finds its identifier in.       *)
ReleaseDecChecked(t) ==
  /\ lpc[t] = "idle"
  /\ held[t] > 0
  /\ lockCount' = IF threadID = t THEN lockCount - 1 ELSE lockCount
  /\ held' = [held EXCEPT ![t] = @ - 1]
  /\ lpc' = [lpc EXCEPT ![t] = IF lockCount' = 0 THEN "clear" ELSE "idle"]
  /\ UNCHANGED threadID

(* Release().  InterlockedDecrement; the last one goes on to clear the     *)
(* identifier, any other returns.                                          *)
ReleaseDec(t) ==
  /\ lpc[t] = "idle"
  /\ held[t] > 0
  /\ lockCount' = lockCount - 1
  /\ held' = [held EXCEPT ![t] = @ - 1]
  /\ lpc' = [lpc EXCEPT ![t] = IF lockCount' = 0 THEN "clear" ELSE "idle"]
  /\ UNCHANGED threadID

(* The plain store threadID = 0, after the lock is already free.           *)
ReleaseClear(t) ==
  /\ lpc[t] = "clear"
  /\ threadID' = NoThread
  /\ lpc' = [lpc EXCEPT ![t] = "idle"]
  /\ UNCHANGED <<lockCount, held>>

(* What a thread inside Lock or Release does next.                         *)
LockStep(t) == LockInc(t) \/ LockCas(t) \/ LockOwn(t) \/ ReleaseClear(t)

-----------------------------------------------------------------------------
(* Threads that use the lock as SimpleLocker and the damage hooks do: each *)
(* Lock that returned is released once, in any nesting.                    *)
LockNext == \E t \in Threads : LockTest(t) \/ LockStep(t) \/ ReleaseDec(t)

LockSpec == LockInit /\ [][LockNext]_lockVars

(* No thread stops inside Lock or Release or keeps the lock for ever, and  *)
(* a thread that keeps spinning on a lock that is free again and again     *)
(* wins a compare-exchange.                                                *)
LockFairness ==
  \A t \in Threads :
    /\ WF_lockVars(LockInc(t) \/ LockOwn(t) \/ ReleaseClear(t))
    /\ WF_lockVars(ReleaseDec(t))
    /\ SF_lockVars(LockCas(t))

FairLockSpec == LockSpec /\ LockFairness

-----------------------------------------------------------------------------
(* t is between the compare-exchange that gave it the lock and the         *)
(* decrement that gives the lock up.                                       *)
Owns(t) == held[t] > 0 \/ lpc[t] = "own"

(* No two threads own the lock at the same time: between the return of     *)
(* Lock in one thread and its Release no Lock returns in another one,      *)
(* whichever way the two words are read and written in between.            *)
MutualExclusion ==
  \A t, u \in Threads : Owns(t) /\ Owns(u) => t = u

(* lockCount is the number of Lock calls the owner still has to release:   *)
(* DamageHealth_Hook reads it to learn whether it runs inside a damage     *)
(* frame of its own thread.                                                *)
CountIsNesting ==
  \A t \in Threads : held[t] > 0 => lockCount = held[t]

(* The lock is free once every thread has released it as often as it took  *)
(* it; no Release is lost.                                                 *)
FreeWhenReleased ==
  (\A t \in Threads : ~Owns(t)) => lockCount = 0

(* Every Lock call of a thread that does not own the lock returns.  It     *)
(* holds as long as no thread nests its calls (MaxDepth = 1): the late     *)
(* store of ReleaseClear can erase the identifier of the next owner, whose *)
(* nested Lock then spins on its own lock.                                 *)
LockServed ==
  \A t \in Threads : lpc[t] = "cas" ~> held[t] > 0

-----------------------------------------------------------------------------
(* The inductive invariant behind them.  The word threadID names a         *)
(* thread only while that thread owns the lock or has yet to clear the     *)
(* word: the test of Lock can miss the owner, it never mistakes another    *)
(* thread for it.                                                          *)
CountOfOwner ==
  \A t \in Threads :
    Owns(t) => lockCount = held[t] + (IF lpc[t] = "own" THEN 1 ELSE 0)

NameOfOwner ==
  \A t \in Threads : threadID = t => held[t] > 0 \/ lpc[t] = "clear"

PcOfOwner ==
  \A t \in Threads :
    /\ lpc[t] \in {"own", "clear"} => held[t] = 0
    /\ lpc[t] = "inc" => held[t] > 0
    /\ lpc[t] \in {"inc", "cas"} => held[t] < MaxDepth

LockInv ==
  /\ LockTypeOK
  /\ MutualExclusion
  /\ CountOfOwner
  /\ FreeWhenReleased
  /\ NameOfOwner
  /\ PcOfOwner

-----------------------------------------------------------------------------
(* The lock as its users see it: the owner is the thread with Lock calls   *)
(* to release, and the depth it reads is lockCount.                        *)
owner ==
  IF \E t \in Threads : held[t] > 0
    THEN CHOOSE t \in Threads : held[t] > 0
    ELSE NoThread

depth == IF \E t \in Threads : held[t] > 0 THEN lockCount ELSE 0

Abstract == INSTANCE ReentrantLock WITH owner <- owner, depth <- depth

(* Every behaviour of the two words is one of a lock with one owner and a  *)
(* depth.                                                                  *)
ImplementsReentrantLock == Abstract!Spec

(* SimpleLock is a re-entrant lock: one owner at a time, lockCount as its  *)
(* nesting, no release lost, and to its users owner and depth.             *)
LockIsReentrant ==
  [](LockTypeOK /\ MutualExclusion /\ CountIsNesting /\ FreeWhenReleased)
    /\ ImplementsReentrantLock
=============================================================================
