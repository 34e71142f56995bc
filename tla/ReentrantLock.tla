--------------------------- MODULE ReentrantLock ---------------------------
(***************************************************************************)
(* What the users of SimpleLock count on: a lock with at most one owner,   *)
(* which its owner may take again, and a nesting depth that the owner may  *)
(* read.  SimpleLock implements it with two words and no larger atomic     *)
(* step than a compare-exchange.                                           *)
(***************************************************************************)
EXTENDS Integers

CONSTANTS Threads, NoThread, MaxDepth

VARIABLES
  owner,   \* the thread that holds the lock, or NoThread
  depth    \* how many times it holds it

vars == <<owner, depth>>

Init == owner = NoThread /\ depth = 0

(* The return of a call of Lock.                                           *)
Take(t) ==
  /\ owner \in {t, NoThread}
  /\ depth < MaxDepth
  /\ owner' = t
  /\ depth' = depth + 1

(* A call of Release, by the owner.                                        *)
Drop(t) ==
  /\ owner = t
  /\ depth' = depth - 1
  /\ owner' = IF depth' = 0 THEN NoThread ELSE t

Next == \E t \in Threads : Take(t) \/ Drop(t)

Spec == Init /\ [][Next]_vars
=============================================================================
