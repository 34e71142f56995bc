--------------------------- MODULE IdentifierLock ---------------------------
(***************************************************************************)
(* VMIdentifier (f4se/f4se/PapyrusValue.cpp): a count of references and a  *)
(* lock in one word, changed by compare-exchange only unless the lock bit  *)
(* is set.  The step from one reference to two, and back, also tells the   *)
(* object handle policy, and does so under the lock bit.  The callers      *)
(* (PackHandle and GetIdentifier in PapyrusArgs.cpp) hold a reference      *)
(* while they make another one or ask for the handle, and destroy the      *)
(* identifier when DecrementLock returns 0.                                *)
(*                                                                         *)
(* A thread that sees the lock bit sleeps and reads again: its Read is     *)
(* disabled here.                                                          *)
(***************************************************************************)
EXTENDS Naturals, FiniteSets

CONSTANTS Callers, Refs, NoCaller, NoRef

ASSUME ReferenceAssumption == IsFiniteSet(Refs) /\ NoCaller \notin Callers /\ NoRef \notin Refs

VARIABLES
  count, bit,  \* m_lock: the references counted, and kLockBit
  policy,      \* references the handle policy was told of
  alive,       \* the identifier has not been destroyed
  holder,      \* holder[r]: the thread that has the reference r, if any
  at,          \* at[t]: where t is in an operation
  op,          \* op[t]: "inc" IncrementLock, "dec" DecrementLock, "get" GetHandle
  seen,        \* seen[t]: lockValue
  ref          \* ref[t]: the reference t makes or drops

idVars == <<count, bit, policy, alive, holder, at, op, seen, ref>>

IdTypeOK ==
  /\ count \in Nat /\ bit \in BOOLEAN /\ policy \in Nat /\ alive \in BOOLEAN
  /\ holder \in [Refs -> Callers \cup {NoCaller}]
  /\ at \in [Callers -> {"idle", "read", "cas", "policy", "store", "destroy"}]
  /\ op \in [Callers -> {"inc", "dec", "get"}]
  /\ seen \in [Callers -> Nat] /\ ref \in [Callers -> Refs \cup {NoRef}]

IdInit ==
  /\ count = 1 /\ bit = FALSE /\ policy = 0 /\ alive = TRUE
  /\ \E r \in Refs, t \in Callers : holder = [s \in Refs |-> IF s = r THEN t ELSE NoCaller]
  /\ at = [t \in Callers |-> "idle"] /\ op = [t \in Callers |-> "get"]
  /\ seen = [t \in Callers |-> 0] /\ ref = [t \in Callers |-> NoRef]

live == {r \in Refs : holder[r] # NoCaller}
Goes(t, where) == at' = [at EXCEPT ![t] = where]

(* t calls an operation; the new reference of IncrementLock is one that no *)
(* other thread is making.                                                 *)
Begin(t, o, r) ==
  /\ at[t] = "idle" /\ \E s \in Refs : holder[s] = t
  /\ \/ o = "inc" /\ r \in Refs \ live /\ \A u \in Callers : ref[u] # r
     \/ o = "dec" /\ r \in Refs /\ holder[r] = t
     \/ o = "get" /\ r = NoRef
  /\ Goes(t, "read") /\ op' = [op EXCEPT ![t] = o] /\ ref' = [ref EXCEPT ![t] = r]
  /\ UNCHANGED <<count, bit, policy, alive, holder, seen>>

Read(t) ==
  /\ at[t] = "read" /\ ~bit
  /\ seen' = [seen EXCEPT ![t] = count] /\ Goes(t, "cas")
  /\ UNCHANGED <<count, bit, policy, alive, holder, op, ref>>

(* The counts at which the handle policy is told, and GetHandle, take the  *)
(* lock bit.                                                               *)
NeedsLock(t) == <<op[t], seen[t]>> \in {<<"inc", 1>>, <<"dec", 2>>} \/ op[t] = "get"

NewCount(t) == CASE op[t] = "inc" -> seen[t] + 1 [] op[t] = "dec" -> seen[t] - 1 [] OTHER -> seen[t]

(* A reference that is made may go to any thread.                          *)
Finish(t) ==
  /\ count' = NewCount(t)
  /\ \/ op[t] = "inc" /\ \E u \in Callers : holder' = [holder EXCEPT ![ref[t]] = u]
     \/ op[t] = "dec" /\ holder' = [holder EXCEPT ![ref[t]] = NoCaller]
     \/ op[t] = "get" /\ UNCHANGED holder
  /\ ref' = [ref EXCEPT ![t] = NoRef]

CasFails(t) ==
  /\ at[t] = "cas" /\ (bit \/ count # seen[t]) /\ Goes(t, "read")
  /\ UNCHANGED <<count, bit, policy, alive, holder, op, seen, ref>>

(* A lock that is taken whatever the word has become since it was read.    *)
CasLocksAnyway(t) ==
  /\ at[t] = "cas" /\ ~bit /\ NeedsLock(t)
  /\ bit' = TRUE /\ Goes(t, "policy")
  /\ UNCHANGED <<count, policy, alive, holder, op, seen, ref>>

(* GetHandle and the two special counts set the lock bit...                *)
CasLocks(t) ==
  /\ at[t] = "cas" /\ ~bit /\ count = seen[t] /\ NeedsLock(t)
  /\ bit' = TRUE /\ Goes(t, "policy")
  /\ UNCHANGED <<count, policy, alive, holder, op, seen, ref>>

(* ...and the others count at once; the caller destroys what nothing       *)
(* refers to.                                                              *)
CasCounts(t) ==
  /\ at[t] = "cas" /\ ~bit /\ count = seen[t] /\ ~NeedsLock(t)
  /\ Finish(t)
  /\ Goes(t, IF op[t] = "dec" /\ count' = 0 THEN "destroy" ELSE "idle")
  /\ UNCHANGED <<bit, policy, alive, op, seen>>

(* A DecrementLock that never tells the policy.                            *)
TellAddRef(t) ==
  /\ at[t] = "policy" /\ Goes(t, "store")
  /\ policy' = IF op[t] = "inc" THEN policy + 1 ELSE policy
  /\ UNCHANGED <<count, bit, alive, holder, op, seen, ref>>

(* AddRef or Release of the policy, or the read of m_handle.               *)
Tell(t) ==
  /\ at[t] = "policy" /\ Goes(t, "store")
  /\ policy' = CASE op[t] = "inc" -> policy + 1 [] op[t] = "dec" -> policy - 1 [] OTHER -> policy
  /\ UNCHANGED <<count, bit, alive, holder, op, seen, ref>>

(* The plain store that also clears the lock bit.                          *)
Store(t) ==
  /\ at[t] = "store" /\ Goes(t, "idle") /\ bit' = FALSE /\ Finish(t)
  /\ UNCHANGED <<policy, alive, op, seen>>

Destroy(t) ==
  /\ at[t] = "destroy" /\ Goes(t, "idle") /\ alive' = FALSE
  /\ UNCHANGED <<count, bit, policy, holder, op, seen, ref>>

Step(t) == Read(t) \/ CasFails(t) \/ CasLocks(t) \/ CasCounts(t) \/ Tell(t) \/ Store(t) \/ Destroy(t)

IdNext ==
  \E t \in Callers : Step(t) \/ \E o \in {"inc", "dec", "get"}, r \in Refs \cup {NoRef} : Begin(t, o, r)

IdSpec == IdInit /\ [][IdNext]_idVars

-----------------------------------------------------------------------------
(* The word counts the references there are, whether or not it is locked:  *)
(* no increment or decrement of one thread is lost to the compare-exchange *)
(* or the plain store of another.                                          *)
CountsReferences == count = Cardinality(live)

(* Outside the lock the policy has one reference for the object if the     *)
(* identifier has two or more, and none otherwise: concurrent calls never  *)
(* tell it twice or leave it a reference behind.                           *)
KeptWhileShared == ~bit => policy = IF count > 1 THEN 1 ELSE 0

(* The identifier is destroyed at most once, when no thread has or is      *)
(* making a reference to it.                                               *)
DestroyedIsUnused ==
  \A t \in Callers : (at[t] = "destroy" \/ ~alive) =>
    live = {} /\ \A u \in Callers \ {t} : at[u] = "idle"

(* An identifier is counted: references by its word, its object by the     *)
(* policy, and it is destroyed when nobody uses it.                        *)
IdentifierIsCounted ==
  IdTypeOK /\ CountsReferences /\ KeptWhileShared /\ DestroyedIsUnused

(* The operations of all threads together are those of PersistentHandle:   *)
(* each takes effect at one moment, its compare-exchange or its store.     *)
AbstractHandle ==
  INSTANCE PersistentHandle WITH kept <- IF bit THEN count > 1 ELSE policy = 1

ImplementsHandle == AbstractHandle!HandleSpec
=============================================================================
