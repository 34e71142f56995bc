---------------------------- MODULE Threads_proofs ----------------------------
(***************************************************************************)
(* What threads share.  For any number of threads and references: the word *)
(* of a VMIdentifier counts the references, the handle policy is told      *)
(* exactly once of each change, the identifier is destroyed when it is     *)
(* unused, and every step is one of PersistentHandle or changes nothing of *)
(* it.  For any threads, queues and tasks: the queues of tasks are guarded *)
(* by their critical sections, and every step is one of TaskFifo.  For any *)
(* latent functions and delays: each is in one list until it is done, none *)
(* is ready more than a frame early, and a save and a load keep them.      *)
(***************************************************************************)
EXTENDS IdentifierLock, TaskInterface, DelayFunctors, FiniteSetTheorems, SequenceTheorems, TLAPS

Inside(t) == at[t] \in {"policy", "store"}
Working(t) == at[t] \in {"read", "cas", "policy", "store"}
Kept(n) == IF n > 1 THEN 1 ELSE 0

(* One thread at a time has the lock bit, and what it saw stays true.      *)
LockInv ==
  /\ \A t \in Callers : Inside(t) => bit /\ seen[t] = count /\ NeedsLock(t)
  /\ \A t, u \in Callers : Inside(t) /\ Inside(u) => t = u

(* What the policy knows before and after it is told.                      *)
PolicyInv ==
  /\ ~bit => policy = Kept(count)
  /\ \A t \in Callers : at[t] = "policy" => policy = Kept(count)
  /\ \A t \in Callers : at[t] = "store" => policy = Kept(NewCount(t))

(* The references that threads work on are their own.                      *)
RefInv ==
  \A t \in Callers :
    /\ Working(t) => \E s \in Refs : holder[s] = t
    /\ Working(t) /\ op[t] = "inc" => ref[t] \in Refs /\ holder[ref[t]] = NoCaller
    /\ Working(t) /\ op[t] = "dec" => ref[t] \in Refs /\ holder[ref[t]] = t
    /\ ~Working(t) \/ op[t] = "get" => ref[t] = NoRef
    /\ \A u \in Callers : t # u /\ ref[t] # NoRef => ref[t] # ref[u]

IdInv ==
  IdTypeOK /\ LockInv /\ PolicyInv /\ RefInv /\ CountsReferences /\ DestroyedIsUnused

LEMMA LiveIsFinite == IsFiniteSet(live)
PROOF
  BY ReferenceAssumption, FS_Subset DEF live

LEMMA IdInitially == IdInit => IdInv
PROOF
<1> SUFFICES ASSUME IdInit PROVE IdInv
  OBVIOUS
<1>1. PICK r \in Refs, t \in Callers : holder = [s \in Refs |-> IF s = r THEN t ELSE NoCaller]
  BY DEF IdInit
<1>2. IdTypeOK
  BY <1>1 DEF IdInit, IdTypeOK
<1>3. live = {r}
  BY <1>1, ReferenceAssumption DEF live
<1>4. CountsReferences
  BY <1>3, FS_Singleton DEF IdInit, CountsReferences
<1>5. LockInv /\ PolicyInv
  BY DEF IdInit, LockInv, PolicyInv, Inside, Kept
<1>6. RefInv
  BY ReferenceAssumption DEF IdInit, RefInv, Working
<1>7. DestroyedIsUnused
  BY DEF IdInit, DestroyedIsUnused
<1> QED
  BY <1>2, <1>4, <1>5, <1>6, <1>7 DEF IdInv

(* An operation takes effect: the references and the count change by one   *)
(* together, and nobody else is disturbed.                                 *)
LEMMA FinishEffect ==
  ASSUME IdInv, NEW t \in Callers, Working(t), seen[t] = count, Finish(t),
         NEW w \in {"idle", "destroy"}, Goes(t, w), UNCHANGED <<op, seen>>
  PROVE  /\ count' \in Nat /\ count' = NewCount(t) /\ CountsReferences'
         /\ holder' \in [Refs -> Callers \cup {NoCaller}]
         /\ ref' \in [Callers -> Refs \cup {NoRef}]
         /\ at' \in [Callers -> {"idle", "read", "cas", "policy", "store", "destroy"}]
         /\ RefInv'
         /\ op[t] = "inc" => ref[t] \in Refs \ live /\ live' = live \cup {ref[t]} /\ live # {}
         /\ op[t] = "dec" => ref[t] \in live /\ live' = live \ {ref[t]}
         /\ op[t] = "get" => live' = live
PROOF
<1>1. /\ IdTypeOK /\ CountsReferences /\ RefInv /\ op[t] \in {"inc", "dec", "get"}
      /\ count = Cardinality(live) /\ count \in Nat
  BY DEF IdInv, IdTypeOK, CountsReferences
<1>2. PICK s0 \in Refs : holder[s0] = t
  BY <1>1 DEF RefInv
<1>3. s0 \in live /\ NoCaller \notin Callers /\ NoRef \notin Refs
  BY <1>2, ReferenceAssumption DEF live
<1>4. /\ at' = [at EXCEPT ![t] = w] /\ at' \in [Callers -> {"idle", "read", "cas", "policy", "store", "destroy"}]
      /\ ref' = [ref EXCEPT ![t] = NoRef] /\ ref' \in [Callers -> Refs \cup {NoRef}]
      /\ count' = NewCount(t)
  BY <1>1 DEF Finish, Goes, IdTypeOK
<1>5. CASE op[t] = "inc"
  <2>1. ref[t] \in Refs /\ holder[ref[t]] = NoCaller
    BY <1>1, <1>5 DEF RefInv
  <2>2. PICK u \in Callers : holder' = [holder EXCEPT ![ref[t]] = u]
    BY <1>5 DEF Finish
  <2>3. holder' \in [Refs -> Callers \cup {NoCaller}]
    BY <1>1, <2>1, <2>2 DEF IdTypeOK
  <2>4. live' = live \cup {ref[t]} /\ ref[t] \notin live
    BY <1>1, <1>3, <2>1, <2>2 DEF live, IdTypeOK
  <2>5. count' = count + 1
    BY <1>4, <1>5 DEF NewCount
  <2>6. Cardinality(live') = Cardinality(live) + 1
    BY <2>4, LiveIsFinite, FS_AddElement
  <2>7. RefInv'
    <3> SUFFICES ASSUME NEW v \in Callers
                 PROVE  /\ Working(v)' => \E s \in Refs : holder'[s] = v
                        /\ Working(v)' /\ op'[v] = "inc" => ref'[v] \in Refs /\ holder'[ref'[v]] = NoCaller
                        /\ Working(v)' /\ op'[v] = "dec" => ref'[v] \in Refs /\ holder'[ref'[v]] = v
                        /\ ~Working(v)' \/ op'[v] = "get" => ref'[v] = NoRef
                        /\ \A x \in Callers : v # x /\ ref'[v] # NoRef => ref'[v] # ref'[x]
      BY DEF RefInv
    <3>1. CASE v = t
      BY <1>1, <1>4, <3>1 DEF Working, IdTypeOK
    <3>2. CASE v # t
      <4>1. at'[v] = at[v] /\ ref'[v] = ref[v] /\ (Working(v)' <=> Working(v))
        BY <1>1, <1>4, <3>2 DEF Working, IdTypeOK
      <4>2. \A s \in Refs : s # ref[t] => holder'[s] = holder[s]
        BY <1>1, <2>2 DEF IdTypeOK
      <4>3. ref[v] # NoRef => ref[v] # ref[t]
        BY <1>1, <3>2 DEF RefInv
      <4>4. \A s \in Refs : holder[s] = v => s # ref[t]
        BY <1>3, <2>1
      <4>5. \A x \in Callers : ref'[x] \in {ref[x], NoRef}
        BY <1>1, <1>4 DEF IdTypeOK
      <4> QED
        BY <1>1, <1>3, <4>1, <4>2, <4>3, <4>4, <4>5 DEF RefInv
    <3> QED
      BY <3>1, <3>2
  <2> QED
    BY <1>1, <1>3, <1>4, <1>5, <2>1, <2>3, <2>4, <2>5, <2>6, <2>7 DEF CountsReferences
<1>6. CASE op[t] = "dec"
  <2>1. ref[t] \in Refs /\ holder[ref[t]] = t
    BY <1>1, <1>6 DEF RefInv
  <2>2. holder' = [holder EXCEPT ![ref[t]] = NoCaller]
    BY <1>6 DEF Finish
  <2>3. holder' \in [Refs -> Callers \cup {NoCaller}]
    BY <1>1, <2>1, <2>2 DEF IdTypeOK
  <2>4. live' = live \ {ref[t]} /\ ref[t] \in live
    BY <1>1, <1>3, <2>1, <2>2 DEF live, IdTypeOK
  <2>5. count' = count - 1
    BY <1>4, <1>6 DEF NewCount
  <2>6. Cardinality(live') = Cardinality(live) - 1 /\ Cardinality(live) > 0
    <3>1. Cardinality(live) \in Nat /\ Cardinality(live') \in Nat
      BY <2>4, LiveIsFinite, FS_RemoveElement, FS_CardinalityType
    <3>2. Cardinality(live') = Cardinality(live) - 1
      BY <2>4, LiveIsFinite, FS_RemoveElement
    <3> QED
      BY <3>1, <3>2
  <2>7. RefInv'
    <3> SUFFICES ASSUME NEW v \in Callers
                 PROVE  /\ Working(v)' => \E s \in Refs : holder'[s] = v
                        /\ Working(v)' /\ op'[v] = "inc" => ref'[v] \in Refs /\ holder'[ref'[v]] = NoCaller
                        /\ Working(v)' /\ op'[v] = "dec" => ref'[v] \in Refs /\ holder'[ref'[v]] = v
                        /\ ~Working(v)' \/ op'[v] = "get" => ref'[v] = NoRef
                        /\ \A x \in Callers : v # x /\ ref'[v] # NoRef => ref'[v] # ref'[x]
      BY DEF RefInv
    <3>1. CASE v = t
      BY <1>1, <1>4, <3>1 DEF Working, IdTypeOK
    <3>2. CASE v # t
      <4>1. at'[v] = at[v] /\ ref'[v] = ref[v] /\ (Working(v)' <=> Working(v))
        BY <1>1, <1>4, <3>2 DEF Working, IdTypeOK
      <4>2. \A s \in Refs : s # ref[t] => holder'[s] = holder[s]
        BY <1>1, <2>2 DEF IdTypeOK
      <4>3. ref[v] # NoRef => ref[v] # ref[t]
        BY <1>1, <3>2 DEF RefInv
      <4>4. \A s \in Refs : holder[s] = v => s # ref[t]
        BY <2>1, <3>2
      <4>5. \A x \in Callers : ref'[x] \in {ref[x], NoRef}
        BY <1>1, <1>4 DEF IdTypeOK
      <4> QED
        BY <1>1, <1>3, <4>1, <4>2, <4>3, <4>4, <4>5 DEF RefInv
    <3> QED
      BY <3>1, <3>2
  <2> QED
    BY <1>1, <1>3, <1>4, <1>6, <2>1, <2>3, <2>4, <2>5, <2>6, <2>7 DEF CountsReferences
<1>7. CASE op[t] = "get"
  <2>1. holder' = holder /\ live' = live /\ count' = count
    BY <1>4, <1>7 DEF Finish, live, NewCount
  <2>2. RefInv'
    <3>1. \A v \in Callers : v # t => at'[v] = at[v] /\ ref'[v] = ref[v]
      BY <1>1, <1>4 DEF IdTypeOK
    <3>2. ref'[t] = NoRef /\ at'[t] = w
      BY <1>1, <1>4 DEF IdTypeOK
    <3> QED
      BY <1>1, <2>1, <3>1, <3>2 DEF RefInv, Working
  <2> QED
    BY <1>1, <1>4, <1>7, <2>1, <2>2 DEF CountsReferences, IdTypeOK
<1> QED
  BY <1>1, <1>5, <1>6, <1>7

(* While a thread works on the identifier it is there.                     *)
LEMMA WorkingIsAlive ==
  ASSUME IdInv, NEW t \in Callers, Working(t)
  PROVE  alive /\ live # {} /\ \A u \in Callers : at[u] # "destroy"
PROOF
<1>1. PICK s \in Refs : holder[s] = t
  BY DEF IdInv, RefInv
<1>2. live # {}
  BY <1>1, ReferenceAssumption DEF live
<1> QED
  BY <1>2 DEF IdInv, DestroyedIsUnused

-----------------------------------------------------------------------------
LEMMA BeginKeeps ==
  ASSUME IdInv, NEW t \in Callers, NEW o \in {"inc", "dec", "get"}, NEW r \in Refs \cup {NoRef},
         Begin(t, o, r)
  PROVE  IdInv'
PROOF
<1>1. IdTypeOK /\ LockInv /\ PolicyInv /\ RefInv /\ CountsReferences /\ DestroyedIsUnused
  BY DEF IdInv
<1>2. /\ at[t] = "idle" /\ at' = [at EXCEPT ![t] = "read"] /\ op' = [op EXCEPT ![t] = o]
      /\ ref' = [ref EXCEPT ![t] = r] /\ UNCHANGED <<count, bit, policy, alive, holder, seen>>
  BY DEF Begin, Goes
<1>3. IdTypeOK'
  BY <1>1, <1>2 DEF IdTypeOK
<1>4. at'[t] = "read" /\ op'[t] = o /\ ref'[t] = r
  BY <1>1, <1>2 DEF IdTypeOK
<1>5. \A u \in Callers : u # t => at'[u] = at[u] /\ op'[u] = op[u] /\ ref'[u] = ref[u] /\ seen'[u] = seen[u]
  BY <1>1, <1>2 DEF IdTypeOK
<1>6. LockInv'
  BY <1>1, <1>2, <1>4, <1>5 DEF LockInv, Inside, NeedsLock
<1>7. PolicyInv'
  BY <1>1, <1>2, <1>4, <1>5 DEF PolicyInv, Kept, NewCount
<1>8. live' = live /\ CountsReferences'
  BY <1>1, <1>2 DEF live, CountsReferences
<1>9. PICK s \in Refs : holder[s] = t
  BY DEF Begin
<1>10. DestroyedIsUnused'
  <2>1. alive /\ \A u \in Callers : at[u] # "destroy"
    BY <1>1, <1>9, ReferenceAssumption DEF DestroyedIsUnused, live
  <2> QED
    BY <1>2, <1>4, <1>5, <2>1 DEF DestroyedIsUnused
<1>11. RefInv'
  <2>1. \/ o = "inc" /\ r \in Refs /\ holder[r] = NoCaller /\ \A u \in Callers : ref[u] # r
        \/ o = "dec" /\ r \in Refs /\ holder[r] = t
        \/ o = "get" /\ r = NoRef
    BY DEF Begin, live
  <2>2. \A u \in Callers : u # t /\ r # NoRef => ref[u] # r
    <3>1. CASE o = "dec"
      <4> SUFFICES ASSUME NEW u \in Callers, u # t, ref[u] = r PROVE FALSE
        BY <2>1
      <4>1. r \in Refs /\ holder[r] = t /\ ref[u] # NoRef
        BY <2>1, <3>1, ReferenceAssumption
      <4>2. Working(u) /\ op[u] # "get"
        BY <1>1, <4>1 DEF RefInv
      <4>3. op[u] \in {"inc", "dec", "get"}
        BY <1>1 DEF IdTypeOK
      <4> QED
        BY <1>1, <4>1, <4>2, <4>3, ReferenceAssumption DEF RefInv
    <3> QED
      BY <2>1, <3>1
  <2> QED
    BY <1>1, <1>2, <1>4, <1>5, <1>9, <2>1, <2>2 DEF RefInv, Working
<1> QED
  BY <1>3, <1>6, <1>7, <1>8, <1>10, <1>11 DEF IdInv

LEMMA ReadKeeps ==
  ASSUME IdInv, NEW t \in Callers, Read(t) \/ CasFails(t)
  PROVE  IdInv'
PROOF
<1>1. IdTypeOK /\ LockInv /\ PolicyInv /\ RefInv /\ CountsReferences /\ DestroyedIsUnused
  BY DEF IdInv
<1>2. PICK w \in {"read", "cas"} :
        /\ at[t] \in {"read", "cas"} /\ at' = [at EXCEPT ![t] = w]
        /\ UNCHANGED <<count, bit, policy, alive, holder, op, ref>>
        /\ seen' = [seen EXCEPT ![t] = count] \/ seen' = seen
  BY DEF Read, CasFails, Goes
<1>3. IdTypeOK'
  BY <1>1, <1>2 DEF IdTypeOK
<1>4. at'[t] = w
  BY <1>1, <1>2 DEF IdTypeOK
<1>5. \A u \in Callers : u # t => at'[u] = at[u] /\ seen'[u] = seen[u]
  BY <1>1, <1>2 DEF IdTypeOK
<1>6. LockInv'
  BY <1>1, <1>2, <1>4, <1>5 DEF LockInv, Inside, NeedsLock
<1>7. PolicyInv'
  BY <1>1, <1>2, <1>4, <1>5 DEF PolicyInv, Kept, NewCount
<1>8. live' = live /\ CountsReferences'
  BY <1>1, <1>2 DEF live, CountsReferences
<1>9. DestroyedIsUnused'
  <2>1. alive /\ \A u \in Callers : at[u] # "destroy"
    BY <1>2, WorkingIsAlive DEF Working
  <2> QED
    BY <1>2, <1>4, <1>5, <2>1 DEF DestroyedIsUnused
<1>10. RefInv'
  BY <1>1, <1>2, <1>4, <1>5 DEF RefInv, Working
<1> QED
  BY <1>3, <1>6, <1>7, <1>8, <1>9, <1>10 DEF IdInv

LEMMA CasLocksKeeps ==
  ASSUME IdInv, NEW t \in Callers, CasLocks(t)
  PROVE  IdInv'
PROOF
<1>1. IdTypeOK /\ LockInv /\ PolicyInv /\ RefInv /\ CountsReferences /\ DestroyedIsUnused
  BY DEF IdInv
<1>2. /\ at[t] = "cas" /\ at' = [at EXCEPT ![t] = "policy"] /\ ~bit /\ bit' /\ seen[t] = count
      /\ bit' \in BOOLEAN /\ NeedsLock(t) /\ UNCHANGED <<count, policy, alive, holder, op, seen, ref>>
  BY DEF CasLocks, Goes
<1>3. IdTypeOK'
  BY <1>1, <1>2 DEF IdTypeOK
<1>4. at'[t] = "policy" /\ \A u \in Callers : u # t => at'[u] = at[u]
  BY <1>1, <1>2 DEF IdTypeOK
<1>5. \A u \in Callers : ~Inside(u)
  BY <1>1, <1>2 DEF LockInv
<1>6. LockInv'
  BY <1>2, <1>4, <1>5 DEF LockInv, Inside, NeedsLock
<1>7. PolicyInv'
  BY <1>1, <1>2, <1>4, <1>5 DEF PolicyInv, Kept, Inside
<1>8. live' = live /\ CountsReferences'
  BY <1>1, <1>2 DEF live, CountsReferences
<1>9. DestroyedIsUnused'
  <2>1. alive /\ \A u \in Callers : at[u] # "destroy"
    BY <1>2, WorkingIsAlive DEF Working
  <2> QED
    BY <1>2, <1>4, <2>1 DEF DestroyedIsUnused
<1>10. RefInv'
  BY <1>1, <1>2, <1>4 DEF RefInv, Working
<1> QED
  BY <1>3, <1>6, <1>7, <1>8, <1>9, <1>10 DEF IdInv

LEMMA TellKeeps ==
  ASSUME IdInv, NEW t \in Callers, Tell(t)
  PROVE  IdInv'
PROOF
<1>1. IdTypeOK /\ LockInv /\ PolicyInv /\ RefInv /\ CountsReferences /\ DestroyedIsUnused
  BY DEF IdInv
<1>2. /\ at[t] = "policy" /\ at' = [at EXCEPT ![t] = "store"]
      /\ UNCHANGED <<count, bit, alive, holder, op, seen, ref>>
  BY DEF Tell, Goes
<1>3. bit /\ seen[t] = count /\ NeedsLock(t) /\ policy = Kept(count) /\ count \in Nat
  BY <1>1, <1>2 DEF LockInv, PolicyInv, Inside, IdTypeOK
<1>4. at'[t] = "store" /\ \A u \in Callers : u # t => at'[u] = at[u]
  BY <1>1, <1>2 DEF IdTypeOK
<1>5. \A u \in Callers : u # t => ~Inside(u)
  BY <1>1, <1>2 DEF LockInv, Inside
<1>6. policy' = Kept(NewCount(t)) /\ policy' \in Nat
  <2>1. CASE op[t] = "inc" /\ seen[t] = 1
    BY <1>3, <2>1 DEF Tell, NewCount, Kept
  <2>2. CASE op[t] = "dec" /\ seen[t] = 2
    BY <1>3, <2>2 DEF Tell, NewCount, Kept
  <2>3. CASE op[t] = "get"
    BY <1>3, <2>3 DEF Tell, NewCount, Kept
  <2> QED
    BY <1>3, <2>1, <2>2, <2>3 DEF NeedsLock
<1>7. IdTypeOK'
  BY <1>1, <1>2, <1>6 DEF IdTypeOK
<1>8. LockInv'
  BY <1>1, <1>2, <1>3, <1>4, <1>5 DEF LockInv, Inside, NeedsLock
<1>9. PolicyInv'
  <2>1. NewCount(t)' = NewCount(t)
    BY <1>2 DEF NewCount
  <2> QED
    BY <1>2, <1>3, <1>4, <1>5, <1>6, <2>1 DEF PolicyInv, Inside, Kept
<1>10. live' = live /\ CountsReferences'
  BY <1>1, <1>2 DEF live, CountsReferences
<1>11. DestroyedIsUnused'
  <2>1. alive /\ \A u \in Callers : at[u] # "destroy"
    BY <1>2, WorkingIsAlive DEF Working
  <2> QED
    BY <1>2, <1>4, <2>1 DEF DestroyedIsUnused
<1>12. RefInv'
  BY <1>1, <1>2, <1>4 DEF RefInv, Working
<1> QED
  BY <1>7, <1>8, <1>9, <1>10, <1>11, <1>12 DEF IdInv

LEMMA StoreKeeps ==
  ASSUME IdInv, NEW t \in Callers, Store(t)
  PROVE  IdInv'
PROOF
<1>1. IdTypeOK /\ LockInv /\ PolicyInv /\ RefInv /\ CountsReferences /\ DestroyedIsUnused
  BY DEF IdInv
<1>2. /\ at[t] = "store" /\ Goes(t, "idle") /\ at' = [at EXCEPT ![t] = "idle"] /\ bit' = FALSE
      /\ Finish(t) /\ UNCHANGED <<policy, alive, op, seen>>
  BY DEF Store, Goes
<1>3. bit /\ seen[t] = count /\ NeedsLock(t) /\ policy = Kept(NewCount(t))
  BY <1>1, <1>2 DEF LockInv, PolicyInv, Inside
<1>4. at'[t] = "idle" /\ \A u \in Callers : u # t => at'[u] = at[u]
  BY <1>1, <1>2 DEF IdTypeOK
<1>5. \A u \in Callers : u # t => ~Inside(u)
  BY <1>1, <1>2 DEF LockInv, Inside
<1>6. Working(t)
  BY <1>2 DEF Working
<1>7. /\ count' \in Nat /\ count' = NewCount(t) /\ CountsReferences' /\ RefInv'
      /\ holder' \in [Refs -> Callers \cup {NoCaller}] /\ ref' \in [Callers -> Refs \cup {NoRef}]
      /\ at' \in [Callers -> {"idle", "read", "cas", "policy", "store", "destroy"}]
  BY <1>2, <1>3, <1>6, FinishEffect
<1>8. IdTypeOK'
  BY <1>1, <1>2, <1>7 DEF IdTypeOK
<1>9. LockInv'
  BY <1>4, <1>5 DEF LockInv, Inside
<1>10. PolicyInv'
  BY <1>2, <1>3, <1>4, <1>5, <1>7 DEF PolicyInv, Inside, Kept
<1>11. DestroyedIsUnused'
  <2>1. alive /\ \A u \in Callers : at[u] # "destroy"
    BY <1>6, WorkingIsAlive
  <2> QED
    BY <1>2, <1>4, <2>1 DEF DestroyedIsUnused
<1> QED
  BY <1>7, <1>8, <1>9, <1>10, <1>11 DEF IdInv

LEMMA CasCountsKeeps ==
  ASSUME IdInv, NEW t \in Callers, CasCounts(t)
  PROVE  IdInv' /\ Kept(count') = Kept(count)
PROOF
<1>1. IdTypeOK /\ LockInv /\ PolicyInv /\ RefInv /\ CountsReferences /\ DestroyedIsUnused
  BY DEF IdInv
<1> DEFINE w == IF op[t] = "dec" /\ count' = 0 THEN "destroy" ELSE "idle"
<1>2. /\ at[t] = "cas" /\ Goes(t, w) /\ w \in {"idle", "destroy"} /\ ~bit /\ seen[t] = count
      /\ ~NeedsLock(t) /\ Finish(t) /\ UNCHANGED <<bit, policy, alive, op, seen>> /\ Working(t)
  BY DEF CasCounts, Working
<1>3. at' = [at EXCEPT ![t] = w]
  BY <1>2 DEF Goes
<1>4. at'[t] = w /\ \A u \in Callers : u # t => at'[u] = at[u]
  BY <1>1, <1>3 DEF IdTypeOK
<1>5. \A u \in Callers : ~Inside(u)
  BY <1>1, <1>2 DEF LockInv
<1>6. /\ count' \in Nat /\ count' = NewCount(t) /\ CountsReferences' /\ RefInv'
      /\ holder' \in [Refs -> Callers \cup {NoCaller}] /\ ref' \in [Callers -> Refs \cup {NoRef}]
      /\ at' \in [Callers -> {"idle", "read", "cas", "policy", "store", "destroy"}]
      /\ op[t] = "inc" => live # {}
  <2> HIDE DEF w
  <2> QED
    BY <1>2, FinishEffect
<1>7. IdTypeOK'
  BY <1>1, <1>2, <1>6 DEF IdTypeOK
<1>8. LockInv'
  BY <1>2, <1>4, <1>5 DEF LockInv, Inside
<1>9. Kept(count') = Kept(count)
  <2>1. count \in Nat /\ count = Cardinality(live) /\ op[t] \in {"inc", "dec", "get"}
    BY <1>1 DEF IdTypeOK, CountsReferences
  <2>2. CASE op[t] = "inc"
    <3>1. count # 0
      BY <1>6, <2>1, <2>2, LiveIsFinite, FS_EmptySet
    <3>2. count # 1 /\ count' = count + 1
      BY <1>2, <1>6, <2>2 DEF NeedsLock, NewCount
    <3> QED
      BY <2>1, <3>1, <3>2 DEF Kept
  <2>3. CASE op[t] = "dec"
    <3>1. count # 2 /\ count' = count - 1
      BY <1>2, <1>6, <2>3 DEF NeedsLock, NewCount
    <3> QED
      BY <1>6, <2>1, <3>1 DEF Kept
  <2> QED
    BY <1>2, <2>1, <2>2, <2>3 DEF NeedsLock
<1>10. PolicyInv'
  BY <1>1, <1>2, <1>4, <1>5, <1>9 DEF PolicyInv, Inside
<1>11. DestroyedIsUnused'
  <2>1. alive /\ \A u \in Callers : at[u] # "destroy"
    BY <1>2, WorkingIsAlive
  <2> SUFFICES ASSUME NEW v \in Callers, at'[v] = "destroy"
               PROVE  live' = {} /\ \A u \in Callers \ {v} : at'[u] = "idle"
    BY <1>2, <2>1 DEF DestroyedIsUnused
  <2>2. v = t /\ count' = 0
    BY <1>4, <2>1
  <2>3. IsFiniteSet(live')
    BY ReferenceAssumption, FS_Subset DEF live
  <2>4. live' = {}
    BY <1>6, <2>2, <2>3, FS_EmptySet DEF CountsReferences
  <2>5. ASSUME NEW u \in Callers \ {v}, at'[u] # "idle" PROVE FALSE
    <3>1. Working(u)'
      BY <1>4, <1>6, <2>1, <2>2, <2>5 DEF Working
    <3>2. PICK s \in Refs : holder'[s] = u
      BY <1>6, <3>1 DEF RefInv
    <3> QED
      BY <2>4, <3>2, ReferenceAssumption DEF live
  <2> QED
    BY <2>4, <2>5
<1> QED
  BY <1>6, <1>7, <1>8, <1>9, <1>10, <1>11 DEF IdInv

LEMMA DestroyKeeps ==
  ASSUME IdInv, NEW t \in Callers, Destroy(t)
  PROVE  IdInv'
PROOF
<1>1. IdTypeOK /\ LockInv /\ PolicyInv /\ RefInv /\ CountsReferences /\ DestroyedIsUnused
  BY DEF IdInv
<1>2. /\ at[t] = "destroy" /\ at' = [at EXCEPT ![t] = "idle"] /\ alive' = FALSE
      /\ UNCHANGED <<count, bit, policy, holder, op, seen, ref>>
  BY DEF Destroy, Goes
<1>3. at'[t] = "idle" /\ \A u \in Callers : u # t => at'[u] = at[u]
  BY <1>1, <1>2 DEF IdTypeOK
<1>4. live = {} /\ live' = live /\ \A u \in Callers : u # t => at[u] = "idle"
  BY <1>1, <1>2 DEF DestroyedIsUnused, live
<1>5. IdTypeOK'
  BY <1>1, <1>2 DEF IdTypeOK
<1>6. LockInv' /\ PolicyInv' /\ CountsReferences'
  BY <1>1, <1>2, <1>3, <1>4 DEF LockInv, PolicyInv, CountsReferences, Inside, Kept
<1>7. RefInv'
  BY <1>1, <1>2, <1>3 DEF RefInv, Working
<1>8. DestroyedIsUnused'
  BY <1>3, <1>4 DEF DestroyedIsUnused
<1> QED
  BY <1>5, <1>6, <1>7, <1>8 DEF IdInv

LEMMA IdStep == IdInv /\ [IdNext]_idVars => IdInv'
PROOF
<1> SUFFICES ASSUME IdInv, [IdNext]_idVars PROVE IdInv'
  OBVIOUS
<1>1. CASE UNCHANGED idVars
  <2>1. UNCHANGED <<count, bit, policy, alive, holder, at, op, seen, ref>>
    BY <1>1 DEF idVars
  <2>2. live' = live /\ \A t \in Callers : NewCount(t)' = NewCount(t)
    BY <2>1 DEF live, NewCount
  <2> QED
    BY <2>1, <2>2 DEF IdInv, IdTypeOK, LockInv, PolicyInv, RefInv, CountsReferences,
                      DestroyedIsUnused, Inside, Working, NeedsLock, Kept
<1>2. ASSUME NEW t \in Callers, Step(t) PROVE IdInv'
  BY <1>2, ReadKeeps, CasLocksKeeps, CasCountsKeeps, TellKeeps, StoreKeeps, DestroyKeeps DEF Step
<1> QED
  BY <1>1, <1>2, BeginKeeps DEF IdNext

-----------------------------------------------------------------------------
(* The word of the identifier counts its references.                       *)
THEOREM ReferencesAreCounted == IdSpec => []CountsReferences
PROOF
<1>1. IdInv => CountsReferences
  BY DEF IdInv
<1> QED
  BY <1>1, IdInitially, IdStep, PTL DEF IdSpec

(* The handle policy has one reference while the identifier is shared.     *)
THEOREM PolicyIsToldOnce == IdSpec => []KeptWhileShared
PROOF
<1>1. IdInv => KeptWhileShared
  BY DEF IdInv, PolicyInv, KeptWhileShared, Kept
<1> QED
  BY <1>1, IdInitially, IdStep, PTL DEF IdSpec

(* Nobody uses an identifier that is destroyed.                            *)
THEOREM DestroyedOnceUnused == IdSpec => []DestroyedIsUnused
PROOF
<1>1. IdInv => DestroyedIsUnused
  BY DEF IdInv
<1> QED
  BY <1>1, IdInitially, IdStep, PTL DEF IdSpec

(* All of it, for any number of threads and references.                    *)
THEOREM IdentifierAlwaysCounted == IdSpec => []IdentifierIsCounted
PROOF
<1>1. IdInv => IdTypeOK
  BY DEF IdInv
<1>2. IdSpec => []IdTypeOK
  BY <1>1, IdInitially, IdStep, PTL DEF IdSpec
<1> QED
  BY <1>2, ReferencesAreCounted, PolicyIsToldOnce, DestroyedOnceUnused, PTL
  DEF IdentifierIsCounted

-----------------------------------------------------------------------------
LEMMA SharedMeansTwo ==
  ASSUME NEW S, IsFiniteSet(S)
  PROVE  Cardinality(S) > 1 <=> \E q, r \in S : q # r
PROOF
<1>1. Cardinality(S) \in Nat
  BY FS_CardinalityType
<1>2. CASE S = {}
  <2>1. Cardinality(S) = 0
    BY <1>2, FS_EmptySet
  <2> QED
    BY <1>2, <2>1
<1>3. CASE S # {}
  <2>1. PICK q \in S : TRUE
    BY <1>3
  <2>2. CASE S = {q}
    <3>1. Cardinality(S) = 1
      BY <2>2, FS_Singleton
    <3> QED
      BY <2>2, <3>1
  <2>3. CASE S # {q}
    <3>1. PICK r \in S : r # q
      BY <2>1, <2>3
    <3>2. {q, r} \subseteq S /\ Cardinality({q, r}) = 2
      <4>1. IsFiniteSet({q}) /\ Cardinality({q}) = 1 /\ r \notin {q} /\ {q, r} = {q} \cup {r}
        BY <3>1, FS_Singleton
      <4> QED
        BY <2>1, <4>1, FS_AddElement
    <3>3. Cardinality(S) >= 2
      BY <1>1, <3>2, FS_Subset
    <3>4. Cardinality(S) > 1
      BY <1>1, <3>3
    <3> QED
      BY <2>1, <3>1, <3>4
  <2> QED
    BY <2>2, <2>3
<1> QED
  BY <1>2, <1>3

LEMMA AbstractInitially == IdInit => AbstractHandle!HandleInit
PROOF
<1> SUFFICES ASSUME IdInit PROVE AbstractHandle!HandleInit
  OBVIOUS
<1>1. count = 1 /\ bit = FALSE /\ policy = 0
  BY DEF IdInit
<1>2. PICK r \in Refs, t \in Callers : holder = [s \in Refs |-> IF s = r THEN t ELSE NoCaller]
  BY DEF IdInit
<1>3. live = {r}
  BY <1>2, ReferenceAssumption DEF live
<1> QED
  BY <1>1, <1>3 DEF AbstractHandle!HandleInit

(* A step that takes effect is a step of PersistentHandle; any other one   *)
(* changes neither the references nor what the policy is said to keep.     *)
LEMMA AbstractStep ==
  IdInv /\ [IdNext]_idVars => [AbstractHandle!HandleNext]_AbstractHandle!handleVars
PROOF
<1> DEFINE kept == IF bit THEN count > 1 ELSE policy = 1
<1> SUFFICES ASSUME IdInv, [IdNext]_idVars
             PROVE  \/ live' = live /\ kept' = kept
                    \/ /\ \E r \in Refs : AbstractHandle!Acquire(r) \/ AbstractHandle!Drop(r)
                       /\ kept' = (\E q, r \in live' : q # r)
  BY DEF AbstractHandle!HandleNext, AbstractHandle!handleVars
<1>0. IdInv' /\ CountsReferences /\ CountsReferences' /\ count \in Nat /\ count' \in Nat
  BY IdStep DEF IdInv, IdTypeOK
<1>1. kept = (Cardinality(live) > 1) /\ kept' = (Cardinality(live') > 1)
  BY <1>0 DEF IdInv, PolicyInv, CountsReferences, Kept
<1>6. kept' = (\E q, r \in live' : q # r)
  <2>1. IsFiniteSet(live')
    BY ReferenceAssumption, FS_Subset DEF live
  <2>2. Cardinality(live') > 1 <=> \E q, r \in live' : q # r
    BY <2>1, SharedMeansTwo
  <2>3. kept' = (Cardinality(live') > 1) /\ (\E q, r \in live' : q # r) \in BOOLEAN
    BY <1>1
  <2>4. kept' = TRUE <=> \E q, r \in live' : q # r
    BY <2>2, <2>3
  <2>5. kept' \in BOOLEAN
    <3>1. CASE bit'
      <4>1. (count' > 1) \in BOOLEAN
        BY <1>0
      <4>2. kept' = (count' > 1)
        BY <3>1, Zenon
      <4> QED
        BY <4>1, <4>2
    <3>2. CASE ~bit'
      BY <3>2, Zenon
    <3> QED
      BY <3>1, <3>2
  <2> HIDE DEF kept
  <2> QED
    BY <2>4, <2>5
<1>2. ASSUME NEW t \in Callers, CasCounts(t) \/ Store(t)
      PROVE  live' = live \/ \E r \in Refs : AbstractHandle!Acquire(r) \/ AbstractHandle!Drop(r)
  <2>1. PICK w \in {"idle", "destroy"} :
          Working(t) /\ seen[t] = count /\ Finish(t) /\ Goes(t, w) /\ UNCHANGED <<op, seen>>
    <3>1. CASE CasCounts(t)
      BY <3>1 DEF CasCounts, Working
    <3>2. CASE Store(t)
      BY <3>2 DEF Store, Working, IdInv, LockInv, Inside
    <3> QED
      BY <1>2, <3>1, <3>2
  <2>2. /\ op[t] \in {"inc", "dec", "get"}
        /\ op[t] = "inc" => ref[t] \in Refs \ live /\ live' = live \cup {ref[t]} /\ live # {}
        /\ op[t] = "dec" => ref[t] \in live /\ live' = live \ {ref[t]}
        /\ op[t] = "get" => live' = live
    BY <2>1, FinishEffect DEF IdInv, IdTypeOK
  <2>3. live \subseteq Refs
    BY DEF live
  <2> QED
    BY <2>2, <2>3 DEF AbstractHandle!Acquire, AbstractHandle!Drop
<1>3. ASSUME NEW t \in Callers, Step(t), ~CasCounts(t), ~Store(t) PROVE live' = live
  BY <1>3 DEF Step, Read, CasFails, CasLocks, Tell, Destroy, live
<1>4. ASSUME NEW t \in Callers, NEW o \in {"inc", "dec", "get"}, NEW r \in Refs \cup {NoRef}, Begin(t, o, r)
      PROVE  live' = live
  BY <1>4 DEF Begin, live
<1>5. CASE UNCHANGED idVars
  BY <1>5 DEF idVars, live
<1> QED
  BY <1>1, <1>6, <1>2, <1>3, <1>4, <1>5 DEF IdNext

(* VMIdentifier implements PersistentHandle: each call takes effect at one *)
(* moment.                                                                 *)
THEOREM CallsAreAtomic == IdSpec => ImplementsHandle
PROOF
  BY AbstractInitially, AbstractStep, IdInitially, IdStep, PTL
  DEF IdSpec, ImplementsHandle, AbstractHandle!HandleSpec

-----------------------------------------------------------------------------
(* The queues of tasks.  What makes their guard and their order inductive: *)
(* a section that nobody has was left as often as it was entered, a thread *)
(* that has gone into AddTask has a task, which is new to all queues until *)
(* it is pushed, and what is yet to run is the end of what was added.      *)
FreeIsLeft == \A q \in Queues : entered[q] = NoOwner => nesting[q] = 0

AddersHaveTasks == \A t \in GameThreads : step[t] # "enter" => adding[t] # Idle

NewTask(t) == \A p \in Queues : adding[t][2] \notin PushedOn(p)

TasksAreNew ==
  \A t \in GameThreads : adding[t] # Idle =>
    /\ step[t] # "leave" => NewTask(t)
    /\ \A u \in GameThreads : t # u /\ adding[u] # Idle => adding[t][2] # adding[u][2]

RestIsToRun(q) ==
  /\ Len(toRun[q]) <= Len(added[q])
  /\ \A i \in 1..Len(toRun[q]) : toRun[q][i] = added[q][Started(q) + i]

GuardInv == TaskTypeOK /\ QueuesAreGuarded /\ FreeIsLeft /\ AddersHaveTasks
OrderInv == TasksAreNew /\ \A q \in Queues : RestIsToRun(q)

LEMMA TaskIsNotIdle == \A x \in Queues \X Tasks : x # Idle
BY DEF Idle

LEMMA EntriesAreFew ==
  ASSUME NEW t, NEW q
  PROVE  Entries(t, q) \in 0..2
BY DEF Entries

(* What a thread that enters, or leaves, does to the guard if it counts as *)
(* inside once more, or less.                                              *)
LEMMA EnterGuards ==
  ASSUME GuardInv, NEW t \in GameThreads, NEW q \in Queues, Enter(t, q),
         Entries(t, q)' = Entries(t, q) + 1,
         \A u \in GameThreads, p \in Queues : u # t \/ p # q => Entries(u, p)' = Entries(u, p)
  PROVE  /\ entered' \in [Queues -> GameThreads \cup {NoOwner}]
         /\ nesting' \in [Queues -> 0..2] /\ QueuesAreGuarded' /\ FreeIsLeft'
<1>1. /\ entered \in [Queues -> GameThreads \cup {NoOwner}] /\ nesting \in [Queues -> 0..2]
      /\ QueuesAreGuarded /\ FreeIsLeft /\ NoOwner \notin GameThreads
  BY TaskAssumption DEF GuardInv, TaskTypeOK
<1>2. /\ entered' = [entered EXCEPT ![q] = t] /\ nesting' = [nesting EXCEPT ![q] = @ + 1]
      /\ entered[q] \in {NoOwner, t}
  BY DEF Enter
<1>3. Entries(t, q) = nesting[q]
  BY <1>1, <1>2 DEF QueuesAreGuarded, FreeIsLeft
<1>4. Entries(t, q)' \in 0..2
  BY DEF Entries
<1>5. nesting[q] + 1 \in 0..2
  BY <1>1, <1>3, <1>4
<1>6. nesting' \in [Queues -> 0..2] /\ entered' \in [Queues -> GameThreads \cup {NoOwner}]
  BY <1>1, <1>2, <1>5
<1>7. ASSUME NEW p \in Queues, NEW u \in GameThreads
      PROVE  Entries(u, p)' = IF entered'[p] = u THEN nesting'[p] ELSE 0
  <2>1. CASE p # q
    BY <1>1, <1>2, <2>1 DEF QueuesAreGuarded
  <2>2. CASE p = q /\ u = t
    BY <1>1, <1>2, <1>3, <2>2
  <2>3. CASE p = q /\ u # t
    BY <1>1, <1>2, <2>3 DEF QueuesAreGuarded
  <2>4. QED
    BY <2>1, <2>2, <2>3
<1>8. FreeIsLeft'
  BY <1>1, <1>2 DEF FreeIsLeft
<1>9. QED
  BY <1>6, <1>7, <1>8 DEF QueuesAreGuarded

LEMMA LeaveGuards ==
  ASSUME GuardInv, NEW t \in GameThreads, NEW q \in Queues, Leave(t, q),
         Entries(t, q)' = Entries(t, q) - 1,
         \A u \in GameThreads, p \in Queues : u # t \/ p # q => Entries(u, p)' = Entries(u, p)
  PROVE  /\ entered' \in [Queues -> GameThreads \cup {NoOwner}]
         /\ nesting' \in [Queues -> 0..2] /\ QueuesAreGuarded' /\ FreeIsLeft'
<1>1. /\ entered \in [Queues -> GameThreads \cup {NoOwner}] /\ nesting \in [Queues -> 0..2]
      /\ QueuesAreGuarded /\ FreeIsLeft /\ NoOwner \notin GameThreads
  BY TaskAssumption DEF GuardInv, TaskTypeOK
<1>2. /\ entered' = [entered EXCEPT ![q] = IF nesting[q] = 1 THEN NoOwner ELSE t]
      /\ nesting' = [nesting EXCEPT ![q] = @ - 1] /\ entered[q] = t
  BY DEF Leave
<1>3. Entries(t, q) = nesting[q]
  BY <1>1, <1>2 DEF QueuesAreGuarded
<1>4. Entries(t, q)' \in 0..2
  BY DEF Entries
<1>5. nesting[q] - 1 \in 0..2
  BY <1>1, <1>3, <1>4
<1>6. nesting' \in [Queues -> 0..2] /\ entered' \in [Queues -> GameThreads \cup {NoOwner}]
  BY <1>1, <1>2, <1>5
<1>7. ASSUME NEW p \in Queues, NEW u \in GameThreads
      PROVE  Entries(u, p)' = IF entered'[p] = u THEN nesting'[p] ELSE 0
  <2>1. CASE p # q
    BY <1>1, <1>2, <2>1 DEF QueuesAreGuarded
  <2>2. CASE p = q /\ u = t
    BY <1>1, <1>2, <1>3, <2>2
  <2>3. CASE p = q /\ u # t
    BY <1>1, <1>2, <2>3 DEF QueuesAreGuarded
  <2>4. QED
    BY <2>1, <2>2, <2>3
<1>8. FreeIsLeft'
  BY <1>1, <1>2 DEF FreeIsLeft
<1>9. QED
  BY <1>6, <1>7, <1>8 DEF QueuesAreGuarded

(* A step that leaves the critical sections and everybody's place alone.   *)
LEMMA OutsideGuards ==
  ASSUME GuardInv, entered' = entered, nesting' = nesting,
         \A u \in GameThreads, p \in Queues : Entries(u, p)' = Entries(u, p)
  PROVE  /\ entered' \in [Queues -> GameThreads \cup {NoOwner}]
         /\ nesting' \in [Queues -> 0..2] /\ QueuesAreGuarded' /\ FreeIsLeft'
BY DEF GuardInv, TaskTypeOK, QueuesAreGuarded, FreeIsLeft

LEMMA AddGuards ==
  ASSUME GuardInv, NEW t \in GameThreads, Adding(t)
  PROVE  GuardInv'
<1>1. PICK q \in Queues, task \in Tasks : adding[t] = <<q, task>>
  BY DEF GuardInv, TaskTypeOK, AddersHaveTasks, Adding, AddEnter, AddPush, AddLeave
<1>2. /\ adding[t] # Idle /\ adding[t][1] = q /\ adding[t][2] = task
  BY <1>1, TaskIsNotIdle
<1>3. /\ step \in [GameThreads -> {"enter", "push", "leave"}]
      /\ adding \in [GameThreads -> {Idle} \cup Queues \X Tasks]
  BY DEF GuardInv, TaskTypeOK
<1>4. drain' = drain /\ running' = running
      /\ \A u \in GameThreads \ {t} : adding'[u] = adding[u] /\ step'[u] = step[u]
  BY <1>3 DEF Adding, AddEnter, AddPush, AddLeave
<1>5. \A u \in GameThreads, p \in Queues : u # t \/ p # q =>
        (adding'[t] = adding[t] \/ adding'[t] = Idle => Entries(u, p)' = Entries(u, p))
  BY <1>2, <1>4 DEF Entries
<1>6. CASE AddEnter(t)
  <2>1. step'[t] = "push" /\ step[t] = "enter" /\ adding' = adding /\ Enter(t, q)
        /\ UNCHANGED <<toRun, added>>
    BY <1>2, <1>3, <1>6 DEF AddEnter
  <2>2. Entries(t, q)' = Entries(t, q) + 1
    BY <1>2, <1>4, <2>1 DEF Entries
  <2>3. /\ entered' \in [Queues -> GameThreads \cup {NoOwner}]
        /\ nesting' \in [Queues -> 0..2] /\ QueuesAreGuarded' /\ FreeIsLeft'
    BY <1>5, <2>1, <2>2, EnterGuards
  <2>4. step' \in [GameThreads -> {"enter", "push", "leave"}] /\ AddersHaveTasks'
    BY <1>2, <1>3, <1>4, <1>6, <2>1 DEF AddEnter, AddersHaveTasks, GuardInv
  <2>5. QED
    BY <1>4, <2>1, <2>3, <2>4 DEF GuardInv, TaskTypeOK
<1>7. CASE AddPush(t)
  <2>1. /\ step[t] = "push" /\ step'[t] = "leave" /\ adding' = adding
        /\ UNCHANGED <<entered, nesting>>
        /\ toRun' = [toRun EXCEPT ![q] = Append(@, task)]
        /\ added' = [added EXCEPT ![q] = Append(@, task)]
    BY <1>2, <1>3, <1>7 DEF AddPush
  <2>2. \A u \in GameThreads, p \in Queues : Entries(u, p)' = Entries(u, p)
    BY <1>4, <2>1 DEF Entries
  <2>3. /\ entered' \in [Queues -> GameThreads \cup {NoOwner}]
        /\ nesting' \in [Queues -> 0..2] /\ QueuesAreGuarded' /\ FreeIsLeft'
    BY <2>1, <2>2, OutsideGuards
  <2>4. step' \in [GameThreads -> {"enter", "push", "leave"}] /\ AddersHaveTasks'
    BY <1>2, <1>3, <1>4, <1>7, <2>1 DEF AddPush, AddersHaveTasks, GuardInv
  <2>5. toRun' \in [Queues -> Seq(Tasks)] /\ added' \in [Queues -> Seq(Tasks)]
    BY <2>1 DEF GuardInv, TaskTypeOK
  <2>6. QED
    BY <1>4, <2>1, <2>3, <2>4, <2>5 DEF GuardInv, TaskTypeOK
<1>8. CASE AddLeave(t)
  <2>0. adding' = [adding EXCEPT ![t] = Idle]
    BY <1>8 DEF AddLeave
  <2>1. step'[t] = "enter" /\ step[t] = "leave" /\ Leave(t, q) /\ UNCHANGED <<toRun, added>>
    BY <1>2, <1>3, <1>8 DEF AddLeave
  <2>2. Entries(t, q)' = Entries(t, q) - 1
    BY <1>2, <1>4, <2>1 DEF Entries
  <2>3. \A u \in GameThreads, p \in Queues : u # t \/ p # q => Entries(u, p)' = Entries(u, p)
    BY <1>2, <1>4, <2>1 DEF Entries
  <2>4. /\ entered' \in [Queues -> GameThreads \cup {NoOwner}]
        /\ nesting' \in [Queues -> 0..2] /\ QueuesAreGuarded' /\ FreeIsLeft'
    BY <2>1, <2>2, <2>3, LeaveGuards
  <2>5. step' \in [GameThreads -> {"enter", "push", "leave"}]
    BY <1>3, <1>8 DEF AddLeave
  <2>6. AddersHaveTasks'
    BY <1>4, <2>1 DEF AddersHaveTasks, GuardInv
  <2>7. adding' \in [GameThreads -> {Idle} \cup Queues \X Tasks]
    BY <1>3, <2>0
  <2>8. QED
    BY <1>4, <2>1, <2>4, <2>5, <2>6, <2>7 DEF GuardInv, TaskTypeOK
<1>9. QED
  BY <1>6, <1>7, <1>8 DEF Adding

LEMMA DrainGuards ==
  ASSUME GuardInv, NEW q \in Queues, Come(q) \/ Draining(q)
  PROVE  GuardInv'
<1>1. PICK t \in GameThreads : t = Pump[q]
  BY TaskAssumption
<1>2. /\ drain \in [Queues -> {"idle", "enter", "loop"}] /\ toRun \in [Queues -> Seq(Tasks)]
      /\ running \in [Queues -> Tasks \cup {NoTask}]
  BY DEF GuardInv, TaskTypeOK
<1>3. /\ adding' = adding /\ step' = step /\ added' = added
      /\ \A p \in Queues \ {q} : drain'[p] = drain[p]
  BY <1>2 DEF Come, Draining, DrainEnter, RunNext, RunEnds, DrainLeave
<1>4. \A u \in GameThreads, p \in Queues : u # t \/ p # q => Entries(u, p)' = Entries(u, p)
  BY <1>1, <1>3 DEF Entries
<1>5. AddersHaveTasks' /\ /\ drain' \in [Queues -> {"idle", "enter", "loop"}]
                         /\ toRun' \in [Queues -> Seq(Tasks)]
                         /\ running' \in [Queues -> Tasks \cup {NoTask}]
  <2>1. AddersHaveTasks'
    BY <1>3 DEF GuardInv, AddersHaveTasks
  <2>2. drain' \in [Queues -> {"idle", "enter", "loop"}]
    BY <1>2 DEF Come, Draining, DrainEnter, RunNext, RunEnds, DrainLeave
  <2>3. CASE RunNext(q)
    <3>1. toRun[q] \in Seq(Tasks) /\ toRun[q] # << >>
      BY <1>2, <2>3 DEF RunNext
    <3>2. Head(toRun[q]) \in Tasks /\ Tail(toRun[q]) \in Seq(Tasks)
      BY <3>1
    <3>3. QED
      BY <1>2, <2>1, <2>2, <2>3, <3>2 DEF RunNext
  <2>4. CASE ~RunNext(q)
    BY <1>2, <2>1, <2>2, <2>4 DEF Come, Draining, DrainEnter, RunEnds, DrainLeave
  <2>5. QED
    BY <2>3, <2>4
<1>6. ASSUME entered' \in [Queues -> GameThreads \cup {NoOwner}], nesting' \in [Queues -> 0..2],
             QueuesAreGuarded', FreeIsLeft'
      PROVE  GuardInv'
  BY <1>3, <1>5, <1>6 DEF GuardInv, TaskTypeOK
<1>7. CASE DrainEnter(q)
  <2>1. Enter(t, q) /\ drain[q] = "enter" /\ drain'[q] = "loop"
    BY <1>1, <1>2, <1>7 DEF DrainEnter
  <2>2. Entries(t, q)' = Entries(t, q) + 1
    BY <1>1, <1>3, <2>1 DEF Entries
  <2>3. QED
    BY <1>4, <1>6, <2>1, <2>2, EnterGuards
<1>8. CASE DrainLeave(q)
  <2>1. Leave(t, q) /\ drain[q] = "loop" /\ drain'[q] = "idle"
    BY <1>1, <1>2, <1>8 DEF DrainLeave
  <2>2. Entries(t, q)' = Entries(t, q) - 1
    BY <1>1, <1>3, <2>1 DEF Entries
  <2>3. QED
    BY <1>4, <1>6, <2>1, <2>2, LeaveGuards
<1>9. CASE Come(q) \/ RunNext(q) \/ RunEnds(q)
  <2>1. /\ entered' = entered /\ nesting' = nesting
        /\ drain'[q] = "loop" <=> drain[q] = "loop"
    BY <1>2, <1>9 DEF Come, RunNext, RunEnds
  <2>2. Entries(t, q)' = Entries(t, q)
    BY <1>3, <2>1 DEF Entries
  <2>3. \A u \in GameThreads, p \in Queues : Entries(u, p)' = Entries(u, p)
    BY <1>4, <2>2
  <2>4. QED
    BY <1>6, <2>1, <2>3, OutsideGuards
<1>10. QED
  BY <1>7, <1>8, <1>9 DEF Draining

LEMMA CallGuards ==
  ASSUME GuardInv, NEW t \in GameThreads, NEW q \in Queues, NEW task \in Tasks,
         CallAdd(t, q, task)
  PROVE  GuardInv'
<1>1. /\ adding \in [GameThreads -> {Idle} \cup Queues \X Tasks] /\ adding[t] = Idle
      /\ adding' = [adding EXCEPT ![t] = <<q, task>>] /\ step[t] = "enter"
      /\ UNCHANGED <<entered, nesting, toRun, running, drain, step, added>>
  BY DEF GuardInv, TaskTypeOK, AddersHaveTasks, CallAdd
<1>2. \A u \in GameThreads, p \in Queues : Entries(u, p)' = Entries(u, p)
  BY <1>1 DEF Entries
<1>3. adding' \in [GameThreads -> {Idle} \cup Queues \X Tasks]
  BY <1>1
<1>4. AddersHaveTasks'
  BY <1>1 DEF GuardInv, AddersHaveTasks
<1>5. QED
  BY <1>1, <1>2, <1>3, <1>4, OutsideGuards DEF GuardInv, TaskTypeOK

LEMMA GuardInitially == TaskInit => GuardInv
<1> SUFFICES ASSUME TaskInit PROVE GuardInv
  OBVIOUS
<1>1. TaskTypeOK
  BY DEF TaskInit, TaskTypeOK
<1>2. \A t \in GameThreads, q \in Queues : Entries(t, q) = 0
  BY DEF TaskInit, Entries
<1>3. QED
  BY <1>1, <1>2, TaskAssumption
     DEF TaskInit, GuardInv, QueuesAreGuarded, FreeIsLeft, AddersHaveTasks

LEMMA GuardStep == GuardInv /\ [TaskNext]_taskVars => GuardInv'
<1> SUFFICES ASSUME GuardInv, [TaskNext]_taskVars PROVE GuardInv'
  OBVIOUS
<1>1. CASE UNCHANGED taskVars
  <2>1. \A u \in GameThreads, p \in Queues : Entries(u, p)' = Entries(u, p)
    BY <1>1 DEF taskVars, Entries
  <2>2. QED
    BY <1>1, <2>1
       DEF taskVars, GuardInv, TaskTypeOK, QueuesAreGuarded, FreeIsLeft, AddersHaveTasks
<1>2. QED
  BY <1>1, CallGuards, AddGuards, DrainGuards DEF TaskNext

-----------------------------------------------------------------------------
(* Tasks stay new until they are pushed, and in order until they are run.  *)
LEMMA CallOrders ==
  ASSUME GuardInv, OrderInv, NEW t \in GameThreads, NEW q \in Queues, NEW task \in Tasks,
         CallAdd(t, q, task)
  PROVE  OrderInv'
<1>1. /\ adding \in [GameThreads -> {Idle} \cup Queues \X Tasks] /\ adding[t] = Idle
      /\ adding' = [adding EXCEPT ![t] = <<q, task>>] /\ task \notin Spent
      /\ UNCHANGED <<toRun, step, added>>
  BY DEF GuardInv, TaskTypeOK, CallAdd
<1>2. \A p \in Queues : task \notin PushedOn(p)
  BY <1>1 DEF Spent
<1>3. ASSUME NEW u \in GameThreads, adding[u] # Idle PROVE adding[u][2] # task
  <2>1. adding[u][2] \in {adding[v][2] : v \in {w \in GameThreads : adding[w] # Idle}}
    BY <1>3
  <2>2. task \notin {adding[v][2] : v \in {w \in GameThreads : adding[w] # Idle}}
    BY <1>1 DEF Spent
  <2>3. QED
    BY <2>1, <2>2
<1>4. adding'[t][2] = task /\ \A u \in GameThreads \ {t} : adding'[u] = adding[u]
  BY <1>1
<1>5. \A p \in Queues : PushedOn(p)' = PushedOn(p)
  BY <1>1 DEF PushedOn
<1>6. TasksAreNew'
  BY <1>1, <1>2, <1>3, <1>4, <1>5 DEF OrderInv, TasksAreNew, NewTask
<1>7. QED
  BY <1>1, <1>6 DEF OrderInv, RestIsToRun, Started

LEMMA AddOrders ==
  ASSUME GuardInv, OrderInv, NEW t \in GameThreads, Adding(t)
  PROVE  OrderInv'
<1>1. PICK q \in Queues, task \in Tasks : adding[t] = <<q, task>>
  BY DEF GuardInv, TaskTypeOK, AddersHaveTasks, Adding, AddEnter, AddPush, AddLeave
<1>2. /\ adding[t] # Idle /\ adding[t][1] = q /\ adding[t][2] = task
  BY <1>1, TaskIsNotIdle
<1>3. /\ step \in [GameThreads -> {"enter", "push", "leave"}]
      /\ adding \in [GameThreads -> {Idle} \cup Queues \X Tasks]
      /\ toRun \in [Queues -> Seq(Tasks)] /\ added \in [Queues -> Seq(Tasks)]
  BY DEF GuardInv, TaskTypeOK
<1>4. \A u \in GameThreads \ {t} : adding'[u] = adding[u] /\ step'[u] = step[u]
  BY <1>3 DEF Adding, AddEnter, AddPush, AddLeave
<1>5. CASE AddEnter(t) \/ AddLeave(t)
  <2>1. /\ UNCHANGED <<toRun, added>>
        /\ \/ adding'[t] = Idle
           \/ adding'[t] = adding[t] /\ step[t] # "leave"
    BY <1>3, <1>5 DEF AddEnter, AddLeave
  <2>2. \A p \in Queues : PushedOn(p)' = PushedOn(p)
    BY <2>1 DEF PushedOn
  <2>3. TasksAreNew'
    BY <1>4, <2>1, <2>2 DEF OrderInv, TasksAreNew, NewTask
  <2>4. QED
    BY <2>1, <2>3 DEF OrderInv, RestIsToRun, Started
<1>6. CASE AddPush(t)
  <2>1. /\ step'[t] = "leave" /\ adding' = adding /\ step[t] = "push"
        /\ toRun' = [toRun EXCEPT ![q] = Append(@, task)]
        /\ added' = [added EXCEPT ![q] = Append(@, task)]
    BY <1>2, <1>3, <1>6 DEF AddPush
  <2>2. \A p \in Queues : PushedOn(p)' \subseteq PushedOn(p) \cup {task}
    <3>1. SUFFICES ASSUME NEW p \in Queues, NEW i \in DOMAIN added'[p]
                   PROVE  added'[p][i] \in PushedOn(p) \cup {task}
      BY DEF PushedOn
    <3>2. CASE p # q
      BY <1>3, <2>1, <3>1, <3>2 DEF PushedOn
    <3>3. CASE p = q
      <4>1. added[q] \in Seq(Tasks) /\ added'[q] = Append(added[q], task)
        BY <1>3, <2>1
      <4>2. i \in 1..(Len(added[q]) + 1) /\ DOMAIN added[q] = 1..Len(added[q])
        BY <3>1, <3>3, <4>1
      <4>3. added'[q][i] = IF i \in DOMAIN added[q] THEN added[q][i] ELSE task
        BY <4>1, <4>2
      <4>4. QED
        BY <3>3, <4>3 DEF PushedOn
    <3>4. QED
      BY <3>2, <3>3
  <2>3. TasksAreNew'
    BY <1>2, <1>4, <2>1, <2>2 DEF OrderInv, TasksAreNew, NewTask
  <2>4. ASSUME NEW p \in Queues PROVE RestIsToRun(p)'
    <3>1. toRun[p] \in Seq(Tasks) /\ added[p] \in Seq(Tasks) /\ RestIsToRun(p)
      BY <1>3 DEF OrderInv
    <3>2. CASE p # q
      BY <1>3, <2>1, <3>1, <3>2 DEF RestIsToRun, Started
    <3>3. CASE p = q
      <4>1. toRun'[p] = Append(toRun[p], task) /\ added'[p] = Append(added[p], task)
        BY <1>3, <2>1, <3>3
      <4>2. /\ Len(toRun'[p]) = Len(toRun[p]) + 1 /\ Len(added'[p]) = Len(added[p]) + 1
            /\ Started(p)' = Started(p) /\ Started(p) \in Nat
            /\ Started(p) + Len(toRun[p]) = Len(added[p])
        <5>1. Len(toRun'[p]) = Len(toRun[p]) + 1 /\ Len(added'[p]) = Len(added[p]) + 1
          BY <3>1, <4>1
        <5>2. Len(toRun[p]) \in Nat /\ Len(added[p]) \in Nat /\ Len(toRun[p]) <= Len(added[p])
          BY <3>1 DEF RestIsToRun
        <5>3. QED
          BY <5>1, <5>2 DEF Started
      <4>3. ASSUME NEW i \in 1..Len(toRun'[p])
            PROVE  toRun'[p][i] = added'[p][Started(p) + i]
        <5>1. CASE i = Len(toRun[p]) + 1
          <6>1. Started(p) + i = Len(added[p]) + 1
            BY <3>1, <4>2, <5>1
          <6>2. QED
            BY <3>1, <4>1, <5>1, <6>1
        <5>2. CASE i # Len(toRun[p]) + 1
          <6>1. i \in 1..Len(toRun[p]) /\ Started(p) + i \in 1..Len(added[p])
            BY <3>1, <4>2, <5>2, SMTT(40)
          <6>2. toRun'[p][i] = toRun[p][i] /\ added'[p][Started(p) + i] = added[p][Started(p) + i]
            BY <3>1, <4>1, <6>1
          <6>3. QED
            BY <3>1, <6>1, <6>2 DEF RestIsToRun
        <5>3. QED
          BY <5>1, <5>2
      <4>4. Len(toRun'[p]) <= Len(added'[p])
        BY <3>1, <4>2 DEF RestIsToRun
      <4>5. QED
        BY <4>2, <4>3, <4>4 DEF RestIsToRun
    <3>4. QED
      BY <3>2, <3>3
  <2>5. QED
    BY <2>3, <2>4 DEF OrderInv
<1>7. QED
  BY <1>5, <1>6 DEF Adding

LEMMA DrainOrders ==
  ASSUME GuardInv, OrderInv, NEW q \in Queues, Come(q) \/ Draining(q)
  PROVE  OrderInv'
<1>1. /\ toRun \in [Queues -> Seq(Tasks)] /\ added \in [Queues -> Seq(Tasks)]
      /\ adding' = adding /\ step' = step /\ added' = added
  BY DEF GuardInv, TaskTypeOK, Come, Draining, DrainEnter, RunNext, RunEnds, DrainLeave
<1>2. \A p \in Queues : PushedOn(p)' = PushedOn(p)
  BY <1>1 DEF PushedOn
<1>3. TasksAreNew'
  BY <1>1, <1>2 DEF OrderInv, TasksAreNew, NewTask
<1>4. CASE RunNext(q)
  <2>1. toRun' = [toRun EXCEPT ![q] = Tail(@)] /\ toRun[q] # << >>
    BY <1>4 DEF RunNext
  <2>2. ASSUME NEW p \in Queues PROVE RestIsToRun(p)'
    <3>1. toRun[p] \in Seq(Tasks) /\ added[p] \in Seq(Tasks) /\ RestIsToRun(p)
      BY <1>1 DEF OrderInv
    <3>2. CASE p # q
      BY <1>1, <2>1, <3>1, <3>2 DEF RestIsToRun, Started
    <3>3. CASE p = q
      <4>1. toRun'[p] = Tail(toRun[p]) /\ toRun[p] # << >>
        BY <1>1, <2>1, <3>3
      <4>2. /\ Len(toRun[p]) \in Nat \ {0} /\ Len(toRun'[p]) = Len(toRun[p]) - 1
            /\ \A i \in 1..Len(toRun'[p]) : toRun'[p][i] = toRun[p][i + 1]
        BY <3>1, <4>1
      <4>3. Len(added[p]) \in Nat /\ Len(toRun[p]) <= Len(added[p])
        BY <3>1 DEF RestIsToRun
      <4>4. Started(p)' = Started(p) + 1 /\ Started(p) \in Nat
        BY <1>1, <4>2, <4>3 DEF Started
      <4>5. ASSUME NEW i \in 1..Len(toRun'[p])
            PROVE  toRun'[p][i] = added[p][Started(p)' + i]
        <5>1. i + 1 \in 1..Len(toRun[p]) /\ Started(p)' + i = Started(p) + (i + 1)
          <6>1. i + 1 \in 1..Len(toRun[p]) /\ i \in Nat
            BY <4>2
          <6>2. Started(p)' + i = Started(p) + (i + 1)
            BY <4>4, <6>1
          <6>3. QED
            BY <6>1, <6>2
        <5>2. QED
          BY <3>1, <4>2, <5>1 DEF RestIsToRun
      <4>6. QED
        BY <1>1, <4>2, <4>3, <4>5 DEF RestIsToRun, Started
    <3>4. QED
      BY <3>2, <3>3
  <2>3. QED
    BY <1>3, <2>2 DEF OrderInv
<1>5. CASE ~RunNext(q)
  <2>1. toRun' = toRun
    BY <1>5 DEF Come, Draining, DrainEnter, RunEnds, DrainLeave
  <2>2. QED
    BY <1>1, <1>3, <2>1 DEF OrderInv, RestIsToRun, Started
<1>6. QED
  BY <1>4, <1>5

LEMMA OrderInitially == TaskInit => OrderInv
BY DEF TaskInit, OrderInv, TasksAreNew, RestIsToRun

LEMMA OrderStep == GuardInv /\ OrderInv /\ [TaskNext]_taskVars => OrderInv'
<1> SUFFICES ASSUME GuardInv, OrderInv, [TaskNext]_taskVars PROVE OrderInv'
  OBVIOUS
<1>1. CASE UNCHANGED taskVars
  <2>1. \A p \in Queues : PushedOn(p)' = PushedOn(p)
    BY <1>1 DEF taskVars, PushedOn
  <2>2. QED
    BY <1>1, <2>1 DEF taskVars, OrderInv, TasksAreNew, NewTask, RestIsToRun, Started
<1>2. QED
  BY <1>1, CallOrders, AddOrders, DrainOrders DEF TaskNext

-----------------------------------------------------------------------------
(* Every step is one of TaskFifo: a push accepts a task that no queue was  *)
(* given, the start of a task takes the one that was accepted next.        *)
LEMMA FifoInitially == TaskInit => Fifo!FifoInit
<1> SUFFICES ASSUME TaskInit PROVE Fifo!FifoInit
  OBVIOUS
<1>1. \A q \in Queues : Started(q) = 0
  BY DEF TaskInit, Started
<1>2. [q \in Queues |-> Started(q)] = [q \in Queues |-> 0]
  BY <1>1
<1>3. QED
  BY <1>2 DEF TaskInit, Fifo!FifoInit

LEMMA PushSubmits ==
  ASSUME GuardInv, OrderInv, NEW t \in GameThreads, AddPush(t)
  PROVE  \E q \in Queues, task \in Tasks : Fifo!Submit(q, task)
<1>1. PICK q \in Queues, task \in Tasks : adding[t] = <<q, task>>
  BY DEF GuardInv, TaskTypeOK, AddersHaveTasks, AddPush
<1>2. adding[t] # Idle /\ adding[t][1] = q /\ adding[t][2] = task
  BY <1>1, TaskIsNotIdle
<1>3. /\ toRun \in [Queues -> Seq(Tasks)] /\ added \in [Queues -> Seq(Tasks)]
      /\ step[t] = "push" /\ running' = running
      /\ toRun' = [toRun EXCEPT ![q] = Append(@, task)]
      /\ added' = [added EXCEPT ![q] = Append(@, task)]
  BY <1>2 DEF GuardInv, TaskTypeOK, AddPush
<1>4. \A p \in Queues : \A i \in DOMAIN added[p] : added[p][i] # task
  BY <1>2, <1>3 DEF OrderInv, TasksAreNew, NewTask, PushedOn
<1>5. ASSUME NEW p \in Queues PROVE Started(p)' = Started(p)
  <2>1. CASE p # q
    BY <1>3, <2>1 DEF Started
  <2>2. CASE p = q
    <3>1. toRun[q] \in Seq(Tasks) /\ added[q] \in Seq(Tasks)
      BY <1>3
    <3>2. Len(toRun'[q]) = Len(toRun[q]) + 1 /\ Len(added'[q]) = Len(added[q]) + 1
      BY <1>3, <3>1
    <3>3. Len(toRun[q]) \in Nat /\ Len(added[q]) \in Nat
      BY <3>1
    <3>4. QED
      BY <2>2, <3>2, <3>3 DEF Started
  <2>3. QED
    BY <2>1, <2>2
<1>6. [p \in Queues |-> Started(p)]' = [p \in Queues |-> Started(p)]
  BY <1>5
<1>7. Fifo!Submit(q, task)
  BY <1>3, <1>4, <1>6 DEF Fifo!Submit
<1>8. QED
  BY <1>7

LEMMA RunStarts ==
  ASSUME GuardInv, OrderInv, NEW q \in Queues, RunNext(q)
  PROVE  Fifo!Start(q)
<1>1. /\ toRun \in [Queues -> Seq(Tasks)] /\ added' = added
      /\ running[q] = NoTask /\ toRun[q] # << >>
      /\ running' = [running EXCEPT ![q] = Head(toRun[q])]
      /\ toRun' = [toRun EXCEPT ![q] = Tail(@)]
      /\ added[q] \in Seq(Tasks) /\ RestIsToRun(q)
  BY DEF GuardInv, TaskTypeOK, OrderInv, RunNext
<1>2. toRun[q] \in Seq(Tasks) /\ toRun'[q] = Tail(toRun[q])
  BY <1>1
<1>3. /\ Len(toRun[q]) \in Nat \ {0} /\ Len(toRun'[q]) = Len(toRun[q]) - 1
      /\ Head(toRun[q]) = toRun[q][1] /\ 1 \in 1..Len(toRun[q])
  BY <1>1, <1>2
<1>4. Len(added[q]) \in Nat /\ Len(toRun[q]) <= Len(added[q])
  BY <1>1 DEF RestIsToRun
<1>5. Started(q) \in Nat /\ Started(q) < Len(added[q]) /\ Started(q)' = Started(q) + 1
  BY <1>1, <1>3, <1>4 DEF Started
<1>6. Head(toRun[q]) = added[q][Started(q) + 1]
  BY <1>1, <1>3 DEF RestIsToRun
<1>7. \A p \in Queues \ {q} : Started(p)' = Started(p)
  BY <1>1 DEF Started
<1>8. [p \in Queues |-> Started(p)]'
        = [[p \in Queues |-> Started(p)] EXCEPT ![q] = @ + 1]
  BY <1>5, <1>7
<1>9. running' = [running EXCEPT ![q] = added[q][[p \in Queues |-> Started(p)][q] + 1]]
  BY <1>1, <1>6
<1>10. QED
  BY <1>1, <1>5, <1>8, <1>9 DEF Fifo!Start

LEMMA FifoStep ==
  ASSUME GuardInv, OrderInv, [TaskNext]_taskVars
  PROVE  [Fifo!FifoNext]_<<added, [q \in Queues |-> Started(q)], running>>
<1>1. ASSUME UNCHANGED <<toRun, running, added>>
      PROVE  UNCHANGED <<added, [q \in Queues |-> Started(q)], running>>
  BY <1>1 DEF Started
<1>2. ASSUME NEW t \in GameThreads, Adding(t)
      PROVE  [Fifo!FifoNext]_<<added, [q \in Queues |-> Started(q)], running>>
  <2>1. CASE AddPush(t)
    BY <2>1, PushSubmits DEF Fifo!FifoNext
  <2>2. CASE AddEnter(t) \/ AddLeave(t)
    BY <1>1, <2>2 DEF AddEnter, AddLeave
  <2>3. QED
    BY <1>2, <2>1, <2>2 DEF Adding
<1>3. ASSUME NEW q \in Queues, Come(q) \/ Draining(q)
      PROVE  [Fifo!FifoNext]_<<added, [p \in Queues |-> Started(p)], running>>
  <2>1. CASE RunNext(q)
    BY <2>1, RunStarts DEF Fifo!FifoNext
  <2>2. CASE RunEnds(q)
    <3>1. UNCHANGED <<added, [p \in Queues |-> Started(p)]>>
      BY <2>2 DEF RunEnds, Started
    <3>2. Fifo!Finish(q)
      BY <2>2, <3>1 DEF RunEnds, Fifo!Finish
    <3>3. QED
      BY <3>2 DEF Fifo!FifoNext
  <2>3. CASE Come(q) \/ DrainEnter(q) \/ DrainLeave(q)
    BY <1>1, <2>3 DEF Come, DrainEnter, DrainLeave
  <2>4. QED
    BY <1>3, <2>1, <2>2, <2>3 DEF Draining
<1>4. ASSUME NEW t \in GameThreads, NEW q \in Queues, NEW task \in Tasks, CallAdd(t, q, task)
      PROVE  [Fifo!FifoNext]_<<added, [p \in Queues |-> Started(p)], running>>
  BY <1>1, <1>4 DEF CallAdd
<1>5. CASE UNCHANGED taskVars
  BY <1>1, <1>5 DEF taskVars
<1>6. QED
  BY <1>2, <1>3, <1>4, <1>5 DEF TaskNext

(* Pushes and pops never meet, and each queue of tasks is first in, first  *)
(* out: for any threads, queues and tasks, and whatever tasks add.         *)
THEOREM TasksAlwaysQueued == TaskSpec => TasksAreQueued
<1>1. TaskSpec => [](GuardInv /\ OrderInv)
  BY GuardInitially, GuardStep, OrderInitially, OrderStep, PTL DEF TaskSpec
<1>2. GuardInv => TaskTypeOK /\ QueuesAreGuarded
  BY DEF GuardInv
<1>3. TaskInit => Fifo!FifoInit
  BY FifoInitially
<1>4. GuardInv /\ OrderInv /\ [TaskNext]_taskVars => [Fifo!FifoNext]_Fifo!fifoVars
  BY FifoStep DEF Fifo!fifoVars
<1>5. QED
  BY <1>1, <1>2, <1>3, <1>4, PTL DEF TaskSpec, TasksAreQueued, ImplementsFifo, Fifo!FifoSpec

-----------------------------------------------------------------------------
(* Delay functors.  What the lists of a save have, object by object of the *)
(* wait list: those of incoming, waiting and ready entries.                *)
EntryOf(incoming, waiting, k) == IF k <= Len(incoming) THEN incoming[k] ELSE waiting[k - Len(incoming)]

ObjectOf(incoming, waiting, ready, k) ==
  IF k <= Len(incoming) + Len(waiting) THEN EntryOf(incoming, waiting, k).f
  ELSE ready[k - (Len(incoming) + Len(waiting))]

(* The record of the wait list comes behind those of the queue.            *)
WaitAt(queued) == Len(queued) + 2

Lengths == {Size(x) : x \in Nat}

LEMMA ThreeParts ==
  ASSUME NEW S, NEW a \in Seq(S), NEW b \in Seq(S), NEW c \in Seq(S)
  PROVE  /\ (a \o b) \o c \in Seq(S) /\ Len((a \o b) \o c) = Len(a) + Len(b) + Len(c)
         /\ \A x \in 1..Len(a) : ((a \o b) \o c)[x] = a[x]
         /\ \A x \in 1..Len(b) : ((a \o b) \o c)[Len(a) + x] = b[x]
         /\ \A x \in 1..Len(c) : ((a \o b) \o c)[Len(a) + Len(b) + x] = c[x]
PROOF
<1>1. Len(a) \in Nat /\ Len(b) \in Nat /\ Len(c) \in Nat
  OBVIOUS
<1> DEFINE both == a \o b
<1>2. /\ both \in Seq(S) /\ Len(both) = Len(a) + Len(b) /\ Len(both) \in Nat
      /\ \A x \in 1..Len(a) + Len(b) : both[x] = IF x <= Len(a) THEN a[x] ELSE b[x - Len(a)]
  BY ConcatProperties
<1> HIDE DEF both
<1>0. both \in Seq(S)
  BY <1>2
<1>3. /\ both \o c \in Seq(S) /\ Len(both \o c) = Len(both) + Len(c)
      /\ \A x \in 1..Len(both) + Len(c) :
           (both \o c)[x] = IF x <= Len(both) THEN both[x] ELSE c[x - Len(both)]
  BY <1>0, ConcatProperties
<1>4. ASSUME NEW x \in 1..Len(a) PROVE (both \o c)[x] = a[x]
  <2>1. x \in 1..Len(a) + Len(b) /\ x \in 1..Len(both) + Len(c) /\ x <= Len(both) /\ x <= Len(a)
    BY <1>1, <1>2
  <2> QED
    BY <1>2, <1>3, <2>1
<1>5. ASSUME NEW x \in 1..Len(b) PROVE (both \o c)[Len(a) + x] = b[x]
  <2>1. /\ Len(a) + x \in 1..Len(a) + Len(b) /\ Len(a) + x \in 1..Len(both) + Len(c)
        /\ Len(a) + x <= Len(both) /\ ~(Len(a) + x <= Len(a)) /\ (Len(a) + x) - Len(a) = x
    BY <1>1, <1>2
  <2> QED
    BY <1>2, <1>3, <2>1
<1>6. ASSUME NEW x \in 1..Len(c) PROVE (both \o c)[Len(a) + Len(b) + x] = c[x]
  <2>1. /\ Len(a) + Len(b) + x \in 1..Len(both) + Len(c)
        /\ ~(Len(a) + Len(b) + x <= Len(both)) /\ (Len(a) + Len(b) + x) - Len(both) = x
    BY <1>1, <1>2
  <2> QED
    BY <1>2, <1>3, <2>1
<1> QED
  BY <1>2, <1>3, <1>4, <1>5, <1>6 DEF both

SizesHold(s, k, n, m, p) ==
  /\ s \in Seq(Lengths)
  /\ k = 0 => Len(s) >= 1 /\ s[1] = Size(n)
  /\ k = n /\ n # 0 => Len(s) >= 1 /\ s[1] = Size(m)
  /\ k = n /\ n = 0 => Len(s) >= 2 /\ s[2] = Size(m)
  /\ k = n + m /\ m # 0 => Len(s) >= 1 /\ s[1] = Size(p)
  /\ k = n + m /\ m = 0 /\ n # 0 => Len(s) >= 2 /\ s[2] = Size(p)
  /\ k = n + m /\ m = 0 /\ n = 0 => Len(s) >= 3 /\ s[3] = Size(p)

LEMMA SizesFacts ==
  ASSUME NEW n \in Nat, NEW m \in Nat, NEW p \in Nat, NEW k \in Nat
  PROVE  SizesHold(Sizes(k, n, m, p), k, n, m, p)
PROOF
<1> DEFINE S == Lengths
<1>1. Size(n) \in S /\ Size(m) \in S /\ Size(p) \in S
  BY DEF Lengths
<1> HIDE DEF S
<1> DEFINE a == IF k = 0 THEN <<Size(n)>> ELSE <<>>
           b == IF k = n THEN <<Size(m)>> ELSE <<>>
           c == IF k = n + m THEN <<Size(p)>> ELSE <<>>
<1>2. a \in Seq(S) /\ (k = 0 => Len(a) = 1 /\ a[1] = Size(n)) /\ (k # 0 => Len(a) = 0)
  <2>1. CASE k = 0
    BY <1>1, <2>1
  <2>2. CASE k # 0
    BY <2>2
  <2> QED
    BY <2>1, <2>2
<1>3. b \in Seq(S) /\ (k = n => Len(b) = 1 /\ b[1] = Size(m)) /\ (k # n => Len(b) = 0)
  <2>1. CASE k = n
    BY <1>1, <2>1
  <2>2. CASE k # n
    BY <2>2
  <2> QED
    BY <2>1, <2>2
<1>4. c \in Seq(S) /\ (k = n + m => Len(c) = 1 /\ c[1] = Size(p)) /\ (k # n + m => Len(c) = 0)
  <2>1. CASE k = n + m
    BY <1>1, <2>1
  <2>2. CASE k # n + m
    BY <2>2
  <2> QED
    BY <2>1, <2>2
<1> DEFINE s == (a \o b) \o c
<1>5. s = Sizes(k, n, m, p)
  BY DEF Sizes
<1> HIDE DEF a, b, c
<1>6. /\ s \in Seq(S) /\ Len(s) = Len(a) + Len(b) + Len(c)
      /\ \A x \in 1..Len(a) : s[x] = a[x]
      /\ \A x \in 1..Len(b) : s[Len(a) + x] = b[x]
      /\ \A x \in 1..Len(c) : s[Len(a) + Len(b) + x] = c[x]
  BY <1>2, <1>3, <1>4, ThreeParts
<1> HIDE DEF s
<1>7. Len(a) \in {0, 1} /\ Len(b) \in {0, 1} /\ Len(c) \in {0, 1}
  BY <1>2, <1>3, <1>4
<1>8. k = 0 => Len(s) >= 1 /\ s[1] = Size(n)
  <2> SUFFICES ASSUME k = 0 PROVE Len(s) >= 1 /\ s[1] = Size(n)
    OBVIOUS
  <2>1. Len(a) = 1 /\ a[1] = Size(n)
    BY <1>2
  <2>2. 1 \in 1..Len(a)
    BY <2>1
  <2>3. s[1] = a[1]
    BY <1>6, <2>2
  <2> QED
    BY <1>6, <1>7, <2>1, <2>3
<1>9. ASSUME k = n
      PROVE  /\ n # 0 => Len(s) >= 1 /\ s[1] = Size(m)
             /\ n = 0 => Len(s) >= 2 /\ s[2] = Size(m)
  <2>1. Len(b) = 1 /\ b[1] = Size(m)
    BY <1>3, <1>9
  <2>2. Len(s) >= Len(a) + 1 /\ s[Len(a) + 1] = Size(m)
    BY <1>6, <1>7, <2>1
  <2>3. Len(a) = IF n = 0 THEN 1 ELSE 0
    BY <1>2, <1>9
  <2> QED
    BY <2>2, <2>3
<1>10. ASSUME k = n + m
       PROVE  /\ m # 0 => Len(s) >= 1 /\ s[1] = Size(p)
              /\ m = 0 /\ n # 0 => Len(s) >= 2 /\ s[2] = Size(p)
              /\ m = 0 /\ n = 0 => Len(s) >= 3 /\ s[3] = Size(p)
  <2>1. Len(c) = 1 /\ c[1] = Size(p)
    BY <1>4, <1>10
  <2>2. Len(s) = Len(a) + Len(b) + 1 /\ s[Len(a) + Len(b) + 1] = Size(p)
    BY <1>6, <2>1
  <2>3. (k = 0 <=> n = 0 /\ m = 0) /\ (k = n <=> m = 0)
    BY <1>10
  <2>4. Len(a) = (IF n = 0 /\ m = 0 THEN 1 ELSE 0) /\ Len(b) = (IF m = 0 THEN 1 ELSE 0)
    BY <1>2, <1>3, <2>3
  <2> QED
    BY <2>2, <2>4
<1> QED
  BY <1>5, <1>6, <1>8, <1>9, <1>10 DEF S, SizesHold


(* The words of an object's record, without and with a delay.              *)
LEMMA NameWords ==
  ASSUME NEW f
  PROVE  /\ WriteF4SEObject(f, <<>>).type = "OBJE" /\ Len(WriteF4SEObject(f, <<>>).data) = 2
         /\ WriteF4SEObject(f, <<>>).data[1].val = f
PROOF
<1> DEFINE name == [kind |-> "name", val |-> f]
           stack == [kind |-> "stack", val |-> 0]
           S == {name, stack}
<1>1. name.val = f /\ name \in S /\ stack \in S
  OBVIOUS
<1>2. WriteF4SEObject(f, <<>>) = [type |-> "OBJE", data |-> <<name, stack>> \o <<>>]
  BY DEF WriteF4SEObject
<1> HIDE DEF S, name, stack
<1>3. <<name, stack>> \in Seq(S) /\ Len(<<name, stack>>) = 2 /\ <<name, stack>>[1] = name
  BY <1>1
<1>4. <<name, stack>> \o <<>> = <<name, stack>>
  BY <1>3, ConcatEmptySeq
<1> QED
  BY <1>1, <1>2, <1>3, <1>4

LEMMA ObjectWords ==
  ASSUME NEW f, NEW left, NEW s \in Seq(Lengths)
  PROVE  /\ WriteF4SEObject(f, Delay(left) \o s).type = "OBJE"
         /\ Len(WriteF4SEObject(f, Delay(left) \o s).data) = 4 + Len(s)
         /\ WriteF4SEObject(f, Delay(left) \o s).data[1].val = f
         /\ WriteF4SEObject(f, Delay(left) \o s).data[2].kind = "stack"
         /\ WriteF4SEObject(f, Delay(left) \o s).data[3].val = left
         /\ \A x \in 1..Len(s) : WriteF4SEObject(f, Delay(left) \o s).data[4 + x] = s[x]
PROOF
<1> DEFINE name == [kind |-> "name", val |-> f]
           stack == [kind |-> "stack", val |-> 0]
           low == [kind |-> "delay", val |-> left]
           high == [kind |-> "delay high", val |-> 0]
           S == {name, stack, low, high} \cup Lengths
<1>1. name.val = f /\ stack.kind = "stack" /\ low.val = left
  OBVIOUS
<1>2. name \in S /\ stack \in S /\ low \in S /\ high \in S /\ Lengths \subseteq S
  OBVIOUS
<1>3. WriteF4SEObject(f, Delay(left) \o s) = [type |-> "OBJE", data |-> <<name, stack>> \o (<<low, high>> \o s)]
  BY DEF WriteF4SEObject, Delay
<1> HIDE DEF S, name, stack, low, high
<1>4. s \in Seq(S)
  BY <1>2
<1>5. /\ <<name, stack>> \in Seq(S) /\ Len(<<name, stack>>) = 2
      /\ <<name, stack>>[1] = name /\ <<name, stack>>[2] = stack
      /\ <<low, high>> \in Seq(S) /\ Len(<<low, high>>) = 2 /\ <<low, high>>[1] = low
  BY <1>2
<1> DEFINE front == <<name, stack>>
           delay == <<low, high>>
<1> HIDE DEF front, delay
<1>6. /\ front \in Seq(S) /\ Len(front) = 2 /\ front[1] = name /\ front[2] = stack
      /\ delay \in Seq(S) /\ Len(delay) = 2 /\ delay[1] = low
  BY <1>5 DEF front, delay
<1>7. /\ delay \o s \in Seq(S) /\ Len(delay \o s) = 2 + Len(s) /\ Len(s) \in Nat
      /\ (delay \o s)[1] = low /\ \A x \in 1..Len(s) : (delay \o s)[2 + x] = s[x]
  <2>1. delay \in Seq(S) /\ Len(s) \in Nat
    BY <1>4, <1>6
  <2>2. /\ delay \o s \in Seq(S) /\ Len(delay \o s) = Len(delay) + Len(s)
        /\ \A x \in 1..Len(delay) + Len(s) :
             (delay \o s)[x] = IF x <= Len(delay) THEN delay[x] ELSE s[x - Len(delay)]
    BY <1>4, <2>1, ConcatProperties
  <2> QED
    BY <1>6, <2>1, <2>2
<1> DEFINE rest == delay \o s
<1> HIDE DEF rest
<1>9. /\ rest \in Seq(S) /\ Len(rest) = 2 + Len(s) /\ Len(s) \in Nat
      /\ rest[1] = low /\ \A x \in 1..Len(s) : rest[2 + x] = s[x]
  BY <1>7 DEF rest
<1>8. front \in Seq(S) /\ rest \in Seq(S)
  BY <1>6, <1>9
<1>10. /\ Len(front \o rest) = 4 + Len(s)
       /\ (front \o rest)[1] = name /\ (front \o rest)[2] = stack /\ (front \o rest)[3] = low
       /\ \A x \in 1..Len(s) : (front \o rest)[4 + x] = s[x]
  <2>1. /\ Len(front \o rest) = Len(front) + Len(rest)
        /\ \A x \in 1..Len(front) + Len(rest) :
             (front \o rest)[x] = IF x <= Len(front) THEN front[x] ELSE rest[x - Len(front)]
    BY <1>8, ConcatProperties
  <2>2. ASSUME NEW x \in 1..Len(s) PROVE (front \o rest)[4 + x] = s[x]
    <3>1. 4 + x \in 1..Len(front) + Len(rest) /\ ~(4 + x <= Len(front)) /\ (4 + x) - Len(front) = 2 + x
      BY <1>6, <1>9
    <3> QED
      BY <1>9, <2>1, <3>1
  <2> QED
    BY <1>6, <1>9, <2>1, <2>2
<1>11. WriteF4SEObject(f, Delay(left) \o s) = [type |-> "OBJE", data |-> front \o rest]
  BY <1>3 DEF front, rest, delay
<1> QED
  BY <1>1, <1>6, <1>10, <1>11

(* The records of a save that the loops of a Load go through: those of c   *)
(* functors of the queue, and of the n, m and p of the wait list.          *)
Records(recs, c, n, m, p) ==
  LET b == c + 2
  IN /\ DOMAIN recs = 1..Len(recs) /\ Len(recs) = b + n + m + p + 1
     /\ \A x \in 1..Len(recs) : Len(recs[x].data) \in Nat
     /\ recs[1].type = "FUNQ" /\ Len(recs[1].data) = 1 /\ recs[1].data[1] = Size(c)
     /\ recs[b].type = "WLST" /\ Len(recs[b].data) >= 1 /\ recs[b].data[1] = Size(n)
     /\ \A x \in (2..c + 1) \cup (b + 1..b + n + m + p) : recs[x].type = "OBJE"
     /\ \A x \in b + 1..b + n + m : Len(recs[x].data) >= 4 /\ recs[x].data[2].kind = "stack"
     /\ \A x \in b + n + m + 1..b + n + m + p : Len(recs[x].data) = 2
     /\ recs[Len(recs)].type = "____"
     /\ LET x == IF n = 0 THEN 2 ELSE 5
        IN Len(recs[b + n].data) >= x /\ recs[b + n].data[x] = Size(m)
     /\ LET x == IF m # 0 THEN 5 ELSE IF n # 0 THEN 6 ELSE 3
        IN Len(recs[b + n + m].data) >= x /\ recs[b + n + m].data[x] = Size(p)

(* The records of a save of these lists.                                   *)
Layout(recs, q, i, w, r) ==
  LET n == Len(i)
      m == Len(w)
      p == Len(r)
  IN /\ Records(recs, Len(q), n, m, p)
     /\ \A k \in 1..Len(q) : Name(recs, k + 1) = q[k]
     /\ \A k \in 1..n + m + p : Name(recs, WaitAt(q) + k) = ObjectOf(i, w, r, k)
     /\ \A k \in 1..n + m : recs[WaitAt(q) + k].data[3].val = EntryOf(i, w, k).left

LEMMA QueueRecords ==
  ASSUME NEW fs \in Seq(Functors), NEW S, {WriteF4SEObject(f, <<>>) : f \in Functors} \subseteq S
  PROVE  /\ WriteQueue(fs) \in Seq(S) /\ Len(WriteQueue(fs)) = Len(fs)
         /\ \A k \in 1..Len(fs) : WriteQueue(fs)[k] = WriteF4SEObject(fs[k], <<>>)
PROOF
<1>1. \A k \in 1..Len(fs) : WriteF4SEObject(fs[k], <<>>) \in S
  OBVIOUS
<1>2. Len(fs) \in Nat
  OBVIOUS
<1> QED
  BY <1>1, <1>2 DEF WriteQueue


(* Of four parts of a sequence.                                            *)
FourPartsOf(s, a, b, c, d) ==
  /\ Len(s) = Len(a) + Len(b) + Len(c) + Len(d)
  /\ \A x \in 1..Len(a) : s[x] = a[x]
  /\ \A x \in 1..Len(b) : s[Len(a) + x] = b[x]
  /\ \A x \in 1..Len(c) : s[Len(a) + Len(b) + x] = c[x]
  /\ \A x \in 1..Len(d) : s[Len(a) + Len(b) + Len(c) + x] = d[x]

LEMMA FourParts ==
  ASSUME NEW S, NEW a \in Seq(S), NEW b \in Seq(S), NEW c \in Seq(S), NEW d \in Seq(S)
  PROVE  /\ ((a \o b) \o c) \o d \in Seq(S)
         /\ FourPartsOf(((a \o b) \o c) \o d, a, b, c, d)
PROOF
<1> DEFINE t == (a \o b) \o c
<1>1. Len(a) \in Nat /\ Len(b) \in Nat /\ Len(c) \in Nat /\ Len(d) \in Nat
  OBVIOUS
<1>2. /\ t \in Seq(S) /\ Len(t) = Len(a) + Len(b) + Len(c)
      /\ \A x \in 1..Len(a) : t[x] = a[x]
      /\ \A x \in 1..Len(b) : t[Len(a) + x] = b[x]
      /\ \A x \in 1..Len(c) : t[Len(a) + Len(b) + x] = c[x]
  BY ThreeParts
<1> HIDE DEF t
<1>3. t \in Seq(S) /\ Len(t) \in Nat
  BY <1>2
<1>4. /\ t \o d \in Seq(S) /\ Len(t \o d) = Len(t) + Len(d)
      /\ \A x \in 1..Len(t) + Len(d) : (t \o d)[x] = IF x <= Len(t) THEN t[x] ELSE d[x - Len(t)]
  BY <1>3, ConcatProperties
<1>5. \A x \in 1..Len(t) : (t \o d)[x] = t[x]
  BY <1>1, <1>3, <1>4
<1>6. \A x \in 1..Len(a) : x \in 1..Len(t)
  BY <1>1, <1>2
<1>7. \A x \in 1..Len(b) : Len(a) + x \in 1..Len(t)
  BY <1>1, <1>2
<1>8. \A x \in 1..Len(c) : Len(a) + Len(b) + x \in 1..Len(t)
  BY <1>1, <1>2
<1>9. ASSUME NEW x \in 1..Len(d) PROVE (t \o d)[Len(t) + x] = d[x]
  <2>1. Len(t) + x \in 1..Len(t) + Len(d) /\ ~(Len(t) + x <= Len(t)) /\ (Len(t) + x) - Len(t) = x
    BY <1>1, <1>3
  <2> QED
    BY <1>4, <2>1
<1> QED
  BY <1>2, <1>4, <1>5, <1>6, <1>7, <1>8, <1>9 DEF t, FourPartsOf

LEMMA EntryFacts ==
  ASSUME NEW i \in Seq(Entry), NEW w \in Seq(Entry), NEW k \in 1..Len(i) + Len(w)
  PROVE  (i \o w)[k] = EntryOf(i, w, k) /\ EntryOf(i, w, k) \in Entry
PROOF
<1>1. k <= Len(i) => k \in 1..Len(i)
  OBVIOUS
<1>2. ~(k <= Len(i)) => k - Len(i) \in 1..Len(w)
  OBVIOUS
<1> QED
  BY <1>1, <1>2, ConcatProperties DEF EntryOf

LEMMA SavedLayout ==
  ASSUME NEW q \in Seq(Functors), NEW i \in Seq(Entry), NEW w \in Seq(Entry), NEW r \in Seq(Functors)
  PROVE  Layout(SaveFunctors(q, i, w, r), q, i, w, r)
PROOF
<1> DEFINE n == Len(i)
           m == Len(w)
           p == Len(r)
           After(k) == Sizes(k, n, m, p)
           Object(k) == WriteF4SEObject((i \o w)[k].f, Delay((i \o w)[k].left) \o After(k))
           funq == [type |-> "FUNQ", data |-> <<Size(Len(q))>>]
           wlst == [type |-> "WLST", data |-> After(0)]
           done == [type |-> "____", data |-> <<>>]
           S == {WriteF4SEObject(f, <<>>) : f \in Functors} \cup {Object(k) : k \in 1..n + m}
                  \cup {funq, wlst, done}
           objects == [k \in 1..n + m |-> Object(k)]
<1>1. n \in Nat /\ m \in Nat /\ p \in Nat /\ Len(q) \in Nat
  OBVIOUS
<1>2. Len(i \o w) = n + m
  BY ConcatProperties
<1>3. WriteWaitList(i, w, r) = (<<wlst>> \o objects) \o WriteQueue(r)
  BY <1>2 DEF WriteWaitList
<1>4. /\ funq.type = "FUNQ" /\ Len(funq.data) = 1 /\ funq.data[1] = Size(Len(q))
      /\ wlst.type = "WLST" /\ wlst.data = After(0)
      /\ done.type = "____" /\ Len(done.data) = 0
  OBVIOUS
<1>5. /\ {WriteF4SEObject(f, <<>>) : f \in Functors} \subseteq S
      /\ \A k \in 1..n + m : Object(k) \in S
      /\ funq \in S /\ wlst \in S /\ done \in S
  OBVIOUS
<1>6. SaveFunctors(q, i, w, r) = ((<<funq>> \o WriteQueue(q)) \o WriteWaitList(i, w, r)) \o <<done>>
  BY DEF SaveFunctors
<1> HIDE DEF S, funq, wlst, done, Object
<1>7. /\ objects \in Seq(S) /\ Len(objects) = n + m
      /\ \A k \in 1..n + m : objects[k] = Object(k)
  BY <1>1, <1>5
<1>8. /\ WriteQueue(q) \in Seq(S) /\ Len(WriteQueue(q)) = Len(q)
      /\ \A k \in 1..Len(q) : WriteQueue(q)[k] = WriteF4SEObject(q[k], <<>>)
      /\ WriteQueue(r) \in Seq(S) /\ Len(WriteQueue(r)) = p
      /\ \A k \in 1..p : WriteQueue(r)[k] = WriteF4SEObject(r[k], <<>>)
  BY <1>5, QueueRecords
<1>9. /\ <<funq>> \in Seq(S) /\ Len(<<funq>>) = 1 /\ <<funq>>[1] = funq
      /\ <<wlst>> \in Seq(S) /\ Len(<<wlst>>) = 1 /\ <<wlst>>[1] = wlst
      /\ <<done>> \in Seq(S) /\ Len(<<done>>) = 1 /\ <<done>>[1] = done
  BY <1>5
<1> HIDE DEF objects
<1>10. PICK b : b = WriteWaitList(i, w, r)
  OBVIOUS
<1>11. /\ b \in Seq(S) /\ Len(b) = 1 + (n + m) + p /\ b[1] = wlst
       /\ \A k \in 1..n + m : b[1 + k] = Object(k)
       /\ \A k \in 1..p : b[1 + (n + m) + k] = WriteF4SEObject(r[k], <<>>)
  <2>1. <<wlst>> \in Seq(S) /\ objects \in Seq(S) /\ WriteQueue(r) \in Seq(S)
    BY <1>7, <1>8, <1>9
  <2>2. /\ b \in Seq(S) /\ Len(b) = Len(<<wlst>>) + Len(objects) + Len(WriteQueue(r))
        /\ \A x \in 1..Len(<<wlst>>) : b[x] = <<wlst>>[x]
        /\ \A x \in 1..Len(objects) : b[Len(<<wlst>>) + x] = objects[x]
        /\ \A x \in 1..Len(WriteQueue(r)) : b[Len(<<wlst>>) + Len(objects) + x] = WriteQueue(r)[x]
    BY <1>3, <1>10, <2>1, ThreeParts
  <2> QED
    BY <1>1, <1>7, <1>8, <1>9, <2>2
<1>12. PICK s : s = SaveFunctors(q, i, w, r)
  OBVIOUS
<1>13. /\ s \in Seq(S) /\ Len(s) = 1 + Len(q) + Len(b) + 1 /\ s[1] = funq
       /\ \A k \in 1..Len(q) : s[1 + k] = WriteF4SEObject(q[k], <<>>)
       /\ \A x \in 1..Len(b) : s[1 + Len(q) + x] = b[x]
       /\ s[1 + Len(q) + Len(b) + 1] = done
  <2>1. PICK front, back, names :
          front = <<funq>> /\ back = <<done>> /\ names = WriteQueue(q)
    OBVIOUS
  <2>2. front \in Seq(S) /\ names \in Seq(S) /\ b \in Seq(S) /\ back \in Seq(S)
    BY <1>8, <1>9, <1>11, <2>1
  <2>3. s = ((front \o names) \o b) \o back
    BY <1>6, <1>10, <1>12, <2>1
  <2>4. /\ s \in Seq(S) /\ Len(s) = Len(front) + Len(names) + Len(b) + Len(back)
        /\ \A x \in 1..Len(front) : s[x] = front[x]
        /\ \A x \in 1..Len(names) : s[Len(front) + x] = names[x]
        /\ \A x \in 1..Len(b) : s[Len(front) + Len(names) + x] = b[x]
        /\ \A x \in 1..Len(back) : s[Len(front) + Len(names) + Len(b) + x] = back[x]
    <3>1. s \in Seq(S) /\ FourPartsOf(s, front, names, b, back)
      BY <2>2, <2>3, FourParts
    <3> QED
      BY <3>1 DEF FourPartsOf
  <2>5. /\ Len(front) = 1 /\ front[1] = funq /\ Len(back) = 1 /\ back[1] = done
        /\ Len(names) = Len(q) /\ \A k \in 1..Len(q) : names[k] = WriteF4SEObject(q[k], <<>>)
    BY <1>8, <1>9, <2>1
  <2> QED
    BY <1>1, <2>4, <2>5
<1> DEFINE place(k) == WaitAt(q) + k
<1>14. /\ Len(s) = place(n + m + p + 1) /\ DOMAIN s = 1..Len(s) /\ s[place(n + m + p + 1)] = done
       /\ s[place(0)] = wlst
       /\ \A k \in 1..n + m : s[place(k)] = Object(k)
       /\ \A k \in 1..p : s[place(n + m + k)] = WriteF4SEObject(r[k], <<>>)
  <2>1. Len(s) = place(n + m + p + 1) /\ DOMAIN s = 1..Len(s) /\ s[place(n + m + p + 1)] = done
    BY <1>1, <1>11, <1>13 DEF WaitAt
  <2>2. s[place(0)] = wlst
    BY <1>1, <1>11, <1>13 DEF WaitAt
  <2>3. ASSUME NEW k \in 1..n + m PROVE s[place(k)] = Object(k)
    <3>1. 1 + k \in 1..Len(b) /\ 1 + Len(q) + (1 + k) = place(k)
      BY <1>1, <1>11 DEF WaitAt
    <3> QED
      BY <1>11, <1>13, <3>1
  <2>4. ASSUME NEW k \in 1..p PROVE s[place(n + m + k)] = WriteF4SEObject(r[k], <<>>)
    <3>1. 1 + (n + m) + k \in 1..Len(b) /\ 1 + Len(q) + (1 + (n + m) + k) = place(n + m + k)
      BY <1>1, <1>11 DEF WaitAt
    <3> QED
      BY <1>11, <1>13, <3>1
  <2> QED
    BY <2>1, <2>2, <2>3, <2>4
<1>15. ASSUME NEW k \in 0..n + m
       PROVE  /\ After(k) \in Seq(Lengths)
              /\ k = 0 => Len(After(k)) >= 1 /\ After(k)[1] = Size(n)
              /\ k = n /\ n # 0 => Len(After(k)) >= 1 /\ After(k)[1] = Size(m)
              /\ k = n /\ n = 0 => Len(After(k)) >= 2 /\ After(k)[2] = Size(m)
              /\ k = n + m /\ m # 0 => Len(After(k)) >= 1 /\ After(k)[1] = Size(p)
              /\ k = n + m /\ m = 0 /\ n # 0 => Len(After(k)) >= 2 /\ After(k)[2] = Size(p)
              /\ k = n + m /\ m = 0 /\ n = 0 => Len(After(k)) >= 3 /\ After(k)[3] = Size(p)
  <2>1. k \in Nat
    BY <1>1
  <2>2. SizesHold(After(k), k, n, m, p)
    BY <1>1, <2>1, SizesFacts
  <2> QED
    BY <2>2 DEF SizesHold
<1> HIDE DEF After
<1>16. ASSUME NEW k \in 1..n + m
       PROVE  /\ s[place(k)].type = "OBJE" /\ s[place(k)].data[1].val = EntryOf(i, w, k).f
              /\ s[place(k)].data[2].kind = "stack" /\ s[place(k)].data[3].val = EntryOf(i, w, k).left
              /\ Len(s[place(k)].data) = 4 + Len(After(k)) /\ Len(After(k)) \in Nat
              /\ \A x \in 1..Len(After(k)) : s[place(k)].data[4 + x] = After(k)[x]
  <2>1. (i \o w)[k] = EntryOf(i, w, k)
    BY EntryFacts
  <2>2. PICK f, left, more : f = EntryOf(i, w, k).f /\ left = EntryOf(i, w, k).left /\ more = After(k)
    OBVIOUS
  <2>3. more \in Seq(Lengths)
    <3>1. k \in 0..n + m
      BY <1>1
    <3> QED
      BY <1>15, <2>2, <3>1
  <2>4. s[place(k)] = WriteF4SEObject(f, Delay(left) \o more)
    BY <1>14, <2>1, <2>2 DEF Object
  <2>5. Len(more) \in Nat
    BY <2>3
  <2>6. PICK o : o = s[place(k)]
    OBVIOUS
  <2>7. /\ o.type = "OBJE" /\ Len(o.data) = 4 + Len(more) /\ o.data[1].val = f
        /\ o.data[2].kind = "stack" /\ o.data[3].val = left
        /\ \A x \in 1..Len(more) : o.data[4 + x] = more[x]
    <3>1. o = WriteF4SEObject(f, Delay(left) \o more)
      BY <2>4, <2>6
    <3> QED
      BY <2>3, <3>1, ObjectWords
  <2> HIDE DEF place
  <2> QED
    BY <2>2, <2>5, <2>6, <2>7
<1>17. ASSUME NEW k \in 1..p
       PROVE  /\ s[place(n + m + k)].type = "OBJE" /\ s[place(n + m + k)].data[1].val = r[k]
              /\ Len(s[place(n + m + k)].data) = 2
  <2>1. PICK f : f = r[k]
    OBVIOUS
  <2>2. s[place(n + m + k)] = WriteF4SEObject(f, <<>>)
    BY <1>14, <2>1
  <2> HIDE DEF place
  <2> QED
    BY <2>1, <2>2, NameWords
<1>18. ASSUME NEW k \in 1..Len(q)
       PROVE  s[k + 1].type = "OBJE" /\ Name(s, k + 1) = q[k] /\ Len(s[k + 1].data) = 2
  <2>1. PICK f : f = q[k]
    OBVIOUS
  <2>2. s[k + 1] = WriteF4SEObject(f, <<>>)
    BY <1>13, <2>1
  <2> QED
    BY <2>1, <2>2, NameWords DEF Name
<1>19. ASSUME NEW k \in 1..n + m + p
       PROVE  s[place(k)].type = "OBJE" /\ Name(s, place(k)) = ObjectOf(i, w, r, k)
  <2>1. CASE k <= n + m
    BY <1>1, <1>16, <2>1 DEF Name, ObjectOf
  <2>2. CASE ~(k <= n + m)
    <3>1. k - (n + m) \in 1..p /\ n + m + (k - (n + m)) = k
      BY <1>1, <2>2
    <3> QED
      BY <1>17, <2>2, <3>1 DEF Name, ObjectOf
  <2> QED
    BY <2>1, <2>2
<1>20. ASSUME NEW k \in n + m + 1..n + m + p PROVE Len(s[place(k)].data) = 2
  <2>1. k - (n + m) \in 1..p /\ n + m + (k - (n + m)) = k
    BY <1>1
  <2> QED
    BY <1>17, <2>1
<1>21. \A k \in 1..n + m : Len(s[place(k)].data) >= 4
  BY <1>16
<1>22. Len(s[place(0)].data) >= 1 /\ s[place(0)].data = After(0) /\ s[place(0)].data[1] = Size(n)
  <2>1. 0 \in 0..n + m
    BY <1>1
  <2>2. Len(After(0)) >= 1 /\ After(0)[1] = Size(n)
    BY <1>15, <2>1
  <2> QED
    BY <1>4, <1>14, <2>2
<1>23. LET x == IF n = 0 THEN 2 ELSE 5
       IN Len(s[place(n)].data) >= x /\ s[place(n)].data[x] = Size(m)
  <2>1. CASE n = 0
    <3>1. Len(After(0)) >= 2 /\ After(0)[2] = Size(m)
      <4>1. 0 \in 0..n + m /\ 0 = n
        BY <1>1, <2>1
      <4> QED
        BY <1>15, <4>1
    <3> QED
      BY <1>22, <2>1, <3>1
  <2>2. CASE n # 0
    <3>1. n \in 1..n + m /\ n \in 0..n + m
      BY <1>1, <2>2
    <3>2. Len(After(n)) \in Nat
      BY <1>16, <3>1
    <3>3. Len(After(n)) >= 1 /\ After(n)[1] = Size(m) /\ 1 \in 1..Len(After(n))
      BY <1>15, <2>2, <3>1, <3>2
    <3>4. s[place(n)].data[4 + 1] = After(n)[1] /\ Len(s[place(n)].data) = 4 + Len(After(n))
      BY <1>16, <3>1, <3>3
    <3> QED
      BY <2>2, <3>2, <3>3, <3>4
  <2> QED
    BY <2>1, <2>2
<1>24. LET x == IF m # 0 THEN 5 ELSE IF n # 0 THEN 6 ELSE 3
       IN Len(s[place(n + m)].data) >= x /\ s[place(n + m)].data[x] = Size(p)
  <2>1. CASE m = 0 /\ n = 0
    <3>1. Len(After(0)) >= 3 /\ After(0)[3] = Size(p)
      <4>1. 0 \in 0..n + m /\ 0 = n + m
        BY <1>1, <2>1
      <4> QED
        BY <1>15, <2>1, <4>1
    <3>2. n + m = 0
      BY <2>1
    <3> QED
      BY <1>22, <2>1, <3>1, <3>2
  <2>2. CASE m # 0
    <3>1. n + m \in 1..n + m /\ n + m \in 0..n + m
      BY <1>1, <2>2
    <3>2. Len(After(n + m)) \in Nat
      BY <1>16, <3>1
    <3>3. Len(After(n + m)) >= 1 /\ After(n + m)[1] = Size(p) /\ 1 \in 1..Len(After(n + m))
      BY <1>15, <2>2, <3>1, <3>2
    <3>4. s[place(n + m)].data[4 + 1] = After(n + m)[1] /\ Len(s[place(n + m)].data) = 4 + Len(After(n + m))
      BY <1>16, <3>1, <3>3
    <3> QED
      BY <2>2, <3>2, <3>3, <3>4
  <2>3. CASE m = 0 /\ n # 0
    <3>1. n + m \in 1..n + m /\ n + m \in 0..n + m
      BY <1>1, <2>3
    <3>2. Len(After(n + m)) \in Nat
      BY <1>16, <3>1
    <3>3. Len(After(n + m)) >= 2 /\ After(n + m)[2] = Size(p) /\ 2 \in 1..Len(After(n + m))
      BY <1>15, <2>3, <3>1, <3>2
    <3>4. s[place(n + m)].data[4 + 2] = After(n + m)[2] /\ Len(s[place(n + m)].data) = 4 + Len(After(n + m))
      BY <1>16, <3>1, <3>3
    <3> QED
      BY <2>3, <3>2, <3>3, <3>4
  <2> QED
    BY <2>1, <2>2, <2>3
<1>25. s[1].type = "FUNQ" /\ Len(s[1].data) = 1 /\ s[1].data[1] = Size(Len(q))
  BY <1>4, <1>13
<1> PICK b1, c : c = Len(q) /\ b1 = c + 2
  OBVIOUS
<1>26. /\ c \in Nat /\ b1 \in Nat /\ \A k \in Int : place(k) = b1 + k
       /\ Len(s) = b1 + n + m + p + 1 /\ Len(s) \in Nat
  BY <1>1, <1>14 DEF WaitAt
<1> HIDE DEF place
<1>27. ASSUME NEW x \in b1 + 1..b1 + n + m
       PROVE  s[x].type = "OBJE" /\ Len(s[x].data) >= 4 /\ Len(s[x].data) \in Nat /\ s[x].data[2].kind = "stack"
  <2>1. x - b1 \in 1..n + m /\ place(x - b1) = x
    BY <1>1, <1>26
  <2>2. PICK k \in 1..n + m : place(k) = x
    BY <2>1
  <2>3. PICK d : d = Len(After(k))
    OBVIOUS
  <2>4. d \in Nat /\ Len(s[x].data) = 4 + d
    BY <1>16, <2>2, <2>3
  <2>5. s[x].type = "OBJE" /\ s[x].data[2].kind = "stack"
    BY <1>16, <2>2
  <2> QED
    BY <2>4, <2>5
<1>28. ASSUME NEW x \in b1 + n + m + 1..b1 + n + m + p
       PROVE  s[x].type = "OBJE" /\ Len(s[x].data) = 2
  <2>1. x - (b1 + n + m) \in 1..p /\ place(n + m + (x - (b1 + n + m))) = x
    BY <1>1, <1>26
  <2>2. PICK k \in 1..p : place(n + m + k) = x
    BY <2>1
  <2> QED
    BY <1>17, <2>2
<1>29. ASSUME NEW x \in 2..c + 1
       PROVE  s[x].type = "OBJE" /\ Len(s[x].data) = 2
  <2>1. x - 1 \in 1..Len(q) /\ (x - 1) + 1 = x
    BY <1>26
  <2>2. PICK k \in 1..Len(q) : k + 1 = x
    BY <2>1
  <2> QED
    BY <1>18, <2>2
<1>30. s[b1] = wlst /\ s[Len(s)] = done /\ Len(s[b1].data) \in Nat /\ Len(s[Len(s)].data) = 0
  <2>1. 0 \in 0..n + m
    BY <1>1
  <2>2. Len(After(0)) \in Nat
    BY <1>15, <2>1
  <2>3. place(0) = b1 /\ place(n + m + p + 1) = Len(s)
    BY <1>1, <1>14, <1>26
  <2> QED
    BY <1>4, <1>14, <2>2, <2>3
<1>31. ASSUME NEW x \in 1..Len(s) PROVE Len(s[x].data) \in Nat
  <2>1. x \in Int /\ 1 <= x /\ x <= b1 + n + m + p + 1
    BY <1>26
  <2>2. PICK y, z : y = b1 + n + m /\ z = b1 + n + m + p
    OBVIOUS
  <2>3. /\ y \in Nat /\ z \in Nat /\ y >= b1 /\ z >= y /\ c \in Nat /\ b1 \in Nat
        /\ Len(s) = z + 1 /\ x <= z + 1
    <3>1. n \in Nat /\ m \in Nat /\ p \in Nat /\ c \in Nat /\ b1 \in Nat
      BY <1>1, <1>26
    <3>2. Len(s) = b1 + n + m + p + 1
      BY <1>26
    <3> HIDE DEF n, m, p
    <3>3. y \in Nat /\ z \in Nat /\ y >= b1 /\ z >= y
      BY <2>2, <3>1
    <3> QED
      BY <2>1, <2>2, <3>1, <3>2, <3>3
  <2>4. \/ x = 1 \/ x \in 2..c + 1 \/ x = b1 \/ x \in b1 + 1..y \/ x \in y + 1..z \/ x = z + 1
    BY <2>1, <2>3
  <2>5. Len(s[1].data) = 1 /\ Len(s[b1].data) \in Nat /\ Len(s[z + 1].data) = 0
    BY <1>25, <1>30, <2>3
  <2>6. x \in 2..c + 1 \/ x \in y + 1..z => Len(s[x].data) = 2
    BY <1>28, <1>29, <2>2
  <2>7. x \in b1 + 1..y => Len(s[x].data) \in Nat
    BY <1>27, <2>2
  <2> QED
    BY <2>4, <2>5, <2>6, <2>7
<1>32. \A x \in (2..c + 1) \cup (b1 + 1..b1 + n + m + p) : s[x].type = "OBJE"
  <2>1. ASSUME NEW x \in b1 + 1..b1 + n + m + p PROVE s[x].type = "OBJE"
    <3>1. x \in b1 + 1..b1 + n + m \/ x \in b1 + n + m + 1..b1 + n + m + p
      BY <1>1, <1>26
    <3> QED
      BY <1>27, <1>28, <3>1
  <2> QED
    BY <1>29, <2>1
<1>33. place(0) = b1 /\ place(n) = b1 + n /\ place(n + m) = b1 + n + m
  <2>1. b1 + (n + m) = b1 + n + m /\ b1 + 0 = b1
    BY <1>1, <1>26
  <2> QED
    BY <1>1, <1>26, <2>1
<1>34. Records(s, c, n, m, p)
  <2>1. Len(s[b1].data) >= 1 /\ s[b1].data[1] = Size(n) /\ s[b1].type = "WLST"
    BY <1>4, <1>22, <1>30, <1>33
  <2>2. s[Len(s)].type = "____"
    BY <1>4, <1>30
  <2>3. /\ DOMAIN s = 1..Len(s) /\ Len(s) = b1 + n + m + p + 1
        /\ s[1].type = "FUNQ" /\ Len(s[1].data) = 1 /\ s[1].data[1] = Size(c)
    BY <1>14, <1>25, <1>26
  <2>4. \A x \in b1 + 1..b1 + n + m : Len(s[x].data) >= 4 /\ s[x].data[2].kind = "stack"
    BY <1>27
  <2>5. \A x \in b1 + n + m + 1..b1 + n + m + p : Len(s[x].data) = 2
    BY <1>28
  <2>6. LET x == IF n = 0 THEN 2 ELSE 5
        IN Len(s[b1 + n].data) >= x /\ s[b1 + n].data[x] = Size(m)
    BY <1>23, <1>33
  <2>7. LET x == IF m # 0 THEN 5 ELSE IF n # 0 THEN 6 ELSE 3
        IN Len(s[b1 + n + m].data) >= x /\ s[b1 + n + m].data[x] = Size(p)
    BY <1>24, <1>33
  <2> HIDE DEF n, m, p
  <2> QED
    BY <1>31, <1>32, <2>1, <2>2, <2>3, <2>4, <2>5, <2>6, <2>7 DEF Records
<1>35. /\ \A k \in 1..Len(q) : Name(s, k + 1) = q[k]
       /\ \A k \in 1..n + m + p : Name(s, place(k)) = ObjectOf(i, w, r, k)
       /\ \A k \in 1..n + m : s[place(k)].data[3].val = EntryOf(i, w, k).left
  BY <1>16, <1>18, <1>19
<1>36. Layout(s, q, i, w, r)
  BY <1>34, <1>35 DEF Layout, place
<1> QED
  BY <1>12, <1>36


-----------------------------------------------------------------------------
(* What the loops of a Load read.  A set of records is read in the order of*)
(* its records, each of them once.                                         *)
Enumerated(S) ==
  /\ IsFiniteSet(S) /\ Cardinality(S) \in Nat
  /\ \A k \in 1..Cardinality(S) : Nth(S, k) \in S
  /\ \A j, k \in 1..Cardinality(S) : Nth(S, j) = Nth(S, k) => j = k
  /\ \A x \in S : \E k \in 1..Cardinality(S) : Nth(S, k) = x

LEMMA RecordsInOrder ==
  ASSUME NEW n \in Nat, NEW S \in SUBSET (0..n)
  PROVE  Enumerated(S)
PROOF
<1> DEFINE UpTo(i) == {j \in S : j <= i}
           rank == [i \in S |-> Cardinality(UpTo(i))]
<1>1. IsFiniteSet(S) /\ Cardinality(S) \in Nat
  <2>1. IsFiniteSet(0..n)
    BY FS_Interval
  <2> QED
    BY <2>1, FS_Subset, FS_CardinalityType
<1>2. \A i \in S : IsFiniteSet(UpTo(i)) /\ Cardinality(UpTo(i)) \in 1..Cardinality(S)
  <2> SUFFICES ASSUME NEW i \in S PROVE IsFiniteSet(UpTo(i)) /\ Cardinality(UpTo(i)) \in 1..Cardinality(S)
    OBVIOUS
  <2>1. UpTo(i) \subseteq S /\ i \in UpTo(i)
    OBVIOUS
  <2> HIDE DEF UpTo
  <2>2. IsFiniteSet(UpTo(i)) /\ Cardinality(UpTo(i)) <= Cardinality(S) /\ Cardinality(UpTo(i)) # 0
    BY <2>1, <1>1, FS_Subset, FS_EmptySet
  <2> QED
    BY <2>2, <1>1, FS_CardinalityType
<1>3. \A i, j \in S : i < j => Cardinality(UpTo(i)) < Cardinality(UpTo(j))
  <2> SUFFICES ASSUME NEW i \in S, NEW j \in S, i < j
               PROVE  Cardinality(UpTo(i)) < Cardinality(UpTo(j))
    OBVIOUS
  <2>1. UpTo(i) \subseteq UpTo(j) /\ UpTo(i) # UpTo(j)
    <3>1. j \in UpTo(j) /\ j \notin UpTo(i)
      OBVIOUS
    <3>2. \A l \in S : l <= i => l <= j
      OBVIOUS
    <3> QED
      BY <3>1, <3>2
  <2>2. IsFiniteSet(UpTo(j)) /\ Cardinality(UpTo(i)) \in Nat /\ Cardinality(UpTo(j)) \in Nat
    BY <1>1, <1>2
  <2> HIDE DEF UpTo
  <2>3. Cardinality(UpTo(i)) <= Cardinality(UpTo(j)) /\ Cardinality(UpTo(i)) # Cardinality(UpTo(j))
    BY <2>1, <2>2, FS_Subset
  <2> QED
    BY <2>2, <2>3
<1>4. \A i, j \in S : rank[i] = rank[j] => i = j
  <2> SUFFICES ASSUME NEW i \in S, NEW j \in S, Cardinality(UpTo(i)) = Cardinality(UpTo(j)), i # j PROVE FALSE
    OBVIOUS
  <2>1. i < j \/ j < i
    OBVIOUS
  <2>2. Cardinality(UpTo(i)) \in Nat /\ Cardinality(UpTo(j)) \in Nat
    BY <1>1, <1>2
  <2> HIDE DEF UpTo
  <2> QED
    BY <2>1, <2>2, <1>3
<1>5. rank \in Injection(S, 1..Cardinality(S))
  <2>1. rank \in [S -> 1..Cardinality(S)]
    BY <1>2
  <2>2. \A i, j \in DOMAIN rank : rank[i] = rank[j] => i = j
    BY <1>4
  <2> HIDE DEF rank
  <2> QED
    BY <2>1, <2>2 DEF Injection, IsInjective
<1>6. rank \in Surjection(S, 1..Cardinality(S))
  <2>1. IsFiniteSet(1..Cardinality(S)) /\ Cardinality(1..Cardinality(S)) = Cardinality(S)
    BY <1>1, FS_Interval
  <2> HIDE DEF rank
  <2> QED
    BY <2>1, <1>5, FS_Injection
<1>7. \A k \in 1..Cardinality(S) : \E i \in S : Cardinality(UpTo(i)) = k
  <2>1. \A k \in 1..Cardinality(S) : \E i \in S : rank[i] = k
    <3> HIDE DEF rank
    <3> QED
      BY <1>6 DEF Surjection
  <2> QED
    BY <2>1
<1>8. \A k \in 1..Cardinality(S) : Nth(S, k) \in S /\ Cardinality(UpTo(Nth(S, k))) = k
  BY <1>7 DEF Nth
<1>9. \A j, k \in 1..Cardinality(S) : Nth(S, j) = Nth(S, k) => j = k
  <2> SUFFICES ASSUME NEW j \in 1..Cardinality(S), NEW k \in 1..Cardinality(S), Nth(S, j) = Nth(S, k)
               PROVE  j = k
    OBVIOUS
  <2>1. Cardinality(UpTo(Nth(S, j))) = j /\ Cardinality(UpTo(Nth(S, k))) = k
    BY <1>8
  <2> HIDE DEF UpTo
  <2> QED
    BY <2>1
<1>10. ASSUME NEW x \in S PROVE \E k \in 1..Cardinality(S) : Nth(S, k) = x
  <2>1. PICK k : k = Cardinality(UpTo(x))
    OBVIOUS
  <2>2. k \in 1..Cardinality(S)
    BY <1>2, <2>1
  <2>3. PICK y \in S : y = Nth(S, k) /\ Cardinality(UpTo(y)) = k
    BY <1>8, <2>2
  <2>4. rank[x] = rank[y]
    BY <2>1, <2>3
  <2> HIDE DEF rank, UpTo
  <2> QED
    BY <1>4, <2>2, <2>3, <2>4
<1> HIDE DEF UpTo, rank
<1> QED
  BY <1>1, <1>8, <1>9, <1>10 DEF Enumerated

(* The names that the loop over a queue reads.                             *)
QueueRead(list, recs, read) ==
  /\ list \in Seq(Functors)
  /\ \A j, k \in DOMAIN list : list[j] = list[k] => j = k
  /\ ToSet(list) = {Name(recs, x) : x \in read}

LEMMA QueueReads ==
  ASSUME NEW recs, NEW unknown, NEW size, DOMAIN recs = 1..Len(recs), Len(recs) \in Nat,
         NEW read, read = {x \in Turns(recs, size) : Found(recs, x, unknown)},
         \A x \in read : Name(recs, x) \in Functors,
         \A x, y \in read : Name(recs, x) = Name(recs, y) => x = y
  PROVE  QueueRead(ReadQueue(recs, unknown, size), recs, read)
PROOF
<1> DEFINE list == [k \in 1..Cardinality(read) |-> Name(recs, Nth(read, k))]
<1>1. ReadQueue(recs, unknown, size) = list
  BY DEF ReadQueue
<1>2. read \in SUBSET (0..Len(recs))
  BY DEF Turns
<1>3. Enumerated(read)
  BY <1>2, RecordsInOrder
<1>4. list \in Seq(Functors) /\ DOMAIN list = 1..Cardinality(read)
  <2>1. \A k \in 1..Cardinality(read) : Name(recs, Nth(read, k)) \in Functors
    BY <1>3 DEF Enumerated
  <2> QED
    BY <1>3, <2>1 DEF Enumerated
<1>5. \A j, k \in DOMAIN list : list[j] = list[k] => j = k
  BY <1>3 DEF Enumerated
<1>6. ToSet(list) = {Name(recs, x) : x \in read}
  <2>1. ASSUME NEW x \in read PROVE \E k \in 1..Cardinality(read) : list[k] = Name(recs, x)
    BY <1>3 DEF Enumerated
  <2>2. ASSUME NEW k \in 1..Cardinality(read) PROVE \E x \in read : list[k] = Name(recs, x)
    BY <1>3 DEF Enumerated
  <2>3. DOMAIN list = 1..Cardinality(read)
    OBVIOUS
  <2> HIDE DEF list
  <2> QED
    BY <2>1, <2>2, <2>3 DEF ToSet
<1> HIDE DEF list
<1> QED
  BY <1>1, <1>4, <1>5, <1>6 DEF QueueRead

(* The entries that the loop over a list of delays reads.                  *)
ReadAt(recs, x) == [f |-> Name(recs, x), left |-> recs[x].data[3].val]

EntriesAt(list, recs, read) ==
  /\ list \in Seq(Entry)
  /\ \A j, k \in DOMAIN list : list[j].f = list[k].f => j = k
  /\ ToSet(list) = {ReadAt(recs, x) : x \in read}

LEMMA EntriesReads ==
  ASSUME NEW recs, NEW unknown, NEW size, DOMAIN recs = 1..Len(recs), Len(recs) \in Nat,
         NEW read, read = EntriesRead(recs, unknown, size),
         \A x \in read : ReadAt(recs, x) \in Entry,
         \A x, y \in read : Name(recs, x) = Name(recs, y) => x = y
  PROVE  EntriesAt(ReadEntries(recs, unknown, size), recs, read)
PROOF
<1> DEFINE list == [k \in 1..Cardinality(read) |-> ReadAt(recs, Nth(read, k))]
<1>1. ReadEntries(recs, unknown, size) = list
  BY DEF ReadEntries, ReadAt
<1>2. read \in SUBSET (0..Len(recs))
  BY DEF EntriesRead, Turns
<1>3. Enumerated(read)
  BY <1>2, RecordsInOrder
<1>4. list \in Seq(Entry) /\ DOMAIN list = 1..Cardinality(read)
  <2>1. \A k \in 1..Cardinality(read) : ReadAt(recs, Nth(read, k)) \in Entry
    BY <1>3 DEF Enumerated
  <2> QED
    BY <1>3, <2>1 DEF Enumerated
<1>5. \A j, k \in DOMAIN list : list[j].f = list[k].f => j = k
  <2>1. \A k \in 1..Cardinality(read) : list[k].f = Name(recs, Nth(read, k))
    BY DEF ReadAt
  <2> QED
    BY <1>3, <1>4, <2>1 DEF Enumerated
<1>6. ToSet(list) = {ReadAt(recs, x) : x \in read}
  <2>1. ASSUME NEW x \in read PROVE \E k \in 1..Cardinality(read) : list[k] = ReadAt(recs, x)
    BY <1>3 DEF Enumerated
  <2>2. ASSUME NEW k \in 1..Cardinality(read) PROVE \E x \in read : list[k] = ReadAt(recs, x)
    BY <1>3 DEF Enumerated
  <2>3. DOMAIN list = 1..Cardinality(read)
    OBVIOUS
  <2> HIDE DEF list
  <2> QED
    BY <2>1, <2>2, <2>3 DEF ToSet
<1> HIDE DEF list
<1> QED
  BY <1>1, <1>4, <1>5, <1>6 DEF EntriesAt


WordAt(recs, place, word) ==
  /\ Len(recs) \in Nat /\ place.rec \in 1..Len(recs)
  /\ Len(recs[place.rec].data) \in Nat /\ place.at \in 1..Len(recs[place.rec].data)
  /\ recs[place.rec].data[place.at] = word

LEMMA SizeRead ==
  ASSUME NEW recs, NEW junk, NEW place, NEW word, WordAt(recs, place, word)
  PROVE  /\ ReadSize(recs, place, junk).n = (IF word.kind = "size" THEN word.val ELSE junk)
         /\ ReadSize(recs, place, junk).r.rec = place.rec
         /\ ReadSize(recs, place, junk).r.at = place.at + 1
PROOF
<1>1. ~(place.rec > Len(recs)) /\ ~(place.at > Len(recs[place.rec].data))
  BY DEF WordAt
<1> QED
  BY <1>1 DEF ReadSize, WordAt

(* A length leaves the reader in its record, or ends the Load.             *)
LEMMA SizeStays ==
  ASSUME NEW recs, NEW junk, NEW place
  PROVE  LET size == ReadSize(recs, place, junk)
         IN (size.n = 0 /\ size.r = EndOf(recs)) \/ size.r.rec = place.rec
PROOF
BY DEF ReadSize

(* Which records the four loops take: those of the queue, of the entries   *)
(* that came in, and a part of what follows, in which those that wait come *)
(* before those that are ready; if the reader keeps its place, it is those *)
(* that were written.                                                      *)
Known(S, recs, unknown) == {x \in S : Found(recs, x, unknown)}

Takes(now, recs, unknown, b, n, m, p, s0, s1, s2, s3) ==
  /\ now = [queue |-> ReadQueue(recs, unknown, s0), inData |-> ReadEntries(recs, unknown, s1),
            waitData |-> ReadEntries(recs, unknown, s2), readyData |-> ReadQueue(recs, unknown, s3)]
  /\ Turns(recs, s0) = 2..b - 1
  /\ EntriesRead(recs, unknown, s1) = Known(b + 1..b + n, recs, unknown)
  /\ EntriesRead(recs, unknown, s2) \subseteq Known(b + n + 1..b + n + m, recs, unknown)
  /\ Known(Turns(recs, s3), recs, unknown) \subseteq Known(b + n + 1..b + n + m + p, recs, unknown)
  /\ EntriesRead(recs, unknown, s2) \cap Known(Turns(recs, s3), recs, unknown) = {}
  /\ (n = 0 \/ Found(recs, b + n, unknown)) /\ (m = 0 \/ Found(recs, b + n + m, unknown))
       => /\ EntriesRead(recs, unknown, s2) = Known(b + n + 1..b + n + m, recs, unknown)
          /\ Known(Turns(recs, s3), recs, unknown) = Known(b + n + m + 1..b + n + m + p, recs, unknown)

LEMMA WhatLoadTakes ==
  ASSUME NEW recs, NEW c \in Nat, NEW n \in Nat, NEW m \in Nat, NEW p \in Nat, Records(recs, c, n, m, p),
         NEW unknown, NEW waitJunk \in Nat, NEW readyJunk \in Nat, NEW b, b = c + 2
  PROVE  \E s0, s1, s2, s3 : Takes(LoadFunctors(recs, unknown, waitJunk, readyJunk), recs, unknown, b, n, m, p, s0, s1, s2, s3)
PROOF
<1>0. b \in Nat /\ b >= 2
  OBVIOUS
<1>1. /\ DOMAIN recs = 1..Len(recs) /\ Len(recs) = b + n + m + p + 1 /\ Len(recs) \in Nat
      /\ \A x \in 1..Len(recs) : Len(recs[x].data) \in Nat
      /\ b \in Nat /\ b >= 2 /\ b = c + 2
  <2>1. /\ DOMAIN recs = 1..Len(recs) /\ Len(recs) = b + n + m + p + 1
        /\ \A x \in 1..Len(recs) : Len(recs[x].data) \in Nat
    BY DEF Records
  <2>2. b + n + m + p + 1 \in Nat
    BY <1>0
  <2> QED
    BY <1>0, <2>1, <2>2
<1>2. /\ recs[1].type = "FUNQ" /\ Len(recs[1].data) = 1 /\ recs[1].data[1] = Size(c)
      /\ recs[b].type = "WLST" /\ Len(recs[b].data) >= 1 /\ recs[b].data[1] = Size(n)
      /\ \A x \in 2..c + 1 : recs[x].type = "OBJE"
      /\ \A x \in b + 1..b + n + m + p : recs[x].type = "OBJE"
      /\ recs[Len(recs)].type = "____"
  BY DEF Records
<1>3. /\ \A x \in b + 1..b + n + m : Len(recs[x].data) >= 4 /\ recs[x].data[2].kind = "stack"
      /\ \A x \in b + n + m + 1..b + n + m + p : Len(recs[x].data) = 2
  BY DEF Records
<1>4. /\ n = 0 => Len(recs[b + n].data) >= 2 /\ recs[b + n].data[2] = Size(m)
      /\ n # 0 => Len(recs[b + n].data) >= 5 /\ recs[b + n].data[5] = Size(m)
      /\ m # 0 => Len(recs[b + n + m].data) >= 5 /\ recs[b + n + m].data[5] = Size(p)
      /\ m = 0 /\ n # 0 => Len(recs[b + n + m].data) >= 6 /\ recs[b + n + m].data[6] = Size(p)
      /\ m = 0 /\ n = 0 => Len(recs[b + n + m].data) >= 3 /\ recs[b + n + m].data[3] = Size(p)
  BY DEF Records
<1>5. (CHOOSE x \in DOMAIN recs : recs[x].type = "WLST") = b
  <2>1. b \in DOMAIN recs /\ recs[b].type = "WLST"
    BY <1>1, <1>2
  <2>2. ASSUME NEW x \in DOMAIN recs, recs[x].type = "WLST" PROVE x = b
    <3>1. x \in Int /\ 1 <= x /\ x <= b + n + m + p + 1
      BY <1>1
    <3>2. x = 1 \/ x \in 2..c + 1 \/ x = b \/ x \in b + 1..b + n + m + p \/ x = b + n + m + p + 1
      BY <1>0, <3>1
    <3> QED
      BY <1>1, <1>2, <2>2, <3>2
  <2> QED
    BY <2>1, <2>2
<1> PICK s0 : s0 = ReadSize(recs, [rec |-> 1, at |-> 1], waitJunk)
  OBVIOUS
<1> PICK s1 : s1 = ReadSize(recs, [rec |-> b, at |-> 1], waitJunk)
  OBVIOUS
<1> PICK e1 : e1 = BehindEntries(recs, unknown, s1)
  OBVIOUS
<1> PICK s2 : s2 = ReadSize(recs, e1, waitJunk)
  OBVIOUS
<1> PICK e2 : e2 = BehindEntries(recs, unknown, s2)
  OBVIOUS
<1> PICK s3 : s3 = ReadSize(recs, e2, readyJunk)
  OBVIOUS
<1>6. LoadFunctors(recs, unknown, waitJunk, readyJunk) =
        [queue |-> ReadQueue(recs, unknown, s0), inData |-> ReadEntries(recs, unknown, s1),
         waitData |-> ReadEntries(recs, unknown, s2), readyData |-> ReadQueue(recs, unknown, s3)]
  BY <1>5 DEF LoadFunctors
<1>7. s0.n = c /\ s0.r.rec = 1 /\ s1.n = n /\ s1.r.rec = b /\ s1.r.at = 2
  <2>1. PICK first, wlst : first = [rec |-> 1, at |-> 1] /\ wlst = [rec |-> b, at |-> 1]
    OBVIOUS
  <2>2. first.rec = 1 /\ first.at = 1 /\ wlst.rec = b /\ wlst.at = 1
    BY <2>1
  <2>3. s0 = ReadSize(recs, first, waitJunk) /\ s1 = ReadSize(recs, wlst, waitJunk)
    BY <2>1
  <2>4. s0.n = c /\ s0.r.rec = 1
    <3>1. first.rec \in 1..Len(recs) /\ first.at \in 1..Len(recs[first.rec].data) /\ Len(recs[first.rec].data) \in Nat
      BY <1>1, <1>2, <2>2
    <3>2. WordAt(recs, first, Size(c))
      BY <1>1, <1>2, <2>2, <3>1 DEF WordAt
    <3>3. Size(c).kind = "size" /\ Size(c).val = c
      BY DEF Size
    <3> QED
      BY <2>2, <2>3, <3>2, <3>3, SizeRead
  <2>5. s1.n = n /\ s1.r.rec = b /\ s1.r.at = 2
    <3>0. b \in 1..Len(recs)
      BY <1>1
    <3>1. wlst.rec \in 1..Len(recs) /\ wlst.at \in 1..Len(recs[wlst.rec].data) /\ Len(recs[wlst.rec].data) \in Nat
      BY <1>1, <1>2, <2>2, <3>0
    <3>2. WordAt(recs, wlst, Size(n))
      BY <1>1, <1>2, <2>2, <3>1 DEF WordAt
    <3>3. Size(n).kind = "size" /\ Size(n).val = n
      BY DEF Size
    <3> QED
      BY <2>2, <2>3, <3>2, <3>3, SizeRead
  <2> QED
    BY <2>4, <2>5
<1>8. Turns(recs, s0) = 2..c + 1 /\ Turns(recs, s1) = b + 1..b + n
  BY <1>1, <1>7 DEF Turns
<1>9. ASSUME NEW x \in b + 1..b + n + m PROVE ~EndsLoad(recs, x, unknown)
  BY <1>1, <1>3 DEF EndsLoad
<1>10. EntriesRead(recs, unknown, s1) = {x \in b + 1..b + n : Found(recs, x, unknown)}
  BY <1>1, <1>8, <1>9 DEF EntriesRead
<1>11. e1.rec = b + n /\ e1.at = IF n = 0 THEN 2 ELSE IF Found(recs, b + n, unknown) THEN 5 ELSE 2
  <2>1. ~(b + n > Len(recs))
    BY <1>1
  <2>2. \A x \in Turns(recs, s1) : ~EndsLoad(recs, x, unknown)
    BY <1>1, <1>8, <1>9
  <2>3. n # 0 => recs[b + n].type = "OBJE"
    BY <1>1, <1>2
  <2>4. n = 0 => b + n = b
    BY <1>1
  <2> QED
    BY <1>7, <2>1, <2>2, <2>3, <2>4 DEF BehindEntries
<1>12. /\ s2.r.rec = b + n /\ s2.n \in Nat
       /\ n = 0 \/ Found(recs, b + n, unknown) => s2.n = m /\ s2.r.at = IF n = 0 THEN 3 ELSE 6
  <2>1. CASE n = 0 \/ Found(recs, b + n, unknown)
    <3>1. e1.at = IF n = 0 THEN 2 ELSE 5
      BY <1>11, <2>1
    <3>2. e1.rec \in 1..Len(recs) /\ Len(recs[e1.rec].data) \in Nat
      BY <1>1, <1>11
    <3>3. e1.at \in 1..Len(recs[e1.rec].data) /\ recs[e1.rec].data[e1.at] = Size(m)
      <4>1. CASE n = 0
        <5>1. e1.at = 2 /\ Len(recs[e1.rec].data) >= 2 /\ recs[e1.rec].data[2] = Size(m)
          BY <1>4, <1>11, <3>1, <4>1
        <5> QED
          BY <3>2, <5>1
      <4>2. CASE n # 0
        <5>1. e1.at = 5 /\ Len(recs[e1.rec].data) >= 5 /\ recs[e1.rec].data[5] = Size(m)
          BY <1>4, <1>11, <3>1, <4>2
        <5> QED
          BY <3>2, <5>1
      <4> QED
        BY <4>1, <4>2
    <3>4. s2.n = m /\ s2.r.rec = e1.rec /\ s2.r.at = e1.at + 1
      <4>1. WordAt(recs, e1, Size(m))
        BY <1>1, <3>2, <3>3 DEF WordAt
      <4>2. Size(m).kind = "size" /\ Size(m).val = m
        BY DEF Size
      <4> QED
        BY <4>1, <4>2, SizeRead
    <3> QED
      BY <1>11, <2>1, <3>1, <3>4
  <2>2. CASE ~(n = 0 \/ Found(recs, b + n, unknown))
    <3>1. e1.rec = b + n /\ e1.at = 2
      BY <1>11, <2>2
    <3>2. b + n \in 1..Len(recs) /\ b + n \in b + 1..b + n + m
      BY <1>1, <2>2
    <3>3. /\ Len(recs[b + n].data) \in Nat /\ Len(recs[b + n].data) >= 4
          /\ recs[b + n].data[2].kind = "stack" /\ b + n <= Len(recs)
      BY <1>1, <1>3, <3>2
    <3>4. s2.n = waitJunk /\ s2.r.rec = b + n
      <4>1. WordAt(recs, e1, recs[b + n].data[2])
        <5>1. /\ e1.rec \in 1..Len(recs) /\ e1.at = 2
              /\ Len(recs[e1.rec].data) \in Nat /\ Len(recs[e1.rec].data) >= 4
          BY <3>1, <3>2, <3>3
        <5>2. e1.at \in 1..Len(recs[e1.rec].data)
          BY <5>1, SMTT(30)
        <5> QED
          BY <1>1, <3>1, <5>1, <5>2 DEF WordAt
      <4> QED
        BY <3>1, <3>3, <4>1, SizeRead
    <3> QED
      BY <2>2, <3>4
  <2> QED
    BY <2>1, <2>2
<1>13. ASSUME NEW x \in DOMAIN recs, x > b + n, Found(recs, x, unknown)
       PROVE  x \in b + n + 1..b + n + m + p
  <2>1. x # Len(recs)
    BY <1>2, <1>13 DEF Found
  <2>2. x \in Int /\ x <= b + n + m + p + 1 /\ x # b + n + m + p + 1
    BY <1>1, <1>13, <2>1
  <2> QED
    BY <1>0, <1>13, <2>2
<1>14. ASSUME NEW x \in EntriesRead(recs, unknown, s2)
       PROVE  x \in b + n + 1..b + n + m /\ Found(recs, x, unknown) /\ x <= b + n + s2.n
  <2>1. /\ x \in Turns(recs, s2) /\ Found(recs, x, unknown)
        /\ EndsLoad(recs, x, unknown) => x < x
    BY <1>14 DEF EntriesRead
  <2>2. x \in DOMAIN recs /\ x > b + n /\ x <= b + n + s2.n
    BY <1>1, <1>12, <2>1 DEF Turns
  <2>3. x \in b + n + 1..b + n + m + p
    BY <1>13, <2>1, <2>2
  <2>4. ~(x \in b + n + m + 1..b + n + m + p)
    <3> SUFFICES ASSUME x \in b + n + m + 1..b + n + m + p PROVE FALSE
      OBVIOUS
    <3>1. Len(recs[x].data) = 2
      BY <1>3
    <3>2. x \in Int /\ Len(recs[x].data) < 4
      BY <1>1, <3>1
    <3> QED
      BY <2>1, <3>2 DEF EndsLoad
  <2> QED
    BY <1>1, <2>1, <2>2, <2>3, <2>4
<1>15. \/ EntriesRead(recs, unknown, s2) = {} /\ e2.rec = b + n
       \/ e2 = EndOf(recs)
       \/ e2.rec = b + n + s2.n /\ e2.rec <= Len(recs)
  <2>1. CASE s2.n = 0
    <3>1. e2.rec = b + n
      BY <1>12, <2>1 DEF BehindEntries
    <3>2. ASSUME NEW x \in EntriesRead(recs, unknown, s2) PROVE FALSE
      <4>1. x \in b + n + 1..b + n + m /\ x <= b + n
        BY <1>1, <1>14, <2>1
      <4> QED
        BY <1>1, <4>1
    <3> QED
      BY <3>1, <3>2
  <2>2. CASE s2.n # 0
    <3>1. CASE b + n + s2.n > Len(recs) \/ \E x \in Turns(recs, s2) : EndsLoad(recs, x, unknown)
      BY <1>12, <2>2, <3>1 DEF BehindEntries
    <3>2. CASE ~(b + n + s2.n > Len(recs) \/ \E x \in Turns(recs, s2) : EndsLoad(recs, x, unknown))
      <4>1. e2.rec = b + n + s2.n
        BY <1>12, <2>2, <3>2 DEF BehindEntries
      <4>2. e2.rec <= Len(recs)
        BY <1>1, <1>12, <3>2, <4>1
      <4> QED
        BY <4>1, <4>2
    <3> QED
      BY <3>1, <3>2
  <2> QED
    BY <2>1, <2>2
<1> DEFINE ready == {x \in Turns(recs, s3) : Found(recs, x, unknown)}
<1>16. ASSUME NEW x \in ready
       PROVE  x \in b + n + 1..b + n + m + p /\ x \notin EntriesRead(recs, unknown, s2)
  <2>1. x \in DOMAIN recs /\ s3.r.rec < x /\ x <= s3.r.rec + s3.n /\ Found(recs, x, unknown)
    BY DEF Turns
  <2>2. (s3.n = 0 /\ s3.r = EndOf(recs)) \/ s3.r.rec = e2.rec
    BY SizeStays
  <2>3. ~(s3.n = 0 /\ s3.r = EndOf(recs))
    BY <1>1, <2>1 DEF EndOf
  <2>4. e2.rec < x
    BY <2>1, <2>2, <2>3
  <2>5. e2 # EndOf(recs)
    BY <1>1, <2>1, <2>4 DEF EndOf
  <2>6. x > b + n
    BY <1>1, <1>12, <1>15, <2>1, <2>4, <2>5
  <2>7. x \notin EntriesRead(recs, unknown, s2)
    <3> SUFFICES ASSUME x \in EntriesRead(recs, unknown, s2) PROVE FALSE
      OBVIOUS
    <3>1. x <= b + n + s2.n /\ e2.rec = b + n + s2.n
      BY <1>14, <1>15, <2>5
    <3> QED
      BY <1>1, <1>12, <2>1, <2>4, <3>1
  <2> QED
    BY <1>13, <2>1, <2>6, <2>7
<1>17. ASSUME n = 0 \/ Found(recs, b + n, unknown), m = 0 \/ Found(recs, b + n + m, unknown)
       PROVE  /\ EntriesRead(recs, unknown, s2) = {x \in b + n + 1..b + n + m : Found(recs, x, unknown)}
              /\ ready = {x \in b + n + m + 1..b + n + m + p : Found(recs, x, unknown)}
  <2>1. s2.n = m /\ s2.r.rec = b + n /\ s2.r.at = IF n = 0 THEN 3 ELSE 6
    BY <1>12, <1>17
  <2>2. Turns(recs, s2) = b + n + 1..b + n + m
    BY <1>1, <2>1 DEF Turns
  <2>3. \A x \in Turns(recs, s2) : ~EndsLoad(recs, x, unknown)
    BY <1>1, <1>9, <2>2
  <2>4. EntriesRead(recs, unknown, s2) = {x \in b + n + 1..b + n + m : Found(recs, x, unknown)}
    BY <2>2, <2>3 DEF EntriesRead
  <2>5. e2.rec = b + n + m /\ e2.at = IF m # 0 THEN 5 ELSE IF n # 0 THEN 6 ELSE 3
    <3>1. ~(b + n + m > Len(recs))
      BY <1>1
    <3>2. m = 0 => b + n + m = b + n
      BY <1>1
    <3> QED
      BY <1>17, <2>1, <2>3, <3>1, <3>2 DEF BehindEntries
  <2>6. s3.n = p /\ s3.r.rec = b + n + m
    <3>1. e2.rec \in 1..Len(recs) /\ Len(recs[e2.rec].data) \in Nat
      BY <1>1, <2>5
    <3>2. WordAt(recs, e2, Size(p))
      <4>1. CASE m # 0
        <5>1. e2.at = 5 /\ Len(recs[e2.rec].data) >= 5 /\ recs[e2.rec].data[5] = Size(p)
          BY <1>4, <2>5, <4>1
        <5> QED
          BY <1>1, <3>1, <5>1 DEF WordAt
      <4>2. CASE m = 0 /\ n # 0
        <5>1. e2.at = 6 /\ Len(recs[e2.rec].data) >= 6 /\ recs[e2.rec].data[6] = Size(p)
          BY <1>4, <2>5, <4>2
        <5> QED
          BY <1>1, <3>1, <5>1 DEF WordAt
      <4>3. CASE m = 0 /\ n = 0
        <5>1. e2.at = 3 /\ Len(recs[e2.rec].data) >= 3 /\ recs[e2.rec].data[3] = Size(p)
          BY <1>4, <2>5, <4>3
        <5> QED
          BY <1>1, <3>1, <5>1, SMTT(30) DEF WordAt
      <4> QED
        BY <4>1, <4>2, <4>3
    <3>3. s3.n = p /\ s3.r.rec = e2.rec
      <4>1. Size(p).kind = "size" /\ Size(p).val = p
        BY DEF Size
      <4> QED
        BY <3>2, <4>1, SizeRead
    <3> QED
      BY <2>5, <3>3
  <2>7. Turns(recs, s3) = b + n + m + 1..b + n + m + p
    BY <1>1, <2>6 DEF Turns
  <2> QED
    BY <2>4, <2>7
<1> HIDE DEF ready
<1>18. /\ EntriesRead(recs, unknown, s2) \subseteq {x \in b + n + 1..b + n + m : Found(recs, x, unknown)}
       /\ ready \subseteq {x \in b + n + 1..b + n + m + p : Found(recs, x, unknown)}
       /\ EntriesRead(recs, unknown, s2) \cap ready = {}
  BY <1>14, <1>16 DEF ready
<1> QED
  <2>1. 2..c + 1 = 2..b - 1
    BY <1>1
  <2>2. Takes(LoadFunctors(recs, unknown, waitJunk, readyJunk), recs, unknown, b, n, m, p, s0, s1, s2, s3)
    BY <1>6, <1>8, <1>10, <1>17, <1>18, <2>1 DEF Takes, Known, ready
  <2> QED
    BY <2>2


-----------------------------------------------------------------------------
(* What a Load brings back.  In the lists of a save every functor has one  *)
(* place.                                                                  *)
NamesOf(l) == {l[x].f : x \in DOMAIN l}

Apart(q, i, w, r) ==
  /\ \A x, y \in DOMAIN q : q[x] = q[y] => x = y
  /\ \A x, y \in DOMAIN i : i[x].f = i[y].f => x = y
  /\ \A x, y \in DOMAIN w : w[x].f = w[y].f => x = y
  /\ \A x, y \in DOMAIN r : r[x] = r[y] => x = y
  /\ ToSet(q) \cap (NamesOf(i) \cup NamesOf(w) \cup ToSet(r)) = {}
  /\ NamesOf(i) \cap (NamesOf(w) \cup ToSet(r)) = {}
  /\ NamesOf(w) \cap ToSet(r) = {}

ObjectsListed(i, w, r, n, m, p) ==
  /\ \A k \in 1..n + m + p : ObjectOf(i, w, r, k) \in Functors
  /\ \A k \in 1..n + m : EntryOf(i, w, k) \in Entry /\ EntryOf(i, w, k).f = ObjectOf(i, w, r, k)
  /\ \A k \in 1..n : EntryOf(i, w, k) = i[k] /\ i[k] \in ToSet(i)
  /\ \A k \in n + 1..n + m : EntryOf(i, w, k) \in ToSet(w) /\ ObjectOf(i, w, r, k) \in NamesOf(w)
  /\ \A k \in n + m + 1..n + m + p : ObjectOf(i, w, r, k) \in ToSet(r)
  /\ \A e \in ToSet(i) : \E k \in 1..n : EntryOf(i, w, k) = e
  /\ \A e \in ToSet(w) : \E k \in n + 1..n + m : EntryOf(i, w, k) = e
  /\ \A f \in ToSet(r) : \E k \in n + m + 1..n + m + p : ObjectOf(i, w, r, k) = f

LEMMA ListedObjects ==
  ASSUME NEW i \in Seq(Entry), NEW w \in Seq(Entry), NEW r \in Seq(Functors),
         NEW n, NEW m, NEW p, n = Len(i), m = Len(w), p = Len(r)
  PROVE  /\ n \in Nat /\ m \in Nat /\ p \in Nat
         /\ ObjectsListed(i, w, r, n, m, p)
PROOF
<1>0. n \in Nat /\ m \in Nat /\ p \in Nat
  OBVIOUS
<1>1. /\ DOMAIN i = 1..n /\ DOMAIN w = 1..m /\ DOMAIN r = 1..p
      /\ \A k \in 1..n : i[k] \in Entry
      /\ \A k \in 1..m : w[k] \in Entry
      /\ \A k \in 1..p : r[k] \in Functors
  OBVIOUS
<1>2. \A e \in Entry : e.f \in Functors
  BY DEF Entry
<1>3. ASSUME NEW k \in 1..n
      PROVE  EntryOf(i, w, k) = i[k] /\ ObjectOf(i, w, r, k) = i[k].f
  <2>1. k <= n /\ k <= n + m
    BY <1>0
  <2> QED
    BY <2>1 DEF EntryOf, ObjectOf
<1>4. ASSUME NEW k \in n + 1..n + m
      PROVE  EntryOf(i, w, k) = w[k - n] /\ ObjectOf(i, w, r, k) = w[k - n].f /\ k - n \in 1..m
  <2>1. ~(k <= n) /\ k <= n + m /\ k - n \in 1..m
    BY <1>0
  <2> QED
    BY <2>1 DEF EntryOf, ObjectOf
<1>5. ASSUME NEW k \in n + m + 1..n + m + p
      PROVE  ObjectOf(i, w, r, k) = r[k - (n + m)] /\ k - (n + m) \in 1..p
  <2>1. ~(k <= n + m) /\ k - (n + m) \in 1..p
    BY <1>0
  <2> QED
    BY <2>1 DEF ObjectOf
<1>6. \A k \in 1..n + m : k \in 1..n \/ k \in n + 1..n + m
  BY <1>0
<1>7. \A k \in 1..n + m + p : k \in 1..n + m \/ k \in n + m + 1..n + m + p
  BY <1>0
<1>8. \A k \in 1..n + m : EntryOf(i, w, k) \in Entry /\ EntryOf(i, w, k).f = ObjectOf(i, w, r, k)
  BY <1>1, <1>3, <1>4, <1>6
<1>9. \A k \in 1..n + m + p : ObjectOf(i, w, r, k) \in Functors
  BY <1>1, <1>2, <1>5, <1>7, <1>8
<1>10. \A k \in 1..n : EntryOf(i, w, k) = i[k] /\ i[k] \in ToSet(i)
  BY <1>1, <1>3 DEF ToSet
<1>11. \A k \in n + 1..n + m : EntryOf(i, w, k) \in ToSet(w) /\ ObjectOf(i, w, r, k) \in NamesOf(w)
  BY <1>1, <1>4 DEF ToSet, NamesOf
<1>12. \A k \in n + m + 1..n + m + p : ObjectOf(i, w, r, k) \in ToSet(r)
  BY <1>1, <1>5 DEF ToSet
<1>13. ASSUME NEW e \in ToSet(i) PROVE \E k \in 1..n : EntryOf(i, w, k) = e
  BY <1>1, <1>3 DEF ToSet
<1>14. ASSUME NEW e \in ToSet(w) PROVE \E k \in n + 1..n + m : EntryOf(i, w, k) = e
  <2>1. PICK x \in 1..m : e = w[x]
    BY <1>1 DEF ToSet
  <2>2. n + x \in n + 1..n + m /\ (n + x) - n = x
    BY <1>0
  <2> QED
    BY <1>4, <2>1, <2>2
<1>15. ASSUME NEW f \in ToSet(r) PROVE \E k \in n + m + 1..n + m + p : ObjectOf(i, w, r, k) = f
  <2>1. PICK x \in 1..p : f = r[x]
    BY <1>1 DEF ToSet
  <2>2. n + m + x \in n + m + 1..n + m + p /\ (n + m + x) - (n + m) = x
    BY <1>0
  <2> QED
    BY <1>5, <2>1, <2>2
<1> QED
  BY <1>0, <1>8, <1>9, <1>10, <1>11, <1>12, <1>13, <1>14, <1>15 DEF ObjectsListed

ObjectsOnce(i, w, r, n, m, p) ==
  \A j, k \in 1..n + m + p : ObjectOf(i, w, r, j) = ObjectOf(i, w, r, k) => j = k

LEMMA ObjectsApart ==
  ASSUME NEW q, NEW i \in Seq(Entry), NEW w \in Seq(Entry), NEW r \in Seq(Functors), Apart(q, i, w, r),
         NEW n, NEW m, NEW p, n = Len(i), m = Len(w), p = Len(r)
  PROVE  ObjectsOnce(i, w, r, n, m, p)
PROOF
<1> SUFFICES ASSUME NEW j \in 1..n + m + p, NEW k \in 1..n + m + p,
                    ObjectOf(i, w, r, j) = ObjectOf(i, w, r, k)
             PROVE  j = k
  BY DEF ObjectsOnce
<1>0. n \in Nat /\ m \in Nat /\ p \in Nat
  OBVIOUS
<1>1. DOMAIN i = 1..n /\ DOMAIN w = 1..m /\ DOMAIN r = 1..p
  OBVIOUS
<1>2. ASSUME NEW x \in 1..n + m + p
      PROVE  \/ x \in 1..n /\ ObjectOf(i, w, r, x) = i[x].f /\ i[x].f \in NamesOf(i)
             \/ /\ x - n \in 1..m /\ ObjectOf(i, w, r, x) = w[x - n].f /\ w[x - n].f \in NamesOf(w)
             \/ /\ x - (n + m) \in 1..p /\ ObjectOf(i, w, r, x) = r[x - (n + m)]
                /\ r[x - (n + m)] \in ToSet(r)
  <2>1. \/ x \in 1..n /\ x <= n /\ x <= n + m
        \/ x - n \in 1..m /\ ~(x <= n) /\ x <= n + m
        \/ x - (n + m) \in 1..p /\ ~(x <= n + m)
    BY <1>0
  <2> QED
    BY <1>1, <2>1 DEF ObjectOf, EntryOf, NamesOf, ToSet
<1>3. j \in Int /\ k \in Int
  BY <1>0
<1>4. \A x, y \in 1..m : w[x].f = w[y].f => x = y
  BY <1>1 DEF Apart
<1>5. \A x, y \in 1..p : r[x] = r[y] => x = y
  BY <1>1 DEF Apart
<1>6. \A x, y \in 1..n : i[x].f = i[y].f => x = y
  BY <1>1 DEF Apart
<1>7. NamesOf(i) \cap NamesOf(w) = {} /\ NamesOf(i) \cap ToSet(r) = {} /\ NamesOf(w) \cap ToSet(r) = {}
  BY DEF Apart
<1>8. CASE j \in 1..n /\ ObjectOf(i, w, r, j) = i[j].f /\ i[j].f \in NamesOf(i)
  <2>1. k \in 1..n /\ ObjectOf(i, w, r, k) = i[k].f
    BY <1>2, <1>7, <1>8
  <2> QED
    BY <1>6, <1>8, <2>1
<1>9. CASE j - n \in 1..m /\ ObjectOf(i, w, r, j) = w[j - n].f /\ w[j - n].f \in NamesOf(w)
  <2>1. k - n \in 1..m /\ ObjectOf(i, w, r, k) = w[k - n].f
    BY <1>2, <1>7, <1>9
  <2>2. j - n = k - n
    BY <1>4, <1>9, <2>1
  <2> QED
    BY <1>0, <1>3, <2>2
<1>10. CASE j - (n + m) \in 1..p /\ ObjectOf(i, w, r, j) = r[j - (n + m)] /\ r[j - (n + m)] \in ToSet(r)
  <2>1. k - (n + m) \in 1..p /\ ObjectOf(i, w, r, k) = r[k - (n + m)]
    BY <1>2, <1>7, <1>10
  <2>2. j - (n + m) = k - (n + m)
    BY <1>5, <1>10, <2>1
  <2> QED
    BY <1>0, <1>3, <2>2
<1> QED
  BY <1>2, <1>8, <1>9, <1>10


Loaded(now, q, i, w, r, unknown) ==
  /\ now.queue \in Seq(Functors) /\ \A j, k \in DOMAIN now.queue : now.queue[j] = now.queue[k] => j = k
  /\ ToSet(now.queue) = ToSet(q) \ unknown
  /\ now.inData \in Seq(Entry) /\ \A j, k \in DOMAIN now.inData : now.inData[j].f = now.inData[k].f => j = k
  /\ ToSet(now.inData) = {e \in ToSet(i) : e.f \notin unknown}
  /\ ToSet(now.waitData) \subseteq {e \in ToSet(w) : e.f \notin unknown}
  /\ ToSet(now.readyData) \subseteq (NamesOf(w) \cup ToSet(r)) \ unknown
  /\ \A e \in ToSet(now.waitData) : e.f \notin ToSet(now.readyData)
  /\ {Last(l).f : l \in {i, w} \ {<<>>}} \cap unknown = {}
       => /\ ToSet(now.waitData) = {e \in ToSet(w) : e.f \notin unknown}
          /\ ToSet(now.readyData) = ToSet(r) \ unknown

LEMMA LoadBrings ==
  ASSUME NEW q \in Seq(Functors), NEW i \in Seq(Entry), NEW w \in Seq(Entry), NEW r \in Seq(Functors),
         Apart(q, i, w, r), NEW recs, Layout(recs, q, i, w, r), NEW unknown, NEW waitJunk \in Nat, NEW readyJunk \in Nat
  PROVE  Loaded(LoadFunctors(recs, unknown, waitJunk, readyJunk), q, i, w, r, unknown)
PROOF
<1> PICK now : now = LoadFunctors(recs, unknown, waitJunk, readyJunk)
  OBVIOUS
<1> PICK c, n, m, p, b : c = Len(q) /\ n = Len(i) /\ m = Len(w) /\ p = Len(r) /\ b = c + 2
  OBVIOUS
<1>1. c \in Nat /\ n \in Nat /\ m \in Nat /\ p \in Nat /\ b \in Nat /\ b >= 2 /\ b = WaitAt(q) /\ b = c + 2
  BY DEF WaitAt
<1>2. ObjectsListed(i, w, r, n, m, p)
  BY ListedObjects
<1>3. \A j, k \in 1..n + m + p : ObjectOf(i, w, r, j) = ObjectOf(i, w, r, k) => j = k
  <2>1. ObjectsOnce(i, w, r, n, m, p)
    BY ObjectsApart
  <2> QED
    BY <2>1 DEF ObjectsOnce
<1>4. Records(recs, c, n, m, p)
  BY DEF Layout
<1>5. /\ \A k \in 1..c : Name(recs, k + 1) = q[k]
      /\ \A k \in 1..n + m + p : Name(recs, b + k) = ObjectOf(i, w, r, k)
      /\ \A k \in 1..n + m : recs[b + k].data[3].val = EntryOf(i, w, k).left
  BY <1>1 DEF Layout
<1>6. /\ DOMAIN recs = 1..Len(recs) /\ Len(recs) \in Nat
      /\ \A x \in (2..c + 1) \cup (b + 1..b + n + m + p) : recs[x].type = "OBJE"
  <2>1. /\ DOMAIN recs = 1..Len(recs) /\ Len(recs) = b + n + m + p + 1
        /\ \A x \in (2..c + 1) \cup (b + 1..b + n + m + p) : recs[x].type = "OBJE"
    BY <1>4 DEF Records
  <2>2. b + n + m + p + 1 \in Nat
    BY <1>1
  <2> QED
    BY <2>1, <2>2
<1>7. PICK s0, s1, s2, s3 : Takes(now, recs, unknown, b, n, m, p, s0, s1, s2, s3)
  BY <1>1, <1>4, WhatLoadTakes
<1>8. /\ \A k \in 1..c : Found(recs, k + 1, unknown) <=> q[k] \notin unknown
      /\ \A k \in 1..n + m + p : Found(recs, b + k, unknown) <=> ObjectOf(i, w, r, k) \notin unknown
  <2>1. ASSUME NEW k \in 1..c PROVE Found(recs, k + 1, unknown) <=> q[k] \notin unknown
    <3>1. k + 1 \in 2..c + 1
      BY <1>1
    <3> QED
      BY <1>5, <1>6, <3>1 DEF Found
  <2>2. ASSUME NEW k \in 1..n + m + p PROVE Found(recs, b + k, unknown) <=> ObjectOf(i, w, r, k) \notin unknown
    <3>1. b + k \in b + 1..b + n + m + p
      BY <1>1
    <3> QED
      BY <1>5, <1>6, <3>1 DEF Found
  <2> QED
    BY <2>1, <2>2
<1>9. ASSUME NEW x \in Known(b + 1..b + n + m + p, recs, unknown)
      PROVE  \E k \in 1..n + m + p : /\ x = b + k /\ Name(recs, x) = ObjectOf(i, w, r, k)
                                     /\ ObjectOf(i, w, r, k) \notin unknown
  <2>1. x \in b + 1..b + n + m + p /\ Found(recs, x, unknown)
    BY DEF Known
  <2>2. x - b \in 1..n + m + p /\ b + (x - b) = x
    BY <1>1, <2>1
  <2> QED
    BY <1>5, <1>8, <2>1, <2>2
<1>10. \A x, y \in Known(b + 1..b + n + m + p, recs, unknown) : Name(recs, x) = Name(recs, y) => x = y
  <2> SUFFICES ASSUME NEW x \in Known(b + 1..b + n + m + p, recs, unknown),
                      NEW y \in Known(b + 1..b + n + m + p, recs, unknown), Name(recs, x) = Name(recs, y)
               PROVE  x = y
    OBVIOUS
  <2>1. PICK j \in 1..n + m + p : x = b + j /\ Name(recs, x) = ObjectOf(i, w, r, j)
    BY <1>9
  <2>2. PICK k \in 1..n + m + p : y = b + k /\ Name(recs, y) = ObjectOf(i, w, r, k)
    BY <1>9
  <2>3. j = k
    BY <1>3, <2>1, <2>2
  <2> QED
    BY <2>1, <2>2, <2>3
<1>11. /\ now.queue \in Seq(Functors) /\ \A j, k \in DOMAIN now.queue : now.queue[j] = now.queue[k] => j = k
       /\ ToSet(now.queue) = ToSet(q) \ unknown
  <2>1. now.queue = ReadQueue(recs, unknown, s0) /\ Turns(recs, s0) = 2..b - 1
    BY <1>7 DEF Takes
  <2>2. PICK read : read = {x \in Turns(recs, s0) : Found(recs, x, unknown)}
    OBVIOUS
  <2>3. ASSUME NEW x \in read PROVE \E k \in 1..c : x = k + 1 /\ Name(recs, x) = q[k] /\ q[k] \notin unknown
    <3>1. x \in 2..b - 1 /\ Found(recs, x, unknown)
      BY <2>1, <2>2
    <3>2. x - 1 \in 1..c /\ (x - 1) + 1 = x
      BY <1>1, <3>1
    <3> QED
      BY <1>5, <1>8, <3>1, <3>2
  <2>4. \A k \in 1..c : q[k] \in Functors
    OBVIOUS
  <2>5. \A x, y \in 1..c : q[x] = q[y] => x = y
    <3>1. DOMAIN q = 1..c
      OBVIOUS
    <3> QED
      BY <3>1 DEF Apart
  <2>6. QueueRead(now.queue, recs, read)
    <3>1. \A x \in read : Name(recs, x) \in Functors
      BY <2>3, <2>4
    <3>2. \A x, y \in read : Name(recs, x) = Name(recs, y) => x = y
      BY <2>3, <2>5, SMTT(30)
    <3>3. QueueRead(ReadQueue(recs, unknown, s0), recs, read)
      BY <1>6, <2>2, <3>1, <3>2, QueueReads
    <3> QED
      BY <2>1, <3>3
  <2>7. ToSet(q) = {q[k] : k \in 1..c}
    <3>1. DOMAIN q = 1..c
      OBVIOUS
    <3> QED
      BY <3>1 DEF ToSet
  <2>8. ASSUME NEW k \in 1..c, q[k] \notin unknown PROVE \E x \in read : Name(recs, x) = q[k]
    <3>1. k + 1 \in 2..b - 1
      BY <1>1
    <3> QED
      BY <1>5, <1>8, <2>1, <2>2, <2>8, <3>1
  <2>9. {Name(recs, x) : x \in read} = ToSet(q) \ unknown
    BY <2>3, <2>7, <2>8
  <2> QED
    BY <2>6, <2>9 DEF QueueRead
<1>12. ASSUME NEW k \in 1..n + m
       PROVE  /\ ReadAt(recs, b + k) = EntryOf(i, w, k) /\ EntryOf(i, w, k) \in Entry
              /\ EntryOf(i, w, k).f = ObjectOf(i, w, r, k)
  <2>1. k \in 1..n + m + p
    BY <1>1
  <2>2. EntryOf(i, w, k) \in Entry /\ EntryOf(i, w, k).f = ObjectOf(i, w, r, k)
    BY <1>2 DEF ObjectsListed
  <2>3. Name(recs, b + k) = EntryOf(i, w, k).f /\ recs[b + k].data[3].val = EntryOf(i, w, k).left
    BY <1>5, <2>1, <2>2
  <2> QED
    BY <2>2, <2>3 DEF ReadAt, Entry
<1>13. ASSUME NEW x \in Known(b + 1..b + n + m, recs, unknown)
       PROVE  \E k \in 1..n + m : /\ x = b + k /\ ReadAt(recs, x) = EntryOf(i, w, k)
                                  /\ EntryOf(i, w, k) \in Entry /\ EntryOf(i, w, k).f \notin unknown
  <2>1. x \in b + 1..b + n + m /\ Found(recs, x, unknown)
    BY DEF Known
  <2>2. x - b \in 1..n + m /\ x - b \in 1..n + m + p /\ b + (x - b) = x
    BY <1>1, <2>1
  <2> QED
    BY <1>8, <1>12, <2>1, <2>2
<1>14. /\ now.inData \in Seq(Entry) /\ \A j, k \in DOMAIN now.inData : now.inData[j].f = now.inData[k].f => j = k
       /\ ToSet(now.inData) = {e \in ToSet(i) : e.f \notin unknown}
  <2>1. now.inData = ReadEntries(recs, unknown, s1)
    BY <1>7 DEF Takes
  <2>2. PICK read : read = EntriesRead(recs, unknown, s1)
    OBVIOUS
  <2>3. read = Known(b + 1..b + n, recs, unknown)
    BY <1>7, <2>2 DEF Takes
  <2>4. /\ \A x \in read : x \in Known(b + 1..b + n + m, recs, unknown)
        /\ \A x \in read : x \in Known(b + 1..b + n + m + p, recs, unknown)
    <3>1. \A x \in b + 1..b + n : x \in b + 1..b + n + m /\ x \in b + 1..b + n + m + p
      BY <1>1
    <3> QED
      BY <2>3, <3>1 DEF Known
  <2>5. EntriesAt(now.inData, recs, read)
    <3>1. \A x \in read : ReadAt(recs, x) \in Entry
      BY <1>13, <2>4
    <3>2. \A x, y \in read : Name(recs, x) = Name(recs, y) => x = y
      BY <1>10, <2>4
    <3> QED
      BY <1>6, <2>1, <2>2, <3>1, <3>2, EntriesReads
  <2>6. ASSUME NEW x \in read PROVE ReadAt(recs, x) \in ToSet(i) /\ ReadAt(recs, x).f \notin unknown
    <3>1. PICK k \in 1..n + m : /\ x = b + k /\ ReadAt(recs, x) = EntryOf(i, w, k)
                                /\ EntryOf(i, w, k).f \notin unknown
      BY <1>13, <2>4
    <3>2. x \in b + 1..b + n
      BY <2>3 DEF Known
    <3>3. k \in 1..n
      BY <1>1, <3>1, <3>2
    <3> QED
      BY <1>2, <3>1, <3>3 DEF ObjectsListed
  <2>7. ASSUME NEW e \in ToSet(i), e.f \notin unknown PROVE \E x \in read : ReadAt(recs, x) = e
    <3>1. PICK k \in 1..n : EntryOf(i, w, k) = e
      BY <1>2 DEF ObjectsListed
    <3>2. k \in 1..n + m /\ k \in 1..n + m + p /\ b + k \in b + 1..b + n
      BY <1>1
    <3>3. ReadAt(recs, b + k) = e /\ ObjectOf(i, w, r, k) \notin unknown
      BY <1>12, <2>7, <3>1, <3>2
    <3>4. b + k \in read
      BY <1>8, <2>3, <3>2, <3>3 DEF Known
    <3> QED
      BY <3>3, <3>4
  <2>8. {ReadAt(recs, x) : x \in read} = {e \in ToSet(i) : e.f \notin unknown}
    BY <2>6, <2>7
  <2> QED
    BY <2>5, <2>8 DEF EntriesAt
<1> PICK waits : waits = EntriesRead(recs, unknown, s2)
  OBVIOUS
<1> PICK readies : readies = Known(Turns(recs, s3), recs, unknown)
  OBVIOUS
<1>15. /\ waits \subseteq Known(b + n + 1..b + n + m, recs, unknown)
       /\ readies \subseteq Known(b + n + 1..b + n + m + p, recs, unknown)
       /\ waits \cap readies = {}
       /\ now.waitData = ReadEntries(recs, unknown, s2) /\ now.readyData = ReadQueue(recs, unknown, s3)
  BY <1>7 DEF Takes
<1>16. ASSUME NEW x \in waits
       PROVE  x \in Known(b + 1..b + n + m, recs, unknown) /\ x \in Known(b + 1..b + n + m + p, recs, unknown)
  <2>1. x \in b + n + 1..b + n + m /\ Found(recs, x, unknown)
    BY <1>15 DEF Known
  <2>2. x \in b + 1..b + n + m /\ x \in b + 1..b + n + m + p
    BY <1>1, <2>1
  <2> QED
    BY <2>1, <2>2 DEF Known
<1>17. ASSUME NEW x \in readies
       PROVE  x \in Known(b + 1..b + n + m + p, recs, unknown) /\ x \in b + n + 1..b + n + m + p
  <2>1. x \in b + n + 1..b + n + m + p /\ Found(recs, x, unknown)
    BY <1>15 DEF Known
  <2>2. x \in b + 1..b + n + m + p
    BY <1>1, <2>1
  <2> QED
    BY <2>1, <2>2 DEF Known
<1>18. ToSet(now.waitData) = {ReadAt(recs, x) : x \in waits}
  <2>1. \A x \in waits : ReadAt(recs, x) \in Entry
    BY <1>13, <1>16
  <2>2. \A x, y \in waits : Name(recs, x) = Name(recs, y) => x = y
    BY <1>10, <1>16
  <2>3. EntriesAt(now.waitData, recs, waits)
    BY <1>6, <1>15, <2>1, <2>2, EntriesReads
  <2> QED
    BY <2>3 DEF EntriesAt
<1>19. ToSet(now.readyData) = {Name(recs, x) : x \in readies}
  <2>1. ASSUME NEW x \in readies PROVE Name(recs, x) \in Functors
    <3>1. PICK k \in 1..n + m + p : Name(recs, x) = ObjectOf(i, w, r, k)
      BY <1>9, <1>17
    <3> QED
      BY <1>2, <3>1 DEF ObjectsListed
  <2>2. \A x, y \in readies : Name(recs, x) = Name(recs, y) => x = y
    BY <1>10, <1>17
  <2>3. readies = {x \in Turns(recs, s3) : Found(recs, x, unknown)}
    BY DEF Known
  <2>4. QueueRead(ReadQueue(recs, unknown, s3), recs, readies)
    BY <1>6, <2>1, <2>2, <2>3, QueueReads
  <2> QED
    BY <1>15, <2>4 DEF QueueRead
<1>20. ASSUME NEW x \in waits PROVE ReadAt(recs, x) \in ToSet(w) /\ ReadAt(recs, x).f \notin unknown
  <2>1. PICK k \in 1..n + m : /\ x = b + k /\ ReadAt(recs, x) = EntryOf(i, w, k)
                              /\ EntryOf(i, w, k).f \notin unknown
    BY <1>13, <1>16
  <2>2. x \in b + n + 1..b + n + m
    BY <1>15 DEF Known
  <2>3. k \in n + 1..n + m
    BY <1>1, <2>1, <2>2
  <2> QED
    BY <1>2, <2>1, <2>3 DEF ObjectsListed
<1>21. ASSUME NEW x \in readies PROVE Name(recs, x) \in (NamesOf(w) \cup ToSet(r)) \ unknown
  <2>1. PICK k \in 1..n + m + p : /\ x = b + k /\ Name(recs, x) = ObjectOf(i, w, r, k)
                                  /\ ObjectOf(i, w, r, k) \notin unknown
    BY <1>9, <1>17
  <2>2. k \in n + 1..n + m \/ k \in n + m + 1..n + m + p
    BY <1>1, <1>17, <2>1
  <2> QED
    BY <1>2, <2>1, <2>2 DEF ObjectsListed
<1>22. ASSUME NEW x \in waits, NEW y \in readies PROVE ReadAt(recs, x).f # Name(recs, y)
  <2>1. ReadAt(recs, x).f = Name(recs, x)
    BY DEF ReadAt
  <2>2. x # y
    BY <1>15
  <2> QED
    BY <1>10, <1>16, <1>17, <2>1, <2>2
<1>23. ASSUME {Last(l).f : l \in {i, w} \ {<<>>}} \cap unknown = {}
       PROVE  /\ ToSet(now.waitData) = {e \in ToSet(w) : e.f \notin unknown}
              /\ ToSet(now.readyData) = ToSet(r) \ unknown
  <2>1. n = 0 \/ Found(recs, b + n, unknown)
    <3> SUFFICES ASSUME n # 0 PROVE Found(recs, b + n, unknown)
      OBVIOUS
    <3>1. i # <<>> /\ Last(i) = i[n]
      BY DEF Last
    <3>2. i[n].f \notin unknown
      BY <1>23, <3>1
    <3>3. n \in 1..n /\ n \in 1..n + m /\ n \in 1..n + m + p
      BY <1>1
    <3>4. ObjectOf(i, w, r, n) = i[n].f
      BY <1>2, <3>3 DEF ObjectsListed
    <3> QED
      BY <1>8, <3>2, <3>3, <3>4
  <2>2. m = 0 \/ Found(recs, b + n + m, unknown)
    <3> SUFFICES ASSUME m # 0 PROVE Found(recs, b + n + m, unknown)
      OBVIOUS
    <3>1. w # <<>> /\ Last(w) = w[m]
      BY DEF Last
    <3>2. w[m].f \notin unknown
      BY <1>23, <3>1
    <3>3. n + m \in 1..n + m + p /\ b + (n + m) = b + n + m
      BY <1>1
    <3>4. ObjectOf(i, w, r, n + m) = w[m].f
      <4>1. ~(n + m <= n) /\ n + m <= n + m /\ (n + m) - n = m
        BY <1>1
      <4> QED
        BY <4>1 DEF ObjectOf, EntryOf
    <3> QED
      BY <1>8, <3>2, <3>3, <3>4
  <2>3. /\ waits = Known(b + n + 1..b + n + m, recs, unknown)
        /\ readies = Known(b + n + m + 1..b + n + m + p, recs, unknown)
    BY <1>7, <2>1, <2>2 DEF Takes
  <2>4. ASSUME NEW e \in ToSet(w), e.f \notin unknown PROVE \E x \in waits : ReadAt(recs, x) = e
    <3>1. PICK k \in n + 1..n + m : EntryOf(i, w, k) = e
      BY <1>2 DEF ObjectsListed
    <3>2. k \in 1..n + m /\ k \in 1..n + m + p /\ b + k \in b + n + 1..b + n + m
      BY <1>1
    <3>3. ReadAt(recs, b + k) = e /\ ObjectOf(i, w, r, k) \notin unknown
      BY <1>12, <2>4, <3>1, <3>2
    <3>4. b + k \in waits
      BY <1>8, <2>3, <3>2, <3>3 DEF Known
    <3> QED
      BY <3>3, <3>4
  <2>5. ASSUME NEW f \in ToSet(r), f \notin unknown PROVE \E x \in readies : Name(recs, x) = f
    <3>1. PICK k \in n + m + 1..n + m + p : ObjectOf(i, w, r, k) = f
      BY <1>2 DEF ObjectsListed
    <3>2. k \in 1..n + m + p /\ b + k \in b + n + m + 1..b + n + m + p
      BY <1>1
    <3>3. b + k \in readies
      BY <1>8, <2>3, <2>5, <3>1, <3>2 DEF Known
    <3> QED
      BY <1>5, <3>1, <3>2, <3>3
  <2>6. ASSUME NEW x \in readies PROVE Name(recs, x) \in ToSet(r) \ unknown
    <3>1. PICK k \in 1..n + m + p : /\ x = b + k /\ Name(recs, x) = ObjectOf(i, w, r, k)
                                    /\ ObjectOf(i, w, r, k) \notin unknown
      BY <1>9, <1>17
    <3>2. x \in b + n + m + 1..b + n + m + p
      BY <2>3 DEF Known
    <3>3. k \in n + m + 1..n + m + p
      BY <1>1, <3>1, <3>2
    <3> QED
      BY <1>2, <3>1, <3>3 DEF ObjectsListed
  <2> QED
    BY <1>18, <1>19, <1>20, <2>4, <2>5, <2>6
<1>24. /\ ToSet(now.waitData) \subseteq {e \in ToSet(w) : e.f \notin unknown}
       /\ ToSet(now.readyData) \subseteq (NamesOf(w) \cup ToSet(r)) \ unknown
       /\ \A e \in ToSet(now.waitData) : e.f \notin ToSet(now.readyData)
  BY <1>18, <1>19, <1>20, <1>21, <1>22
<1>25. Loaded(now, q, i, w, r, unknown)
  BY <1>11, <1>14, <1>23, <1>24 DEF Loaded
<1> QED
  BY <1>25


-----------------------------------------------------------------------------
(* Lists with one place for each functor, as they grow and shrink.         *)
LEMMA ListGrows ==
  ASSUME NEW S, NEW s \in Seq(S), NEW e \in S
  PROVE  /\ Append(s, e) \in Seq(S)
         /\ DOMAIN s = 1..Len(s) /\ Len(s) \in Nat /\ DOMAIN Append(s, e) = 1..Len(s) + 1
         /\ \A x \in DOMAIN s : Append(s, e)[x] = s[x]
         /\ Append(s, e)[Len(s) + 1] = e
         /\ ToSet(Append(s, e)) = ToSet(s) \cup {e}
PROOF
<1>1. /\ Append(s, e) \in Seq(S) /\ DOMAIN s = 1..Len(s) /\ Len(s) \in Nat
      /\ Len(Append(s, e)) = Len(s) + 1
      /\ \A x \in 1..Len(s) : Append(s, e)[x] = s[x]
      /\ Append(s, e)[Len(s) + 1] = e
  OBVIOUS
<1>2. DOMAIN Append(s, e) = 1..Len(s) + 1
  BY <1>1
<1>3. ToSet(Append(s, e)) = ToSet(s) \cup {e}
  <2>1. \A x \in 1..Len(s) + 1 : x \in 1..Len(s) \/ x = Len(s) + 1
    BY <1>1
  <2>2. 1..Len(s) \subseteq 1..Len(s) + 1 /\ Len(s) + 1 \in 1..Len(s) + 1
    BY <1>1
  <2> QED
    BY <1>1, <1>2, <2>1, <2>2 DEF ToSet
<1> QED
  BY <1>1, <1>2, <1>3

OnceEach(s) == \A x, y \in DOMAIN s : s[x] = s[y] => x = y
OnceNamed(s) == \A x, y \in DOMAIN s : s[x].f = s[y].f => x = y

LEMMA QueueGrows ==
  ASSUME NEW s \in Seq(Functors), NEW f \in Functors, OnceEach(s), f \notin ToSet(s)
  PROVE  /\ Append(s, f) \in Seq(Functors) /\ OnceEach(Append(s, f))
         /\ ToSet(Append(s, f)) = ToSet(s) \cup {f}
PROOF
<1> PICK t, n : t = Append(s, f) /\ n = Len(s)
  OBVIOUS
<1>1. /\ t \in Seq(Functors) /\ DOMAIN s = 1..n /\ n \in Nat /\ DOMAIN t = 1..n + 1
      /\ \A x \in DOMAIN s : t[x] = s[x]
      /\ t[n + 1] = f /\ ToSet(t) = ToSet(s) \cup {f}
  BY ListGrows
<1>2. \A x \in DOMAIN t : x \in DOMAIN s \/ x = n + 1
  BY <1>1
<1>3. \A x \in DOMAIN s : s[x] # f
  BY DEF ToSet
<1>4. OnceEach(t)
  BY <1>1, <1>2, <1>3 DEF OnceEach
<1> QED
  BY <1>1, <1>4

LEMMA EntriesGrow ==
  ASSUME NEW s \in Seq(Entry), NEW e \in Entry, OnceNamed(s), e.f \notin NamesOf(s)
  PROVE  /\ Append(s, e) \in Seq(Entry) /\ OnceNamed(Append(s, e))
         /\ ToSet(Append(s, e)) = ToSet(s) \cup {e}
         /\ NamesOf(Append(s, e)) = NamesOf(s) \cup {e.f}
PROOF
<1> PICK t, n : t = Append(s, e) /\ n = Len(s)
  OBVIOUS
<1>1. /\ t \in Seq(Entry) /\ DOMAIN s = 1..n /\ n \in Nat /\ DOMAIN t = 1..n + 1
      /\ \A x \in DOMAIN s : t[x] = s[x]
      /\ t[n + 1] = e /\ ToSet(t) = ToSet(s) \cup {e}
  BY ListGrows
<1>2. /\ \A x \in DOMAIN t : x \in DOMAIN s \/ x = n + 1
      /\ DOMAIN s \subseteq DOMAIN t /\ n + 1 \in DOMAIN t
  BY <1>1
<1>3. \A x \in DOMAIN s : s[x].f # e.f
  BY DEF NamesOf
<1>4. OnceNamed(t)
  BY <1>1, <1>2, <1>3 DEF OnceNamed
<1>5. NamesOf(t) = NamesOf(s) \cup {e.f}
  BY <1>1, <1>2 DEF NamesOf
<1> QED
  BY <1>1, <1>4, <1>5

LEMMA QueueShrinks ==
  ASSUME NEW s \in Seq(Functors), s # <<>>, OnceEach(s)
  PROVE  /\ Tail(s) \in Seq(Functors) /\ OnceEach(Tail(s)) /\ Head(s) \in Functors
         /\ Head(s) \in ToSet(s) /\ ToSet(Tail(s)) = ToSet(s) \ {Head(s)}
PROOF
<1> PICK t, n : t = Tail(s) /\ n = Len(s)
  OBVIOUS
<1>1. /\ t \in Seq(Functors) /\ DOMAIN s = 1..n /\ n \in Nat /\ n >= 1 /\ DOMAIN t = 1..n - 1
      /\ \A x \in 1..n - 1 : t[x] = s[x + 1]
      /\ Head(s) = s[1] /\ s[1] \in Functors
  OBVIOUS
<1>2. \A x \in 1..n - 1 : x + 1 \in 1..n /\ x + 1 # 1 /\ x \in Int
  BY <1>1
<1>3. OnceEach(t)
  <2> SUFFICES ASSUME NEW x \in 1..n - 1, NEW y \in 1..n - 1, t[x] = t[y] PROVE x = y
    BY <1>1 DEF OnceEach
  <2>1. s[x + 1] = s[y + 1] /\ x + 1 \in DOMAIN s /\ y + 1 \in DOMAIN s
    BY <1>1, <1>2
  <2>2. x + 1 = y + 1
    BY <2>1 DEF OnceEach
  <2> QED
    BY <1>2, <2>2
<1>4. ToSet(t) = ToSet(s) \ {s[1]}
  <2>1. ASSUME NEW x \in 1..n - 1 PROVE t[x] \in ToSet(s) \ {s[1]}
    <3>1. x + 1 \in DOMAIN s /\ 1 \in DOMAIN s /\ x + 1 # 1 /\ t[x] = s[x + 1]
      BY <1>1, <1>2
    <3> QED
      BY <3>1 DEF OnceEach, ToSet
  <2>2. ASSUME NEW y \in 1..n, s[y] # s[1] PROVE \E x \in 1..n - 1 : t[x] = s[y]
    <3>1. y - 1 \in 1..n - 1 /\ (y - 1) + 1 = y
      BY <1>1, <2>2
    <3> QED
      BY <1>1, <3>1
  <2>3. ToSet(t) = {t[x] : x \in 1..n - 1} /\ ToSet(s) = {s[x] : x \in 1..n}
    BY <1>1 DEF ToSet
  <2> QED
    BY <2>1, <2>2, <2>3
<1>5. s[1] \in ToSet(s)
  BY <1>1 DEF ToSet
<1> QED
  BY <1>1, <1>3, <1>4, <1>5

(* The orders in which the sets of a save may be written.                  *)
LEMMA SetsAsLists ==
  ASSUME NEW S, IsFiniteSet(S), NEW s \in SetToSeqs(S)
  PROVE  s \in Seq(S) /\ OnceEach(s) /\ ToSet(s) = S /\ (S = {} => s = <<>>)
PROOF
<1> PICK n : n = Cardinality(S)
  OBVIOUS
<1>1. n \in Nat /\ IsFiniteSet(1..n) /\ Cardinality(1..n) = n
  BY FS_CardinalityType, FS_Interval
<1>2. s \in [1..n -> S] /\ \A x, y \in 1..n : x # y => s[x] # s[y]
  BY DEF SetToSeqs
<1>3. s \in Seq(S) /\ DOMAIN s = 1..n
  BY <1>1, <1>2
<1>4. OnceEach(s)
  BY <1>2, <1>3 DEF OnceEach
<1>5. s \in Injection(1..n, S)
  BY <1>2, <1>4 DEF Injection, IsInjective, OnceEach
<1>6. s \in Surjection(1..n, S)
  BY <1>1, <1>5, FS_Injection
<1>7. ToSet(s) = S
  BY <1>2, <1>3, <1>6 DEF Surjection, ToSet
<1>8. S = {} => s = <<>>
  <2> SUFFICES ASSUME S = {} PROVE s = <<>>
    OBVIOUS
  <2>1. n = 0
    BY FS_EmptySet
  <2> QED
    BY <1>3, <2>1
<1> QED
  BY <1>3, <1>4, <1>7, <1>8


-----------------------------------------------------------------------------
(* The invariant.  Every entry of a list of delays has at least the time   *)
(* left that its functor still has to wait, and so has every entry of the  *)
(* co-save, whose records are those of lists with one place for each       *)
(* functor that was held.                                                  *)
Timed(e, a, g) == a[e.f] <= g[e.f] + (IF e.left > 0 THEN e.left ELSE 0)

Times ==
  /\ age \in [Functors -> Nat] /\ asked \in [Functors -> Int]
  /\ \A e \in waitData \cup ToSet(inData) : Timed(e, asked, age)

Written(recs, was, q, i, w, r) ==
  /\ q \in Seq(Functors) /\ i \in Seq(Entry) /\ w \in Seq(Entry) /\ r \in Seq(Functors)
  /\ recs = SaveFunctors(q, i, w, r) /\ Apart(q, i, w, r)
  /\ was.held = ToSet(q) \cup NamesOf(i) \cup NamesOf(w) \cup ToSet(r)
  /\ was.age \in [Functors -> Nat] /\ was.asked \in [Functors -> Int]
  /\ \A e \in ToSet(i) \cup ToSet(w) : Timed(e, was.asked, was.age)
  /\ was.lasts = {Last(l).f : l \in {i, w} \ {<<>>}}
  /\ was.astray \in BOOLEAN /\ (~was.astray => r = <<>>)

SavedFunctors(recs, was) == recs = <<>> \/ \E q, i, w, r : Written(recs, was, q, i, w, r)

PlacesApart ==
  /\ OnceEach(queue) /\ OnceNamed(inData)
  /\ \A d, e \in waitData : d.f = e.f => d = e
  /\ ToSet(queue) \cap (Incoming \cup Waiting \cup readyData \cup popped) = {}
  /\ Incoming \cap (Waiting \cup readyData \cup popped) = {}
  /\ Waiting \cap (readyData \cup popped) = {}
  /\ readyData \cap popped = {}

AllHeld == held = ToSet(queue) \cup Incoming \cup Waiting \cup readyData \cup popped

DelaysHold == AtMostAFrameEarly /\ Times

FunctorInv ==
  /\ FunctorTypeOK /\ PlacesApart /\ AllHeld /\ DelaysHold
  /\ LoadKeepsFunctors /\ SavedFunctors(records, saved)

LEMMA PlacesAreApart == OnePlaceEach <=> PlacesApart /\ AllHeld
PROOF
BY DEF OnePlaceEach, PlacesApart, AllHeld, OnceEach, OnceNamed

LEMMA IncomingNames == Incoming = NamesOf(inData)
PROOF
BY DEF Incoming, NamesOf

LEMMA EntryFields ==
  /\ \A e \in Entry : e.f \in Functors /\ e.left \in Int
  /\ \A f \in Functors, d \in Int : [f |-> f, left |-> d] \in Entry
PROOF
BY DEF Entry

LEMMA FunctorInitially == FunctorInit => FunctorInv
PROOF
<1> SUFFICES ASSUME FunctorInit PROVE FunctorInv
  OBVIOUS
<1>1. /\ queue = <<>> /\ inData = <<>> /\ waitData = {} /\ readyData = {} /\ popped = {}
      /\ hook = "idle" /\ elapsed = 0 /\ held = {} /\ astray = FALSE /\ lost = {}
      /\ age = [f \in Functors |-> 0] /\ asked = [f \in Functors |-> 0] /\ records = <<>>
  BY DEF FunctorInit
<1>2. DOMAIN queue = {} /\ DOMAIN inData = {} /\ ToSet(queue) = {} /\ ToSet(inData) = {}
  BY <1>1 DEF ToSet
<1>3. Incoming = {} /\ Waiting = {}
  BY <1>1, <1>2 DEF Incoming, Waiting
<1>4. FunctorTypeOK
  <2>1. queue \in Seq(Functors) /\ inData \in Seq(Entry)
    BY <1>1
  <2>2. elapsed \in 0..MaxFrame
    BY <1>1, FunctorAssumption
  <2> QED
    BY <1>1, <2>1, <2>2 DEF FunctorTypeOK
<1>5. PlacesApart /\ AllHeld
  BY <1>1, <1>2, <1>3 DEF PlacesApart, AllHeld, OnceEach, OnceNamed
<1>6. DelaysHold
  <2>1. age \in [Functors -> Nat] /\ asked \in [Functors -> Int]
    BY <1>1
  <2> QED
    BY <1>1, <1>2, <2>1 DEF DelaysHold, AtMostAFrameEarly, Times
<1> QED
  BY <1>1, <1>4, <1>5, <1>6 DEF FunctorInv, LoadKeepsFunctors, SavedFunctors

(* A functor that comes to the queue or to the list of delays.             *)
FunctorComes(f) ==
  /\ queue' \in Seq(Functors) /\ inData' \in Seq(Entry)
  /\ PlacesApart' /\ DelaysHold'
  /\ ToSet(queue)' \cup Incoming' = ToSet(queue) \cup Incoming \cup {f}

LEMMA FunctorIsAdded ==
  ASSUME FunctorInv, NEW f \in Functors, NEW d \in Int,
         f \notin ToSet(queue), f \notin Incoming, f \notin Waiting, f \notin readyData,
         PushToQueue(f) \/ AddToWaitList(f, d),
         waitData' = waitData, readyData' = readyData, popped' \subseteq popped, f \notin popped', astray' = astray
  PROVE  FunctorComes(f)
PROOF
<1>1. /\ queue \in Seq(Functors) /\ inData \in Seq(Entry) /\ waitData \subseteq Entry
      /\ readyData \subseteq Functors /\ astray \in BOOLEAN
  BY DEF FunctorInv, FunctorTypeOK
<1>2. /\ OnceEach(queue) /\ OnceNamed(inData)
      /\ \A x, e \in waitData : x.f = e.f => x = e
      /\ ToSet(queue) \cap (Incoming \cup Waiting \cup readyData \cup popped) = {}
      /\ Incoming \cap (Waiting \cup readyData \cup popped) = {}
      /\ Waiting \cap (readyData \cup popped) = {}
      /\ readyData \cap popped = {}
  BY DEF FunctorInv, PlacesApart
<1>3. Waiting' = Waiting
  BY DEF Waiting
<1>4. /\ age \in [Functors -> Nat] /\ asked \in [Functors -> Int]
      /\ \A e \in waitData \cup ToSet(inData) : Timed(e, asked, age)
      /\ ~astray => \A g \in readyData : age[g] >= asked[g]
  BY DEF FunctorInv, DelaysHold, Times, AtMostAFrameEarly
<1>5. CASE PushToQueue(f)
  <2>1. queue' = Append(queue, f) /\ inData' = inData /\ age' = age /\ asked' = asked
    BY <1>5 DEF PushToQueue
  <2>2. /\ queue' \in Seq(Functors) /\ OnceEach(queue)' /\ ToSet(queue)' = ToSet(queue) \cup {f}
    <3>1. /\ Append(queue, f) \in Seq(Functors) /\ OnceEach(Append(queue, f))
          /\ ToSet(Append(queue, f)) = ToSet(queue) \cup {f}
      BY <1>1, <1>2, QueueGrows
    <3>2. OnceEach(queue)' /\ ToSet(queue)' = ToSet(Append(queue, f))
      BY <2>1, <3>1 DEF OnceEach, ToSet
    <3> QED
      BY <2>1, <3>1, <3>2
  <2>3. Incoming' = Incoming /\ OnceNamed(inData)' /\ ToSet(inData)' = ToSet(inData)
    BY <1>2, <2>1 DEF Incoming, OnceNamed, ToSet
  <2>4. PlacesApart'
    BY <1>2, <1>3, <2>2, <2>3 DEF PlacesApart
  <2>5. DelaysHold'
    BY <1>4, <2>1, <2>3 DEF DelaysHold, Times, AtMostAFrameEarly, Timed
  <2> QED
    BY <1>1, <2>1, <2>2, <2>3, <2>4, <2>5 DEF FunctorComes
<1>6. CASE AddToWaitList(f, d)
  <2> PICK e : e = [f |-> f, left |-> d]
    OBVIOUS
  <2>1. /\ inData' = Append(inData, e) /\ queue' = queue
        /\ asked' = [asked EXCEPT ![f] = d] /\ age' = [age EXCEPT ![f] = 0]
    BY <1>6 DEF AddToWaitList
  <2>2. e \in Entry /\ e.f = f /\ e.left = d
    BY EntryFields
  <2>3. /\ inData' \in Seq(Entry) /\ OnceNamed(inData)' /\ ToSet(inData)' = ToSet(inData) \cup {e}
        /\ Incoming' = Incoming \cup {f}
    <3>1. PICK s : s = Append(inData, e)
      OBVIOUS
    <3>2. /\ s \in Seq(Entry) /\ OnceNamed(s) /\ ToSet(s) = ToSet(inData) \cup {e}
          /\ NamesOf(s) = NamesOf(inData) \cup {f}
      BY <1>1, <1>2, <2>2, <3>1, EntriesGrow, IncomingNames
    <3>3. OnceNamed(inData)' /\ ToSet(inData)' = ToSet(s) /\ Incoming' = NamesOf(s)
      BY <2>1, <3>1, <3>2 DEF OnceNamed, ToSet, Incoming, NamesOf
    <3> QED
      BY <2>1, <3>1, <3>2, <3>3, IncomingNames
  <2>4. OnceEach(queue)' /\ ToSet(queue)' = ToSet(queue)
    BY <1>2, <2>1 DEF OnceEach, ToSet
  <2>5. PlacesApart'
    BY <1>2, <1>3, <2>3, <2>4 DEF PlacesApart
  <2>6. /\ age' \in [Functors -> Nat] /\ asked' \in [Functors -> Int]
        /\ age'[f] = 0 /\ asked'[f] = d
        /\ \A g \in Functors : g # f => age'[g] = age[g] /\ asked'[g] = asked[g]
    BY <1>4, <2>1
  <2>7. ASSUME NEW x \in waitData \cup ToSet(inData) PROVE Timed(x, asked', age')
    <3>1. x \in Entry /\ x.f # f
      <4>1. x \in waitData => x \in Entry /\ x.f \in Waiting
        BY <1>1 DEF Waiting
      <4>2. x \in ToSet(inData) => x \in Entry /\ x.f \in Incoming
        BY <1>1 DEF Incoming, ToSet
      <4> QED
        BY <4>1, <4>2
    <3>2. x.f \in Functors
      BY <3>1, EntryFields
    <3> QED
      BY <1>4, <2>6, <3>1, <3>2 DEF Timed
  <2>8. Timed(e, asked', age')
    BY <2>2, <2>6 DEF Timed
  <2>9. Times'
    BY <2>3, <2>6, <2>7, <2>8 DEF Times
  <2>10. AtMostAFrameEarly'
    BY <1>1, <1>4, <2>6 DEF AtMostAFrameEarly
  <2> QED
    BY <1>1, <2>1, <2>3, <2>4, <2>5, <2>9, <2>10 DEF FunctorComes, DelaysHold
<1> QED
  BY <1>5, <1>6


(* What every step but one that adds, takes or moves a functor leaves.     *)
LEMMA FunctorInvParts ==
  ASSUME FunctorInv
  PROVE  /\ queue \in Seq(Functors) /\ inData \in Seq(Entry) /\ waitData \subseteq Entry
         /\ readyData \subseteq Functors /\ (popped = {} \/ \E f \in Functors : popped = {f})
         /\ popped \subseteq Functors /\ held \subseteq Functors
         /\ hook \in {"idle", "moved", "pop", "run", "running"} /\ (popped # {} <=> hook = "running")
         /\ (hook # "pop" /\ ~astray => readyData = {}) /\ elapsed \in 0..MaxFrame /\ astray \in BOOLEAN
         /\ OnceEach(queue) /\ OnceNamed(inData)
         /\ \A d, e \in waitData : d.f = e.f => d = e
         /\ ToSet(queue) \cap (Incoming \cup Waiting \cup readyData \cup popped) = {}
         /\ Incoming \cap (Waiting \cup readyData \cup popped) = {}
         /\ Waiting \cap (readyData \cup popped) = {}
         /\ readyData \cap popped = {}
         /\ held = ToSet(queue) \cup Incoming \cup Waiting \cup readyData \cup popped
         /\ age \in [Functors -> Nat] /\ asked \in [Functors -> Int]
         /\ \A e \in waitData \cup ToSet(inData) : Timed(e, asked, age)
         /\ ~astray => \A g \in readyData : age[g] >= asked[g]
         /\ lost = {} /\ SavedFunctors(records, saved)
PROOF
<1>1. /\ FunctorTypeOK /\ PlacesApart /\ AllHeld /\ DelaysHold /\ LoadKeepsFunctors /\ SavedFunctors(records, saved)
  BY DEF FunctorInv
<1>2. popped \subseteq Functors
  BY <1>1 DEF FunctorTypeOK
<1> QED
  BY <1>1, <1>2 DEF FunctorTypeOK, PlacesApart, AllHeld, DelaysHold, Times, AtMostAFrameEarly, LoadKeepsFunctors

LEMMA NoFunctorMoves ==
  ASSUME FunctorInv, UNCHANGED <<lists, popped, held, age, asked>>,
         astray' = astray \/ (readyData = {} /\ astray' = FALSE)
  PROVE  PlacesApart' /\ AllHeld' /\ DelaysHold'
PROOF
<1>1. UNCHANGED <<queue, inData, waitData, readyData, popped, held, age, asked>>
  BY DEF lists
<1>2. Incoming' = Incoming /\ Waiting' = Waiting /\ ToSet(queue)' = ToSet(queue) /\ ToSet(inData)' = ToSet(inData)
  BY <1>1 DEF Incoming, Waiting, ToSet
<1>3. OnceEach(queue)' /\ OnceNamed(inData)'
  BY <1>1, FunctorInvParts DEF OnceEach, OnceNamed
<1>4. PlacesApart' /\ AllHeld'
  BY <1>1, <1>2, <1>3, FunctorInvParts DEF PlacesApart, AllHeld
<1>5. Times'
  BY <1>1, <1>2, FunctorInvParts DEF Times, Timed
<1>6. AtMostAFrameEarly'
  BY <1>1, FunctorInvParts DEF AtMostAFrameEarly
<1> QED
  BY <1>4, <1>5, <1>6 DEF DelaysHold

LEMMA CoSaveStays ==
  ASSUME FunctorInv, UNCHANGED coSave
  PROVE  SavedFunctors(records, saved)'
PROOF
<1>1. records' = records /\ saved' = saved
  BY DEF coSave
<1> QED
  BY <1>1, FunctorInvParts DEF SavedFunctors

-----------------------------------------------------------------------------
(* The steps.                                                              *)
LEMMA EnqueueStep ==
  ASSUME FunctorInv, NEW f \in Functors, NEW d \in Delays, Enqueue(f, d)
  PROVE  FunctorInv'
PROOF
<1>1. /\ f \notin held /\ held' = held \cup {f} /\ lost' = {}
      /\ PushToQueue(f) \/ AddToWaitList(f, d)
      /\ UNCHANGED <<waitData, readyData, popped, hook, elapsed, coSave, astray>>
  BY DEF Enqueue
<1>2. d \in Int /\ f \notin ToSet(queue) /\ f \notin Incoming /\ f \notin Waiting /\ f \notin readyData /\ f \notin popped
  BY <1>1, FunctorInvParts, FunctorAssumption
<1>3. FunctorComes(f)
  BY <1>1, <1>2, FunctorIsAdded
<1>4. FunctorTypeOK'
  BY <1>1, <1>3, FunctorInvParts DEF FunctorComes, FunctorTypeOK
<1>5. AllHeld'
  <2>1. Waiting' = Waiting
    BY <1>1 DEF Waiting
  <2> QED
    BY <1>1, <1>3, <2>1, FunctorInvParts DEF FunctorComes, AllHeld
<1> QED
  BY <1>1, <1>3, <1>4, <1>5, CoSaveStays DEF FunctorInv, FunctorComes, LoadKeepsFunctors

LEMMA ClockStep ==
  ASSUME FunctorInv, Clock
  PROVE  FunctorInv'
PROOF
<1>1. /\ elapsed < MaxFrame /\ elapsed' = elapsed + 1
      /\ UNCHANGED <<lists, popped, hook, held, age, asked, coSave, astray, lost>>
  BY DEF Clock
<1>2. FunctorTypeOK'
  <2>1. elapsed' \in 0..MaxFrame
    BY <1>1, FunctorInvParts, FunctorAssumption
  <2> QED
    BY <1>1, <2>1, FunctorInvParts DEF FunctorTypeOK, lists
<1> QED
  BY <1>1, <1>2, NoFunctorMoves, CoSaveStays, FunctorInvParts DEF FunctorInv, LoadKeepsFunctors

LEMMA NothingReadyStep ==
  ASSUME FunctorInv, NothingReady
  PROVE  FunctorInv'
PROOF
<1>1. /\ hook = "pop" /\ readyData = {} /\ hook' = "run" /\ astray' = FALSE
      /\ UNCHANGED <<lists, popped, elapsed, held, age, asked, coSave, lost>>
  BY DEF NothingReady
<1>2. FunctorTypeOK'
  BY <1>1, FunctorInvParts DEF FunctorTypeOK, lists
<1> QED
  BY <1>1, <1>2, NoFunctorMoves, CoSaveStays, FunctorInvParts DEF FunctorInv, LoadKeepsFunctors

LEMMA QueueEmptyStep ==
  ASSUME FunctorInv, QueueEmpty
  PROVE  FunctorInv'
PROOF
<1>1. /\ hook = "run" /\ hook' = "idle"
      /\ UNCHANGED <<lists, popped, elapsed, held, age, asked, coSave, astray, lost>>
  BY DEF QueueEmpty
<1>2. FunctorTypeOK'
  BY <1>1, FunctorInvParts DEF FunctorTypeOK, lists
<1> QED
  BY <1>1, <1>2, NoFunctorMoves, CoSaveStays, FunctorInvParts DEF FunctorInv, LoadKeepsFunctors

LEMMA MoveIncomingStep ==
  ASSUME FunctorInv, MoveIncoming
  PROVE  FunctorInv'
PROOF
<1>1. /\ hook = "idle" /\ hook' = "moved" /\ waitData' = waitData \cup ToSet(inData) /\ inData' = <<>> /\ lost' = {}
      /\ UNCHANGED <<queue, readyData, popped, elapsed, held, age, asked, coSave, astray>>
  BY DEF MoveIncoming
<1>2. /\ ToSet(inData)' = {} /\ Incoming' = {} /\ OnceNamed(inData)' /\ inData' \in Seq(Entry)
  BY <1>1 DEF ToSet, Incoming, OnceNamed
<1>3. ToSet(inData) \subseteq Entry /\ \A e \in ToSet(inData) : e.f \in Incoming
  BY FunctorInvParts DEF ToSet, Incoming
<1>4. Waiting' = Waiting \cup Incoming
  BY <1>1 DEF Waiting, Incoming, ToSet
<1>5. \A d, e \in waitData' : d.f = e.f => d = e
  <2>1. \A d, e \in ToSet(inData) : d.f = e.f => d = e
    BY FunctorInvParts DEF OnceNamed, ToSet
  <2>2. \A d \in waitData : d.f \in Waiting
    BY DEF Waiting
  <2>3. \A d \in waitData, e \in ToSet(inData) : d.f # e.f
    BY <1>3, <2>2, FunctorInvParts
  <2> QED
    BY <1>1, <2>1, <2>3, FunctorInvParts
<1>6. OnceEach(queue)' /\ ToSet(queue)' = ToSet(queue)
  BY <1>1, FunctorInvParts DEF OnceEach, ToSet
<1>7. FunctorTypeOK'
  BY <1>1, <1>2, <1>3, FunctorInvParts DEF FunctorTypeOK
<1>8. PlacesApart' /\ AllHeld'
  BY <1>1, <1>2, <1>4, <1>5, <1>6, FunctorInvParts DEF PlacesApart, AllHeld
<1>9. DelaysHold'
  <2>1. Times'
    BY <1>1, <1>2, FunctorInvParts DEF Times, Timed
  <2>2. AtMostAFrameEarly'
    BY <1>1, FunctorInvParts DEF AtMostAFrameEarly
  <2> QED
    BY <2>1, <2>2 DEF DelaysHold
<1> QED
  BY <1>1, <1>7, <1>8, <1>9, CoSaveStays DEF FunctorInv, LoadKeepsFunctors

LEMMA PassTimeStep ==
  ASSUME FunctorInv, PassTime
  PROVE  FunctorInv'
PROOF
<1>1. /\ hook = "moved" /\ hook' = "pop" /\ elapsed' = 0
      /\ age' = [f \in Functors |-> IF asked[f] > age[f] THEN age[f] + elapsed ELSE age[f]]
      /\ UNCHANGED <<queue, inData, popped, held, asked, coSave, astray, lost>>
  BY DEF PassTime
<1>2. elapsed \in Nat
  BY FunctorInvParts, FunctorAssumption
<1>3. /\ age' \in [Functors -> Nat] /\ asked' = asked
      /\ \A f \in Functors : /\ age'[f] >= age[f]
                             /\ asked[f] > age[f] => age'[f] = age[f] + elapsed
  BY <1>1, <1>2, FunctorInvParts
<1>4. /\ Incoming' = Incoming /\ ToSet(inData)' = ToSet(inData) /\ OnceNamed(inData)'
      /\ OnceEach(queue)' /\ ToSet(queue)' = ToSet(queue)
  BY <1>1, FunctorInvParts DEF Incoming, ToSet, OnceNamed, OnceEach
<1>5. ASSUME NEW e \in waitData
      PROVE  /\ Decremented(e) \in Entry /\ Decremented(e).f = e.f /\ e.f \in Functors
             /\ Decremented(e).left = IF e.left > 0 THEN e.left - elapsed ELSE e.left
             /\ e.left \in Int
  <2>1. e \in Entry /\ e.f \in Functors /\ e.left \in Int
    BY FunctorInvParts, EntryFields
  <2> QED
    BY <1>2, <2>1 DEF Decremented, Entry
<1>6. \A e \in waitData : e.f \in Waiting
  BY DEF Waiting
<1>7. ASSUME NEW e \in Entry, Timed(e, asked, age) PROVE Timed(e, asked, age')
  <2>1. e.f \in Functors /\ e.left \in Int
    BY EntryFields
  <2>2. asked[e.f] \in Int /\ age[e.f] \in Nat /\ age'[e.f] \in Nat /\ age'[e.f] >= age[e.f]
    BY <1>3, <2>1, FunctorInvParts
  <2> QED
    BY <1>7, <2>1, <2>2 DEF Timed
<1>8. \A e \in ToSet(inData) : e \in Entry /\ Timed(e, asked, age')
  <2>1. \A e \in ToSet(inData) : e \in Entry
    BY FunctorInvParts DEF ToSet
  <2> QED
    BY <1>7, <2>1, FunctorInvParts
<1>9. CASE elapsed = 0
  <2>1. waitData' = waitData /\ readyData' = readyData
    BY <1>9 DEF PassTime
  <2>2. Waiting' = Waiting
    BY <2>1 DEF Waiting
  <2>3. FunctorTypeOK'
    BY <1>1, <2>1, FunctorInvParts, FunctorAssumption DEF FunctorTypeOK
  <2>4. PlacesApart' /\ AllHeld'
    BY <1>1, <1>4, <2>1, <2>2, FunctorInvParts DEF PlacesApart, AllHeld
  <2>5. Times'
    <3>1. \A e \in waitData : Timed(e, asked, age')
      BY <1>7, FunctorInvParts
    <3> QED
      BY <1>3, <1>4, <1>8, <2>1, <3>1, FunctorInvParts DEF Times
  <2>6. AtMostAFrameEarly'
    BY <1>1, <2>1, FunctorInvParts DEF AtMostAFrameEarly
  <2> QED
    BY <1>1, <2>3, <2>4, <2>5, <2>6, CoSaveStays, FunctorInvParts DEF FunctorInv, LoadKeepsFunctors, DelaysHold
<1>10. CASE elapsed # 0
  <2> DEFINE now == {Decremented(e) : e \in waitData}
             over == {d \in now : d.left <= 0}
  <2>1. /\ waitData' = {e \in now : e.left > 0}
        /\ readyData' = readyData \cup {e.f : e \in over}
    BY <1>10 DEF PassTime
  <2>2. ASSUME NEW d \in now
        PROVE  \E e \in waitData : /\ d = Decremented(e) /\ d.f = e.f /\ e.f \in Functors /\ d \in Entry
                                   /\ d.left = (IF e.left > 0 THEN e.left - elapsed ELSE e.left) /\ e.left \in Int
    BY <1>5
  <2>3. \A d, e \in now : d.f = e.f => d = e
    <3> SUFFICES ASSUME NEW d \in now, NEW e \in now, d.f = e.f PROVE d = e
      OBVIOUS
    <3>1. PICK x \in waitData : d = Decremented(x) /\ d.f = x.f
      BY <2>2
    <3>2. PICK y \in waitData : e = Decremented(y) /\ e.f = y.f
      BY <2>2
    <3>3. x = y
      BY <3>1, <3>2, FunctorInvParts
    <3> QED
      BY <3>1, <3>2, <3>3
  <2> HIDE DEF now
  <2>4. waitData' \subseteq Entry /\ readyData' \subseteq Functors
    <3>1. \A d \in now : d \in Entry /\ d.f \in Functors
      BY <2>2
    <3>2. readyData \subseteq Functors
      BY FunctorInvParts
    <3> QED
      BY <2>1, <3>1, <3>2
  <2>5. \A d \in now : d.f \in Waiting /\ d.left \in Int
    BY <1>2, <1>6, <2>2
  <2>6. \A f \in Waiting : \E d \in now : d.f = f
    <3>1. \A e \in waitData : Decremented(e) \in now /\ Decremented(e).f = e.f
      BY <1>5 DEF now
    <3> QED
      BY <3>1 DEF Waiting
  <2>7. Waiting' \cap {e.f : e \in over} = {}
    <3> SUFFICES ASSUME NEW d \in waitData', NEW e \in over, d.f = e.f PROVE FALSE
      BY DEF Waiting
    <3>1. d = e /\ d.left > 0 /\ d.left <= 0 /\ d.left \in Int
      BY <2>1, <2>3, <2>5
    <3> QED
      BY <3>1
  <2>8. Waiting' \cup {e.f : e \in over} = Waiting
    <3>1. \A d \in now : d \in waitData' \/ d \in over
      BY <2>1, <2>5
    <3>2. \A d \in waitData' : d \in now
      BY <2>1
    <3>3. Waiting' = {d.f : d \in waitData'}
      BY DEF Waiting
    <3> QED
      BY <2>5, <2>6, <3>1, <3>2, <3>3
  <2> HIDE DEF over
  <2>9. \A d, e \in waitData' : d.f = e.f => d = e
    BY <2>1, <2>3
  <2>10. FunctorTypeOK'
    BY <1>1, <2>4, FunctorInvParts, FunctorAssumption DEF FunctorTypeOK
  <2>11. PlacesApart' /\ AllHeld'
    <3> PICK T : T = {e.f : e \in over}
      OBVIOUS
    <3>1. Waiting' \cap T = {} /\ Waiting' \cup T = Waiting /\ readyData' = readyData \cup T
      BY <2>1, <2>7, <2>8
    <3>2. AllHeld'
      BY <1>1, <1>4, <3>1, FunctorInvParts DEF AllHeld
    <3>3. PlacesApart'
      BY <1>1, <1>4, <2>9, <3>1, FunctorInvParts DEF PlacesApart
    <3> QED
      BY <3>2, <3>3
  <2>12. ASSUME NEW e \in waitData
         PROVE  /\ Decremented(e).left > 0 => Timed(Decremented(e), asked, age')
                /\ Decremented(e).left <= 0 => age'[e.f] >= asked[e.f]
    <3>1. Timed(e, asked, age) /\ e.f \in Functors /\ e.left \in Int
      BY <1>5, FunctorInvParts
    <3>2. /\ asked[e.f] \in Int /\ age[e.f] \in Nat /\ age'[e.f] \in Nat /\ age'[e.f] >= age[e.f]
          /\ asked[e.f] > age[e.f] => age'[e.f] = age[e.f] + elapsed
      BY <1>3, <3>1, FunctorInvParts
    <3> PICK l, a, g, h : l = e.left /\ a = asked[e.f] /\ g = age[e.f] /\ h = age'[e.f]
      OBVIOUS
    <3>3. a <= g + (IF l > 0 THEN l ELSE 0)
      BY <3>1 DEF Timed
    <3>4. l \in Int /\ a \in Int /\ g \in Nat /\ h \in Nat /\ h >= g /\ (a > g => h = g + elapsed)
      BY <3>1, <3>2
    <3>5. Decremented(e).f = e.f /\ Decremented(e).left = IF l > 0 THEN l - elapsed ELSE l
      BY <1>5
    <3>6. (IF l > 0 THEN l - elapsed ELSE l) > 0 => a <= h + (IF l > 0 THEN l - elapsed ELSE l)
      BY <1>2, <3>3, <3>4
    <3>7. (IF l > 0 THEN l - elapsed ELSE l) <= 0 => h >= a
      BY <1>2, <3>3, <3>4
    <3> QED
      BY <3>5, <3>6, <3>7 DEF Timed
  <2>13. Times'
    <3>1. ASSUME NEW d \in waitData' PROVE Timed(d, asked, age')
      <4>1. d \in now /\ d.left > 0
        BY <2>1
      <4>2. PICK e \in waitData : d = Decremented(e)
        BY <2>2, <4>1
      <4> QED
        BY <2>12, <4>1, <4>2
    <3> QED
      BY <1>3, <1>4, <1>8, <3>1, FunctorInvParts DEF Times
  <2>14. AtMostAFrameEarly'
    <3> SUFFICES ASSUME ~astray, NEW f \in readyData' PROVE age'[f] >= asked[f]
      BY <1>1 DEF AtMostAFrameEarly
    <3>1. readyData = {}
      BY <1>1, FunctorInvParts
    <3>2. PICK d \in now : d.f = f /\ d.left <= 0
      BY <2>1, <3>1 DEF over
    <3>3. PICK e \in waitData : d = Decremented(e) /\ d.f = e.f
      BY <2>2
    <3> QED
      BY <2>12, <3>2, <3>3
  <2> QED
    BY <1>1, <2>10, <2>11, <2>13, <2>14, CoSaveStays, FunctorInvParts DEF FunctorInv, LoadKeepsFunctors, DelaysHold
<1> QED
  BY <1>9, <1>10


LEMMA PopReadyStep ==
  ASSUME FunctorInv, NEW f \in Functors, PopReady(f)
  PROVE  FunctorInv'
PROOF
<1>1. /\ hook = "pop" /\ f \in readyData
      /\ readyData' = readyData \ {f} /\ queue' = Append(queue, f)
      /\ age' = [age EXCEPT ![f] = 0] /\ asked' = [asked EXCEPT ![f] = 0]
      /\ UNCHANGED <<inData, waitData, popped, hook, elapsed, held, coSave, astray, lost>>
  BY DEF PopReady
<1>2. queue' \in Seq(Functors) /\ OnceEach(queue)' /\ ToSet(queue)' = ToSet(queue) \cup {f}
  <2>1. f \notin ToSet(queue)
    BY <1>1, FunctorInvParts
  <2>2. /\ Append(queue, f) \in Seq(Functors) /\ OnceEach(Append(queue, f))
        /\ ToSet(Append(queue, f)) = ToSet(queue) \cup {f}
    BY <2>1, FunctorInvParts, QueueGrows
  <2>3. OnceEach(queue)' /\ ToSet(queue)' = ToSet(Append(queue, f))
    BY <1>1, <2>2 DEF OnceEach, ToSet
  <2> QED
    BY <1>1, <2>2, <2>3
<1>3. Incoming' = Incoming /\ Waiting' = Waiting /\ OnceNamed(inData)' /\ ToSet(inData)' = ToSet(inData)
  BY <1>1, FunctorInvParts DEF Incoming, Waiting, OnceNamed, ToSet
<1>4. FunctorTypeOK'
  BY <1>1, <1>2, FunctorInvParts DEF FunctorTypeOK
<1>5. PlacesApart' /\ AllHeld'
  BY <1>1, <1>2, <1>3, FunctorInvParts DEF PlacesApart, AllHeld
<1>6. /\ age' \in [Functors -> Nat] /\ asked' \in [Functors -> Int]
      /\ \A g \in Functors : g # f => age'[g] = age[g] /\ asked'[g] = asked[g]
  BY <1>1, FunctorInvParts
<1>7. ASSUME NEW e \in waitData \cup ToSet(inData) PROVE Timed(e, asked', age')
  <2>1. e \in Entry /\ e.f # f
    <3>1. e \in waitData => e \in Entry /\ e.f \in Waiting
      BY FunctorInvParts DEF Waiting
    <3>2. e \in ToSet(inData) => e \in Entry /\ e.f \in Incoming
      BY FunctorInvParts DEF Incoming, ToSet
    <3> QED
      BY <1>1, <3>1, <3>2, FunctorInvParts
  <2>2. e.f \in Functors
    BY <2>1, EntryFields
  <2> QED
    BY <1>6, <2>1, <2>2, FunctorInvParts DEF Timed
<1>8. Times'
  BY <1>1, <1>3, <1>6, <1>7 DEF Times
<1>9. AtMostAFrameEarly'
  BY <1>1, <1>6, FunctorInvParts DEF AtMostAFrameEarly
<1> QED
  BY <1>1, <1>4, <1>5, <1>8, <1>9, CoSaveStays, FunctorInvParts DEF FunctorInv, LoadKeepsFunctors, DelaysHold

LEMMA PopFunctorStep ==
  ASSUME FunctorInv, PopFunctor
  PROVE  FunctorInv'
PROOF
<1>1. /\ hook = "run" /\ queue # <<>> /\ hook' = "running"
      /\ popped' = {Head(queue)} /\ queue' = Tail(queue)
      /\ UNCHANGED <<inData, waitData, readyData, elapsed, held, age, asked, coSave, astray, lost>>
  BY DEF PopFunctor
<1> PICK f : f = Head(queue)
  OBVIOUS
<1>2. /\ queue' \in Seq(Functors) /\ OnceEach(queue)' /\ ToSet(queue)' = ToSet(queue) \ {f}
      /\ f \in Functors /\ f \in ToSet(queue)
  <2>1. /\ Tail(queue) \in Seq(Functors) /\ OnceEach(Tail(queue)) /\ f \in Functors
        /\ f \in ToSet(queue) /\ ToSet(Tail(queue)) = ToSet(queue) \ {f}
    BY <1>1, FunctorInvParts, QueueShrinks
  <2>2. OnceEach(queue)' /\ ToSet(queue)' = ToSet(Tail(queue))
    BY <1>1, <2>1 DEF OnceEach, ToSet
  <2> QED
    BY <1>1, <2>1, <2>2
<1>3. /\ Incoming' = Incoming /\ Waiting' = Waiting /\ OnceNamed(inData)' /\ ToSet(inData)' = ToSet(inData)
      /\ popped = {} /\ popped' = {f}
  BY <1>1, FunctorInvParts DEF Incoming, Waiting, OnceNamed, ToSet
<1>4. FunctorTypeOK'
  BY <1>1, <1>2, <1>3, FunctorInvParts DEF FunctorTypeOK
<1>5. PlacesApart' /\ AllHeld'
  BY <1>1, <1>2, <1>3, FunctorInvParts DEF PlacesApart, AllHeld
<1>6. DelaysHold'
  <2>1. Times'
    BY <1>1, <1>3, FunctorInvParts DEF Times, Timed
  <2>2. AtMostAFrameEarly'
    BY <1>1, FunctorInvParts DEF AtMostAFrameEarly
  <2> QED
    BY <2>1, <2>2 DEF DelaysHold
<1> QED
  BY <1>1, <1>4, <1>5, <1>6, CoSaveStays, FunctorInvParts DEF FunctorInv, LoadKeepsFunctors

LEMMA RescheduleStep ==
  ASSUME FunctorInv, NEW f \in Functors, NEW d \in Again, Reschedule(f, d)
  PROVE  FunctorInv'
PROOF
<1>1. /\ hook = "running" /\ popped = {f} /\ popped' = {} /\ hook' \in {"run", "idle"}
      /\ PushToQueue(f) \/ AddToWaitList(f, d)
      /\ UNCHANGED <<waitData, readyData, elapsed, coSave, astray, lost, held>>
  BY DEF Reschedule, Ran
<1>2. d \in Int /\ f \notin ToSet(queue) /\ f \notin Incoming /\ f \notin Waiting /\ f \notin readyData
  BY <1>1, FunctorInvParts, FunctorAssumption
<1>3. FunctorComes(f)
  BY <1>1, <1>2, FunctorIsAdded
<1>4. FunctorTypeOK'
  BY <1>1, <1>3, FunctorInvParts DEF FunctorComes, FunctorTypeOK
<1>5. AllHeld'
  <2>1. Waiting' = Waiting
    BY <1>1 DEF Waiting
  <2> QED
    BY <1>1, <1>3, <2>1, FunctorInvParts DEF FunctorComes, AllHeld
<1> QED
  BY <1>1, <1>3, <1>4, <1>5, CoSaveStays, FunctorInvParts DEF FunctorInv, FunctorComes, LoadKeepsFunctors

LEMMA ResumeStackStep ==
  ASSUME FunctorInv, NEW f \in Functors, ResumeStack(f)
  PROVE  FunctorInv'
PROOF
<1>1. /\ hook = "running" /\ popped = {f} /\ popped' = {} /\ hook' \in {"run", "idle"} /\ held' = held \ {f}
      /\ UNCHANGED <<waitData, readyData, elapsed, coSave, astray, lost, queue, inData, age, asked>>
  BY DEF ResumeStack, Ran
<1>2. /\ Incoming' = Incoming /\ Waiting' = Waiting /\ OnceNamed(inData)' /\ ToSet(inData)' = ToSet(inData)
      /\ OnceEach(queue)' /\ ToSet(queue)' = ToSet(queue)
  BY <1>1, FunctorInvParts DEF Incoming, Waiting, OnceNamed, OnceEach, ToSet
<1>3. FunctorTypeOK'
  BY <1>1, FunctorInvParts DEF FunctorTypeOK
<1>4. PlacesApart' /\ AllHeld'
  BY <1>1, <1>2, FunctorInvParts DEF PlacesApart, AllHeld
<1>5. DelaysHold'
  <2>1. Times'
    BY <1>1, <1>2, FunctorInvParts DEF Times, Timed
  <2>2. AtMostAFrameEarly'
    BY <1>1, FunctorInvParts DEF AtMostAFrameEarly
  <2> QED
    BY <2>1, <2>2 DEF DelaysHold
<1> QED
  BY <1>1, <1>3, <1>4, <1>5, CoSaveStays, FunctorInvParts DEF FunctorInv, LoadKeepsFunctors

(* What is saved has one place for each functor, and what a Load brings    *)
(* back of it is apart again.                                              *)
LEMMA SaveStep ==
  ASSUME FunctorInv, Save
  PROVE  FunctorInv'
PROOF
<1>1. /\ hook = "idle" /\ lost' = {}
      /\ UNCHANGED <<lists, popped, hook, elapsed, held, age, asked, astray>>
  BY DEF Save
<1>2. PICK w \in SetToSeqs(waitData), r \in SetToSeqs(readyData) :
        /\ records' = SaveFunctors(queue, inData, w, r)
        /\ saved' = [asked |-> asked, age |-> age, held |-> held, astray |-> astray,
                     lasts |-> {Last(l).f : l \in {inData, w} \ {<<>>}}]
  BY DEF Save
<1>3. IsFiniteSet(readyData) /\ IsFiniteSet(waitData)
  <2>1. IsFiniteSet(readyData)
    BY FunctorInvParts, FunctorAssumption, FS_Subset
  <2> PICK g : g = [e \in waitData |-> e.f]
    OBVIOUS
  <2>2. g \in Injection(waitData, Functors)
    <3>1. g \in [waitData -> Functors]
      BY FunctorInvParts, EntryFields
    <3>2. \A d, e \in waitData : g[d] = g[e] => d = e
      BY FunctorInvParts
    <3> QED
      BY <3>1, <3>2 DEF Injection, IsInjective
  <2>3. IsFiniteSet(waitData)
    BY <2>2, FunctorAssumption, FS_Injection
  <2> QED
    BY <2>1, <2>3
<1>4. /\ w \in Seq(waitData) /\ OnceEach(w) /\ ToSet(w) = waitData
      /\ r \in Seq(readyData) /\ OnceEach(r) /\ ToSet(r) = readyData
      /\ readyData = {} => r = <<>>
  BY <1>3, SetsAsLists
<1>5. w \in Seq(Entry) /\ r \in Seq(Functors)
  <2>1. w \in [1..Len(w) -> waitData] /\ r \in [1..Len(r) -> readyData] /\ Len(w) \in Nat /\ Len(r) \in Nat
    BY <1>4
  <2>2. w \in [1..Len(w) -> Entry] /\ r \in [1..Len(r) -> Functors]
    BY <2>1, FunctorInvParts
  <2> QED
    BY <2>1, <2>2
<1>6. NamesOf(w) = Waiting /\ OnceNamed(w)
  <2>1. \A x \in DOMAIN w : w[x] \in waitData
    BY <1>4 DEF ToSet
  <2>2. \A x, y \in DOMAIN w : w[x].f = w[y].f => x = y
    BY <1>4, <2>1, FunctorInvParts DEF OnceEach
  <2>3. \A e \in waitData : \E x \in DOMAIN w : w[x] = e
    BY <1>4 DEF ToSet
  <2>4. NamesOf(w) = Waiting
    BY <2>1, <2>3 DEF NamesOf, Waiting
  <2> QED
    BY <2>2, <2>4 DEF OnceNamed
<1>7. Apart(queue, inData, w, r)
  BY <1>4, <1>6, FunctorInvParts, IncomingNames DEF Apart, OnceEach, OnceNamed
<1>8. Written(records', saved', queue, inData, w, r)
  <2>1. popped = {}
    BY <1>1, FunctorInvParts
  <2>2. /\ saved'.asked = asked /\ saved'.age = age /\ saved'.held = held /\ saved'.astray = astray
        /\ saved'.lasts = {Last(l).f : l \in {inData, w} \ {<<>>}}
    BY <1>2
  <2>3. held = ToSet(queue) \cup NamesOf(inData) \cup NamesOf(w) \cup ToSet(r)
    BY <1>4, <1>6, <2>1, FunctorInvParts, IncomingNames
  <2>4. ~astray => r = <<>>
    BY <1>1, <1>4, FunctorInvParts
  <2>5. \A e \in ToSet(inData) \cup ToSet(w) : Timed(e, asked, age)
    BY <1>4, FunctorInvParts
  <2> QED
    BY <1>2, <1>5, <1>7, <2>2, <2>3, <2>4, <2>5, FunctorInvParts DEF Written
<1>9. SavedFunctors(records, saved)'
  BY <1>8 DEF SavedFunctors
<1>10. FunctorTypeOK'
  BY <1>1, FunctorInvParts DEF FunctorTypeOK, lists
<1> QED
  BY <1>1, <1>9, <1>10, NoFunctorMoves DEF FunctorInv, LoadKeepsFunctors

LEMMA LoadStep ==
  ASSUME FunctorInv, NEW unknown \in SUBSET Functors, NEW waitJunk \in Junk, NEW readyJunk \in Junk, RevertAndLoad(unknown, waitJunk, readyJunk)
  PROVE  FunctorInv'
PROOF
<1> PICK now : now = LoadFunctors(records, unknown, waitJunk, readyJunk)
  OBVIOUS
<1>1. /\ hook = "idle" /\ records # <<>>
      /\ queue' = now.queue /\ inData' = now.inData
      /\ waitData' = ToSet(now.waitData) /\ readyData' = ToSet(now.readyData)
      /\ held' = ToSet(queue') \cup Incoming' \cup Waiting' \cup readyData'
      /\ lost' = IF saved.lasts \cap unknown # {} THEN {} ELSE saved.held \ (held' \cup unknown)
      /\ astray' = (saved.astray \/ saved.lasts \cap unknown # {})
      /\ elapsed' = 0 /\ asked' = saved.asked /\ age' = saved.age
      /\ UNCHANGED <<popped, hook, coSave>>
  BY DEF RevertAndLoad
<1>2. PICK q, i, w, r : Written(records, saved, q, i, w, r)
  BY <1>1, FunctorInvParts DEF SavedFunctors
<1>3. /\ q \in Seq(Functors) /\ i \in Seq(Entry) /\ w \in Seq(Entry) /\ r \in Seq(Functors)
      /\ records = SaveFunctors(q, i, w, r) /\ Apart(q, i, w, r) /\ waitJunk \in Nat /\ readyJunk \in Nat
  BY <1>2, FunctorAssumption DEF Written
<1>4. Layout(records, q, i, w, r)
  BY <1>3, SavedLayout
<1>5. Loaded(now, q, i, w, r, unknown)
  BY <1>3, <1>4, LoadBrings
<1>6. /\ queue' \in Seq(Functors) /\ OnceEach(queue)' /\ ToSet(queue)' = ToSet(q) \ unknown
      /\ inData' \in Seq(Entry) /\ OnceNamed(inData)'
      /\ ToSet(inData)' = {e \in ToSet(i) : e.f \notin unknown}
      /\ waitData' \subseteq {e \in ToSet(w) : e.f \notin unknown}
      /\ readyData' \subseteq (NamesOf(w) \cup ToSet(r)) \ unknown
      /\ \A e \in waitData' : e.f \notin readyData'
      /\ saved.lasts \cap unknown = {}
           => waitData' = {e \in ToSet(w) : e.f \notin unknown} /\ readyData' = ToSet(r) \ unknown
  <2>1. saved.lasts = {Last(l).f : l \in {i, w} \ {<<>>}}
    BY <1>2 DEF Written
  <2>2. OnceEach(queue)' /\ ToSet(queue)' = ToSet(q) \ unknown /\ queue' \in Seq(Functors)
    <3>1. /\ now.queue \in Seq(Functors) /\ ToSet(now.queue) = ToSet(q) \ unknown
          /\ \A j, k \in DOMAIN now.queue : now.queue[j] = now.queue[k] => j = k
      BY <1>5 DEF Loaded
    <3>2. ToSet(queue)' = ToSet(now.queue)
      BY <1>1 DEF ToSet
    <3>3. OnceEach(queue)'
      BY <1>1, <3>1 DEF OnceEach
    <3> QED
      BY <1>1, <3>1, <3>2, <3>3
  <2>3. OnceNamed(inData)' /\ ToSet(inData)' = {e \in ToSet(i) : e.f \notin unknown} /\ inData' \in Seq(Entry)
    BY <1>1, <1>5 DEF Loaded, OnceNamed, ToSet
  <2> QED
    BY <1>1, <1>5, <2>1, <2>2, <2>3 DEF Loaded
<1>7. /\ \A e \in ToSet(i) : e \in Entry /\ e.f \in NamesOf(i)
      /\ \A e \in ToSet(w) : e \in Entry /\ e.f \in NamesOf(w)
      /\ \A f \in NamesOf(i) : \E e \in ToSet(i) : e.f = f
      /\ \A f \in NamesOf(w) : \E e \in ToSet(w) : e.f = f
      /\ \A d, e \in ToSet(w) : d.f = e.f => d = e
      /\ ToSet(q) \subseteq Functors /\ ToSet(r) \subseteq Functors
  BY <1>3 DEF ToSet, NamesOf, Apart
<1>8. NamesOf(w) \subseteq Functors
  BY <1>7, EntryFields
<1>9. Incoming' = NamesOf(i) \ unknown
  <2>1. Incoming' = {e.f : e \in ToSet(inData)'}
    BY DEF Incoming, ToSet
  <2> QED
    BY <1>6, <1>7, <2>1
<1>10. /\ Waiting' \subseteq NamesOf(w) \ unknown /\ Waiting' \cap readyData' = {}
       /\ waitData' = {e \in ToSet(w) : e.f \notin unknown} => Waiting' = NamesOf(w) \ unknown
  <2>1. Waiting' = {e.f : e \in waitData'}
    BY DEF Waiting
  <2> QED
    BY <1>6, <1>7, <2>1
<1>11. /\ ToSet(q) \cap (NamesOf(i) \cup NamesOf(w) \cup ToSet(r)) = {}
       /\ NamesOf(i) \cap (NamesOf(w) \cup ToSet(r)) = {}
       /\ NamesOf(w) \cap ToSet(r) = {}
  BY <1>3 DEF Apart
<1>12. popped' = {} /\ popped = {} /\ hook' = "idle"
  BY <1>1, FunctorInvParts
<1>13. ~astray' => readyData' = {}
  <2> SUFFICES ASSUME ~astray' PROVE readyData' = {}
    OBVIOUS
  <2>1. ~saved.astray /\ saved.lasts \cap unknown = {}
    BY <1>1
  <2>2. r = <<>>
    BY <1>2, <2>1 DEF Written
  <2>3. ToSet(r) = {}
    BY <2>2 DEF ToSet
  <2> QED
    BY <1>6, <2>1, <2>3
<1>14. FunctorTypeOK'
  <2>1. waitData' \subseteq Entry /\ readyData' \subseteq Functors
    BY <1>6, <1>7, <1>8
  <2>2. held' \subseteq Functors
    BY <1>1, <1>6, <1>7, <1>8, <1>9, <1>10, <2>1, EntryFields
  <2>3. astray' \in BOOLEAN /\ elapsed' \in 0..MaxFrame
    BY <1>1, <1>2, FunctorAssumption DEF Written
  <2> QED
    BY <1>6, <1>12, <1>13, <2>1, <2>2, <2>3 DEF FunctorTypeOK
<1>15. PlacesApart'
  <2>1. \A d, e \in waitData' : d.f = e.f => d = e
    BY <1>6, <1>7
  <2> QED
    BY <1>6, <1>9, <1>10, <1>11, <1>12, <2>1 DEF PlacesApart
<1>16. AllHeld'
  BY <1>1, <1>12 DEF AllHeld
<1>17. DelaysHold'
  <2>1. /\ saved.age \in [Functors -> Nat] /\ saved.asked \in [Functors -> Int]
        /\ \A e \in ToSet(i) \cup ToSet(w) : Timed(e, saved.asked, saved.age)
    BY <1>2 DEF Written
  <2>2. Times'
    BY <1>1, <1>6, <2>1 DEF Times
  <2>3. AtMostAFrameEarly'
    BY <1>13 DEF AtMostAFrameEarly
  <2> QED
    BY <2>2, <2>3 DEF DelaysHold
<1>18. LoadKeepsFunctors'
  <2>1. CASE saved.lasts \cap unknown # {}
    BY <1>1, <2>1 DEF LoadKeepsFunctors
  <2>2. CASE saved.lasts \cap unknown = {}
    <3>1. saved.held = ToSet(q) \cup NamesOf(i) \cup NamesOf(w) \cup ToSet(r)
      BY <1>2 DEF Written
    <3>2. held' = (ToSet(q) \cup NamesOf(i) \cup NamesOf(w) \cup ToSet(r)) \ unknown
      BY <1>1, <1>6, <1>9, <1>10, <2>2
    <3> QED
      BY <1>1, <2>2, <3>1, <3>2 DEF LoadKeepsFunctors
  <2> QED
    BY <2>1, <2>2
<1> QED
  BY <1>1, <1>14, <1>15, <1>16, <1>17, <1>18, CoSaveStays DEF FunctorInv

(* The lists are sound, their entries are charged with the time that has   *)
(* passed, and the co-save has what SaveFunctors wrote of such lists: what *)
(* FunctorsAreKept needs to be kept by every step, a load included.        *)
THEOREM FunctorInvHolds == FunctorSpec => []FunctorInv
PROOF
<1>1. FunctorInit => FunctorInv
  BY FunctorInitially
<1>2. FunctorInv /\ [FunctorNext]_functorVars => FunctorInv'
  <2> SUFFICES ASSUME FunctorInv, [FunctorNext]_functorVars PROVE FunctorInv'
    OBVIOUS
  <2>1. CASE \E f \in Functors, d \in Delays : Enqueue(f, d)
    BY <2>1, EnqueueStep
  <2>2. CASE Clock
    BY <2>2, ClockStep
  <2>3. CASE MoveIncoming
    BY <2>3, MoveIncomingStep
  <2>4. CASE PassTime
    BY <2>4, PassTimeStep
  <2>5. CASE NothingReady
    BY <2>5, NothingReadyStep
  <2>6. CASE PopFunctor
    BY <2>6, PopFunctorStep
  <2>7. CASE QueueEmpty
    BY <2>7, QueueEmptyStep
  <2>8. CASE \E f \in Functors : PopReady(f)
    BY <2>8, PopReadyStep
  <2>9. CASE \E f \in Functors : ResumeStack(f)
    BY <2>9, ResumeStackStep
  <2>10. CASE \E f \in Functors, d \in Again : Reschedule(f, d)
    BY <2>10, RescheduleStep
  <2>11. CASE Save
    BY <2>11, SaveStep
  <2>12. CASE \E unknown \in SUBSET Functors, waitJunk, readyJunk \in Junk : RevertAndLoad(unknown, waitJunk, readyJunk)
    BY <2>12, LoadStep
  <2>13. CASE UNCHANGED functorVars
    <3>1. /\ UNCHANGED <<lists, popped, held, age, asked>> /\ UNCHANGED coSave
          /\ UNCHANGED <<hook, elapsed, astray, lost>>
      BY <2>13 DEF functorVars, lists, coSave
    <3>2. FunctorTypeOK'
      BY <3>1, FunctorInvParts DEF FunctorTypeOK, lists
    <3> QED
      BY <3>1, <3>2, NoFunctorMoves, CoSaveStays, FunctorInvParts DEF FunctorInv, LoadKeepsFunctors
  <2> QED
    BY <2>1, <2>2, <2>3, <2>4, <2>5, <2>6, <2>7, <2>8, <2>9, <2>10, <2>11, <2>12, <2>13 DEF FunctorNext
<1> QED
  BY <1>1, <1>2, PTL DEF FunctorSpec

(* A latent function that was enqueued is in exactly one place until its   *)
(* stack is resumed, is never ready more than a frame before its delay is  *)
(* over, and comes back from a save and a load if its class is known.      *)
THEOREM FunctorsAreAlwaysKept == FunctorSpec => []FunctorsAreKept
PROOF
<1>1. FunctorInv => FunctorsAreKept
  BY PlacesAreApart DEF FunctorInv, FunctorsAreKept, DelaysHold
<1> QED
  BY <1>1, FunctorInvHolds, PTL
=============================================================================
