------------------------- MODULE DamageHooks_proofs -------------------------
(***************************************************************************)
(* Proofs about SimpleLock and DamageHooks, for every number of threads,   *)
(* actors and calls and every nesting.                                     *)
(*                                                                         *)
(* LockInv is inductive; the properties of the lock are its conjuncts or   *)
(* follow from them, and the refinement of ReentrantLock is proved step by *)
(* step under it.  A step of the hooks is a step of the lock and a step of *)
(* the queue, so what is proved of SimpleLock and DamageQueue holds for    *)
(* them; how often a thread holds the lock then follows from where it is   *)
(* in the two hooks, and which losses a number can have counted follows    *)
(* from who holds it.                                                      *)
(***************************************************************************)
EXTENDS DamageHooks, DamageQueue_proofs

USE NoThreadAssumption, MaxDepthAssumption, ActorsAssumption, UnitAssumption,
    AmountsAssumption, FullHealthAssumption, EffectSettingsAssumption, MaxCallsAssumption

-----------------------------------------------------------------------------
(* The lock starts free: LockInit establishes the invariant.               *)
LEMMA LockInvInit == LockInit => LockInv
  BY DEF LockInit, LockInv, LockTypeOK, MutualExclusion, CountOfOwner,
         FreeWhenReleased, NameOfOwner, PcOfOwner, Owns

(* Every access to threadID or lockCount preserves the invariant.          *)
LEMMA LockInvStep == LockInv /\ [LockNext]_lockVars => LockInv'
<1> SUFFICES ASSUME LockInv, [LockNext]_lockVars PROVE LockInv'
  OBVIOUS
<1> USE DEF LockInv, LockTypeOK, MutualExclusion, CountOfOwner,
            FreeWhenReleased, NameOfOwner, PcOfOwner, Owns
<1>1. CASE UNCHANGED lockVars
  BY <1>1 DEF lockVars
<1>2. ASSUME NEW t \in Threads, LockTest(t) PROVE LockInv'
  <2>1. LockTypeOK'
    BY <1>2 DEF LockTest
  <2>2. \A u \in Threads : Owns(u)' <=> Owns(u)
    BY <1>2 DEF LockTest
  <2>3. (MutualExclusion /\ CountOfOwner /\ FreeWhenReleased)'
    BY <1>2, <2>2 DEF LockTest
  <2>4. (NameOfOwner /\ PcOfOwner)'
    BY <1>2 DEF LockTest
  <2>5. QED BY <2>1, <2>3, <2>4
<1>3. ASSUME NEW t \in Threads, LockInc(t) PROVE LockInv'
  <2>1. Owns(t) /\ lockCount = held[t]
    BY <1>3 DEF LockInc
  <2>2. LockTypeOK'
    BY <1>3 DEF LockInc
  <2>3. \A u \in Threads : Owns(u)' <=> Owns(u)
    BY <1>3, <2>1 DEF LockInc
  <2>4. (MutualExclusion /\ CountOfOwner /\ FreeWhenReleased)'
    BY <1>3, <2>1, <2>3 DEF LockInc
  <2>5. (NameOfOwner /\ PcOfOwner)'
    BY <1>3 DEF LockInc
  <2>6. QED BY <2>2, <2>4, <2>5
<1>4. ASSUME NEW t \in Threads, LockCas(t) PROVE LockInv'
  <2>1. \A u \in Threads : ~Owns(u)
    BY <1>4 DEF LockCas
  <2>2. LockTypeOK'
    BY <1>4 DEF LockCas
  <2>3. \A u \in Threads : Owns(u)' <=> u = t
    BY <1>4, <2>1 DEF LockCas
  <2>4. (MutualExclusion /\ CountOfOwner /\ FreeWhenReleased)'
    BY <1>4, <2>1, <2>3 DEF LockCas
  <2>5. (NameOfOwner /\ PcOfOwner)'
    BY <1>4, <2>1 DEF LockCas
  <2>6. QED BY <2>2, <2>4, <2>5
<1>5. ASSUME NEW t \in Threads, LockOwn(t) PROVE LockInv'
  <2>1. Owns(t) /\ held[t] = 0 /\ lockCount = 1
    BY <1>5 DEF LockOwn
  <2>2. LockTypeOK'
    BY <1>5, <2>1 DEF LockOwn
  <2>3. \A u \in Threads : Owns(u)' <=> Owns(u)
    BY <1>5, <2>1 DEF LockOwn
  <2>4. (MutualExclusion /\ CountOfOwner /\ FreeWhenReleased)'
    BY <1>5, <2>1, <2>3 DEF LockOwn
  <2>5. (NameOfOwner /\ PcOfOwner)'
    BY <1>5, <2>1 DEF LockOwn
  <2>6. QED BY <2>2, <2>4, <2>5
<1>6. ASSUME NEW t \in Threads, ReleaseDec(t) PROVE LockInv'
  <2>1. Owns(t) /\ lockCount = held[t] /\ held[t] > 0
    BY <1>6 DEF ReleaseDec
  <2>2. \A u \in Threads : u # t => ~Owns(u)
    BY <2>1
  <2>3. LockTypeOK'
    BY <1>6, <2>1 DEF ReleaseDec
  <2>4. \A u \in Threads : Owns(u)' => u = t
    BY <1>6, <2>2 DEF ReleaseDec
  <2>5. (MutualExclusion /\ CountOfOwner)'
    BY <1>6, <2>1, <2>4 DEF ReleaseDec
  <2>6. FreeWhenReleased'
    BY <1>6, <2>1 DEF ReleaseDec
  <2>7. (NameOfOwner /\ PcOfOwner)'
    BY <1>6, <2>1 DEF ReleaseDec
  <2>8. QED BY <2>3, <2>5, <2>6, <2>7
<1>7. ASSUME NEW t \in Threads, ReleaseClear(t) PROVE LockInv'
  <2>1. LockTypeOK'
    BY <1>7 DEF ReleaseClear
  <2>2. \A u \in Threads : Owns(u)' <=> Owns(u)
    BY <1>7 DEF ReleaseClear
  <2>3. (MutualExclusion /\ CountOfOwner /\ FreeWhenReleased)'
    BY <1>7, <2>2 DEF ReleaseClear
  <2>4. (NameOfOwner /\ PcOfOwner)'
    BY <1>7 DEF ReleaseClear
  <2>5. QED BY <2>1, <2>3, <2>4
<1>8. QED
  BY <1>1, <1>2, <1>3, <1>4, <1>5, <1>6, <1>7 DEF LockNext, LockStep

(* The invariant holds in every state the threads can bring the two words  *)
(* into.                                                                   *)
THEOREM LockInvariant == LockSpec => []LockInv
  BY LockInvInit, LockInvStep, PTL DEF LockSpec

-----------------------------------------------------------------------------
(* The words keep their types; in particular lockCount never goes below 0. *)
THEOREM LockTypeCorrect == LockSpec => []LockTypeOK
<1>1. LockInv => LockTypeOK
  BY DEF LockInv
<1>2. QED
  BY <1>1, LockInvariant, PTL

(* SimpleLock is a mutual exclusion lock, although Release frees the lock  *)
(* before it clears the name of the owner.                                 *)
THEOREM LockMutualExclusion == LockSpec => []MutualExclusion
<1>1. LockInv => MutualExclusion
  BY DEF LockInv
<1>2. QED
  BY <1>1, LockInvariant, PTL

(* No release is lost: when nobody has a Lock call to release or is on the *)
(* way out of one, lockCount is 0 and the next compare-exchange succeeds.  *)
THEOREM LockFreeWhenReleased == LockSpec => []FreeWhenReleased
<1>1. LockInv => FreeWhenReleased
  BY DEF LockInv
<1>2. QED
  BY <1>1, LockInvariant, PTL

(* An owner that reads lockCount reads how deep it is nested, whatever the *)
(* other threads do: the test of DamageHealth_Hook is meaningful.          *)
THEOREM LockCountIsNesting == LockSpec => []CountIsNesting
<1>1. LockInv => CountIsNesting
  BY DEF LockInv, LockTypeOK, CountOfOwner, PcOfOwner, Owns, CountIsNesting
<1>2. QED
  BY <1>1, LockInvariant, PTL

-----------------------------------------------------------------------------
(* While a thread holds the lock, the owner the users see is that thread   *)
(* and the depth is lockCount.                                             *)
LEMMA OwnerIsHolder ==
  ASSUME LockInv, NEW t \in Threads, held[t] > 0
  PROVE  owner = t /\ depth = lockCount /\ lockCount = held[t]
  BY DEF LockInv, LockTypeOK, MutualExclusion, CountOfOwner, PcOfOwner, Owns,
         owner, depth

(* While no thread holds the lock, the users see a free lock.              *)
LEMMA NoOwner ==
  ASSUME \A t \in Threads : ~(held[t] > 0)
  PROVE  owner = NoThread /\ depth = 0
  BY DEF owner, depth

(* The same two facts in the state after a step.                           *)
LEMMA OwnerAfter ==
  ASSUME LockInv', NEW t \in Threads, held'[t] > 0
  PROVE  owner' = t /\ depth' = held'[t]
  BY DEF LockInv, LockTypeOK, MutualExclusion, CountOfOwner, PcOfOwner, Owns,
         owner, depth

LEMMA NoOwnerAfter ==
  ASSUME \A t \in Threads : ~(held'[t] > 0)
  PROVE  owner' = NoThread /\ depth' = 0
  BY DEF owner, depth

(* A free SimpleLock is a free lock.                                       *)
LEMMA RefinesInit == LockInit => Abstract!Init
  BY NoOwner DEF LockInit, Abstract!Init

(* Every access to the two words is a Take, a Drop or invisible.           *)
LEMMA RefinesStep ==
  LockInv /\ LockInv' /\ [LockNext]_lockVars => [Abstract!Next]_(Abstract!vars)
<1> SUFFICES ASSUME LockInv, LockInv', [LockNext]_lockVars
             PROVE  [Abstract!Next]_(Abstract!vars)
  OBVIOUS
<1>1. ASSUME \A u \in Threads : held'[u] = held[u],
             \A u \in Threads : held[u] > 0 => lockCount' = lockCount
      PROVE  UNCHANGED Abstract!vars
  BY <1>1 DEF owner, depth, Abstract!vars
<1>2. CASE UNCHANGED lockVars
  BY <1>1, <1>2 DEF lockVars
<1>3. ASSUME NEW t \in Threads, LockTest(t) PROVE UNCHANGED Abstract!vars
  BY <1>1, <1>3 DEF LockTest
<1>4. ASSUME NEW t \in Threads, LockInc(t) PROVE Abstract!Take(t)
  <2>1. held[t] > 0 /\ held'[t] = held[t] + 1 /\ held[t] < MaxDepth
    BY <1>4 DEF LockInc, LockInv, LockTypeOK, PcOfOwner
  <2>2. owner = t /\ depth = held[t]
    BY <2>1, OwnerIsHolder
  <2>3. owner' = t /\ depth' = held'[t]
    BY <1>4, <2>1, OwnerAfter DEF LockInv, LockTypeOK
  <2>4. QED BY <2>1, <2>2, <2>3 DEF Abstract!Take
<1>5. ASSUME NEW t \in Threads, LockCas(t) PROVE UNCHANGED Abstract!vars
  BY <1>1, <1>5 DEF LockCas, LockInv, LockTypeOK, CountOfOwner, Owns
<1>6. ASSUME NEW t \in Threads, LockOwn(t) PROVE Abstract!Take(t)
  <2>1. held[t] = 0 /\ held'[t] = 1
    BY <1>6 DEF LockOwn, LockInv, LockTypeOK, PcOfOwner
  <2>2. owner = NoThread /\ depth = 0
    BY <1>6, <2>1, NoOwner
       DEF LockOwn, LockInv, MutualExclusion, Owns
  <2>3. owner' = t /\ depth' = 1
    BY <2>1, OwnerAfter
  <2>4. QED BY <2>2, <2>3 DEF Abstract!Take
<1>7. ASSUME NEW t \in Threads, ReleaseDec(t) PROVE Abstract!Drop(t)
  <2>1. held[t] > 0 /\ held'[t] = held[t] - 1
    BY <1>7 DEF ReleaseDec, LockInv, LockTypeOK
  <2>2. owner = t /\ depth = held[t]
    BY <2>1, OwnerIsHolder
  <2>3. CASE held[t] = 1
    <3>1. \A u \in Threads : ~(held'[u] > 0)
      BY <1>7, <2>1, <2>3
         DEF ReleaseDec, LockInv, LockTypeOK, MutualExclusion, Owns
    <3>2. owner' = NoThread /\ depth' = 0
      BY <3>1, NoOwnerAfter
    <3>3. QED BY <2>2, <2>3, <3>2 DEF Abstract!Drop
  <2>4. CASE held[t] # 1
    <3>1. held'[t] > 0
      BY <2>1, <2>4 DEF LockInv, LockTypeOK
    <3>2. owner' = t /\ depth' = held'[t]
      BY <3>1, OwnerAfter
    <3>3. QED BY <2>1, <2>2, <2>4, <3>2 DEF Abstract!Drop, LockInv, LockTypeOK
  <2>5. QED BY <2>3, <2>4
<1>8. ASSUME NEW t \in Threads, ReleaseClear(t) PROVE UNCHANGED Abstract!vars
  BY <1>1, <1>8 DEF ReleaseClear
<1>9. QED
  BY <1>2, <1>3, <1>4, <1>5, <1>6, <1>7, <1>8
     DEF LockNext, LockStep, Abstract!Next

(* SimpleLock implements a lock with one owner and a depth, for every      *)
(* number of threads and every nesting.                                    *)
THEOREM LockRefinement == LockSpec => ImplementsReentrantLock
  BY LockInvariant, RefinesInit, RefinesStep, PTL
     DEF LockSpec, ImplementsReentrantLock, Abstract!Spec

(* All of it, for every number of threads and any nesting.                 *)
THEOREM LockAlwaysReentrant == LockSpec => LockIsReentrant
  BY LockTypeCorrect, LockMutualExclusion, LockCountIsNesting, LockFreeWhenReleased,
     LockRefinement, PTL DEF LockIsReentrant

-----------------------------------------------------------------------------
(* What the hooks do to the lock is what its users may do.                 *)
LEMMA HookLockStep ==
  ASSUME [HookNext]_hookVars
  PROVE  [LockNext]_lockVars
<1>1. CASE UNCHANGED hookVars
  BY <1>1 DEF hookVars
<1>2. ASSUME NEW t \in Threads, FrameStep(t) PROVE [LockNext]_lockVars
  BY <1>2 DEF FrameStep, FrameLock, FrameReadBefore, FrameReadAfter, FrameRegister,
              FrameRelease, FrameReturn, LockNext
<1>3. ASSUME NEW t \in Threads, EffectStep(t) PROVE [LockNext]_lockVars
  BY <1>3 DEF EffectStep, EffectLock, EffectTest, EffectRegister, EffectRelease,
              EffectApply, LockNext
<1>4. ASSUME NEW t \in Threads, NEW a \in Actors, FrameCall(t, a)
      PROVE  UNCHANGED lockVars
  BY <1>4 DEF FrameCall
<1>5. ASSUME NEW t \in Threads, NEW a \in Actors, NEW amount \in Amounts,
             EffectCall(t, a, amount)
      PROVE  UNCHANGED lockVars
  BY <1>5 DEF EffectCall
<1>6. ASSUME NEW t \in Threads, LockStep(t) PROVE LockNext
  BY <1>6 DEF LockNext
<1>7. ASSUME LoadSettings PROVE UNCHANGED lockVars
  BY <1>7 DEF LoadSettings
<1>8. QED
  BY <1>1, <1>2, <1>3, <1>4, <1>5, <1>6, <1>7 DEF HookNext, HookStep

(* What the hooks do to the queue is what its producers may do.            *)
LEMMA HookQueueStep ==
  ASSUME [HookNext]_hookVars
  PROVE  [QueueNext]_queueVars
<1>1. CASE UNCHANGED hookVars
  BY <1>1 DEF hookVars
<1>2. ASSUME NEW t \in Threads, FrameStep(t) PROVE [QueueNext]_queueVars
  BY <1>2 DEF FrameStep, FrameLock, FrameReadBefore, FrameReadAfter, FrameRegister,
              FrameRelease, FrameReturn, QueueNext
<1>3. ASSUME NEW t \in Threads, EffectStep(t) PROVE [QueueNext]_queueVars
  BY <1>3 DEF EffectStep, EffectLock, EffectTest, EffectRegister, EffectRelease,
              EffectApply, QueueNext
<1>4. ASSUME NEW t \in Threads, NEW a \in Actors, FrameCall(t, a)
      PROVE  UNCHANGED queueVars
  BY <1>4 DEF FrameCall
<1>5. ASSUME NEW t \in Threads, NEW a \in Actors, NEW amount \in Amounts,
             EffectCall(t, a, amount)
      PROVE  UNCHANGED queueVars
  BY <1>5 DEF EffectCall
<1>6. ASSUME LoadSettings PROVE UNCHANGED queueVars
  BY <1>6 DEF LoadSettings
<1>7. QED
  BY <1>1, <1>2, <1>3, <1>4, <1>5, <1>6 DEF HookNext, HookStep, QueueNext

(* The hooks are users of the lock and producers of the queue: every       *)
(* property of SimpleLock and of DamageQueue holds while they run.         *)
THEOREM HooksUseLockAndQueue == HookSpec => LockSpec /\ QueueSpec
<1>1. HookInit => LockInit /\ QueueInit
  BY DEF HookInit
<1>2. [HookNext]_hookVars => [LockNext]_lockVars /\ [QueueNext]_queueVars
  BY HookLockStep, HookQueueStep
<1>3. QED
  BY <1>1, <1>2, PTL DEF HookSpec, LockSpec, QueueSpec

-----------------------------------------------------------------------------
(* A rounded amount is a number of points, and the bookkeeping of the      *)
(* hooks keeps its types.                                                  *)
LEMMA RoundNat == ASSUME NEW units \in Nat PROVE Round(units) \in Nat
  BY SMTT(30) DEF Round

LEMMA NoActivation ==
  /\ NoFrame \in [pc : FramePcs, victim : Actors, healthA : Int, points : Nat]
  /\ NoEffect \in [pc : EffectPcs, victim : Actors, amount : Nat, points : Nat,
                   counted : BOOLEAN]
<1>1. (CHOOSE a \in Actors : TRUE) \in Actors
  OBVIOUS
<1>2. QED
  BY <1>1 DEF NoFrame, NoEffect, FramePcs, EffectPcs

FrameType == [pc : FramePcs, victim : Actors, healthA : Int, points : Nat]
EffectType == [pc : EffectPcs, victim : Actors, amount : Nat, points : Nat,
               counted : BOOLEAN]
TallyType == [Actors -> [points : Nat, numbers : Nat]]

LEMMA CreditType ==
  ASSUME NEW tally \in TallyType, NEW a \in Actors, NEW points \in Nat
  PROVE  Credit(tally, a, points) \in TallyType
  BY DEF TallyType, Credit

(* The variables of the hooks alone.                                       *)
HookOnlyTypeOK ==
  /\ health \in [Actors -> Int]
  /\ showEffect \in BOOLEAN
  /\ calls \in 0..MaxCalls
  /\ frame \in [Threads -> FrameType]
  /\ effect \in [Threads -> EffectType]
  /\ framed \in TallyType
  /\ effected \in TallyType
  /\ announced \in [Actors -> Int]

LEMMA HookTypeParts == HookTypeOK <=> LockTypeOK /\ QueueTypeOK /\ HookOnlyTypeOK
  BY DEF HookTypeOK, HookOnlyTypeOK, FrameType, EffectType, TallyType

LEMMA HookTypeInit == HookInit => HookOnlyTypeOK
  BY NoActivation DEF HookInit, HookOnlyTypeOK, FrameType, EffectType, TallyType

LEMMA FrameTypeStep ==
  ASSUME HookOnlyTypeOK, NEW t \in Threads, FrameStep(t)
  PROVE  HookOnlyTypeOK'
<1> USE DEF HookOnlyTypeOK, tallies
<1>1. frame[t] \in FrameType /\ frame[t].victim \in Actors /\ frame[t].points \in Nat
  BY DEF FrameType
<1>2. CASE FrameLock(t)
  BY <1>1, <1>2 DEF FrameLock, FrameType, FramePcs
<1>3. CASE FrameReadBefore(t)
  BY <1>1, <1>3 DEF FrameReadBefore, FrameType, FramePcs
<1>4. CASE FrameReadAfter(t)
  <2> DEFINE loss == frame[t].healthA - health[frame[t].victim]
             points == IF loss > 0 THEN Round(loss) ELSE 0
  <2>1. points \in Nat
    <3>1. loss \in Int
      BY <1>1 DEF FrameType
    <3>2. QED
      BY <3>1, RoundNat
  <2> HIDE DEF points
  <2>2. /\ frame' = [frame EXCEPT ![t].pc = IF points > 0 THEN "register" ELSE "release",
                                  ![t].points = points]
        /\ UNCHANGED <<health, showEffect, calls, effect, tallies>>
    BY <1>4 DEF FrameReadAfter, points
  <2>3. QED
    BY <1>1, <2>1, <2>2 DEF FrameType, FramePcs
<1>5. CASE FrameRegister(t)
  <2>1. framed' \in TallyType
    BY <1>1, <1>5, CreditType DEF FrameRegister
  <2>2. QED
    BY <1>1, <1>5, <2>1 DEF FrameRegister, FrameType, FramePcs
<1>6. CASE FrameRelease(t)
  BY <1>1, <1>6, NoActivation DEF FrameRelease, FrameType
<1>7. CASE FrameReturn(t)
  BY <1>1, <1>7, NoActivation DEF FrameReturn, FrameType
<1>8. QED
  BY <1>2, <1>3, <1>4, <1>5, <1>6, <1>7 DEF FrameStep

LEMMA EffectTypeStep ==
  ASSUME HookOnlyTypeOK, NEW t \in Threads, EffectStep(t)
  PROVE  HookOnlyTypeOK'
<1> USE DEF HookOnlyTypeOK, tallies
<1>1. /\ effect[t] \in EffectType /\ effect[t].victim \in Actors
      /\ effect[t].points \in Nat /\ effect[t].amount \in Nat
  BY DEF EffectType
<1>2. CASE EffectLock(t)
  BY <1>1, <1>2 DEF EffectLock, EffectType, EffectPcs
<1>3. CASE EffectTest(t)
  BY <1>1, <1>3 DEF EffectTest, EffectType, EffectPcs
<1>4. CASE EffectRegister(t)
  <2>1. effected' \in TallyType
    BY <1>1, <1>4, CreditType DEF EffectRegister
  <2>2. announced' \in [Actors -> Int]
    BY <1>1, <1>4 DEF EffectRegister
  <2>3. effect' \in [Threads -> EffectType]
    BY <1>1, <1>4 DEF EffectRegister, EffectType, EffectPcs
  <2>4. QED
    BY <1>4, <2>1, <2>2, <2>3 DEF EffectRegister
<1>5. CASE EffectRelease(t)
  BY <1>1, <1>5 DEF EffectRelease, EffectType, EffectPcs
<1>6. CASE EffectApply(t)
  BY <1>1, <1>6, NoActivation DEF EffectApply, EffectType
<1>7. QED
  BY <1>2, <1>3, <1>4, <1>5, <1>6 DEF EffectStep

LEMMA HookTypeStep ==
  ASSUME HookOnlyTypeOK, [HookNext]_hookVars
  PROVE  HookOnlyTypeOK'
<1>1. CASE UNCHANGED hookVars
  BY <1>1 DEF hookVars, hookOnly, tallies, HookOnlyTypeOK
<1>2. ASSUME NEW t \in Threads, NEW a \in Actors, FrameCall(t, a)
      PROVE  HookOnlyTypeOK'
  <2>1. PICK pc \in {"lock", "untracked"} :
          frame' = [frame EXCEPT ![t] = [NoFrame EXCEPT !.pc = pc, !.victim = a]]
    BY <1>2 DEF FrameCall
  <2>2. [NoFrame EXCEPT !.pc = pc, !.victim = a] \in FrameType
    BY <2>1, NoActivation DEF FrameType, FramePcs
  <2>3. calls' \in 0..MaxCalls /\ UNCHANGED <<health, showEffect, effect, tallies>>
    BY <1>2 DEF FrameCall, HookOnlyTypeOK
  <2>4. QED
    BY <2>1, <2>2, <2>3 DEF HookOnlyTypeOK, tallies
<1>3. ASSUME NEW t \in Threads, NEW a \in Actors, NEW amount \in Amounts,
             EffectCall(t, a, amount)
      PROVE  HookOnlyTypeOK'
  <2>1. PICK pc \in {"lock", "apply"}, points \in EffectPoints(amount) :
          effect' = [effect EXCEPT ![t] =
                      [pc |-> pc, victim |-> a, amount |-> amount, points |-> points,
                       counted |-> FALSE]]
    BY <1>3 DEF EffectCall
  <2>2. amount \in Nat /\ points \in Nat
    BY <2>1, RoundNat DEF EffectPoints
  <2>3. [pc |-> pc, victim |-> a, amount |-> amount, points |-> points,
         counted |-> FALSE] \in EffectType
    BY <2>1, <2>2 DEF EffectType, EffectPcs
  <2>4. calls' \in 0..MaxCalls /\ UNCHANGED <<health, showEffect, frame, tallies>>
    BY <1>3 DEF EffectCall, HookOnlyTypeOK
  <2>5. QED
    BY <2>1, <2>3, <2>4 DEF HookOnlyTypeOK, tallies
<1>4. ASSUME UNCHANGED hookOnly PROVE HookOnlyTypeOK'
  BY <1>4 DEF hookOnly, tallies, HookOnlyTypeOK
<1>5. ASSUME LoadSettings PROVE HookOnlyTypeOK'
  BY <1>5 DEF LoadSettings, HookOnlyTypeOK, tallies
<1>6. QED
  BY <1>1, <1>2, <1>3, <1>4, <1>5, FrameTypeStep, EffectTypeStep DEF HookNext, HookStep

(* The variables of the lock, the queue and the hooks keep their types.    *)
THEOREM HookTypeCorrect == HookSpec => []HookTypeOK
<1>1. HookInit => HookOnlyTypeOK
  BY HookTypeInit
<1>2. HookOnlyTypeOK /\ [HookNext]_hookVars => HookOnlyTypeOK'
  BY HookTypeStep
<1>3. HookSpec => []HookOnlyTypeOK
  BY <1>1, <1>2, PTL DEF HookSpec
<1>4. QED
  BY <1>3, HookTypeParts, HooksUseLockAndQueue, LockTypeCorrect, QueueIsBounded, PTL

-----------------------------------------------------------------------------
(* A thread that does nothing keeps its place.                             *)
LEMMA PlacesSame ==
  ASSUME NEW u, Places(u), lpc'[u] = lpc[u], held'[u] = held[u],
         frame'[u].pc = frame[u].pc, effect'[u].pc = effect[u].pc
  PROVE  Places(u)'
  BY DEF Places, HeldByHooks, FrameHolds, EffectHolds, EffectPlaces, LockingPlaces,
         InLock, InFrame

(* What CountTellsNesting says follows from the places and from LockInv:   *)
(* a thread in EffectTest holds the lock once, or twice in a frame.        *)
LEMMA PlacesTellNesting ==
  ASSUME LockInv, NEW t \in Threads, Places(t), effect[t].pc = "locking", Running(t)
  PROVE  lockCount = 1 <=> ~InFrame(t)
<1>1. EffectHolds(t) /\ frame[t].pc \in {"none", "body", "untracked"}
  BY DEF Places, EffectPlaces, EffectHolds, InLock, Running
<1>2. FrameHolds(t) <=> InFrame(t)
  BY <1>1 DEF FrameHolds
<1>3. held[t] = (IF InFrame(t) THEN 1 ELSE 0) + 1
  BY <1>1, <1>2 DEF Places, HeldByHooks
<1>4. lockCount = held[t]
  BY <1>3 DEF LockInv, CountOfOwner, PcOfOwner, Owns, LockTypeOK
<1>5. QED
  BY <1>3, <1>4

(* What each kind of step does to the place of the thread that takes it,   *)
(* and to nobody else's.                                                   *)
Silent(t) == effect[t].pc = "register" => ~InFrame(t)

PlaceInv == \A t \in Threads : Places(t) /\ Silent(t)

LEMMA PlaceOthers ==
  ASSUME PlaceInv, NEW t \in Threads, Places(t)', Silent(t)',
         \A u \in Threads \ {t} :
           /\ lpc'[u] = lpc[u] /\ held'[u] = held[u]
           /\ frame'[u] = frame[u] /\ effect'[u] = effect[u]
  PROVE  PlaceInv'
<1>1. \A u \in Threads \ {t} : Places(u)'
  BY PlacesSame DEF PlaceInv
<1>2. \A u \in Threads \ {t} : Silent(u)'
  BY DEF PlaceInv, Silent, InFrame
<1>3. QED
  BY <1>1, <1>2 DEF PlaceInv

LEMMA PlaceCalls ==
  ASSUME HookOnlyTypeOK, LockInv, PlaceInv, NEW t \in Threads, NEW a, NEW amount,
         FrameCall(t, a) \/ EffectCall(t, a, amount)
  PROVE  PlaceInv'
<1> USE DEF Places, HeldByHooks, FrameHolds, EffectHolds, EffectPlaces, LockingPlaces,
            InLock, InFrame, Silent
<1>1. Places(t)
  BY DEF PlaceInv
<1>2. CASE FrameCall(t, a)
  <2>1. /\ frame'[t].pc \in {"lock", "untracked"} /\ effect' = effect
        /\ effect[t].pc = "none" /\ frame[t].pc = "none" /\ lpc[t] = "idle"
        /\ lpc' = lpc /\ held' = held
        /\ \A u \in Threads \ {t} : frame'[u] = frame[u]
    <3>1. PICK pc \in {"lock", "untracked"} :
            frame' = [frame EXCEPT ![t] = [NoFrame EXCEPT !.pc = pc, !.victim = a]]
      BY <1>2 DEF FrameCall
    <3>2. [NoFrame EXCEPT !.pc = pc, !.victim = a].pc = pc
      BY DEF NoFrame
    <3>3. QED
      BY <1>2, <3>1, <3>2 DEF FrameCall, HookOnlyTypeOK, Running, lockVars
  <2>2. Places(t)' /\ Silent(t)'
    BY <1>1, <2>1
  <2>3. QED BY <2>1, <2>2, PlaceOthers
<1>3. CASE EffectCall(t, a, amount)
  <2>1. /\ effect'[t].pc \in {"lock", "apply"} /\ frame' = frame
        /\ effect[t].pc = "none" /\ frame[t].pc \in {"none", "body", "untracked"}
        /\ lpc[t] = "idle" /\ lpc' = lpc /\ held' = held
        /\ \A u \in Threads \ {t} : effect'[u] = effect[u]
    BY <1>3 DEF EffectCall, InGameCode, HookOnlyTypeOK, EffectType, Running, lockVars
  <2>2. Places(t)' /\ Silent(t)'
    BY <1>1, <2>1
  <2>3. QED BY <2>1, <2>2, PlaceOthers
<1>4. QED
  BY <1>2, <1>3

LEMMA PlaceFrameStep ==
  ASSUME HookOnlyTypeOK, LockInv, PlaceInv, NEW t \in Threads, FrameStep(t)
  PROVE  PlaceInv'
<1> USE DEF Places, HeldByHooks, FrameHolds, EffectHolds, EffectPlaces, LockingPlaces,
            InLock, InFrame, Silent
<1>1. /\ Places(t) /\ frame \in [Threads -> FrameType] /\ "pc" \in DOMAIN frame[t]
      /\ lpc \in [Threads -> {"idle", "inc", "cas", "own", "clear"}]
      /\ held \in [Threads -> Int]
  BY DEF PlaceInv, HookOnlyTypeOK, FrameType, LockInv, LockTypeOK
<1>2. effect' = effect
  BY DEF FrameStep, FrameLock, FrameReadBefore, FrameReadAfter, FrameRegister,
         FrameRelease, FrameReturn
<1>3. CASE FrameLock(t)
  <2>1. /\ frame'[t].pc = "locking" /\ frame[t].pc = "lock"
        /\ lpc'[t] \in {"inc", "cas"} /\ lpc[t] = "idle" /\ held' = held
        /\ \A u \in Threads \ {t} : frame'[u] = frame[u] /\ lpc'[u] = lpc[u]
    BY <1>1, <1>3 DEF FrameLock, LockTest
  <2>2. Places(t)' /\ Silent(t)'
    BY <1>1, <1>2, <2>1
  <2>3. QED BY <1>2, <2>1, <2>2, PlaceOthers
<1>4. CASE FrameReadBefore(t)
  <2>1. /\ frame'[t].pc = "body" /\ frame[t].pc = "locking" /\ lpc[t] = "idle"
        /\ lpc' = lpc /\ held' = held
        /\ \A u \in Threads \ {t} : frame'[u] = frame[u]
    BY <1>1, <1>4 DEF FrameReadBefore, Running, lockVars
  <2>2. Places(t)' /\ Silent(t)'
    BY <1>1, <1>2, <2>1
  <2>3. QED BY <1>2, <2>1, <2>2, PlaceOthers
<1>5. CASE FrameReadAfter(t)
  <2>1. /\ frame'[t].pc \in {"register", "release"} /\ frame[t].pc = "body"
        /\ effect[t].pc = "none" /\ lpc[t] = "idle" /\ lpc' = lpc /\ held' = held
        /\ \A u \in Threads \ {t} : frame'[u] = frame[u]
    BY <1>1, <1>5 DEF FrameReadAfter, InGameCode, Running, lockVars
  <2>2. Places(t)' /\ Silent(t)'
    BY <1>1, <1>2, <2>1
  <2>3. QED BY <1>2, <2>1, <2>2, PlaceOthers
<1>6. CASE FrameRegister(t)
  <2>1. /\ frame'[t].pc = "release" /\ frame[t].pc = "register"
        /\ lpc[t] = "idle" /\ lpc' = lpc /\ held' = held
        /\ \A u \in Threads \ {t} : frame'[u] = frame[u]
    BY <1>1, <1>6 DEF FrameRegister, Running, lockVars
  <2>2. Places(t)' /\ Silent(t)'
    BY <1>1, <1>2, <2>1
  <2>3. QED BY <1>2, <2>1, <2>2, PlaceOthers
<1>7. CASE FrameRelease(t)
  <2>1. /\ frame'[t].pc = "none" /\ frame[t].pc = "release"
        /\ lpc[t] = "idle" /\ lpc'[t] \in {"idle", "clear"} /\ held'[t] = held[t] - 1
        /\ \A u \in Threads \ {t} :
             frame'[u] = frame[u] /\ lpc'[u] = lpc[u] /\ held'[u] = held[u]
    BY <1>1, <1>7 DEF FrameRelease, ReleaseDec, NoFrame
  <2>2. Places(t)' /\ Silent(t)'
    BY <1>1, <1>2, <2>1
  <2>3. QED BY <1>2, <2>1, <2>2, PlaceOthers
<1>8. CASE FrameReturn(t)
  <2>1. /\ frame'[t].pc = "none" /\ frame[t].pc = "untracked"
        /\ lpc[t] = "idle" /\ lpc' = lpc /\ held' = held
        /\ \A u \in Threads \ {t} : frame'[u] = frame[u]
    BY <1>1, <1>8 DEF FrameReturn, InGameCode, Running, lockVars, NoFrame
  <2>2. Places(t)' /\ Silent(t)'
    BY <1>1, <1>2, <2>1
  <2>3. QED BY <1>2, <2>1, <2>2, PlaceOthers
<1>9. QED
  BY <1>3, <1>4, <1>5, <1>6, <1>7, <1>8 DEF FrameStep

LEMMA PlaceEffectStep ==
  ASSUME HookOnlyTypeOK, LockInv, PlaceInv, NEW t \in Threads, EffectStep(t)
  PROVE  PlaceInv'
<1> USE DEF Places, HeldByHooks, FrameHolds, EffectHolds, EffectPlaces, LockingPlaces,
            InLock, InFrame, Silent
<1>1. /\ Places(t) /\ effect \in [Threads -> EffectType] /\ "pc" \in DOMAIN effect[t]
      /\ "counted" \in DOMAIN effect[t]
      /\ lpc \in [Threads -> {"idle", "inc", "cas", "own", "clear"}]
      /\ held \in [Threads -> Int]
  BY DEF PlaceInv, HookOnlyTypeOK, EffectType, LockInv, LockTypeOK
<1>2. frame' = frame
  BY DEF EffectStep, EffectLock, EffectTest, EffectRegister, EffectRelease, EffectApply
<1>3. CASE EffectLock(t)
  <2>1. /\ effect'[t].pc = "locking" /\ effect[t].pc = "lock"
        /\ lpc'[t] \in {"inc", "cas"} /\ lpc[t] = "idle" /\ held' = held
        /\ \A u \in Threads \ {t} : effect'[u] = effect[u] /\ lpc'[u] = lpc[u]
    BY <1>1, <1>3 DEF EffectLock, LockTest
  <2>2. Places(t)' /\ Silent(t)'
    BY <1>1, <1>2, <2>1
  <2>3. QED BY <1>2, <2>1, <2>2, PlaceOthers
<1>4. CASE EffectTest(t)
  <2>1. /\ effect'[t].pc = (IF lockCount = 1 THEN "register" ELSE "release")
        /\ effect[t].pc = "locking" /\ Running(t) /\ lpc[t] = "idle"
        /\ lpc' = lpc /\ held' = held
        /\ \A u \in Threads \ {t} : effect'[u] = effect[u]
    BY <1>1, <1>4 DEF EffectTest, Running, lockVars
  <2>2. lockCount = 1 <=> ~InFrame(t)
    BY <1>1, <2>1, PlacesTellNesting
  <2>3. Places(t)' /\ Silent(t)'
    BY <1>1, <1>2, <2>1, <2>2
  <2>4. QED BY <1>2, <2>1, <2>3, PlaceOthers
<1>5. CASE EffectRegister(t)
  <2>1. /\ effect'[t].pc = "release" /\ effect[t].pc = "register"
        /\ lpc[t] = "idle" /\ lpc' = lpc /\ held' = held
        /\ \A u \in Threads \ {t} : effect'[u] = effect[u]
    BY <1>1, <1>5 DEF EffectRegister, Running, lockVars
  <2>2. Places(t)' /\ Silent(t)'
    BY <1>1, <1>2, <2>1
  <2>3. QED BY <1>2, <2>1, <2>2, PlaceOthers
<1>6. CASE EffectRelease(t)
  <2>1. /\ effect'[t].pc = "apply" /\ effect[t].pc = "release"
        /\ lpc[t] = "idle" /\ lpc'[t] \in {"idle", "clear"} /\ held'[t] = held[t] - 1
        /\ \A u \in Threads \ {t} :
             effect'[u] = effect[u] /\ lpc'[u] = lpc[u] /\ held'[u] = held[u]
    BY <1>1, <1>6 DEF EffectRelease, ReleaseDec
  <2>2. Places(t)' /\ Silent(t)'
    BY <1>1, <1>2, <2>1
  <2>3. QED BY <1>2, <2>1, <2>2, PlaceOthers
<1>7. CASE EffectApply(t)
  <2>1. /\ effect'[t].pc = "none" /\ effect[t].pc = "apply"
        /\ lpc[t] = "idle" /\ lpc' = lpc /\ held' = held
        /\ \A u \in Threads \ {t} : effect'[u] = effect[u]
    BY <1>1, <1>7 DEF EffectApply, Running, lockVars, NoEffect
  <2>2. Places(t)' /\ Silent(t)'
    BY <1>1, <1>2, <2>1
  <2>3. QED BY <1>2, <2>1, <2>2, PlaceOthers
<1>8. QED
  BY <1>3, <1>4, <1>5, <1>6, <1>7 DEF EffectStep

LEMMA PlaceLockStep ==
  ASSUME HookOnlyTypeOK, LockInv, PlaceInv, NEW t \in Threads, LockStep(t),
         UNCHANGED hookOnly
  PROVE  PlaceInv'
<1> USE DEF Places, HeldByHooks, FrameHolds, EffectHolds, EffectPlaces, LockingPlaces,
            InLock, InFrame, Silent
<1>1. /\ Places(t) /\ Silent(t) /\ frame' = frame /\ effect' = effect
      /\ lpc \in [Threads -> {"idle", "inc", "cas", "own", "clear"}]
      /\ held \in [Threads -> Int]
  BY DEF PlaceInv, LockInv, LockTypeOK, hookOnly
<1>2. CASE LockInc(t) \/ LockOwn(t)
  <2>1. /\ lpc[t] \in {"inc", "own"} /\ lpc'[t] = "idle" /\ held'[t] = held[t] + 1
        /\ \A u \in Threads \ {t} : lpc'[u] = lpc[u] /\ held'[u] = held[u]
    BY <1>1, <1>2 DEF LockInc, LockOwn
  <2>2. Places(t)' /\ Silent(t)'
    BY <1>1, <2>1
  <2>3. QED BY <1>1, <2>1, <2>2, PlaceOthers
<1>3. CASE LockCas(t)
  <2>1. /\ lpc[t] = "cas" /\ lpc'[t] = "own" /\ held' = held
        /\ \A u \in Threads \ {t} : lpc'[u] = lpc[u]
    BY <1>1, <1>3 DEF LockCas
  <2>2. Places(t)' /\ Silent(t)'
    BY <1>1, <2>1
  <2>3. QED BY <1>1, <2>1, <2>2, PlaceOthers
<1>4. CASE ReleaseClear(t)
  <2>1. /\ lpc[t] = "clear" /\ lpc'[t] = "idle" /\ held' = held
        /\ \A u \in Threads \ {t} : lpc'[u] = lpc[u]
    BY <1>1, <1>4 DEF ReleaseClear
  <2>2. Places(t)' /\ Silent(t)'
    BY <1>1, <2>1
  <2>3. QED BY <1>1, <2>1, <2>2, PlaceOthers
<1>5. QED
  BY <1>2, <1>3, <1>4 DEF LockStep

(* Nothing else moves a thread.                                            *)
LEMMA PlaceElsewhere ==
  ASSUME PlaceInv, UNCHANGED <<lpc, held, frame, effect>>
  PROVE  PlaceInv'
BY DEF PlaceInv, Places, HeldByHooks, FrameHolds, EffectHolds, EffectPlaces,
       LockingPlaces, InLock, InFrame, Silent

LEMMA PlaceInit == HookInit => PlaceInv
<1>1. SUFFICES ASSUME HookInit, NEW t \in Threads PROVE Places(t) /\ Silent(t)
  BY DEF PlaceInv
<1>2. NoFrame.pc = "none" /\ NoEffect.pc = "none"
  BY DEF NoFrame, NoEffect
<1>3. frame[t].pc = "none" /\ effect[t].pc = "none" /\ lpc[t] = "idle" /\ held[t] = 0
  BY <1>1, <1>2 DEF HookInit, LockInit
<1>4. QED
  BY <1>3 DEF Places, HeldByHooks, FrameHolds, EffectHolds, EffectPlaces, LockingPlaces,
              InLock, InFrame, Silent

LEMMA PlaceStep ==
  ASSUME HookOnlyTypeOK, LockInv, PlaceInv, [HookNext]_hookVars
  PROVE  PlaceInv'
<1>1. CASE UNCHANGED hookVars
  BY <1>1, PlaceElsewhere DEF hookVars, lockVars, hookOnly
<1>2. CASE LoadSettings
  BY <1>2, PlaceElsewhere DEF LoadSettings, lockVars
<1>3. CASE UIStep /\ UNCHANGED <<lockVars, hookOnly>>
  BY <1>3, PlaceElsewhere DEF lockVars, hookOnly
<1>4. QED
  BY <1>1, <1>2, <1>3, PlaceCalls, PlaceFrameStep, PlaceEffectStep, PlaceLockStep
     DEF HookNext, HookStep

-----------------------------------------------------------------------------
(* Where a thread is tells how often it holds the lock; with LockInv, this *)
(* is the inductive invariant behind the next two theorems.                *)
LEMMA PlaceInvariant == HookSpec => [](LockInv /\ PlaceInv)
<1>1. HookSpec => []HookOnlyTypeOK
  BY HookTypeCorrect, HookTypeParts, PTL
<1>2. HookSpec => []LockInv
  BY HooksUseLockAndQueue, LockInvariant, PTL
<1>3. HookInit => PlaceInv
  BY PlaceInit
<1>4. HookOnlyTypeOK /\ LockInv /\ PlaceInv /\ [HookNext]_hookVars => PlaceInv'
  BY PlaceStep
<1>5. QED
  BY <1>1, <1>2, <1>3, <1>4, PTL DEF HookSpec

(* DamageHealth_Hook that reads lockCount under the lock learns whether    *)
(* its own thread is inside a damage frame, for any number of threads.     *)
THEOREM HookCountTellsNesting == HookSpec => []CountTellsNesting
<1>1. LockInv /\ PlaceInv => CountTellsNesting
  BY PlacesTellNesting DEF PlaceInv, CountTellsNesting
<1>2. QED
  BY <1>1, PlaceInvariant, PTL

(* No thread registers an effect inside its own damage frame.              *)
THEOREM HookNestedHitSilent == HookSpec => []NestedHitSilent
<1>1. PlaceInv => NestedHitSilent
  BY DEF PlaceInv, Silent, NestedHitSilent
<1>2. QED
  BY <1>1, PlaceInvariant, PTL

(* An effect knows whether it is inside a frame of its own thread, for any *)
(* threads, actors and amounts.                                            *)
THEOREM HookEffectsKnowTheirFrame == HookSpec => []EffectsKnowTheirFrame
  BY HookTypeCorrect, HookCountTellsNesting, HookNestedHitSilent, PTL DEF EffectsKnowTheirFrame

-----------------------------------------------------------------------------
(* Rounding gains half a point at most, and points and numbers add up.     *)
Half == Unit \div 2

LEMMA HalfFacts == Half \in Nat /\ 2 * Half <= Unit /\ Unit < 2 * Half + 2 /\ Half <= Unit - 1
  BY DEF Half

LEMMA RoundBound ==
  ASSUME NEW units \in Nat
  PROVE  Unit * Round(units) <= units + Half
<1> DEFINE q == Round(units)
<1>1. q \in Nat
  BY RoundNat
<1>2. (2 * Unit) * q <= 2 * units + Unit
  <2>1. 2 * Unit \in Nat \ {0} /\ 2 * units + Unit \in Nat
    OBVIOUS
  <2>2. \A n \in Nat, d \in Nat \ {0} : d * (n \div d) <= n
    BY SMTT(30)
  <2>3. QED
    BY <2>1, <2>2 DEF Round
<1> HIDE DEF q
<1>3. (2 * Unit) * q = 2 * (Unit * q) /\ Unit * q \in Nat
  BY <1>1
<1>4. QED
  BY <1>2, <1>3, HalfFacts DEF q

LEMMA Adding ==
  ASSUME NEW k \in Nat, NEW p \in Nat, NEW q \in Nat
  PROVE  /\ k * p \in Nat /\ k * (p + q) = k * p + k * q
         /\ p * k \in Nat /\ (p + 1) * k = p * k + k
  OBVIOUS

-----------------------------------------------------------------------------
(* Two frames never measure at the same time.                              *)
LEMMA OneFrame ==
  ASSUME LockInv, PlaceInv, NEW t \in Threads, NEW u \in Threads, InFrame(t), InFrame(u)
  PROVE  t = u
<1>1. ASSUME NEW v \in Threads, InFrame(v) PROVE held[v] > 0
  BY <1>1 DEF PlaceInv, Places, HeldByHooks, FrameHolds, InFrame
<1>2. QED
  BY <1>1 DEF LockInv, MutualExclusion, Owns

(* What a frame has measured is a loss that no number stands for yet.      *)
Window(t) ==
  LET v == frame[t].victim
  IN /\ frame[t].pc = "body" =>
          Unit * framed[v].points <= FullHealth - frame[t].healthA + framed[v].numbers * Half
     /\ frame[t].pc = "register" =>
          Unit * framed[v].points + Unit * frame[t].points
            <= Lost(v) + framed[v].numbers * Half + Half

LossInv == FrameNumbersAreLosses /\ \A t \in Threads : Window(t)

(* The values these sums are made of are integers.                         *)
LEMMA LossTypes ==
  ASSUME HookOnlyTypeOK
  PROVE  /\ \A a \in Actors : /\ health[a] \in Int /\ Lost(a) \in Int
                             /\ framed[a].points \in Nat /\ framed[a].numbers \in Nat
                             /\ Unit * framed[a].points \in Nat
                             /\ framed[a].numbers * Half \in Nat
         /\ \A t \in Threads : /\ frame[t].victim \in Actors /\ frame[t].healthA \in Int
                              /\ frame[t].points \in Nat /\ Unit * frame[t].points \in Nat
<1>1. ASSUME NEW a \in Actors
      PROVE  /\ health[a] \in Int /\ Lost(a) \in Int
             /\ framed[a].points \in Nat /\ framed[a].numbers \in Nat
  BY <1>1 DEF HookOnlyTypeOK, TallyType, Lost
<1>2. ASSUME NEW t \in Threads
      PROVE  frame[t].victim \in Actors /\ frame[t].healthA \in Int /\ frame[t].points \in Nat
  BY <1>2 DEF HookOnlyTypeOK, FrameType
<1>3. Unit \in Nat /\ Half \in Nat
  BY HalfFacts
<1>4. QED
  BY <1>1, <1>2, <1>3, Adding

(* Health only goes down, so that what was measured stays lost.            *)
LEMMA LossKept ==
  ASSUME HookOnlyTypeOK, HookOnlyTypeOK', LossInv, framed' = framed,
         \A a \in Actors : health'[a] <= health[a],
         \A t \in Threads : frame'[t] = frame[t] \/ frame'[t].pc \notin {"body", "register"}
  PROVE  LossInv'
<1>1. \A a \in Actors : Lost(a) <= Lost(a)' /\ Lost(a) \in Int /\ Lost(a)' \in Int
  BY LossTypes DEF Lost, HookOnlyTypeOK
<1>2. FrameNumbersAreLosses'
  <2>1. SUFFICES ASSUME NEW a \in Actors
                 PROVE  Unit * framed[a].points <= Lost(a)' + framed[a].numbers * (Unit \div 2)
    BY DEF FrameNumbersAreLosses, Lost
  <2>2. /\ Unit * framed[a].points <= Lost(a) + framed[a].numbers * Half
        /\ Unit * framed[a].points \in Nat /\ framed[a].numbers * Half \in Nat
    BY LossTypes DEF LossInv, FrameNumbersAreLosses, Half
  <2>3. QED
    BY <1>1, <2>2 DEF Half
<1>3. ASSUME NEW t \in Threads PROVE Window(t)'
  <2>1. CASE frame'[t].pc \notin {"body", "register"}
    BY <2>1 DEF Window
  <2>2. CASE frame'[t] = frame[t]
    <3>1. PICK v \in Actors : v = frame[t].victim
      BY LossTypes
    <3>2. /\ Unit * framed[v].points \in Nat /\ framed[v].numbers * Half \in Nat
          /\ Unit * frame[t].points \in Nat /\ Half \in Nat
      BY LossTypes, HalfFacts
    <3>3. Lost(v) <= Lost(v)' /\ Lost(v) \in Int /\ Lost(v)' \in Int
      BY <1>1
    <3>4. Window(t)
      BY DEF LossInv
    <3>5. frame[t].pc = "register" =>
            Unit * framed[v].points + Unit * frame[t].points
              <= Lost(v)' + framed[v].numbers * Half + Half
      BY <3>1, <3>2, <3>3, <3>4 DEF Window
    <3>6. frame[t].pc = "body" =>
            Unit * framed[v].points <= FullHealth - frame[t].healthA + framed[v].numbers * Half
      BY <3>1, <3>4 DEF Window
    <3>7. QED
      BY <2>2, <3>1, <3>5, <3>6 DEF Window, Lost
  <2>3. QED
    BY <2>1, <2>2
<1>4. QED
  BY <1>2, <1>3 DEF LossInv

LEMMA LossReadBefore ==
  ASSUME HookOnlyTypeOK, HookOnlyTypeOK', LossInv, NEW t \in Threads, FrameReadBefore(t)
  PROVE  LossInv'
<1>1. PICK v \in Actors : v = frame[t].victim
  BY LossTypes
<1>2. /\ frame'[t].pc = "body" /\ frame'[t].victim = v /\ frame'[t].healthA = health[v]
      /\ \A u \in Threads \ {t} : frame'[u] = frame[u]
      /\ framed' = framed /\ health' = health
  BY <1>1 DEF FrameReadBefore, HookOnlyTypeOK, FrameType, tallies
<1>3. FrameNumbersAreLosses'
  BY <1>2 DEF LossInv, FrameNumbersAreLosses, Lost
<1>4. Window(t)'
  BY <1>2 DEF LossInv, FrameNumbersAreLosses, Window, Lost, Half
<1>5. \A u \in Threads \ {t} : Window(u)'
  BY <1>2 DEF LossInv, Window, Lost
<1>6. QED
  BY <1>3, <1>4, <1>5 DEF LossInv

LEMMA LossReadAfter ==
  ASSUME HookOnlyTypeOK, HookOnlyTypeOK', LossInv, NEW t \in Threads, FrameReadAfter(t)
  PROVE  LossInv'
<1>1. PICK v \in Actors : v = frame[t].victim
  BY LossTypes
<1> DEFINE loss == frame[t].healthA - health[v]
           points == IF loss > 0 THEN Round(loss) ELSE 0
<1>2. /\ frame[t].pc = "body" /\ frame'[t].victim = v /\ frame'[t].points = points
      /\ frame'[t].pc = (IF points > 0 THEN "register" ELSE "release")
      /\ \A u \in Threads \ {t} : frame'[u] = frame[u]
      /\ framed' = framed /\ health' = health
  BY <1>1 DEF FrameReadAfter, HookOnlyTypeOK, FrameType, tallies
<1>3. FrameNumbersAreLosses'
  BY <1>2 DEF LossInv, FrameNumbersAreLosses, Lost
<1>4. Window(t)'
  <2>1. CASE points > 0
    <3>1. loss \in Nat /\ points = Round(loss)
      BY <2>1, LossTypes
    <3>2. Unit * points <= loss + Half /\ points \in Nat
      BY <3>1, RoundBound, RoundNat
    <3>3. Unit * framed[v].points <= FullHealth - frame[t].healthA + framed[v].numbers * Half
      BY <1>1, <1>2 DEF LossInv, Window
    <3>4. /\ health[v] \in Int /\ frame[t].healthA \in Int /\ Half \in Nat
          /\ Unit * framed[v].points \in Nat /\ framed[v].numbers * Half \in Nat
          /\ Unit * points \in Nat
      BY <3>2, LossTypes, HalfFacts, Adding
    <3> HIDE DEF points
    <3>5. Unit * framed[v].points + Unit * points
            <= (FullHealth - health[v]) + framed[v].numbers * Half + Half
      BY <3>2, <3>3, <3>4
    <3>6. QED
      BY <1>2, <2>1, <3>5 DEF Window, Lost
  <2>2. CASE ~(points > 0)
    BY <1>2, <2>2 DEF Window
  <2>3. QED
    BY <2>1, <2>2
<1>5. \A u \in Threads \ {t} : Window(u)'
  BY <1>2 DEF LossInv, Window, Lost
<1>6. QED
  BY <1>3, <1>4, <1>5 DEF LossInv

LEMMA LossRegister ==
  ASSUME HookOnlyTypeOK, HookOnlyTypeOK', LockInv, PlaceInv, LossInv, NEW t \in Threads,
         FrameRegister(t)
  PROVE  LossInv'
<1>1. PICK v \in Actors : v = frame[t].victim
  BY LossTypes
<1>2. /\ frame[t].pc = "register" /\ frame'[t].pc = "release"
      /\ \A u \in Threads \ {t} : frame'[u] = frame[u]
      /\ framed' = Credit(framed, v, frame[t].points) /\ health' = health
  BY <1>1 DEF FrameRegister, HookOnlyTypeOK, FrameType
<1>3. /\ framed'[v].points = framed[v].points + frame[t].points
      /\ framed'[v].numbers = framed[v].numbers + 1
      /\ \A a \in Actors : a # v => framed'[a] = framed[a]
  BY <1>2 DEF Credit, HookOnlyTypeOK, TallyType
<1>4. FrameNumbersAreLosses'
  <2>1. Unit * framed[v].points + Unit * frame[t].points
          <= Lost(v) + framed[v].numbers * Half + Half
    BY <1>1, <1>2 DEF LossInv, Window
  <2>2. /\ Unit * framed'[v].points = Unit * framed[v].points + Unit * frame[t].points
        /\ framed'[v].numbers * Half = framed[v].numbers * Half + Half
    BY <1>1, <1>3, LossTypes, HalfFacts, Adding
  <2>3. Unit * framed'[v].points <= Lost(v) + framed'[v].numbers * Half
    BY <2>1, <2>2, LossTypes, HalfFacts
  <2>4. SUFFICES ASSUME NEW a \in Actors
                 PROVE  Unit * framed'[a].points <= Lost(a) + framed'[a].numbers * Half
    BY <1>2 DEF FrameNumbersAreLosses, Lost, Half
  <2>5. CASE a = v
    BY <2>3, <2>5
  <2>6. CASE a # v
    BY <1>3, <2>6 DEF LossInv, FrameNumbersAreLosses, Half
  <2>7. QED
    BY <2>5, <2>6
\* No other thread is in a frame.
<1>5. ASSUME NEW u \in Threads \ {t} PROVE Window(u)'
  <2>1. ~InFrame(u)
    BY <1>2, OneFrame DEF InFrame
  <2>2. frame'[u].pc \notin {"body", "register"}
    BY <1>2, <2>1 DEF InFrame
  <2>3. QED
    BY <2>2 DEF Window
<1>6. Window(t)'
  BY <1>2 DEF Window
<1>7. QED
  BY <1>4, <1>5, <1>6 DEF LossInv

LEMMA LossEffectStep ==
  ASSUME HookOnlyTypeOK, HookOnlyTypeOK', LossInv, NEW t \in Threads, EffectStep(t)
  PROVE  LossInv'
<1>1. frame' = frame /\ framed' = framed
  BY DEF EffectStep, EffectLock, EffectTest, EffectRegister, EffectRelease, EffectApply,
         tallies
<1>2. \A a \in Actors : health'[a] <= health[a]
  <2>1. health \in [Actors -> Int] /\ effect[t].victim \in Actors /\ effect[t].amount \in Nat
    BY DEF HookOnlyTypeOK, EffectType
  <2>2. CASE EffectApply(t)
    <3>1. health' = [health EXCEPT ![effect[t].victim] = @ - effect[t].amount]
      BY <2>2 DEF EffectApply
    <3>2. QED
      BY <2>1, <3>1
  <2>3. CASE ~EffectApply(t)
    <3>1. health' = health
      BY <2>3 DEF EffectStep, EffectLock, EffectTest, EffectRegister, EffectRelease
    <3>2. QED
      BY <2>1, <3>1
  <2>4. QED
    BY <2>2, <2>3
<1>3. QED
  BY <1>1, <1>2, LossKept

LEMMA LossStep ==
  ASSUME HookOnlyTypeOK, HookOnlyTypeOK', LockInv, PlaceInv, LossInv, [HookNext]_hookVars
  PROVE  LossInv'
<1>1. ASSUME framed' = framed, health' = health,
             \A t \in Threads : frame'[t] = frame[t] \/ frame'[t].pc \notin {"body", "register"}
      PROVE  LossInv'
  <2>1. \A a \in Actors : health'[a] <= health[a]
    BY <1>1 DEF HookOnlyTypeOK
  <2>2. QED
    BY <1>1, <2>1, LossKept
<1>2. ASSUME NEW t \in Threads, NEW a \in Actors, FrameCall(t, a) PROVE LossInv'
  <2>1. PICK pc \in {"lock", "untracked"} :
          frame' = [frame EXCEPT ![t] = [NoFrame EXCEPT !.pc = pc, !.victim = a]]
    BY <1>2 DEF FrameCall
  <2>2. [NoFrame EXCEPT !.pc = pc, !.victim = a].pc = pc
    BY DEF NoFrame
  <2>3. \A u \in Threads : frame'[u] = frame[u] \/ frame'[u].pc \notin {"body", "register"}
    BY <2>1, <2>2 DEF HookOnlyTypeOK
  <2>4. QED
    BY <1>1, <1>2, <2>3 DEF FrameCall, tallies
<1>3. ASSUME NEW t \in Threads, NEW a \in Actors, NEW amount \in Amounts,
             EffectCall(t, a, amount)
      PROVE  LossInv'
  BY <1>1, <1>3 DEF EffectCall, tallies
<1>4. ASSUME NEW t \in Threads, FrameStep(t) PROVE LossInv'
  <2>1. CASE FrameLock(t) \/ FrameRelease(t) \/ FrameReturn(t)
    <3>1. framed' = framed /\ health' = health
      BY <2>1 DEF FrameLock, FrameRelease, FrameReturn, tallies
    <3>2. frame'[t].pc \in {"locking", "none"} /\ \A u \in Threads \ {t} : frame'[u] = frame[u]
      BY <2>1 DEF FrameLock, FrameRelease, FrameReturn, NoFrame, HookOnlyTypeOK, FrameType
    <3>3. QED
      BY <1>1, <3>1, <3>2
  <2>2. QED
    BY <1>4, <2>1, LossReadBefore, LossReadAfter, LossRegister DEF FrameStep
<1>5. ASSUME NEW t \in Threads, LockStep(t), UNCHANGED <<queueVars, hookOnly>> PROVE LossInv'
  BY <1>1, <1>5 DEF hookOnly, tallies
<1>6. CASE LoadSettings
  BY <1>1, <1>6 DEF LoadSettings, tallies
<1>7. CASE UIStep /\ UNCHANGED <<lockVars, hookOnly>>
  BY <1>1, <1>7 DEF hookOnly, tallies
<1>8. CASE UNCHANGED hookVars
  BY <1>1, <1>8 DEF hookVars, hookOnly, tallies
<1>9. QED
  BY <1>2, <1>3, <1>4, <1>5, <1>6, <1>7, <1>8, LossEffectStep DEF HookNext, HookStep

LEMMA LossInit == HookInit => LossInv
<1> SUFFICES ASSUME HookInit PROVE LossInv
  OBVIOUS
<1>1. \A a \in Actors : framed[a].points = 0 /\ framed[a].numbers = 0 /\ Lost(a) = 0
  BY DEF HookInit, Lost
<1>2. Unit * 0 = 0 /\ 0 * (Unit \div 2) = 0
  BY HalfFacts DEF Half
<1>3. FrameNumbersAreLosses
  BY <1>1, <1>2 DEF FrameNumbersAreLosses
<1>4. \A t \in Threads : frame[t].pc = "none"
  BY DEF HookInit, NoFrame
<1>5. QED
  BY <1>3, <1>4 DEF LossInv, Window

(* No number of a hit stands for health its victim did not lose, whatever  *)
(* the other threads do between the two readings of a frame: for any       *)
(* threads, actors and amounts, and any unit of health.                    *)
LEMMA LossInvariant == HookSpec => []LossInv
<1>1. HookSpec => []HookOnlyTypeOK
  BY HookTypeCorrect, HookTypeParts, PTL
<1>2. HookOnlyTypeOK /\ HookOnlyTypeOK' /\ LockInv /\ PlaceInv /\ LossInv /\ [HookNext]_hookVars
        => LossInv'
  BY LossStep
<1>3. QED
  BY <1>1, <1>2, LossInit, PlaceInvariant, PTL DEF HookSpec

(* No loss of health is in the windows of two frames of Damage_Hook: the   *)
(* numbers of an actor's frames add up to no more than it lost, but for    *)
(* rounding, for any threads, actors and amounts.                          *)
THEOREM HookFrameNumbersAreLosses == HookSpec => []FrameNumbersAreLosses
<1>1. LossInv => FrameNumbersAreLosses
  BY DEF LossInv
<1>2. QED
  BY <1>1, LossInvariant, PTL

-----------------------------------------------------------------------------
(* The number of an effect is its amount, rounded up by less than a point; *)
(* one that is shown is on its way out of the hook, in no frame.           *)
LEMMA EffectPointsBound ==
  ASSUME NEW amount \in Amounts, NEW points \in EffectPoints(amount)
  PROVE  points \in Nat /\ Unit * points <= amount + (Unit - 1)
<1>1. amount \in Nat \ {0} /\ Half \in Nat /\ Half <= Unit - 1
  BY HalfFacts
<1>2. CASE points = Round(amount)
  <2>1. Unit * points <= amount + Half /\ points \in Nat
    BY <1>1, <1>2, RoundBound, RoundNat
  <2>2. Unit * points \in Nat
    BY <2>1, Adding
  <2>3. QED
    BY <1>1, <2>1, <2>2
<1>3. CASE points = 1
  BY <1>1, <1>3
<1>4. QED
  BY <1>2, <1>3 DEF EffectPoints

EffectFacts(t) ==
  /\ Unit * effect[t].points <= effect[t].amount + (Unit - 1)
  /\ effect[t].counted => /\ effect[t].pc \in {"release", "apply"}
                          /\ frame[t].pc \in {"none", "untracked"}

CountedInv == \A t \in Threads : EffectFacts(t)

LEMMA CountedFrameStep ==
  ASSUME HookOnlyTypeOK, CountedInv, NEW t \in Threads, FrameStep(t)
  PROVE  CountedInv'
<1>1. effect' = effect /\ \A u \in Threads \ {t} : frame'[u] = frame[u]
  BY DEF FrameStep, FrameLock, FrameReadBefore, FrameReadAfter, FrameRegister,
         FrameRelease, FrameReturn, HookOnlyTypeOK
<1>2. effect[t].counted => frame[t].pc = "untracked"
  BY DEF CountedInv, EffectFacts, FrameStep, FrameLock, FrameReadBefore, FrameReadAfter,
         FrameRegister, FrameRelease, FrameReturn
<1>3. ~effect[t].counted
  <2>1. CASE FrameReturn(t)
    BY <2>1 DEF FrameReturn, InGameCode, CountedInv, EffectFacts
  <2>2. CASE ~FrameReturn(t)
    BY <1>2, <2>2 DEF FrameStep, FrameLock, FrameReadBefore, FrameReadAfter, FrameRegister,
                      FrameRelease
  <2>3. QED
    BY <2>1, <2>2
<1>4. QED
  BY <1>1, <1>3 DEF CountedInv, EffectFacts

LEMMA CountedEffectStep ==
  ASSUME HookOnlyTypeOK, PlaceInv, CountedInv, NEW t \in Threads, EffectStep(t)
  PROVE  CountedInv'
<1>1. frame' = frame /\ \A u \in Threads \ {t} : effect'[u] = effect[u]
  BY DEF EffectStep, EffectLock, EffectTest, EffectRegister, EffectRelease, EffectApply,
         HookOnlyTypeOK
<1>2. SUFFICES EffectFacts(t)'
  BY <1>1 DEF CountedInv, EffectFacts
<1>3. EffectFacts(t) /\ effect \in [Threads -> EffectType]
  BY DEF CountedInv, HookOnlyTypeOK
<1>4. CASE EffectLock(t) \/ EffectTest(t)
  <2>1. /\ effect[t].pc \in {"lock", "locking"} /\ effect'[t].points = effect[t].points
        /\ effect'[t].amount = effect[t].amount /\ effect'[t].counted = effect[t].counted
    BY <1>3, <1>4 DEF EffectLock, EffectTest, EffectType
  <2>2. QED
    BY <1>3, <2>1 DEF EffectFacts
<1>5. CASE EffectRegister(t)
  <2>1. /\ effect[t].pc = "register" /\ effect'[t].points = effect[t].points
        /\ effect'[t].amount = effect[t].amount /\ effect'[t].pc = "release"
    BY <1>3, <1>5 DEF EffectRegister, EffectType
  <2>2. frame[t].pc \in {"none", "untracked"}
    BY <2>1 DEF PlaceInv, Places, EffectPlaces, Silent, InFrame
  <2>3. QED
    BY <1>1, <1>3, <2>1, <2>2 DEF EffectFacts
<1>6. CASE EffectRelease(t)
  <2>1. /\ effect'[t].pc = "apply" /\ effect'[t].points = effect[t].points
        /\ effect'[t].amount = effect[t].amount /\ effect'[t].counted = effect[t].counted
    BY <1>3, <1>6 DEF EffectRelease, EffectType
  <2>2. QED
    BY <1>1, <1>3, <2>1 DEF EffectFacts
<1>7. CASE EffectApply(t)
  <2>1. effect'[t].points = 0 /\ effect'[t].amount = 0 /\ effect'[t].counted = FALSE
    BY <1>3, <1>7 DEF EffectApply, NoEffect
  <2>2. Unit * 0 = 0
    OBVIOUS
  <2>3. QED
    BY <2>1, <2>2 DEF EffectFacts
<1>8. QED
  BY <1>4, <1>5, <1>6, <1>7 DEF EffectStep

LEMMA CountedStep ==
  ASSUME HookOnlyTypeOK, PlaceInv, CountedInv, [HookNext]_hookVars
  PROVE  CountedInv'
<1>1. ASSUME NEW t \in Threads, NEW a \in Actors, FrameCall(t, a) PROVE CountedInv'
  <2>1. /\ effect' = effect /\ effect[t].pc = "none"
        /\ \A u \in Threads \ {t} : frame'[u] = frame[u]
    BY <1>1 DEF FrameCall, HookOnlyTypeOK
  <2>2. QED
    BY <2>1 DEF CountedInv, EffectFacts
<1>2. ASSUME NEW t \in Threads, NEW a \in Actors, NEW amount \in Amounts,
             EffectCall(t, a, amount)
      PROVE  CountedInv'
  <2>1. PICK pc \in {"lock", "apply"}, points \in EffectPoints(amount) :
          effect' = [effect EXCEPT ![t] =
                      [pc |-> pc, victim |-> a, amount |-> amount, points |-> points,
                       counted |-> FALSE]]
    BY <1>2 DEF EffectCall
  <2>2. Unit * points <= amount + (Unit - 1)
    BY EffectPointsBound
  <2>3. frame' = frame
    BY <1>2 DEF EffectCall
  <2>4. /\ effect'[t].points = points /\ effect'[t].amount = amount /\ effect'[t].counted = FALSE
        /\ \A u \in Threads \ {t} : effect'[u] = effect[u]
    BY <2>1 DEF HookOnlyTypeOK
  <2>5. QED
    BY <2>2, <2>3, <2>4 DEF CountedInv, EffectFacts
<1>3. CASE UNCHANGED <<frame, effect>>
  BY <1>3 DEF CountedInv, EffectFacts
<1>4. QED
  BY <1>1, <1>2, <1>3, CountedFrameStep, CountedEffectStep
     DEF HookNext, HookStep, hookVars, hookOnly, LoadSettings

LEMMA CountedInvariant == HookSpec => [](HookOnlyTypeOK /\ LockInv /\ PlaceInv /\ CountedInv)
<1>1. HookSpec => []HookOnlyTypeOK
  BY HookTypeCorrect, HookTypeParts, PTL
<1>2. HookInit => CountedInv
  <2>1. SUFFICES ASSUME HookInit, NEW t \in Threads PROVE EffectFacts(t)
    BY DEF CountedInv
  <2>2. effect[t].points = 0 /\ effect[t].amount = 0 /\ effect[t].counted = FALSE
    BY <2>1 DEF HookInit, NoEffect
  <2>3. Unit * 0 = 0 /\ 0 <= 0 + (Unit - 1)
    OBVIOUS
  <2>4. QED
    BY <2>2, <2>3 DEF EffectFacts
<1>3. HookOnlyTypeOK /\ PlaceInv /\ CountedInv /\ [HookNext]_hookVars => CountedInv'
  BY CountedStep
<1>4. QED
  BY <1>1, <1>2, <1>3, PlaceInvariant, PTL DEF HookSpec

-----------------------------------------------------------------------------
(* All the damage is done by one thread: no effect of another can fall     *)
(* between the two readings of a frame.                                    *)
OneThread == \A t, u \in Threads : t = u

(* What is shown of an actor, and what rounding may have gained.           *)
Shown(a) == Unit * (framed[a].points + effected[a].points)
Gain(a) == (framed[a].numbers + effected[a].numbers) * (Unit - 1)

DoubleWindow(t) ==
  LET v == frame[t].victim
  IN /\ frame[t].pc = "body" => Shown(v) <= FullHealth - frame[t].healthA + Gain(v)
     /\ frame[t].pc = "register" =>
          Shown(v) + Unit * frame[t].points <= Lost(v) + Gain(v) + (Unit - 1)

(* With one thread, what is announced is what its effect has yet to do.    *)
AnnouncedByOne(t) ==
  \A a \in Actors :
    announced[a] = IF effect[t].counted /\ effect[t].victim = a THEN effect[t].amount ELSE 0

DoubleInv ==
  /\ \A a \in Actors : Shown(a) <= Lost(a) + announced[a] + Gain(a)
  /\ \A t \in Threads : DoubleWindow(t) /\ AnnouncedByOne(t)

LEMMA DoubleTypes ==
  ASSUME HookOnlyTypeOK
  PROVE  /\ \A a \in Actors : /\ health[a] \in Int /\ Lost(a) \in Int /\ announced[a] \in Int
                             /\ Shown(a) \in Nat /\ Gain(a) \in Nat
         /\ \A t \in Threads :
              /\ frame[t].victim \in Actors /\ frame[t].healthA \in Int
              /\ frame[t].points \in Nat /\ Unit * frame[t].points \in Nat
              /\ effect[t].victim \in Actors /\ effect[t].amount \in Nat
              /\ effect[t].points \in Nat /\ Unit * effect[t].points \in Nat
              /\ effect[t].counted \in BOOLEAN
<1>1. ASSUME NEW a \in Actors
      PROVE  /\ health[a] \in Int /\ Lost(a) \in Int /\ announced[a] \in Int
             /\ framed[a].points + effected[a].points \in Nat
             /\ framed[a].numbers + effected[a].numbers \in Nat
  BY <1>1 DEF HookOnlyTypeOK, TallyType, Lost
<1>2. ASSUME NEW t \in Threads
      PROVE  /\ frame[t].victim \in Actors /\ frame[t].healthA \in Int
             /\ frame[t].points \in Nat
             /\ effect[t].victim \in Actors /\ effect[t].amount \in Nat
             /\ effect[t].points \in Nat /\ effect[t].counted \in BOOLEAN
  BY <1>2 DEF HookOnlyTypeOK, FrameType, EffectType
<1>3. Unit \in Nat /\ Unit - 1 \in Nat
  OBVIOUS
<1>4. QED
  BY <1>1, <1>2, <1>3, Adding DEF Shown, Gain

(* What one more number of so many points makes of the two sums.           *)
LEMMA CreditAdds ==
  ASSUME HookOnlyTypeOK, NEW v \in Actors, NEW points \in Nat,
         \/ framed' = Credit(framed, v, points) /\ effected' = effected
         \/ effected' = Credit(effected, v, points) /\ framed' = framed
  PROVE  /\ Shown(v)' = Shown(v) + Unit * points
         /\ Gain(v)' = Gain(v) + (Unit - 1)
         /\ \A a \in Actors : a # v => Shown(a)' = Shown(a) /\ Gain(a)' = Gain(a)
<1>1. /\ framed \in TallyType /\ effected \in TallyType
      /\ framed[v].points \in Nat /\ effected[v].points \in Nat
      /\ framed[v].numbers \in Nat /\ effected[v].numbers \in Nat
  BY DEF HookOnlyTypeOK, TallyType
<1>2. \A a \in Actors : a # v => framed'[a] = framed[a] /\ effected'[a] = effected[a]
  BY <1>1 DEF Credit, TallyType
<1>3. /\ framed'[v].points + effected'[v].points = (framed[v].points + effected[v].points) + points
      /\ framed'[v].numbers + effected'[v].numbers
           = (framed[v].numbers + effected[v].numbers) + 1
  <2>1. ASSUME NEW tally \in TallyType
        PROVE  /\ Credit(tally, v, points)[v].points = tally[v].points + points
               /\ Credit(tally, v, points)[v].numbers = tally[v].numbers + 1
    BY DEF Credit, TallyType
  <2>2. CASE framed' = Credit(framed, v, points) /\ effected' = effected
    BY <1>1, <2>1, <2>2
  <2>3. CASE effected' = Credit(effected, v, points) /\ framed' = framed
    BY <1>1, <2>1, <2>3
  <2>4. QED
    BY <2>2, <2>3
<1>4. /\ Unit * ((framed[v].points + effected[v].points) + points)
           = Unit * (framed[v].points + effected[v].points) + Unit * points
      /\ ((framed[v].numbers + effected[v].numbers) + 1) * (Unit - 1)
           = (framed[v].numbers + effected[v].numbers) * (Unit - 1) + (Unit - 1)
  <2>1. /\ framed[v].points + effected[v].points \in Nat
        /\ framed[v].numbers + effected[v].numbers \in Nat /\ Unit \in Nat /\ Unit - 1 \in Nat
    BY <1>1
  <2>2. QED
    BY <2>1, Adding
<1>5. QED
  BY <1>2, <1>3, <1>4 DEF Shown, Gain

(* A step that gives nobody a number and announces nothing, in which health*)
(* only goes down and no frame begins or ends to measure.                  *)
LEMMA DoubleKept ==
  ASSUME HookOnlyTypeOK, HookOnlyTypeOK', DoubleInv, framed' = framed, effected' = effected,
         \A a \in Actors : /\ health'[a] <= health[a]
                          /\ Lost(a) + announced[a] <= Lost(a)' + announced'[a],
         \A t \in Threads : frame'[t] = frame[t] \/ frame'[t].pc \notin {"body", "register"},
         \A t \in Threads : AnnouncedByOne(t)'
  PROVE  DoubleInv'
<1>1. \A a \in Actors : Shown(a)' = Shown(a) /\ Gain(a)' = Gain(a)
  BY DEF Shown, Gain
<1>2. \A a \in Actors : Lost(a) <= Lost(a)' /\ Lost(a) \in Int /\ Lost(a)' \in Int
  BY DoubleTypes DEF Lost, HookOnlyTypeOK
<1>3. \A a \in Actors : announced[a] \in Int /\ announced'[a] \in Int
  BY DEF HookOnlyTypeOK
<1>4. ASSUME NEW a \in Actors PROVE Shown(a)' <= Lost(a)' + announced'[a] + Gain(a)'
  <2>1. Shown(a) <= Lost(a) + announced[a] + Gain(a) /\ Shown(a) \in Nat /\ Gain(a) \in Nat
    BY DoubleTypes DEF DoubleInv
  <2>2. Shown(a) <= (Lost(a)' + announced'[a]) + Gain(a)
    BY <1>2, <1>3, <2>1
  <2>3. QED
    BY <1>1, <2>2
<1>5. ASSUME NEW t \in Threads PROVE DoubleWindow(t)'
  <2>1. CASE frame'[t].pc \notin {"body", "register"}
    BY <2>1 DEF DoubleWindow
  <2>2. CASE frame'[t] = frame[t]
    <3>1. PICK v \in Actors : v = frame[t].victim
      BY DoubleTypes
    <3>2. /\ Shown(v) \in Nat /\ Gain(v) \in Nat /\ Unit * frame[t].points \in Nat
          /\ Shown(v)' = Shown(v) /\ Gain(v)' = Gain(v)
      BY <1>1, DoubleTypes
    <3>3. Lost(v) <= Lost(v)' /\ Lost(v) \in Int /\ Lost(v)' \in Int
      BY <1>2
    <3>4. DoubleWindow(t)
      BY DEF DoubleInv
    <3>5. frame[t].pc = "register" =>
            Shown(v)' + Unit * frame[t].points <= Lost(v)' + Gain(v)' + (Unit - 1)
      BY <3>1, <3>2, <3>3, <3>4 DEF DoubleWindow
    <3>6. frame[t].pc = "body" => Shown(v)' <= FullHealth - frame[t].healthA + Gain(v)'
      BY <3>1, <3>2, <3>4 DEF DoubleWindow
    <3>7. QED
      BY <2>2, <3>1, <3>5, <3>6 DEF DoubleWindow, Shown, Gain, Lost
  <2>3. QED
    BY <2>1, <2>2
<1>6. QED
  BY <1>4, <1>5 DEF DoubleInv

LEMMA DoubleFrameStep ==
  ASSUME OneThread, HookOnlyTypeOK, HookOnlyTypeOK', CountedInv, DoubleInv,
         NEW t \in Threads, FrameStep(t)
  PROVE  DoubleInv'
<1>1. PICK v \in Actors : v = frame[t].victim
  BY DoubleTypes
<1>2. /\ effect' = effect /\ announced' = announced /\ health' = health /\ effected' = effected
      /\ \A u \in Threads : u = t
  BY DEF FrameStep, FrameLock, FrameReadBefore, FrameReadAfter, FrameRegister,
         FrameRelease, FrameReturn, tallies, OneThread
<1>3. \A u \in Threads : AnnouncedByOne(u)'
  BY <1>2 DEF DoubleInv, AnnouncedByOne
<1>4. \A a \in Actors : /\ Lost(a)' = Lost(a) /\ Lost(a) \in Int /\ announced[a] \in Int
                       /\ Shown(a) \in Nat /\ Gain(a) \in Nat /\ health[a] \in Int
  BY <1>2, DoubleTypes DEF Lost
\* A frame that measures has announced nothing.
<1>5. frame[t].pc \notin {"none", "untracked"} => \A a \in Actors : announced[a] = 0
  BY DEF CountedInv, EffectFacts, DoubleInv, AnnouncedByOne
<1>6. ASSUME framed' = framed PROVE \A a \in Actors : Shown(a)' = Shown(a) /\ Gain(a)' = Gain(a)
  BY <1>2, <1>6 DEF Shown, Gain
<1>7. ASSUME framed' = framed
      PROVE  \A a \in Actors : Shown(a)' <= Lost(a)' + announced'[a] + Gain(a)'
  BY <1>2, <1>4, <1>6, <1>7 DEF DoubleInv
<1>8. CASE FrameLock(t) \/ FrameRelease(t) \/ FrameReturn(t)
  <2>1. framed' = framed
    BY <1>8 DEF FrameLock, FrameRelease, FrameReturn, tallies
  <2>2. frame'[t].pc \in {"locking", "none"}
    BY <1>8 DEF FrameLock, FrameRelease, FrameReturn, NoFrame, HookOnlyTypeOK, FrameType
  <2>3. DoubleWindow(t)'
    BY <2>2 DEF DoubleWindow
  <2>4. QED
    BY <1>2, <1>3, <1>7, <2>1, <2>3 DEF DoubleInv
<1>9. CASE FrameReadBefore(t)
  <2>1. /\ frame[t].pc = "locking" /\ frame'[t].pc = "body" /\ frame'[t].victim = v
        /\ frame'[t].healthA = health[v] /\ framed' = framed
    BY <1>1, <1>9 DEF FrameReadBefore, HookOnlyTypeOK, FrameType, tallies
  <2>2. Shown(v) <= FullHealth - health[v] + Gain(v)
    <3>1. announced[v] = 0
      BY <1>5, <2>1
    <3>2. Shown(v) <= Lost(v) + announced[v] + Gain(v)
      BY DEF DoubleInv
    <3>3. QED
      BY <1>4, <3>1, <3>2 DEF Lost
  <2>3. Shown(v)' <= FullHealth - health[v] + Gain(v)'
    BY <1>6, <2>1, <2>2
  <2>4. DoubleWindow(t)'
    BY <2>1, <2>3 DEF DoubleWindow, Shown, Gain
  <2>5. QED
    BY <1>2, <1>3, <1>7, <2>1, <2>4 DEF DoubleInv
<1>10. CASE FrameReadAfter(t)
  <2> DEFINE loss == frame[t].healthA - health[v]
             points == IF loss > 0 THEN Round(loss) ELSE 0
  <2>1. /\ frame[t].pc = "body" /\ frame'[t].victim = v /\ frame'[t].points = points
        /\ frame'[t].pc = (IF points > 0 THEN "register" ELSE "release")
        /\ framed' = framed
    BY <1>1, <1>10 DEF FrameReadAfter, HookOnlyTypeOK, FrameType, tallies
  <2>2. CASE points > 0
    <3>1. loss \in Nat /\ points = Round(loss)
      BY <1>4, <2>2, DoubleTypes
    <3>2. Unit * points <= loss + Half /\ points \in Nat
      BY <3>1, RoundBound, RoundNat
    <3>3. Shown(v) <= FullHealth - frame[t].healthA + Gain(v)
      BY <1>1, <2>1 DEF DoubleInv, DoubleWindow
    <3>4. frame[t].healthA \in Int /\ Half \in Nat /\ Half <= Unit - 1 /\ Unit * points \in Nat
      BY <3>2, DoubleTypes, HalfFacts, Adding
    <3> HIDE DEF points
    <3>5. Shown(v) + Unit * points <= Lost(v) + Gain(v) + (Unit - 1)
      BY <1>4, <3>2, <3>3, <3>4 DEF Lost
    <3>6. Shown(v)' + Unit * points <= Lost(v)' + Gain(v)' + (Unit - 1)
      BY <1>4, <1>6, <2>1, <3>5
    <3>7. DoubleWindow(t)'
      BY <2>1, <2>2, <3>6 DEF DoubleWindow, Shown, Gain, Lost
    <3>8. QED
      BY <1>2, <1>3, <1>7, <2>1, <3>7 DEF DoubleInv
  <2>3. CASE ~(points > 0)
    <3>1. DoubleWindow(t)'
      BY <2>1, <2>3 DEF DoubleWindow
    <3>2. QED
      BY <1>2, <1>3, <1>7, <2>1, <3>1 DEF DoubleInv
  <2>4. QED
    BY <2>2, <2>3
<1>11. CASE FrameRegister(t)
  <2>1. /\ frame[t].pc = "register" /\ frame'[t].pc = "release"
        /\ framed' = Credit(framed, v, frame[t].points)
    BY <1>1, <1>11 DEF FrameRegister, HookOnlyTypeOK, FrameType
  <2>2. /\ Shown(v)' = Shown(v) + Unit * frame[t].points
        /\ Gain(v)' = Gain(v) + (Unit - 1)
        /\ \A a \in Actors : a # v => Shown(a)' = Shown(a) /\ Gain(a)' = Gain(a)
    BY <1>2, <2>1, CreditAdds, DoubleTypes
  <2>3. Shown(v) + Unit * frame[t].points <= Lost(v) + Gain(v) + (Unit - 1)
    BY <1>1, <2>1 DEF DoubleInv, DoubleWindow
  <2>4. announced[v] = 0
    BY <1>5, <2>1
  <2>5. ASSUME NEW a \in Actors PROVE Shown(a)' <= Lost(a)' + announced'[a] + Gain(a)'
    <3>1. CASE a = v
      BY <1>2, <1>4, <2>2, <2>3, <2>4, <3>1
    <3>2. CASE a # v
      BY <1>2, <1>4, <2>2, <3>2 DEF DoubleInv
    <3>3. QED
      BY <3>1, <3>2
  <2>6. DoubleWindow(t)'
    BY <2>1 DEF DoubleWindow
  <2>7. QED
    BY <1>2, <1>3, <2>5, <2>6 DEF DoubleInv
<1>12. QED
  BY <1>8, <1>9, <1>10, <1>11 DEF FrameStep

LEMMA DoubleEffectStep ==
  ASSUME OneThread, HookOnlyTypeOK, HookOnlyTypeOK', PlaceInv, CountedInv, DoubleInv,
         NEW t \in Threads, EffectStep(t)
  PROVE  DoubleInv'
<1>1. PICK v \in Actors : v = effect[t].victim
  BY DoubleTypes
<1>2. /\ frame' = frame /\ framed' = framed /\ \A u \in Threads : u = t
  BY DEF EffectStep, EffectLock, EffectTest, EffectRegister, EffectRelease, EffectApply,
         tallies, OneThread
<1>3. effect \in [Threads -> EffectType] /\ AnnouncedByOne(t) /\ EffectFacts(t)
  BY DEF HookOnlyTypeOK, DoubleInv, CountedInv
<1>4. \A a \in Actors : health[a] \in Int /\ announced[a] \in Int
  BY DoubleTypes
<1>5. CASE EffectLock(t) \/ EffectTest(t) \/ EffectRelease(t)
  <2>1. /\ effect'[t].amount = effect[t].amount /\ effect'[t].counted = effect[t].counted
        /\ effect'[t].victim = effect[t].victim
    BY <1>3, <1>5 DEF EffectLock, EffectTest, EffectRelease, EffectType
  <2>2. health' = health /\ effected' = effected /\ announced' = announced
    BY <1>5 DEF EffectLock, EffectTest, EffectRelease, tallies
  <2>3. \A u \in Threads : AnnouncedByOne(u)'
    BY <1>2, <1>3, <2>1, <2>2 DEF AnnouncedByOne
  <2>4. \A a \in Actors : /\ health'[a] <= health[a]
                         /\ Lost(a) + announced[a] <= Lost(a)' + announced'[a]
    BY <1>4, <2>2 DEF Lost
  <2>5. QED
    BY <1>2, <2>2, <2>3, <2>4, DoubleKept
<1>6. CASE EffectRegister(t)
  <2>1. /\ effect[t].pc = "register" /\ effected' = Credit(effected, v, effect[t].points)
        /\ announced' = [announced EXCEPT ![v] = @ + effect[t].amount] /\ health' = health
        /\ effect'[t].amount = effect[t].amount /\ effect'[t].counted = TRUE
        /\ effect'[t].victim = v
    BY <1>1, <1>3, <1>6 DEF EffectRegister, EffectType
  <2>2. ~effect[t].counted
    BY <1>3, <2>1, DoubleTypes DEF EffectFacts
  <2>3. /\ announced'[v] = effect[t].amount /\ announced[v] = 0
        /\ \A a \in Actors : a # v => announced'[a] = announced[a] /\ announced[a] = 0
    <3>1. \A a \in Actors : announced[a] = 0
      BY <1>3, <2>2 DEF AnnouncedByOne
    <3>2. announced \in [Actors -> Int] /\ effect[t].amount \in Nat
      BY DoubleTypes DEF HookOnlyTypeOK
    <3>3. announced'[v] = announced[v] + effect[t].amount
      BY <2>1, <3>2
    <3>4. \A a \in Actors : a # v => announced'[a] = announced[a]
      BY <2>1, <3>2
    <3>5. QED
      BY <3>1, <3>2, <3>3, <3>4
  <2>4. AnnouncedByOne(t)'
    BY <2>1, <2>3 DEF AnnouncedByOne
  <2>5. /\ Shown(v)' = Shown(v) + Unit * effect[t].points
        /\ Gain(v)' = Gain(v) + (Unit - 1)
        /\ \A a \in Actors : a # v => Shown(a)' = Shown(a) /\ Gain(a)' = Gain(a)
    BY <1>2, <2>1, CreditAdds, DoubleTypes
  <2>6. ASSUME NEW a \in Actors PROVE Shown(a)' <= Lost(a)' + announced'[a] + Gain(a)'
    <3>1. /\ Shown(a) <= Lost(a) + announced[a] + Gain(a) /\ Lost(a)' = Lost(a)
          /\ Shown(a) \in Nat /\ Gain(a) \in Nat /\ Lost(a) \in Int
      BY <2>1, DoubleTypes DEF DoubleInv, Lost
    <3>2. /\ Unit * effect[t].points <= effect[t].amount + (Unit - 1)
          /\ Unit * effect[t].points \in Nat /\ effect[t].amount \in Nat
      BY <1>3, DoubleTypes DEF EffectFacts
    <3>3. CASE a = v
      BY <2>3, <2>5, <3>1, <3>2, <3>3
    <3>4. CASE a # v
      BY <2>3, <2>5, <3>1, <3>4
    <3>5. QED
      BY <3>3, <3>4
  \* An effect that is shown is in no frame.
  <2>7. DoubleWindow(t)'
    BY <1>2, <2>1 DEF PlaceInv, Silent, InFrame, DoubleWindow
  <2>8. QED
    BY <1>2, <2>4, <2>6, <2>7 DEF DoubleInv
<1>7. CASE EffectApply(t)
  <2>1. /\ health' = [health EXCEPT ![v] = @ - effect[t].amount] /\ effected' = effected
        /\ announced' = IF effect[t].counted
                          THEN [announced EXCEPT ![v] = @ - effect[t].amount] ELSE announced
        /\ effect'[t].counted = FALSE
    BY <1>1, <1>3, <1>7 DEF EffectApply, NoEffect
  <2>2. effect[t].amount \in Nat /\ effect[t].counted \in BOOLEAN
    BY DoubleTypes
  <2>3. /\ health'[v] = health[v] - effect[t].amount
        /\ \A a \in Actors : a # v => health'[a] = health[a]
    BY <2>1 DEF HookOnlyTypeOK
  <2>4. \A a \in Actors : announced'[a] = 0
    BY <1>1, <1>3, <2>1, <2>2 DEF AnnouncedByOne, HookOnlyTypeOK
  <2>5. AnnouncedByOne(t)'
    BY <2>1, <2>4 DEF AnnouncedByOne
  <2>6. ASSUME NEW a \in Actors
        PROVE  /\ health'[a] <= health[a]
               /\ Lost(a) + announced[a] <= Lost(a)' + announced'[a]
    <3>1. announced[a] = 0 \/ (a = v /\ announced[a] = effect[t].amount)
      BY <1>1, <1>3 DEF AnnouncedByOne
    <3>2. QED
      BY <1>4, <2>2, <2>3, <2>4, <3>1 DEF Lost
  <2>7. QED
    BY <1>2, <2>1, <2>5, <2>6, DoubleKept
<1>8. QED
  BY <1>5, <1>6, <1>7 DEF EffectStep

LEMMA DoubleEffectCall ==
  ASSUME OneThread, HookOnlyTypeOK, HookOnlyTypeOK', CountedInv, DoubleInv,
         NEW t \in Threads, NEW a \in Actors, NEW amount \in Amounts, EffectCall(t, a, amount)
  PROVE  DoubleInv'
<1>1. /\ effect[t].pc = "none" /\ effect'[t].counted = FALSE
      /\ frame' = frame /\ health' = health /\ \A u \in Threads : u = t
      /\ framed' = framed /\ effected' = effected /\ announced' = announced
  BY DEF EffectCall, InGameCode, HookOnlyTypeOK, tallies, OneThread
<1>2. ~effect[t].counted
  BY <1>1 DEF CountedInv, EffectFacts
<1>3. \A u \in Threads : AnnouncedByOne(u)'
  BY <1>1, <1>2 DEF DoubleInv, AnnouncedByOne
<1>4. \A b \in Actors : /\ health'[b] <= health[b]
                       /\ Lost(b) + announced[b] <= Lost(b)' + announced'[b]
  BY <1>1, DoubleTypes DEF Lost
<1>5. QED
  BY <1>1, <1>3, <1>4, DoubleKept

LEMMA DoubleStep ==
  ASSUME OneThread, HookOnlyTypeOK, HookOnlyTypeOK', PlaceInv, CountedInv, DoubleInv,
         [HookNext]_hookVars
  PROVE  DoubleInv'
<1>1. ASSUME framed' = framed, effected' = effected, announced' = announced,
             effect' = effect, health' = health,
             \A t \in Threads : frame'[t] = frame[t] \/ frame'[t].pc \notin {"body", "register"}
      PROVE  DoubleInv'
  <2>1. \A t \in Threads : AnnouncedByOne(t)'
    BY <1>1 DEF DoubleInv, AnnouncedByOne
  <2>2. \A b \in Actors : /\ health'[b] <= health[b]
                         /\ Lost(b) + announced[b] <= Lost(b)' + announced'[b]
    BY <1>1, DoubleTypes DEF Lost
  <2>3. QED
    BY <1>1, <2>1, <2>2, DoubleKept
<1>2. ASSUME NEW t \in Threads, NEW a \in Actors, FrameCall(t, a) PROVE DoubleInv'
  <2>1. PICK pc \in {"lock", "untracked"} :
          frame' = [frame EXCEPT ![t] = [NoFrame EXCEPT !.pc = pc, !.victim = a]]
    BY <1>2 DEF FrameCall
  <2>2. [NoFrame EXCEPT !.pc = pc, !.victim = a].pc = pc
    BY DEF NoFrame
  <2>3. \A u \in Threads : frame'[u] = frame[u] \/ frame'[u].pc \notin {"body", "register"}
    BY <2>1, <2>2 DEF HookOnlyTypeOK
  <2>4. QED
    BY <1>1, <1>2, <2>3 DEF FrameCall, tallies
<1>3. ASSUME NEW t \in Threads, LockStep(t), UNCHANGED <<queueVars, hookOnly>> PROVE DoubleInv'
  BY <1>1, <1>3 DEF hookOnly, tallies
<1>4. CASE LoadSettings
  BY <1>1, <1>4 DEF LoadSettings, tallies
<1>5. CASE UIStep /\ UNCHANGED <<lockVars, hookOnly>>
  BY <1>1, <1>5 DEF hookOnly, tallies
<1>6. CASE UNCHANGED hookVars
  BY <1>1, <1>6 DEF hookVars, hookOnly, tallies
<1>7. QED
  BY <1>2, <1>3, <1>4, <1>5, <1>6, DoubleEffectCall, DoubleFrameStep, DoubleEffectStep
     DEF HookNext, HookStep

LEMMA DoubleInit == HookInit => DoubleInv
<1> SUFFICES ASSUME HookInit PROVE DoubleInv
  OBVIOUS
<1>1. \A a \in Actors : /\ framed[a].points + effected[a].points = 0 /\ Lost(a) = 0
                       /\ framed[a].numbers + effected[a].numbers = 0 /\ announced[a] = 0
  BY DEF HookInit, Lost
<1>2. Unit * 0 = 0 /\ 0 * (Unit - 1) = 0
  OBVIOUS
<1>3. \A a \in Actors : Shown(a) <= Lost(a) + announced[a] + Gain(a)
  BY <1>1, <1>2 DEF Shown, Gain
<1>4. \A t \in Threads : frame[t].pc = "none" /\ effect[t].counted = FALSE
  BY DEF HookInit, NoFrame, NoEffect
<1>5. QED
  BY <1>1, <1>3, <1>4 DEF DoubleInv, DoubleWindow, AnnouncedByOne

LEMMA DoubleIsCount == DoubleInv => NoDoubleCount
BY DEF DoubleInv, NoDoubleCount, Shown, Gain

LEMMA OneThreadCountsOnce == ASSUME OneThread PROVE HookSpec => []NoDoubleCount
<1>1. HookOnlyTypeOK /\ HookOnlyTypeOK' /\ PlaceInv /\ CountedInv /\ DoubleInv
        /\ [HookNext]_hookVars => DoubleInv'
  BY DoubleStep
<1>2. QED
  BY <1>1, DoubleInit, DoubleIsCount, CountedInvariant, PTL DEF HookSpec

-----------------------------------------------------------------------------
(* With effects never shown, every number is that of a hit: there is       *)
(* nothing to count a second time, however many threads there are.         *)
EffectsHidden == EffectSettings \subseteq {FALSE}

QuietInv ==
  /\ showEffect = FALSE
  /\ \A t \in Threads : effect[t].pc \in {"none", "apply"} /\ effect[t].counted = FALSE
  /\ \A a \in Actors : effected[a].points = 0 /\ effected[a].numbers = 0 /\ announced[a] = 0

LEMMA QuietStep ==
  ASSUME EffectsHidden, HookOnlyTypeOK, QuietInv, [HookNext]_hookVars
  PROVE  QuietInv'
<1>1. ASSUME NEW t \in Threads, NEW a \in Actors, NEW amount \in Amounts,
             EffectCall(t, a, amount)
      PROVE  QuietInv'
  <2>1. PICK points \in EffectPoints(amount) :
          effect' = [effect EXCEPT ![t] =
                      [pc |-> "apply", victim |-> a, amount |-> amount, points |-> points,
                       counted |-> FALSE]]
    BY <1>1 DEF EffectCall, QuietInv
  <2>2. \A u \in Threads : effect'[u].pc \in {"none", "apply"} /\ effect'[u].counted = FALSE
    BY <2>1 DEF QuietInv, HookOnlyTypeOK
  <2>3. UNCHANGED <<showEffect, effected, announced>>
    BY <1>1 DEF EffectCall, tallies
  <2>4. QED
    BY <2>2, <2>3 DEF QuietInv
<1>2. ASSUME NEW t \in Threads, EffectStep(t) PROVE QuietInv'
  <2>1. EffectApply(t) /\ effect[t].counted = FALSE
    BY <1>2 DEF EffectStep, EffectLock, EffectTest, EffectRegister, EffectRelease, QuietInv
  <2>2. \A u \in Threads : effect'[u].pc \in {"none", "apply"} /\ effect'[u].counted = FALSE
    BY <2>1 DEF EffectApply, NoEffect, QuietInv, HookOnlyTypeOK
  <2>3. UNCHANGED <<showEffect, effected, announced>>
    BY <2>1 DEF EffectApply
  <2>4. QED
    BY <2>2, <2>3 DEF QuietInv
<1>3. ASSUME NEW t \in Threads, FrameStep(t) PROVE QuietInv'
  <2>1. UNCHANGED <<showEffect, effect, effected, announced>>
    BY <1>3 DEF FrameStep, FrameLock, FrameReadBefore, FrameReadAfter, FrameRegister,
                FrameRelease, FrameReturn, tallies
  <2>2. QED
    BY <2>1 DEF QuietInv
<1>4. CASE LoadSettings
  BY <1>4 DEF LoadSettings, QuietInv, EffectsHidden, tallies
<1>5. CASE UNCHANGED <<showEffect, effect, effected, announced>>
  BY <1>5 DEF QuietInv
<1>6. ASSUME NEW t \in Threads, NEW a \in Actors, FrameCall(t, a) PROVE QuietInv'
  BY <1>5, <1>6 DEF FrameCall, tallies
<1>7. QED
  BY <1>1, <1>2, <1>3, <1>4, <1>5, <1>6 DEF HookNext, HookStep, hookVars, hookOnly, tallies

LEMMA QuietCountsOnce == ASSUME EffectsHidden PROVE HookSpec => []NoDoubleCount
<1>1. HookSpec => []HookOnlyTypeOK
  BY HookTypeCorrect, HookTypeParts, PTL
<1>2. HookInit => QuietInv
  <2>1. SUFFICES ASSUME HookInit PROVE QuietInv
    OBVIOUS
  <2>2. showEffect = FALSE
    BY <2>1 DEF HookInit, EffectsHidden
  <2>3. \A t \in Threads : effect[t].pc = "none" /\ effect[t].counted = FALSE
    BY <2>1 DEF HookInit, NoEffect
  <2>4. \A a \in Actors : effected[a].points = 0 /\ effected[a].numbers = 0 /\ announced[a] = 0
    BY <2>1 DEF HookInit
  <2>5. QED
    BY <2>2, <2>3, <2>4 DEF QuietInv
<1>3. HookOnlyTypeOK /\ QuietInv /\ [HookNext]_hookVars => QuietInv'
  BY QuietStep
<1>4. HookOnlyTypeOK /\ QuietInv /\ FrameNumbersAreLosses => NoDoubleCount
  <2>1. SUFFICES ASSUME HookOnlyTypeOK, QuietInv, FrameNumbersAreLosses, NEW a \in Actors
                 PROVE  Unit * (framed[a].points + effected[a].points)
                          <= Lost(a) + announced[a]
                               + (framed[a].numbers + effected[a].numbers) * (Unit - 1)
    BY DEF NoDoubleCount
  <2>2. framed[a].points \in Nat /\ framed[a].numbers \in Nat /\ Lost(a) \in Int
    <3>1. framed[a].points \in Nat /\ framed[a].numbers \in Nat
      BY <2>1 DEF HookOnlyTypeOK, TallyType
    <3>2. Lost(a) \in Int
      BY <2>1, DoubleTypes
    <3>3. QED
      BY <3>1, <3>2
  <2>3. effected[a].points = 0 /\ effected[a].numbers = 0 /\ announced[a] = 0
    BY <2>1 DEF QuietInv
  <2>4. Unit * framed[a].points <= Lost(a) + framed[a].numbers * Half
    BY <2>1 DEF FrameNumbersAreLosses, Half
  <2>5. framed[a].numbers * Half <= framed[a].numbers * (Unit - 1)
    <3>1. Half \in Nat /\ Half <= Unit - 1 /\ Unit - 1 \in Int
      BY HalfFacts
    <3> HIDE DEF Half
    <3>2. QED
      BY <2>2, <3>1
  <2>6. /\ Unit * framed[a].points \in Int /\ framed[a].numbers * Half \in Int
        /\ framed[a].numbers * (Unit - 1) \in Int
    BY <2>2, HalfFacts
  <2>7. Unit * framed[a].points <= Lost(a) + framed[a].numbers * (Unit - 1)
    <3> HIDE DEF Half
    <3>1. QED
      BY <2>2, <2>4, <2>5, <2>6
  <2>8. /\ framed[a].points + effected[a].points = framed[a].points
        /\ framed[a].numbers + effected[a].numbers = framed[a].numbers
        /\ Lost(a) + announced[a] = Lost(a)
    BY <2>2, <2>3
  <2>9. QED
    BY <2>7, <2>8
<1>5. QED
  BY <1>1, <1>2, <1>3, <1>4, HookFrameNumbersAreLosses, PTL DEF HookSpec

(* No loss is shown twice, if one thread does all the damage or effects    *)
(* are not shown.  With several threads and effects shown it is false, and *)
(* the comment of NoDoubleCount says how.                                  *)
THEOREM LossesAreCountedOnce ==
  ASSUME OneThread \/ EffectsHidden
  PROVE  HookSpec => []NoDoubleCount
BY OneThreadCountsOnce, QuietCountsOnce
=============================================================================
