----------------------------- MODULE DamageHooks -----------------------------
(***************************************************************************)
(* The two hooks FloatingDamage puts into the game (FloatingDamage/        *)
(* main.cpp, ActorEx), run by any number of game threads:                  *)
(*                                                                         *)
(*   ProcessDamageFrame_Hook  measures the health a hit costs its victim   *)
(*                            and registers it as a number;                *)
(*   DamageHealth_Hook        registers the damage of an effect, unless it *)
(*                            runs inside a damage frame of its own        *)
(*                            thread, which will show that damage itself.  *)
(*                                                                         *)
(* Both take globalDamageLock, a SimpleLock, and the second decides by its *)
(* lockCount.  Numbers go to the queue of DamageQueue.  The original       *)
(* functions of the game are modelled by what they do to health: a frame   *)
(* calls DamageHealth, through the hooked vtable, for its victim or for    *)
(* other actors, and DamageHealth lowers the health.                       *)
(*                                                                         *)
(* Health is counted in units of 1/Unit of a point.  That an actor is in   *)
(* sight of the player and is not the player is a free choice of each      *)
(* call; that it is alive is read from its health.                         *)
(***************************************************************************)
EXTENDS SimpleLock, DamageQueue

CONSTANTS
  Actors,          \* who can be hit
  Amounts,         \* the damage of a call of DamageHealth, in units
  Unit,            \* units of health in a point
  FullHealth,      \* the health of an actor at the start, in units
  EffectSettings,  \* the values bShowEffectDamage takes in the .ini file
  MaxCalls         \* bound on the calls of the two hooks

ASSUME ActorsAssumption == Actors # {}
ASSUME UnitAssumption == Unit \in Nat \ {0}
ASSUME AmountsAssumption == Amounts \subseteq Nat \ {0}
ASSUME FullHealthAssumption == FullHealth \in Nat \ {0}
ASSUME EffectSettingsAssumption == EffectSettings \subseteq BOOLEAN
ASSUME MaxCallsAssumption == MaxCalls \in Nat

VARIABLES
  health,      \* health[a]
  showEffect,  \* Settings::bShowEffectDamage
  calls,       \* calls of the hooks so far
  frame,       \* frame[t]: t's activation of ProcessDamageFrame_Hook
  effect,      \* effect[t]: t's activation of DamageHealth_Hook
  framed,      \* framed[a]: the points that frames registered for a, and
               \* the number of numbers they came in
  effected,    \* effected[a]: the same for effects
  announced    \* announced[a]: damage shown as an effect that a has yet to lose

tallies == <<framed, effected, announced>>
hookOnly == <<health, showEffect, calls, frame, effect, tallies>>
hookVars == <<lockVars, queueVars, hookOnly>>

FramePcs == {"none", "untracked", "lock", "locking", "body", "register", "release"}
EffectPcs == {"none", "lock", "locking", "register", "release", "apply"}

HookTypeOK ==
  /\ LockTypeOK
  /\ QueueTypeOK
  /\ health \in [Actors -> Int]
  /\ showEffect \in BOOLEAN
  /\ calls \in 0..MaxCalls
  /\ frame \in [Threads -> [pc : FramePcs, victim : Actors, healthA : Int, points : Nat]]
  /\ effect \in [Threads -> [pc : EffectPcs, victim : Actors, amount : Nat, points : Nat,
                             counted : BOOLEAN]]
  /\ framed \in [Actors -> [points : Nat, numbers : Nat]]
  /\ effected \in [Actors -> [points : Nat, numbers : Nat]]
  /\ announced \in [Actors -> Int]

NoFrame == [pc |-> "none", victim |-> CHOOSE a \in Actors : TRUE, healthA |-> 0,
            points |-> 0]
NoEffect == [pc |-> "none", victim |-> CHOOSE a \in Actors : TRUE, amount |-> 0,
             points |-> 0, counted |-> FALSE]

HookInit ==
  /\ LockInit
  /\ QueueInit
  /\ health = [a \in Actors |-> FullHealth]
  /\ showEffect \in EffectSettings
  /\ calls = 0
  /\ frame = [t \in Threads |-> NoFrame]
  /\ effect = [t \in Threads |-> NoEffect]
  /\ framed = [a \in Actors |-> [points |-> 0, numbers |-> 0]]
  /\ effected = [a \in Actors |-> [points |-> 0, numbers |-> 0]]
  /\ announced = [a \in Actors |-> 0]

-----------------------------------------------------------------------------
(* std::round of a number of units that is not negative.                   *)
Round(units) == (2 * units + Unit) \div (2 * Unit)

(* The points DamageHealth_Hook may make of an amount: below one point it  *)
(* draws whether to show 1 or the rounded amount.                          *)
EffectPoints(amount) ==
  {Round(amount)} \cup (IF amount < Unit THEN {1} ELSE {})

Dead(a) == health[a] <= 0

(* t runs code of its own, and not Lock or Release.                        *)
Running(t) == lpc[t] = "idle"

(* t is where the game can call DamageHealth: outside of a frame, or in    *)
(* the original ProcessDamageFrame, with or without a lock around it.      *)
InGameCode(t) ==
  Running(t) /\ effect[t].pc = "none" /\ frame[t].pc \in {"none", "body", "untracked"}

Credit(tally, a, points) ==
  [tally EXCEPT ![a] = [points |-> @.points + points, numbers |-> @.numbers + 1]]

-----------------------------------------------------------------------------
(* ProcessDamageFrame_Hook is called for a victim: one that is alive and   *)
(* in sight is tracked, for any other the original function runs alone.    *)
FrameCall(t, a) ==
  /\ calls < MaxCalls
  /\ Running(t) /\ frame[t].pc = "none" /\ effect[t].pc = "none"
  /\ \E inSight \in BOOLEAN :
       frame' = [frame EXCEPT ![t] =
                  [NoFrame EXCEPT !.pc = IF inSight /\ ~Dead(a) THEN "lock" ELSE "untracked",
                                  !.victim = a]]
  /\ calls' = calls + 1
  /\ UNCHANGED <<lockVars, queueVars, health, showEffect, effect, tallies>>

(* A frame that measures without globalDamageLock ... *)
FrameLockSkipped(t) ==
  /\ Running(t) /\ frame[t].pc = "lock"
  /\ frame' = [frame EXCEPT ![t].pc = "locking"]
  /\ UNCHANGED <<lockVars, queueVars, health, showEffect, calls, effect, tallies>>

(* globalDamageLock.Lock()                                                 *)
FrameLock(t) ==
  /\ frame[t].pc = "lock"
  /\ LockTest(t)
  /\ frame' = [frame EXCEPT ![t].pc = "locking"]
  /\ UNCHANGED <<queueVars, health, showEffect, calls, effect, tallies>>

(* healthA = GetValue(pHealth), once Lock has returned.                    *)
FrameReadBefore(t) ==
  /\ Running(t) /\ frame[t].pc = "locking"
  /\ frame' = [frame EXCEPT ![t].pc = "body", ![t].healthA = health[frame[t].victim]]
  /\ UNCHANGED <<lockVars, queueVars, health, showEffect, calls, effect, tallies>>

(* healthB = GetValue(pHealth) after the original function: a loss that    *)
(* rounds to nothing, or a gain, is not shown.                             *)
FrameReadAfter(t) ==
  LET loss == frame[t].healthA - health[frame[t].victim]
      points == IF loss > 0 THEN Round(loss) ELSE 0
  IN /\ InGameCode(t) /\ frame[t].pc = "body"
     /\ frame' = [frame EXCEPT ![t].pc = IF points > 0 THEN "register" ELSE "release",
                               ![t].points = points]
     /\ UNCHANGED <<lockVars, queueVars, health, showEffect, calls, effect, tallies>>

(* FloatingDamageDelegate::Register(damageReceived, hitPoint, false)       *)
FrameRegister(t) ==
  /\ Running(t) /\ frame[t].pc = "register"
  /\ Register
  /\ framed' = Credit(framed, frame[t].victim, frame[t].points)
  /\ frame' = [frame EXCEPT ![t].pc = "release"]
  /\ UNCHANGED <<lockVars, health, showEffect, calls, effect, effected, announced>>

(* globalDamageLock.Release() and the return; what is left of Release is   *)
(* in lpc.                                                                 *)
FrameRelease(t) ==
  /\ frame[t].pc = "release"
  /\ ReleaseDec(t)
  /\ frame' = [frame EXCEPT ![t] = NoFrame]
  /\ UNCHANGED <<queueVars, health, showEffect, calls, effect, tallies>>

(* The return of a frame that was not tracked.                             *)
FrameReturn(t) ==
  /\ InGameCode(t) /\ frame[t].pc = "untracked"
  /\ frame' = [frame EXCEPT ![t] = NoFrame]
  /\ UNCHANGED <<lockVars, queueVars, health, showEffect, calls, effect, tallies>>

-----------------------------------------------------------------------------
(* DamageHealth_Hook is called: with the setting off, for an amount that   *)
(* rounds to nothing, and for an actor that is dead or out of sight, only  *)
(* the original function runs.                                             *)
EffectCall(t, a, amount) ==
  /\ calls < MaxCalls
  /\ InGameCode(t)
  /\ \E inSight \in BOOLEAN, points \in EffectPoints(amount) :
       effect' = [effect EXCEPT ![t] =
         [pc |-> IF showEffect /\ points >= 1 /\ inSight /\ ~Dead(a) THEN "lock" ELSE "apply",
          victim |-> a, amount |-> amount, points |-> points, counted |-> FALSE]]
  /\ calls' = calls + 1
  /\ UNCHANGED <<lockVars, queueVars, health, showEffect, frame, tallies>>

(* globalDamageLock.Lock()                                                 *)
EffectLock(t) ==
  /\ effect[t].pc = "lock"
  /\ LockTest(t)
  /\ effect' = [effect EXCEPT ![t].pc = "locking"]
  /\ UNCHANGED <<queueVars, health, showEffect, calls, frame, tallies>>

(* An effect that does not ask whether it is part of a hit.                *)
EffectTestNothing(t) ==
  /\ Running(t) /\ effect[t].pc = "locking"
  /\ effect' = [effect EXCEPT ![t].pc = "register"]
  /\ UNCHANGED <<lockVars, queueVars, health, showEffect, calls, frame, tallies>>

(* if (globalDamageLock.lockCount == 1)                                    *)
EffectTest(t) ==
  /\ Running(t) /\ effect[t].pc = "locking"
  /\ effect' = [effect EXCEPT ![t].pc = IF lockCount = 1 THEN "register" ELSE "release"]
  /\ UNCHANGED <<lockVars, queueVars, health, showEffect, calls, frame, tallies>>

(* FloatingDamageDelegate::Register(damageReceived, hitPoint, true)        *)
EffectRegister(t) ==
  /\ Running(t) /\ effect[t].pc = "register"
  /\ Register
  /\ effected' = Credit(effected, effect[t].victim, effect[t].points)
  /\ announced' = [announced EXCEPT ![effect[t].victim] = @ + effect[t].amount]
  /\ effect' = [effect EXCEPT ![t].pc = "release", ![t].counted = TRUE]
  /\ UNCHANGED <<lockVars, health, showEffect, calls, frame, framed>>

(* globalDamageLock.Release()                                              *)
EffectRelease(t) ==
  /\ effect[t].pc = "release"
  /\ ReleaseDec(t)
  /\ effect' = [effect EXCEPT ![t].pc = "apply"]
  /\ UNCHANGED <<queueVars, health, showEffect, calls, frame, tallies>>

(* (this->*DamageHealth)(attacker, damage), outside of the lock, and the   *)
(* return.                                                                 *)
EffectApply(t) ==
  /\ Running(t) /\ effect[t].pc = "apply"
  /\ health' = [health EXCEPT ![effect[t].victim] = @ - effect[t].amount]
  /\ announced' = IF effect[t].counted
                     THEN [announced EXCEPT ![effect[t].victim] = @ - effect[t].amount]
                     ELSE announced
  /\ effect' = [effect EXCEPT ![t] = NoEffect]
  /\ UNCHANGED <<lockVars, queueVars, showEffect, calls, frame, framed, effected>>

-----------------------------------------------------------------------------
(* LoadSettings, from the handlers of the configuration menu.              *)
LoadSettings ==
  /\ showEffect' \in EffectSettings
  /\ UNCHANGED <<lockVars, queueVars, health, calls, frame, effect, tallies>>

FrameStep(t) ==
  \/ FrameLock(t) \/ FrameReadBefore(t) \/ FrameReadAfter(t) \/ FrameRegister(t)
  \/ FrameRelease(t) \/ FrameReturn(t)

EffectStep(t) ==
  \/ EffectLock(t) \/ EffectTest(t) \/ EffectRegister(t) \/ EffectRelease(t)
  \/ EffectApply(t)

HookStep(t) == FrameStep(t) \/ EffectStep(t)

HookNext ==
  \/ \E t \in Threads :
       \/ \E a \in Actors : FrameCall(t, a)
       \/ \E a \in Actors, amount \in Amounts : EffectCall(t, a, amount)
       \/ HookStep(t)
       \/ LockStep(t) /\ UNCHANGED <<queueVars, hookOnly>>
  \/ LoadSettings
  \/ UIStep /\ UNCHANGED <<lockVars, hookOnly>>

HookSpec == HookInit /\ [][HookNext]_hookVars

(* A thread that can go on does; one that spins on a lock or waits for the *)
(* queue gets it if it is free again and again; frames are drawn.          *)
HookFairness ==
  /\ \A t \in Threads :
       /\ SF_hookVars(HookStep(t))
       /\ WF_hookVars((LockInc(t) \/ LockOwn(t) \/ ReleaseClear(t))
                        /\ UNCHANGED <<queueVars, hookOnly>>)
       /\ SF_hookVars(LockCas(t) /\ UNCHANGED <<queueVars, hookOnly>>)
  /\ WF_hookVars((DrawPop \/ DrawLeave) /\ UNCHANGED <<lockVars, hookOnly>>)

FairHookSpec == HookSpec /\ HookFairness

-----------------------------------------------------------------------------
(* t is in a damage frame that will show what it measures.                 *)
InFrame(t) == frame[t].pc \in {"body", "register", "release"}

Lost(a) == FullHealth - health[a]

(* DamageHealth_Hook tells a hit's own damage from any other by lockCount: *)
(* having taken the lock, it reads 1 exactly if its thread is not inside a *)
(* tracked frame, whatever the other threads do with the lock.             *)
CountTellsNesting ==
  \A t \in Threads :
    effect[t].pc = "locking" /\ Running(t) => (lockCount = 1 <=> ~InFrame(t))

(* The damage a hit does through DamageHealth is not shown a second time   *)
(* as an effect: no thread registers an effect inside its own frame.       *)
NestedHitSilent ==
  \A t \in Threads : effect[t].pc = "register" => ~InFrame(t)

(* DamageHealth_Hook learns from lockCount whether it runs inside a damage *)
(* frame of its own thread, and then leaves the number to the frame.       *)
EffectsKnowTheirFrame == HookTypeOK /\ CountTellsNesting /\ NestedHitSilent

(* At most one frame measures at a time, so no loss of health is in the    *)
(* windows of two frames: the numbers of an actor's frames add up to no    *)
(* more than it lost, but for what each of them was rounded up by.         *)
FrameNumbersAreLosses ==
  \A a \in Actors : Unit * framed[a].points <= Lost(a) + framed[a].numbers * (Unit \div 2)

(* No loss is shown twice: all the numbers of an actor, of hits and of     *)
(* effects, add up to no more than it lost or is about to lose by an       *)
(* effect already shown, but for what each was rounded up by.  It holds if *)
(* one thread does all the damage, or if effects are not shown; with both, *)
(* an effect of one thread can fall between the two readings of another.   *)
NoDoubleCount ==
  \A a \in Actors :
    Unit * (framed[a].points + effected[a].points)
      <= Lost(a) + announced[a] + (framed[a].numbers + effected[a].numbers) * (Unit - 1)

(* Every hit on a tracked victim is measured and, if it cost a point,      *)
(* registered: no thread stays in the hook for ever.  It fails with two    *)
(* threads and effects shown, because SimpleLock can lose the name of its  *)
(* owner, whose nested DamageHealth_Hook then spins on its own lock.       *)
HitIsNumbered ==
  \A t \in Threads : frame[t].pc = "lock" ~> frame[t].pc = "none"

-----------------------------------------------------------------------------
(* The inductive invariant behind the first two: how often a thread holds  *)
(* globalDamageLock is a matter of where it is in the two hooks.           *)
InLock(t) == lpc[t] \in {"inc", "cas", "own"}

FrameHolds(t) == InFrame(t) \/ (frame[t].pc = "locking" /\ ~InLock(t))

EffectHolds(t) ==
  effect[t].pc \in {"register", "release"} \/ (effect[t].pc = "locking" /\ ~InLock(t))

HeldByHooks(t) ==
  held[t] = (IF FrameHolds(t) THEN 1 ELSE 0) + (IF EffectHolds(t) THEN 1 ELSE 0)

EffectPlaces(t) ==
  effect[t].pc # "none" => frame[t].pc \in {"none", "body", "untracked"}

LockingPlaces(t) ==
  InLock(t) => frame[t].pc = "locking" \/ effect[t].pc = "locking"

Places(t) == HeldByHooks(t) /\ EffectPlaces(t) /\ LockingPlaces(t)
=============================================================================
