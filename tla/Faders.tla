------------------------------- MODULE Faders -------------------------------
(***************************************************************************)
(* The numbers on the screen (CompanionStatus AS3/FloatingDamageMenu.as    *)
(* and FloatingDamage/FloatingDamageFader.as): each damage number is a     *)
(* clip that moves and, when it has come far enough or has been there long *)
(* enough, plays its fade-out and removes itself.                          *)
(*                                                                         *)
(* A path setting is an object: numbers hold a reference to the object     *)
(* that was in force when they were born.  heap is the objects that were   *)
(* made.  Of a number's place only the vertical offset from the point of   *)
(* the world it belongs to is kept: the rest follows the camera and has no *)
(* part in when a number leaves.  The clip's animation is not in the       *)
(* repository: of it the model has the frames of the fade-out.             *)
(***************************************************************************)
EXTENDS Integers, Sequences

CONSTANTS
  Numbers,    \* the damage numbers that are received
  Settings,   \* the path settings a player may choose
  FrameCap,   \* 300: after so many frames a number fades wherever it is
  FadeFrames, \* frames of the fade-out
  MaxChanges  \* bound on the settings that are made

VARIABLES
  isInit,    \* FloatingDamageMenu.isInit
  heap,      \* path settings that were made, by reference
  scale,     \* FloatingDamageMenu.fWidgetScale
  faders,    \* the numbers on the screen
  gone,      \* the numbers that have left it, or were never shown
  born       \* the settings in force when each number on the screen was born

faderVars == <<isInit, heap, scale, faders, gone, born>>

(* this.pathingSettings: the object made last; there is none before.       *)
pathingSettings == Len(heap)

(* A random number between two, given in any order.                        *)
Between(a, b) == IF a <= b THEN a..b ELSE b..a

-----------------------------------------------------------------------------
FaderInit ==
  /\ isInit = FALSE
  /\ heap = <<>> /\ scale = 1
  /\ faders = [n \in {} |-> 0] /\ gone = {} /\ born = [n \in {} |-> 0]

(* The player's settings have changed: a new object takes the place of the *)
(* old one.                                                                *)
OnModSettingChanged(s) ==
  /\ isInit
  /\ Len(heap) < MaxChanges
  /\ heap' = Append(heap, s)
  /\ scale' = s.fWidgetScale
  /\ UNCHANGED <<isInit, faders, gone, born>>

OnCodeObjCreate(s) ==
  /\ ~isInit /\ Len(heap) < MaxChanges
  /\ isInit' = TRUE
  /\ heap' = Append(heap, s)
  /\ scale' = s.fWidgetScale
  /\ UNCHANGED <<faders, gone, born>>

(* The numbers that are on the screen have the code object already.        *)
OnCodeObjDestruction ==
  /\ isInit
  /\ isInit' = FALSE
  /\ UNCHANGED <<heap, scale, faders, gone, born>>

Waiting(n) == n \in Numbers \ (DOMAIN faders \cup gone)

Put(f, n, val) == [k \in DOMAIN f \cup {n} |-> IF k = n THEN val ELSE f[k]]

(* The new number: how far it goes and how fast it rises are drawn when it *)
(* is added to the stage.                                                  *)
Fader(isBuff, dist, speed) ==
  [ref |-> pathingSettings, scale |-> scale, isBuff |-> isBuff, dist |-> dist,
   speed |-> speed, frameCount |-> 0, isFadeOut |-> FALSE, clip |-> 0, offset |-> 0]

AddChild(n, isBuff) ==
  LET s == heap[pathingSettings]
  IN \E speed \in Between(s.fMinVerticalRisingSpeed, s.fMaxVerticalRisingSpeed),
        dist \in IF isBuff THEN Between(s.fMinVerticalRisingDist, s.fMaxVerticalRisingDist)
                 ELSE Between(s.fMinVerticalFallDist, s.fMaxVerticalFallDist) :
       /\ faders' = Put(faders, n, Fader(isBuff, dist, speed))
       /\ born' = Put(born, n, s)

(* A number that comes before the settings have is dropped.                *)
OnDamageReceived(n, isBuff) ==
  /\ Waiting(n)
  /\ \/ isInit /\ AddChild(n, isBuff) /\ gone' = gone
     \/ ~isInit /\ gone' = gone \cup {n} /\ UNCHANGED <<faders, born>>
  /\ UNCHANGED <<isInit, heap, scale>>

-----------------------------------------------------------------------------
(* UpdateSelf: an effect's number rises evenly, another one is thrown up   *)
(* and falls.                                                              *)
OffsetY(f, n) ==
  LET s == heap[f.ref]
  IN IF f.isBuff THEN s.fEffectDamageRisingSpeed * n
     ELSE s.fGravitationalConstant * n * n - f.speed * n

FadeOut(f) == [f EXCEPT !.isFadeOut = TRUE, !.clip = 0]

Moved(f) ==
  [f EXCEPT !.frameCount = @ + 1, !.offset = OffsetY(f, f.frameCount + 1)]

(* A fade-out that is started again in every frame beyond the end of the   *)
(* way.                                                                    *)
UpdateSelfRestarts(f) ==
  LET g == Moved(f)
  IN IF g.offset > g.dist \/ g.frameCount >= FrameCap THEN FadeOut(g) ELSE g

(* The fade-out is started once, though the number goes on moving.         *)
UpdateSelf(f) ==
  LET g == Moved(f)
  IN IF ~g.isFadeOut /\ (g.offset > g.dist \/ g.frameCount >= FrameCap)
     THEN FadeOut(g) ELSE g

(* The clip plays one frame.                                               *)
Played(f) == IF f.isFadeOut THEN [f EXCEPT !.clip = @ + 1] ELSE f

(* Every number is updated, and OnFadeOutComplete removes the ones whose   *)
(* fade-out has been played.                                               *)
UpdateAll ==
  LET next == [n \in DOMAIN faders |-> Played(UpdateSelf(faders[n]))]
      done == {n \in DOMAIN faders : next[n].clip = FadeFrames}
  IN /\ faders' = [n \in DOMAIN faders \ done |-> next[n]]
     /\ born' = [n \in DOMAIN faders \ done |-> born[n]]
     /\ gone' = gone \cup done
     /\ UNCHANGED <<isInit, heap, scale>>

(* A frame of the movie.  The numbers have the code object themselves, so  *)
(* they go on when the menu has forgotten it at its end.                   *)
Frame == UpdateAll

FaderNext ==
  \/ \E s \in Settings : OnModSettingChanged(s) \/ OnCodeObjCreate(s)
  \/ OnCodeObjDestruction
  \/ \E n \in Numbers, isBuff \in BOOLEAN : OnDamageReceived(n, isBuff)
  \/ Frame

FaderSpec == FaderInit /\ [][FaderNext]_faderVars

(* Flash plays the movie frame by frame.                                   *)
FaderFairness == WF_faderVars(Frame)

-----------------------------------------------------------------------------
(* Types of all variables.  A number has settings.                         *)
FaderTypeOK ==
  /\ isInit \in BOOLEAN
  /\ heap \in Seq(Settings) /\ Len(heap) <= MaxChanges
  /\ gone \subseteq Numbers /\ DOMAIN faders \subseteq Numbers \ gone
  /\ \A n \in DOMAIN faders :
       /\ faders[n].ref \in DOMAIN heap
       /\ faders[n].frameCount \in Nat /\ faders[n].offset \in Int
       /\ faders[n].clip \in 0..FadeFrames

(* No number is on the screen for longer than the cap and the fade-out,    *)
(* whatever the settings: its fade-out is not started again while it goes  *)
(* on moving.                                                              *)
FadesInTime ==
  \A n \in DOMAIN faders : faders[n].frameCount < FrameCap + FadeFrames

(* A number goes on the way of the settings it was born with, and in their *)
(* size, while the menu takes others for the next ones.                    *)
KeepsItsSettings ==
  \A n \in DOMAIN faders :
    /\ heap[faders[n].ref] = born[n]
    /\ faders[n].scale = born[n].fWidgetScale

(* Every number leaves the screen: also one whose settings never let it    *)
(* come far enough, and one whose menu has been told of its end.           *)
EveryNumberLeaves ==
  \A n \in Numbers : n \in DOMAIN faders ~> n \in gone
=============================================================================
