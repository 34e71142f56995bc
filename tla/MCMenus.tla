------------------------------- MODULE MCMenus -------------------------------
(***************************************************************************)
(* The displays, each on an instance of its own: the menu of the damage    *)
(* numbers, with edits of the settings or with one message of the game     *)
(* more, two numbers on the screen, and the status of two companions, one  *)
(* of whose names is mapped by the file.  A behaviour is about one part,   *)
(* and the others stay as they start.                                      *)
(***************************************************************************)
EXTENDS MenuLifecycle, CompanionStatus

VARIABLES
  part,
  isInit, heap, scale, faders, gone, born

Unedited == INSTANCE MenuLifecycle WITH MaxGameMessages <- 4, MaxEdits <- 0

(* Settings with and without gravity, and with the bounds of the fall given*)
(* the wrong way round.                                                    *)
PathingSettings(gravity, rising, size) ==
  [fGravitationalConstant |-> gravity, fEffectDamageRisingSpeed |-> rising,
   fMinVerticalRisingSpeed |-> 1, fMaxVerticalRisingSpeed |-> 2,
   fMinVerticalRisingDist |-> 1, fMaxVerticalRisingDist |-> 2,
   fMinVerticalFallDist |-> 3, fMaxVerticalFallDist |-> 2, fWidgetScale |-> size]
Screen ==
  INSTANCE Faders WITH
    Numbers <- {1, 2}, Settings <- {PathingSettings(1, 1, 1), PathingSettings(0, 0, 2)},
    FrameCap <- 4, FadeFrames <- 2, MaxChanges <- 2

(* One of the names is mapped, and health is reported beyond both ends.    *)
OneLine == <<<<"Dog", "Dogmeat">>>>
Reports == {-1, 3}

faderVars == <<isInit, heap, scale, faders, gone, born>>
vars == <<part, menuVars, faderVars, statusVars>>

MCInit ==
  /\ part \in {"menu", "unedited menu", "numbers", "companions"}
  /\ MenuInit /\ Screen!FaderInit /\ StatusInit

MCNext ==
  \/ part = "menu" /\ MenuNext /\ UNCHANGED <<part, faderVars, statusVars>>
  \/ part = "unedited menu" /\ Unedited!MenuNext /\ UNCHANGED <<part, faderVars, statusVars>>
  \/ part = "numbers" /\ Screen!FaderNext /\ UNCHANGED <<part, menuVars, statusVars>>
  \/ part = "companions" /\ StatusNext /\ UNCHANGED <<part, menuVars, faderVars>>

MCFairness ==
  \/ part \in {"menu", "unedited menu"} /\ MenuFairness
  \/ part = "numbers" /\ Screen!FaderFairness
  \/ part = "companions" /\ StatusFairness

MCSpec == MCInit /\ [][MCNext]_vars /\ MCFairness

-----------------------------------------------------------------------------
(* FloatingDamageFader.as: every number on the screen leaves it, after no  *)
(* more frames than the cap and its fade-out have, on the way and in the   *)
(* size of the settings it was born with, whatever is set meanwhile and    *)
(* though the menu may be told of its end.                                 *)
NumbersFade ==
  /\ [](Screen!FaderTypeOK /\ Screen!FadesInTime /\ Screen!KeepsItsSettings)
  /\ Screen!EveryNumberLeaves
=============================================================================
