----------------------------- MODULE DamageFeed -----------------------------
(***************************************************************************)
(* What the damage hooks and the player count on: a number that is         *)
(* registered waits, unless too many wait already, until a frame shows     *)
(* everything that waits, in the order of registration and in one step, or *)
(* the opening or closing of the menu discards it all.                     *)
(***************************************************************************)
EXTENDS Naturals, Sequences

CONSTANT Limit

VARIABLES
  count,     \* numbers registered so far; a number is its place among them
  waiting,   \* the numbers that wait for a frame
  onScreen   \* the numbers shown

vars == <<count, waiting, onScreen>>

Init == count = 0 /\ waiting = <<>> /\ onScreen = <<>>

Accept ==
  /\ Len(waiting) <= Limit
  /\ count' = count + 1
  /\ waiting' = Append(waiting, count')
  /\ UNCHANGED onScreen

Refuse ==
  /\ Len(waiting) > Limit
  /\ count' = count + 1
  /\ UNCHANGED <<waiting, onScreen>>

Frame ==
  /\ onScreen' = onScreen \o waiting
  /\ waiting' = <<>>
  /\ UNCHANGED count

Discard == waiting' = <<>> /\ UNCHANGED <<count, onScreen>>

Next == Accept \/ Refuse \/ Frame \/ Discard

Spec == Init /\ [][Next]_vars
=============================================================================
