------------------------------ MODULE MCObjects ------------------------------
(***************************************************************************)
(* What F4SE keeps for Papyrus scripts: native objects that scripts name   *)
(* by handles, and latent functions that are run later, once with saves    *)
(* and loads and once for as long as the game goes on.  A behaviour is     *)
(* about one part, and the others stay in the state they start in.         *)
(***************************************************************************)
EXTENDS PersistentObjects, DelayFunctors

VARIABLE part

(* Delays at once, of no time, and shorter and longer than a frame.        *)
MCDelays == {-1, 0, 2, 3}

vars == <<part, objectVars, functorVars>>

MCInit ==
  /\ part \in {"objects", "saved functors", "endless functors"}
  /\ ObjectInit /\ FunctorInit

(* With saves every delay is a frame's.                                    *)
MCNext ==
  \/ part = "objects" /\ ObjectNext /\ UNCHANGED <<part, functorVars>>
  \/ /\ part = "saved functors" /\ FunctorNext /\ UNCHANGED <<part, objectVars>>
     /\ \A i \in DOMAIN inData' : inData'[i].left = 2
  \/ part = "endless functors" /\ FunctorNext /\ saves' = 0 /\ UNCHANGED <<part, objectVars>>

MCFairness ==
  \/ part \in {"objects", "saved functors"}
  \/ part = "endless functors" /\ FunctorFairness

MCSpec == MCInit /\ [][MCNext]_vars /\ MCFairness

-----------------------------------------------------------------------------
(* PapyrusDelayFunctors.cpp: a functor that waits is run, whatever comes   *)
(* after it and however often others are queued again.                     *)
FunctorsAreRun == part = "endless functors" => OthersAreRun
=============================================================================
