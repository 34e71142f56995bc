-------------------------- MODULE PersistentHandle --------------------------
(***************************************************************************)
(* What VMIdentifier (f4se/f4se/PapyrusValue.cpp) promises about an object *)
(* that scripts refer to: references are counted, the object handle policy *)
(* keeps the object exactly while there is more than the first reference,  *)
(* and nothing happens any more after the last one.                        *)
(***************************************************************************)
CONSTANT Refs       \* the references there may be

VARIABLES
  live,      \* those there are
  kept       \* the policy keeps the object

handleVars == <<live, kept>>

HandleInit == (\E r \in Refs : live = {r}) /\ kept = FALSE

Acquire(r) == live # {} /\ r \notin live /\ live' = live \cup {r}
Drop(r) == r \in live /\ live' = live \ {r}

HandleNext ==
  /\ \E r \in Refs : Acquire(r) \/ Drop(r)
  /\ kept' = (\E q, r \in live' : q # r)

HandleSpec == HandleInit /\ [][HandleNext]_handleVars
=============================================================================
