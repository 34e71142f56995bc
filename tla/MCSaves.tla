------------------------------- MODULE MCSaves -------------------------------
(***************************************************************************)
(* What F4SE keeps in the co-save: the identifiers of forms, the file with *)
(* the records of two plugins, and the scripts that registered for events, *)
(* for two objects whose handles may be exchanged or go missing.  Either   *)
(* plugin may be missing, and the game may die.  A behaviour is about one  *)
(* part, and the others stay in the state they start in.                   *)
(***************************************************************************)
EXTENDS FormIds, CoSave, EventRegistrations

CONSTANTS Regular, Extra

VARIABLE part

(* Every order of a few plugins of either kind.                            *)
Orders(S) == {s \in UNION {[1..n -> S] : n \in 0..Cardinality(S)} : Distinct(s)}
MCNames == Regular \cup Extra
MCLoadOrders == {[regular |-> r, light |-> l] : r \in Orders(Regular), l \in Orders(Extra)}

vars == <<part, idVars, saveVars, regVars>>

MCInit ==
  /\ part \in {"forms", "file", "events"}
  /\ FormIdsInit /\ SaveInit /\ RegInit
  /\ part # "forms" => order = [regular |-> <<>>, light |-> <<>>]
  /\ part # "file" => installed = {}

MCNext ==
  \/ part = "forms" /\ FormIdsNext /\ UNCHANGED <<part, saveVars, regVars>>
  \/ part = "file" /\ SaveNext /\ UNCHANGED <<part, idVars, regVars>>
  \/ part = "events" /\ RegNext /\ UNCHANGED <<part, idVars, saveVars>>

MCSpec == MCInit /\ [][MCNext]_vars
=============================================================================
