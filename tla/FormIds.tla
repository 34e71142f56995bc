------------------------------- MODULE FormIds -------------------------------
(***************************************************************************)
(* The identifiers of forms across saves (f4se/InternalSerialization.cpp   *)
(* and ResolveFormId, ResolveHandle of f4se/Serialization.cpp).  The upper *)
(* part of an identifier is the place of a plugin in the load order; F4SE  *)
(* writes the names of the plugins into its part of the co-save and, when  *)
(* the save is loaded, keeps for each old place the new one.               *)
(*                                                                         *)
(* A place among the regular plugins is a byte, of which the largest value *)
(* stands for forms created by the game and the next one for the forms of  *)
(* light plugins, whose place is a number below Lights in the same form.   *)
(***************************************************************************)
EXTENDS Naturals, Sequences

CONSTANTS
  Byte,      \* 2^8
  Word,      \* 2^16
  Lights,    \* 2^12
  Names,     \* names of plugins
  Ids,       \* the lowest 12 bits of an identifier
  LoadOrders \* load orders of the game: [regular |-> names, light |-> names]

Distinct(s) == \A i, j \in DOMAIN s : s[i] = s[j] => i = j

(* The game leaves the two largest places free.                            *)
ASSUME WidthAssumption ==
  /\ Byte \in Nat /\ Word \in Nat /\ Lights \in Nat
  /\ 2 < Byte /\ Byte < Lights /\ Lights < Word
ASSUME OrderAssumption ==
  \A o \in LoadOrders :
    /\ o.regular \in Seq(Names) /\ o.light \in Seq(Names)
    /\ Distinct(o.regular) /\ Distinct(o.light)
    /\ Len(o.regular) <= Byte - 2 /\ Len(o.light) <= Lights

VARIABLES
  order,         \* (*g_dataHandler)->modList: the load order of this session
  file,          \* the records MODS and LMOD of the co-save, or none
  savedOrder,    \* the load order at the time of that save
  indexMap,      \* s_savefileIndexMap
  numMods,       \* s_numSavefileMods
  lightIndexMap, \* s_savefileLightIndexMap
  numLightMods,  \* s_numSavefileLightMods
  loaded         \* the file has been loaded in this session

idVars == <<order, file, savedOrder, indexMap, numMods, lightIndexMap, numLightMods, loaded>>

Created == Byte - 1    \* 0xFF
Light == Byte - 2      \* 0xFE
None == Word - 1       \* 0xFFFF, -1 as UInt16
NoFile == [none |-> TRUE]

FormIdsInit ==
  /\ order \in LoadOrders /\ savedOrder = order
  /\ file = NoFile /\ loaded = FALSE
  /\ indexMap = [i \in 0..(Byte - 2) |-> 0] /\ numMods = 0
  /\ lightIndexMap = [i \in 0..(Lights - 2) |-> 0] /\ numLightMods = 0

(* The place of a name, counted from 0, or the value the lookup returns.   *)
Place(name, names, absent) ==
  IF \E i \in DOMAIN names : names[i] = name
    THEN (CHOOSE i \in DOMAIN names : names[i] = name) - 1
    ELSE absent
GetLoadedModIndex(name) == Place(name, order.regular, Created)
GetLoadedLightModIndex(name) == Place(name, order.light, None)

-----------------------------------------------------------------------------
(* A new process, with another load order.                                 *)
StartGame(o) ==
  /\ order' = o /\ loaded' = FALSE
  /\ indexMap' = [i \in 0..(Byte - 2) |-> 0] /\ numMods' = 0
  /\ lightIndexMap' = [i \in 0..(Lights - 2) |-> 0] /\ numLightMods' = 0
  /\ UNCHANGED <<file, savedOrder>>

(* The lists as saved: their length goes through a byte.                   *)
Listed(names) == SubSeq(names, 1, Len(names) % Byte)

SaveModLists ==
  /\ file' = [regular |-> Listed(order.regular), light |-> Listed(order.light)]
  /\ savedOrder' = order /\ loaded' = FALSE
  /\ UNCHANGED <<order, indexMap, numMods, lightIndexMap, numLightMods>>

(* LoadModList that keeps the places of the save.                          *)
LoadedIndexKept(i) == IF i < Len(file.regular) THEN i ELSE indexMap[i]

LoadedIndex(i) ==
  IF i < Len(file.regular) THEN GetLoadedModIndex(file.regular[i + 1]) ELSE indexMap[i]

(* A place among the light plugins is stored in a byte, too.               *)
LoadedLightIndex(i) ==
  IF i < Len(file.light) THEN GetLoadedLightModIndex(file.light[i + 1]) % Byte
                         ELSE lightIndexMap[i]

LoadModLists ==
  /\ file # NoFile
  /\ indexMap' = [i \in 0..(Byte - 2) |-> LoadedIndex(i)]
  /\ numMods' = Len(file.regular)
  /\ lightIndexMap' = [i \in 0..(Lights - 2) |-> LoadedLightIndex(i)]
  /\ numLightMods' = Len(file.light)
  /\ loaded' = TRUE
  /\ UNCHANGED <<order, file, savedOrder>>

FormIdsNext == (\E o \in LoadOrders : StartGame(o)) \/ SaveModLists \/ LoadModLists
FormIdsSpec == FormIdsInit /\ [][FormIdsNext]_idVars

-----------------------------------------------------------------------------
(* What is asked of an identifier from the save (Unchecked: without regard *)
(* to the number of plugins).                                              *)
ResolveModIndexUnchecked(i) == IF i < Byte - 1 THEN indexMap[i] ELSE Created
ResolveModIndex(i) == IF i < numMods THEN indexMap[i] ELSE Created
ResolveLightModIndex(i) == IF i < numLightMods THEN lightIndexMap[i] ELSE None

Forms == [mod : 0..(Byte - 1), light : 0..(Lights - 1), id : Ids]
Handles == [high : {"none", "reference"}, form : Forms]
Refused == [resolved |-> FALSE]
To(form) == [resolved |-> TRUE, form |-> form]

ResolveFormId(form) ==
  CASE form.mod = Created -> To(form)
    [] form.mod = Light ->
         IF ResolveLightModIndex(form.light) = None THEN Refused
         ELSE To([form EXCEPT !.light = ResolveLightModIndex(form.light)])
    [] OTHER ->
         IF ResolveModIndex(form.mod) = Created THEN Refused
         ELSE To([form EXCEPT !.mod = ResolveModIndex(form.mod)])

(* A handle has the identifier in its lower half and keeps the upper one.  *)
ResolveHandle(handle) ==
  LET answer == ResolveFormId(handle.form)
  IN IF answer.resolved THEN [resolved |-> TRUE, handle |-> [handle EXCEPT !.form = answer.form]]
     ELSE Refused

-----------------------------------------------------------------------------
(* A form of a regular plugin resolves to the form of the same number in   *)
(* the same plugin, wherever that is loaded now, and is refused if it is   *)
(* not loaded; places that no plugin had are refused.                      *)
RegularFormResolves(f) ==
  IF f.mod < Len(savedOrder.regular)
    THEN LET name == savedOrder.regular[f.mod + 1]
         IN IF \E i \in DOMAIN order.regular : order.regular[i] = name
              THEN \E i \in DOMAIN order.regular :
                     order.regular[i] = name /\ ResolveFormId(f) = To([f EXCEPT !.mod = i - 1])
              ELSE ResolveFormId(f) = Refused
    ELSE ResolveFormId(f) = Refused

RegularFormsResolve ==
  loaded => \A f \in Forms : f.mod < Light => RegularFormResolves(f)

(* A form of a light plugin resolves to that plugin as long as both its    *)
(* old and its new place, and the old list's length, fit in a byte.        *)
LightFormsResolve ==
  loaded => \A f \in Forms, i \in DOMAIN order.light :
    (/\ f.mod = Light /\ f.light < Len(savedOrder.light) /\ Len(savedOrder.light) < Byte
     /\ order.light[i] = savedOrder.light[f.light + 1] /\ i <= Byte)
    => ResolveFormId(f) = To([f EXCEPT !.light = i - 1])

(* Forms resolve, of whichever kind of plugin.                             *)
FormsResolve == RegularFormsResolve /\ LightFormsResolve

(* The plugin of a light form is loaded, in a place that fits a byte.      *)
HasByteForPlace(f) ==
  \E i \in DOMAIN order.light :
    i <= Byte /\ f.light < Len(savedOrder.light) /\ order.light[i] = savedOrder.light[f.light + 1]

(* No handle is mistaken for another, with one exception: those of created *)
(* forms stay as they are, and two handles resolve to the same only if     *)
(* both stood for forms of light plugins and one of these plugins is not   *)
(* loaded now, or in a place that does not fit a byte.  The code does give *)
(* such a handle to another light plugin's form: lightIndexMap keeps the   *)
(* new place, and 0xFFFF for none, in a byte (InternalSerialization.cpp:79,*)
(* Serialization.cpp:290).                                                 *)
HandlesStayApart ==
  loaded => \A h, k \in Handles :
    /\ h.form.mod = Created => ResolveHandle(h) = [resolved |-> TRUE, handle |-> h]
    /\ (/\ h # k /\ ResolveHandle(h).resolved /\ ResolveHandle(k).resolved
        /\ ResolveHandle(h) = ResolveHandle(k))
       => /\ h.form.mod = Light /\ k.form.mod = Light
          /\ ~HasByteForPlace(h.form) \/ ~HasByteForPlace(k.form)

(* A form of a light plugin that is not loaded any more is refused.        *)
MissingLightIsRefused ==
  loaded => \A f \in Forms :
    (/\ f.mod = Light /\ f.light < Len(savedOrder.light)
     /\ \A i \in DOMAIN order.light : order.light[i] # savedOrder.light[f.light + 1])
    => ResolveFormId(f) = Refused
=============================================================================
