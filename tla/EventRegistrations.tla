-------------------------- MODULE EventRegistrations --------------------------
(***************************************************************************)
(* The scripts that registered for events of F4SE (f4se/PapyrusEvents.h,   *)
(* f4se/PapyrusScriptObject.cpp) and how F4SE's part of the co-save keeps  *)
(* them (f4se/InternalSerialization.cpp).                                  *)
(*                                                                         *)
(* A subscriber is an object and a script on it.  Two holders map keys to  *)
(* sets of subscribers; they stand for the three instances of              *)
(* RegistrationMapHolder.  The registrations for furniture, the instance   *)
(* of RegistrationSetHolder that has parameters, have a set of objects as  *)
(* filter.  Every method of a holder runs under its lock and is one step;  *)
(* a load is one step for each record.                                     *)
(***************************************************************************)
EXTENDS Naturals, Sequences, FiniteSets, SequencesExt

CONSTANTS
  Objects,  \* handles of objects, which are also what filters name
  Scripts,  \* script types
  Keys,     \* keys, controls, external events
  MaxCalls, \* bound on the calls of scripts
  MaxLoads, \* bound on saves and reverts
  Gone      \* an object whose plugin is missing, no object

ASSUME RegAssumption ==
  /\ IsFiniteSet(Objects) /\ IsFiniteSet(Scripts) /\ IsFiniteSet(Keys)
  /\ Gone \notin Objects
  /\ MaxCalls \in Nat /\ MaxLoads \in Nat

Holders == {"KEYR", "CTLR"}
Subscribers == Objects \X Scripts
Registrations == [Holders \X Keys -> SUBSET Subscribers]

VARIABLES
  registered, \* m_data of the map holders
  furniture,  \* m_data of g_furnitureEventRegs: subscribers with their filters
  refs,       \* references to objects taken for registrations
  records,    \* F4SE's records in the co-save
  reading,    \* the next record while a load runs, 0 otherwise
  holder,     \* the map holder whose Load runs, or "core" for Core_LoadCallback
  resolve,    \* what ResolveHandle answers in this load
  missing,    \* script types that do not exist any more
  reverted,   \* Core_RevertCallback was the last to change the registrations
  calls, loads,
  saved,      \* the registrations at the time of the save
  restored,   \* a load has ended and no script has changed anything since
  wanted      \* the objects each subscriber named as filter, "all" if none

regVars == <<registered, furniture, refs, records, reading, holder, resolve, missing, reverted,
             calls, loads, saved, restored, wanted>>
load == <<reading, holder, resolve, missing>>

NoFilter == [s \in {} |-> {}]
Resolution == {f \in [Objects -> Objects \cup {Gone}] :
                 \A a, b \in Objects : f[a] = f[b] /\ f[a] # Gone => a = b}
Furniture == UNION {[S -> SUBSET Objects] : S \in SUBSET Subscribers}

RegTypeOK ==
  /\ registered \in Registrations /\ furniture \in Furniture
  /\ refs \in [Objects -> Nat]
  /\ reading \in 0..(Len(records) + 1) /\ holder \in Holders \cup {"core"}
  /\ resolve \in Resolution /\ missing \subseteq Scripts
  /\ reverted \in BOOLEAN /\ restored \in BOOLEAN
  /\ calls \in 0..MaxCalls /\ loads \in 0..MaxLoads
  /\ wanted \in [Subscribers -> SUBSET (Objects \cup {"all"})]

RegInit ==
  /\ registered = [h \in Holders \X Keys |-> {}] /\ furniture = NoFilter
  /\ refs = [o \in Objects |-> 0]
  /\ records = <<>> /\ reading = 0 /\ holder = "core"
  /\ resolve = [o \in Objects |-> o] /\ missing = {}
  /\ reverted = FALSE /\ restored = FALSE /\ calls = 0 /\ loads = 0
  /\ saved = <<registered, furniture>>
  /\ wanted = [s \in Subscribers |-> {}]

-----------------------------------------------------------------------------
(* A native function a script calls.                                       *)
ScriptCalls ==
  /\ reading = 0 /\ calls < MaxCalls /\ calls' = calls + 1
  /\ reverted' = FALSE /\ restored' = FALSE
  /\ UNCHANGED <<records, load, loads, saved>>

AddRef(s, isNew) == [refs EXCEPT ![s[1]] = IF isNew THEN @ + 1 ELSE @]
ReleaseRef(s, wasThere) == [refs EXCEPT ![s[1]] = IF wasThere THEN @ - 1 ELSE @]

RegisterFor(h, s) ==
  /\ ScriptCalls
  /\ refs' = AddRef(s, s \notin registered[h])
  /\ registered' = [registered EXCEPT ![h] = @ \cup {s}]
  /\ UNCHANGED <<furniture, wanted>>

UnregisterFor(h, s) ==
  /\ ScriptCalls
  /\ refs' = ReleaseRef(s, s \in registered[h])
  /\ registered' = [registered EXCEPT ![h] = @ \ {s}]
  /\ UNCHANGED <<furniture, wanted>>

(* An entry that is there keeps its filter.                                *)
Inserted(s, filter) ==
  [t \in DOMAIN furniture \cup {s} |-> IF t \in DOMAIN furniture THEN furniture[t] ELSE filter]

(* With an object, the filter of the existing entry, or an empty one, is   *)
(* registered; with None, None is searched for objects.                    *)
RegisterForFurnitureEvent(s, o) ==
  /\ ScriptCalls
  /\ IF o = Gone THEN UNCHANGED <<furniture, refs>>
     ELSE /\ refs' = AddRef(s, s \notin DOMAIN furniture)
          /\ furniture' = Inserted(s, {})
  /\ wanted' = [wanted EXCEPT ![s] = @ \cup {IF o = Gone THEN "all" ELSE o}]
  /\ UNCHANGED registered

UnregisterForFurnitureEvent(s, o) ==
  /\ ScriptCalls
  /\ IF o # Gone
       THEN /\ furniture' = [t \in DOMAIN furniture |->
                               IF t = s THEN furniture[t] \ {o} ELSE furniture[t]]
            /\ UNCHANGED refs
       ELSE /\ refs' = ReleaseRef(s, s \in DOMAIN furniture)
            /\ furniture' = [t \in DOMAIN furniture \ {s} |-> furniture[t]]
  /\ wanted' = [wanted EXCEPT ![s] = IF o = Gone THEN {} ELSE @ \ {o}]
  /\ UNCHANGED registered

(* F4SEFurnitureEventSink: whether a subscriber is told of an event.       *)
Hears(s, actor, place) ==
  /\ s \in DOMAIN furniture
  /\ furniture[s] = {} \/ actor \in furniture[s] \/ place \in furniture[s]

-----------------------------------------------------------------------------
(* Core_RevertCallback: Clear gives no reference back.                     *)
Revert ==
  /\ reading = 0 /\ loads < MaxLoads /\ loads' = loads + 1
  /\ registered' = [h \in Holders \X Keys |-> {}] /\ furniture' = NoFilter
  /\ wanted' = [s \in Subscribers |-> {}]
  /\ reverted' = TRUE /\ restored' = FALSE
  /\ UNCHANGED <<refs, records, load, calls, saved>>

(* The records of a map holder: its own, one for each key with subscribers,*)
(* and an end.                                                             *)
Used(regs, h) == SetToSeq({k \in Keys : regs[<<h, k>>] # {}})
HolderRecords(regs, h) ==
  <<[type |-> h]>>
  \o [i \in 1..Len(Used(regs, h)) |->
        [type |-> "REGS", key |-> Used(regs, h)[i], regs |-> regs[<<h, Used(regs, h)[i]>>]]]
  \o <<[type |-> "REGE"]>>

CoreRecords(regs, filters) ==
  HolderRecords(regs, "KEYR") \o HolderRecords(regs, "CTLR")
  \o <<[type |-> "FRNR", filters |-> filters]>>

Save ==
  /\ reading = 0 /\ ~reverted /\ loads < MaxLoads /\ loads' = loads + 1
  /\ records' = CoreRecords(registered, furniture)
  /\ saved' = <<registered, furniture>> /\ restored' = FALSE
  /\ UNCHANGED <<registered, furniture, refs, load, reverted, calls, wanted>>

(* Core_LoadCallback, with plugins and scripts as they are now.            *)
LoadBegin(answer, gone) ==
  /\ reading = 0 /\ reverted /\ records # <<>>
  /\ reading' = 1 /\ holder' = "core"
  /\ resolve' = answer /\ missing' = gone
  /\ UNCHANGED <<registered, furniture, refs, records, reverted, calls, loads, saved, restored,
                 wanted>>

Survives(s) == resolve[s[1]] # Gone /\ s[2] \notin missing
Moved(s) == <<resolve[s[1]], s[2]>>

(* RegistrationMapHolder::Load of one record.  Anything unexpected ends it.*)
LoadKey(record) ==
  LET h == <<holder, record.key>>
      new == {Moved(s) : s \in {t \in record.regs : Survives(t)}}
  IN /\ registered' = [registered EXCEPT ![h] = @ \cup new]
     /\ refs' = [o \in Objects |-> refs[o] + Cardinality({s \in new \ registered[h] : s[1] = o})]
     /\ UNCHANGED <<furniture, holder>>

LoadsOn == reading # 0 /\ reading <= Len(records) /\ reading' = reading + 1

(* A Load that does not stop at the end of its holder.                     *)
LoadHolderRecordOn ==
  /\ LoadsOn /\ holder # "core"
  /\ IF records[reading].type = "REGS" THEN LoadKey(records[reading])
     ELSE UNCHANGED <<registered, furniture, refs, holder>>
  /\ UNCHANGED <<records, resolve, missing, reverted, calls, loads, saved, restored, wanted>>

LoadHolderRecord ==
  /\ LoadsOn /\ holder # "core"
  /\ IF records[reading].type = "REGS" THEN LoadKey(records[reading])
     ELSE holder' = "core" /\ UNCHANGED <<registered, furniture, refs>>
  /\ UNCHANGED <<records, resolve, missing, reverted, calls, loads, saved, restored, wanted>>

(* RegistrationSetHolder::Load.  Objects of a filter that are gone leave it*)
LoadFurniture(filters) ==
  LET old(s) == CHOOSE t \in DOMAIN filters : Survives(t) /\ Moved(t) = s
      new == {Moved(t) : t \in {u \in DOMAIN filters : Survives(u)}}
  IN /\ furniture' = [s \in new \cup DOMAIN furniture |->
           IF s \in DOMAIN furniture THEN furniture[s]
           ELSE {resolve[o] : o \in filters[old(s)]} \ {Gone}]
     /\ refs' = [o \in Objects |->
           refs[o] + Cardinality({s \in new \ DOMAIN furniture : s[1] = o})]
     /\ UNCHANGED <<registered, holder>>

(* Core_LoadCallback gives a record to its holder; a record of no holder is*)
(* passed over.                                                            *)
LoadCoreRecord ==
  /\ LoadsOn /\ holder = "core"
  /\ LET record == records[reading]
     IN CASE record.type \in Holders ->
               holder' = record.type /\ UNCHANGED <<registered, furniture, refs>>
          [] record.type = "FRNR" -> LoadFurniture(record.filters)
          [] OTHER -> UNCHANGED <<registered, furniture, refs, holder>>
  /\ UNCHANGED <<records, resolve, missing, reverted, calls, loads, saved, restored, wanted>>

(* There is no further record.  From now on the scripts name the objects by*)
(* their new handles.                                                      *)
CoreLoadEnd ==
  /\ reading = Len(records) + 1 /\ records # <<>>
  /\ reading' = 0 /\ holder' = "core" /\ reverted' = FALSE /\ restored' = TRUE
  /\ wanted' = [s \in Subscribers |-> IF s \in DOMAIN furniture THEN {"all"} ELSE {}]
  /\ UNCHANGED <<registered, furniture, refs, records, resolve, missing, calls, loads, saved>>

RegNext ==
  \/ \E h \in Holders \X Keys, s \in Subscribers : RegisterFor(h, s) \/ UnregisterFor(h, s)
  \/ \E s \in Subscribers, o \in Objects \cup {Gone} :
       RegisterForFurnitureEvent(s, o) \/ UnregisterForFurnitureEvent(s, o)
  \/ Revert \/ Save
  \/ \E answer \in Resolution, gone \in SUBSET Scripts : LoadBegin(answer, gone)
  \/ LoadHolderRecord \/ LoadCoreRecord \/ CoreLoadEnd

RegSpec == RegInit /\ [][RegNext]_regVars

-----------------------------------------------------------------------------
(* Every object that is registered for something is referenced at least as *)
(* often, so that no registration names an object that was let go, through *)
(* repeated calls, reverts and loads in which objects change their handles.*)
KeyEntries(o) ==
  {e \in (Holders \X Keys) \X Subscribers : e[2] \in registered[e[1]] /\ e[2][1] = o}
FurnitureEntries(o) == {s \in DOMAIN furniture : s[1] = o}
Count(o) == Cardinality(KeyEntries(o)) + Cardinality(FurnitureEntries(o))

RegisteredAreReferenced == \A o \in Objects : Count(o) <= refs[o]

(* After a load every holder has what it had when the game was saved, under*)
(* the objects' new handles and without those that are gone: nothing is put*)
(* under another holder's key, and nothing is lost.                        *)
LoadRestores ==
  restored =>
    /\ \A h \in Holders \X Keys :
         registered[h] = {Moved(s) : s \in {t \in saved[1][h] : Survives(t)}}
    /\ DOMAIN furniture = {Moved(s) : s \in {t \in DOMAIN saved[2] : Survives(t)}}

(* A subscriber that named the objects it wants to hear of is not told of  *)
(* others.                                                                 *)
FiltersAreKept ==
  \A s \in Subscribers, actor, place \in Objects :
    Hears(s, actor, place) => wanted[s] \cap {"all", actor, place} # {}

(* PapyrusScriptObject.cpp, PapyrusObjectReference.cpp: what a script is   *)
(* registered for is kept across a save and a load under other handles,    *)
(* and an object is kept referenced as long as it is registered.           *)
RegistrationsSurvive == RegTypeOK /\ LoadRestores /\ RegisteredAreReferenced
=============================================================================
