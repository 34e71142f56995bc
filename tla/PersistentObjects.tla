-------------------------- MODULE PersistentObjects --------------------------
(***************************************************************************)
(* The storage of native objects that Papyrus scripts name by a handle     *)
(* (f4se/PapyrusObjects.cpp, F4SEPersistentObjectStorage).  A handle is an *)
(* index plus one, so that it is an index of the sequence data here.  The  *)
(* indices that are free are kept in a stack.                              *)
(*                                                                         *)
(* Store, Access and Take run under the lock and are one step each; the    *)
(* loops of CleanDroppedStacks, Save and Load, which F4SE runs while the   *)
(* scripts stand still, are a step for each turn.                          *)
(***************************************************************************)
EXTENDS Integers, Sequences, FiniteSets, Functions

CONSTANTS
  Objects,  \* objects that plugins may store
  Stacks,   \* stacks of the Papyrus VM
  NULL,     \* no object
  MaxLoads  \* bound on saves and reverts

ASSUME ObjectsAssumption == NULL \notin Objects
ASSUME LoadsAssumption == MaxLoads \in Nat

VARIABLES
  data,     \* data_: an object and the stack that owns it
  free,     \* freeIndices_
  phase,    \* where Save or Load is
  turn,     \* the next index or record of its loop
  file,     \* the last save
  unknown,  \* objects whose class has no factory in this load
  alive,    \* stacks that run
  handles,  \* the handle each script was given for an object
  most,     \* most objects stored at a time since the last revert
  loads

objectVars == <<data, free, phase, turn, file, unknown, alive, handles, most, loads>>

Entries == [obj : Objects \cup {NULL}, stack : Stacks \cup {NULL}]
NullEntry == [obj |-> NULL, stack |-> NULL]
Records == [obj : Objects, stack : Stacks \cup {NULL}, index : Nat]
Files == [size : Nat, filled : Nat, objs : Seq(Records), most : Nat,
          handles : [Objects -> Nat], alive : SUBSET Stacks]

Stored(o) == \E i \in DOMAIN data : data[i].obj = o
NullIndices == {i \in DOMAIN data : data[i].obj = NULL}
InUse == Cardinality({i \in DOMAIN data : data[i].obj # NULL})

ObjectTypeOK ==
  /\ data \in Seq(Entries) /\ free \in Seq(Nat)
  /\ phase \in {"run", "clean", "write", "read", "rebuild"} /\ turn \in Nat
  /\ unknown \subseteq Objects /\ alive \subseteq Stacks
  /\ handles \in [Objects -> Nat] /\ most \in Nat /\ loads \in Nat
  /\ file \in Files

ObjectInit ==
  /\ data = <<>> /\ free = <<>> /\ phase = "run" /\ turn = 0
  /\ unknown = {} /\ alive = Stacks /\ handles = [o \in Objects |-> 0] /\ most = 0 /\ loads = 0
  /\ file = [size |-> 0, filled |-> 0, objs |-> <<>>, most |-> 0,
             handles |-> [o \in Objects |-> 0], alive |-> {}]

-----------------------------------------------------------------------------
Store(o, s) ==
  /\ phase = "run" /\ s \in alive /\ ~Stored(o)
  /\ LET index == IF free = <<>> THEN Len(data) + 1 ELSE free[Len(free)]
         entry == [obj |-> o, stack |-> s]
     IN /\ data' = IF free = <<>> THEN Append(data, entry) ELSE [data EXCEPT ![index] = entry]
        /\ handles' = [handles EXCEPT ![o] = index]
        /\ free' = IF free = <<>> THEN free ELSE SubSeq(free, 1, Len(free) - 1)
  /\ most' = IF InUse + 1 > most THEN InUse + 1 ELSE most
  /\ UNCHANGED <<phase, turn, file, unknown, alive, loads>>

(* Take, of whatever handle a script still has; Access is the same with no *)
(* effect.                                                                 *)
Take(h) ==
  /\ phase = "run" /\ h \in DOMAIN data /\ data[h].obj # NULL
  /\ data' = [data EXCEPT ![h].obj = NULL] /\ free' = Append(free, h)
  /\ handles' = [handles EXCEPT ![data[h].obj] = 0]
  /\ UNCHANGED <<phase, turn, file, unknown, alive, most, loads>>

(* A stack ends, whether its objects were taken or not.                    *)
StackEnds(s) ==
  /\ phase = "run" /\ s \in alive /\ alive' = alive \ {s}
  /\ UNCHANGED <<data, free, phase, turn, file, unknown, handles, most, loads>>

StackStarts(s) ==
  /\ phase = "run" /\ s \notin alive /\ \A i \in DOMAIN data : data[i].obj # NULL => data[i].stack # s
  /\ alive' = alive \cup {s}
  /\ UNCHANGED <<data, free, phase, turn, file, unknown, handles, most, loads>>

-----------------------------------------------------------------------------
SaveBegin ==
  /\ phase = "run" /\ loads < MaxLoads /\ loads' = loads + 1
  /\ phase' = "clean" /\ turn' = 1
  /\ UNCHANGED <<data, free, file, unknown, alive, handles, most>>

(* One turn of CleanDroppedStacks; the loop goes on when it is through.    *)
Dropped(e) == e.obj # NULL /\ e.stack \notin alive

CleanOne ==
  /\ phase = "clean" /\ turn \in DOMAIN data /\ turn' = turn + 1
  /\ IF Dropped(data[turn])
       THEN /\ data' = [data EXCEPT ![turn].obj = NULL] /\ free' = Append(free, turn)
            /\ handles' = [handles EXCEPT ![data[turn].obj] = 0]
       ELSE UNCHANGED <<data, free, handles>>
  /\ UNCHANGED <<phase, file, unknown, alive, most, loads>>

(* Sizes with every entry taken for filled, or subtracted the other way.   *)
SaveSizesAll ==
  /\ phase = "clean" /\ turn \notin DOMAIN data
  /\ phase' = "write" /\ turn' = 1
  /\ file' = [size |-> Len(data), filled |-> Len(data), objs |-> <<>>,
              most |-> most, handles |-> handles, alive |-> alive]
  /\ UNCHANGED <<data, free, unknown, alive, handles, most, loads>>
SaveSizes ==
  /\ phase = "clean" /\ turn \notin DOMAIN data
  /\ phase' = "write" /\ turn' = 1
  /\ file' = [size |-> Len(data), filled |-> Len(data) - Len(free), objs |-> <<>>,
              most |-> most, handles |-> handles, alive |-> alive]
  /\ UNCHANGED <<data, free, unknown, alive, handles, most, loads>>

SaveOne ==
  /\ phase = "write" /\ turn \in DOMAIN data /\ turn' = turn + 1
  /\ file' = IF data[turn].obj = NULL THEN file
             ELSE [file EXCEPT !.objs = Append(@, [obj |-> data[turn].obj,
                                                   stack |-> data[turn].stack, index |-> turn])]
  /\ UNCHANGED <<data, free, phase, unknown, alive, handles, most, loads>>

SaveEnd ==
  /\ phase = "write" /\ turn \notin DOMAIN data /\ phase' = "run"
  /\ UNCHANGED <<data, free, turn, file, unknown, alive, handles, most, loads>>

-----------------------------------------------------------------------------
(* ClearAndRelease, and for a load the sizes that come first.              *)
Revert ==
  /\ phase = "run" /\ loads < MaxLoads /\ loads' = loads + 1
  /\ data' = <<>> /\ free' = <<>> /\ handles' = [o \in Objects |-> 0] /\ most' = 0
  /\ alive' = Stacks
  /\ UNCHANGED <<phase, turn, file, unknown>>

LoadSizes(gone) ==
  /\ phase = "run" /\ data = <<>> /\ free = <<>> /\ file.size > 0
  /\ data' = [i \in 1..file.size |-> NullEntry]
  /\ phase' = "read" /\ turn' = 1 /\ unknown' = gone
  /\ alive' = file.alive /\ most' = file.most
  /\ UNCHANGED <<free, file, handles, loads>>

(* An object that is put where it comes in the save.                       *)
LoadOneInOrder ==
  /\ phase = "read" /\ turn <= file.filled /\ turn' = turn + 1
  /\ IF turn \in DOMAIN file.objs /\ file.objs[turn].obj \notin unknown
       THEN LET r == file.objs[turn]
            IN /\ data' = [data EXCEPT ![turn] = [obj |-> r.obj, stack |-> r.stack]]
               /\ handles' = [handles EXCEPT ![r.obj] = file.handles[r.obj]]
       ELSE UNCHANGED <<data, handles>>
  /\ UNCHANGED <<free, phase, file, unknown, alive, most, loads>>

(* One object, if it can be read; the script has the handle it had.        *)
LoadOne ==
  /\ phase = "read" /\ turn <= file.filled /\ turn' = turn + 1
  /\ IF turn \in DOMAIN file.objs /\ file.objs[turn].obj \notin unknown
       THEN LET r == file.objs[turn]
            IN /\ data' = [data EXCEPT ![r.index] = [obj |-> r.obj, stack |-> r.stack]]
               /\ handles' = [handles EXCEPT ![r.obj] = file.handles[r.obj]]
       ELSE UNCHANGED <<data, handles>>
  /\ UNCHANGED <<free, phase, file, unknown, alive, most, loads>>

LoadRead ==
  /\ phase = "read" /\ turn > file.filled /\ phase' = "rebuild" /\ turn' = 1
  /\ UNCHANGED <<data, free, file, unknown, alive, handles, most, loads>>

RebuildOne ==
  /\ phase = "rebuild" /\ turn \in DOMAIN data /\ turn' = turn + 1
  /\ free' = IF data[turn].obj = NULL THEN Append(free, turn) ELSE free
  /\ UNCHANGED <<data, phase, file, unknown, alive, handles, most, loads>>

LoadEnd ==
  /\ phase = "rebuild" /\ turn \notin DOMAIN data /\ phase' = "run"
  /\ UNCHANGED <<data, free, turn, file, unknown, alive, handles, most, loads>>

Scripts ==
  \/ \E o \in Objects, s \in Stacks : Store(o, s)
  \/ \E h \in DOMAIN data : Take(h)
  \/ \E s \in Stacks : StackEnds(s) \/ StackStarts(s)
Saving == SaveBegin \/ CleanOne \/ SaveSizes \/ SaveOne \/ SaveEnd
Loading == Revert \/ (\E gone \in SUBSET Objects : LoadSizes(gone)) \/ LoadOne \/ LoadRead
             \/ RebuildOne \/ LoadEnd

ObjectNext == Scripts \/ Saving \/ Loading
ObjectSpec == ObjectInit /\ [][ObjectNext]_objectVars

-----------------------------------------------------------------------------
(* The free indices are those without an object, each once: no handle is   *)
(* given to two objects, and none is forgotten.  The next turns of a load  *)
(* bring the ones that are left.                                           *)
FreeIndicesAreNull ==
  /\ \A i, j \in DOMAIN free : free[i] = free[j] => i = j
  /\ Range(free) = IF phase = "read" THEN {}
                   ELSE IF phase = "rebuild" THEN {i \in NullIndices : i < turn}
                   ELSE NullIndices

(* A handle a script was given names its object until it is taken or the   *)
(* script's stack is found dropped, across saves, reverts and loads.       *)
HandlesNameTheirObject ==
  \A o \in Objects : handles[o] # 0 => handles[o] \in DOMAIN data /\ data[handles[o]].obj = o

(* Handles and free indices share the storage between them.                *)
HandlesHold == FreeIndicesAreNull /\ HandlesNameTheirObject

(* The number of objects that a save announces is that of those it writes: *)
(* a load reads them all and nothing else.                                 *)
AnnouncedAreWritten == phase = "run" => Len(file.objs) = file.filled

(* The storage never grows beyond what was in use at one time: indices are *)
(* used again, those of dropped stacks and those of a load included.       *)
GrowsToWhatIsUsed == Len(data) <= most

(* A save leaves nothing that a stack that no longer runs has forgotten.   *)
SaveDropsForgotten ==
  [][SaveSizes => \A i \in DOMAIN data : data[i].obj # NULL => data[i].stack \in alive]_objectVars

(* PapyrusObjects.h: a save announces as many objects as it writes and     *)
(* drops those of forgotten scripts, and the storage never grows beyond    *)
(* what was in use at one time.                                            *)
StorageIsKept ==
  /\ [](ObjectTypeOK /\ AnnouncedAreWritten /\ GrowsToWhatIsUsed)
  /\ SaveDropsForgotten
=============================================================================
