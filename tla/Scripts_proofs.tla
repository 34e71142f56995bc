---------------------------- MODULE Scripts_proofs ----------------------------
(***************************************************************************)
(* What scripts hand to F4SE.  Of native objects: the stack of free indices*)
(* holds the indices without an object, each once, a handle names the      *)
(* object it was given for, and a save announces what it writes, for any   *)
(* number of objects, stacks, saves and loads, and whatever classes are    *)
(* missing in a load.  Of arrays: a native function has the array that the *)
(* script passed, and the script finds in its own what was done to it, for *)
(* any items, lengths and changes.  Of weapons and armor: what a script    *)
(* sets is what it reads, and no item's data is that of its form, for any  *)
(* values, owners, and threads that use the same list of extra data.       *)
(***************************************************************************)
EXTENDS PersistentObjects, NativeCalls, InstanceData, FiniteSetTheorems, SequenceTheorems,
        WellFoundedInduction, TLAPS

Distinct(s) == \A i, j \in DOMAIN s : s[i] = s[j] => i = j

(* What the free indices should be.                                        *)
Expected == IF phase = "read" THEN {}
            ELSE IF phase = "rebuild" THEN {i \in NullIndices : i < turn}
            ELSE NullIndices

Shape ==
  /\ data \in Seq(Entries) /\ free \in Seq(Nat)
  /\ {"size", "objs"} \subseteq DOMAIN file /\ file.size \in Nat /\ file.objs \in Seq(Records)
  /\ phase \in {"run", "clean", "write", "read", "rebuild"}
  /\ turn \in Nat /\ (phase = "rebuild" => turn > 0)

FreeInv == Shape /\ Distinct(free) /\ Range(free) = Expected

-----------------------------------------------------------------------------
LEMMA PushIndex ==
  ASSUME NEW s \in Seq(Nat), Distinct(s), NEW h \in Nat, h \notin Range(s)
  PROVE  /\ Append(s, h) \in Seq(Nat) /\ Distinct(Append(s, h))
         /\ Range(Append(s, h)) = Range(s) \cup {h}
PROOF
<1> DEFINE t == Append(s, h)
<1>1. /\ t \in Seq(Nat) /\ Len(t) = Len(s) + 1 /\ t[Len(s) + 1] = h
      /\ \A i \in 1..Len(s) : t[i] = s[i]
  BY AppendProperties
<1>2. DOMAIN t = 1..(Len(s) + 1) /\ DOMAIN s = 1..Len(s) /\ Len(s) \in Nat
  BY <1>1
<1> HIDE DEF t
<1>3. Range(t) = Range(s) \cup {h}
  BY <1>1, <1>2 DEF Range
<1>4. ASSUME NEW i \in DOMAIN t, NEW j \in DOMAIN t, t[i] = t[j] PROVE i = j
  <2>1. CASE i \in DOMAIN s /\ j \in DOMAIN s
    BY <1>1, <1>2, <1>4, <2>1 DEF Distinct
  <2>2. CASE i = Len(s) + 1 /\ j \in DOMAIN s
    BY <1>1, <1>2, <1>4, <2>2 DEF Range
  <2>3. CASE j = Len(s) + 1 /\ i \in DOMAIN s
    BY <1>1, <1>2, <1>4, <2>3 DEF Range
  <2>4. CASE i = Len(s) + 1 /\ j = Len(s) + 1
    BY <2>4
  <2> QED
    BY <1>2, <2>1, <2>2, <2>3, <2>4
<1> QED
  BY <1>1, <1>3, <1>4 DEF t, Distinct

LEMMA PopIndex ==
  ASSUME NEW s \in Seq(Nat), Distinct(s), s # <<>>
  PROVE  LET t == SubSeq(s, 1, Len(s) - 1)
         IN  /\ t \in Seq(Nat) /\ Distinct(t) /\ s[Len(s)] \in Range(s)
             /\ Range(t) = Range(s) \ {s[Len(s)]}
PROOF
<1> DEFINE t == SubSeq(s, 1, Len(s) - 1)
<1>1. Len(s) \in Nat /\ Len(s) > 0 /\ DOMAIN s = 1..Len(s)
  BY EmptySeq
<1>2. /\ t \in Seq(Nat) /\ Len(t) = Len(s) - 1
      /\ \A i \in 1..(Len(s) - 1) : t[i] = s[i]
  BY <1>1, SubSeqProperties
<1>3. DOMAIN t = 1..(Len(s) - 1)
  BY <1>1, <1>2
<1> HIDE DEF t
<1>4. s[Len(s)] \in Range(s)
  BY <1>1 DEF Range
<1>5. ASSUME NEW x \in Range(t) PROVE x \in Range(s) \ {s[Len(s)]}
  <2>1. PICK i \in DOMAIN t : x = t[i]
    BY <1>5 DEF Range
  <2>2. i \in DOMAIN s /\ i # Len(s) /\ x = s[i]
    BY <1>1, <1>2, <1>3, <2>1, SMTT(40)
  <2>3. Len(s) \in DOMAIN s
    BY <1>1
  <2> QED
    BY <2>2, <2>3 DEF Range, Distinct
<1>6. ASSUME NEW x \in Range(s) \ {s[Len(s)]} PROVE x \in Range(t)
  <2>1. PICK i \in DOMAIN s : x = s[i]
    BY <1>6 DEF Range
  <2>2. i \in 1..(Len(s) - 1)
    BY <1>1, <1>6, <2>1
  <2> QED
    BY <1>2, <1>3, <2>1, <2>2 DEF Range
<1>7. ASSUME NEW i \in DOMAIN t, NEW j \in DOMAIN t, t[i] = t[j] PROVE i = j
  <2>1. i \in 1..(Len(s) - 1) /\ j \in 1..(Len(s) - 1)
    BY <1>3
  <2>2. t[i] = s[i] /\ t[j] = s[j]
    BY <1>2, <2>1
  <2>3. i \in DOMAIN s /\ j \in DOMAIN s
    BY <1>1, <2>1
  <2> QED
    BY <1>7, <2>2, <2>3 DEF Distinct
<1> QED
  BY <1>2, <1>4, <1>5, <1>6, <1>7 DEF t, Distinct

-----------------------------------------------------------------------------
LEMMA FreeInit == ObjectInit => FreeInv
PROOF
  BY DEF ObjectInit, FreeInv, Shape, Distinct, Range, Expected, NullIndices

LEMMA StoreKeepsFree ==
  ASSUME FreeInv, NEW o \in Objects, NEW s \in Stacks, Store(o, s)
  PROVE  FreeInv'
PROOF
<1> DEFINE entry == [obj |-> o, stack |-> s]
           n == Len(free)
<1>1. entry \in Entries /\ entry.obj # NULL
  BY ObjectsAssumption DEF Entries
<1>2. phase = "run" /\ phase' = "run" /\ turn' = turn /\ file' = file
  BY DEF Store
<1>3. CASE free = <<>>
  <2>1. data' = Append(data, entry) /\ free' = free
    BY <1>3 DEF Store
  <2>2. data' \in Seq(Entries) /\ Len(data') = Len(data) + 1
        /\ data'[Len(data) + 1] = entry /\ \A i \in 1..Len(data) : data'[i] = data[i]
    BY <1>1, <2>1, AppendProperties DEF FreeInv, Shape
  <2>3. DOMAIN data = 1..Len(data) /\ DOMAIN data' = 1..(Len(data) + 1) /\ Len(data) \in Nat
    BY <2>2 DEF FreeInv, Shape
  <2>4. NullIndices' = NullIndices
    BY <1>1, <2>2, <2>3 DEF NullIndices
  <2> QED
    BY <1>2, <2>1, <2>2, <2>4 DEF FreeInv, Shape, Expected
<1>4. CASE free # <<>>
  <2>1. data' = [data EXCEPT ![free[n]] = entry] /\ free' = SubSeq(free, 1, n - 1)
    BY <1>4 DEF Store
  <2>2. free[n] \in NullIndices /\ Range(free') = NullIndices \ {free[n]}
        /\ free' \in Seq(Nat) /\ Distinct(free')
    BY <1>2, <1>4, <2>1, PopIndex DEF FreeInv, Shape, Expected
  <2>3. data' \in Seq(Entries) /\ DOMAIN data' = DOMAIN data
    <3>1. data \in Seq(Entries) /\ free[n] \in DOMAIN data
      BY <2>2 DEF FreeInv, Shape, NullIndices
    <3> QED
      BY <1>1, <2>1, <3>1, ExceptSeq
  <2>4. NullIndices' = NullIndices \ {free[n]}
    BY <1>1, <2>1, <2>2, <2>3 DEF NullIndices
  <2> QED
    BY <1>2, <2>2, <2>3, <2>4 DEF FreeInv, Shape, Expected
<1> QED
  BY <1>3, <1>4

(* Taking the object of an index out and pushing the index.                *)
LEMMA ReleaseKeepsFree ==
  ASSUME FreeInv, phase \in {"run", "clean"}, phase' = phase, turn' \in Nat, file' = file,
         NEW h \in DOMAIN data, data[h].obj # NULL,
         data' = [data EXCEPT ![h].obj = NULL], free' = Append(free, h)
  PROVE  FreeInv'
PROOF
<1>1. data \in Seq(Entries) /\ free \in Seq(Nat) /\ Range(free) = NullIndices /\ Distinct(free)
  BY DEF FreeInv, Shape, Expected
<1>2. DOMAIN data = 1..Len(data) /\ h \in Nat /\ data[h] \in Entries
  BY <1>1
<1>3. h \notin NullIndices
  BY DEF NullIndices
<1>4. free' \in Seq(Nat) /\ Distinct(free') /\ Range(free') = NullIndices \cup {h}
  BY <1>1, <1>2, <1>3, PushIndex
<1>5. [data[h] EXCEPT !.obj = NULL] \in Entries
  BY <1>2 DEF Entries
<1>6. data' \in Seq(Entries) /\ DOMAIN data' = DOMAIN data
  BY <1>1, <1>5
<1>7. NullIndices' = NullIndices \cup {h}
  BY <1>2, <1>6 DEF NullIndices, Entries
<1> QED
  BY <1>4, <1>6, <1>7 DEF FreeInv, Shape, Expected

LEMMA FreeStep == FreeInv /\ [ObjectNext]_objectVars => FreeInv'
PROOF
<1> SUFFICES ASSUME FreeInv, [ObjectNext]_objectVars PROVE FreeInv'
  OBVIOUS
<1>1. ASSUME NEW o \in Objects, NEW s \in Stacks, Store(o, s) PROVE FreeInv'
  BY <1>1, StoreKeepsFree
<1>2. ASSUME NEW h \in DOMAIN data, Take(h) PROVE FreeInv'
  <2>1. turn \in Nat
    BY DEF FreeInv, Shape
  <2> QED
    BY <1>2, <2>1, ReleaseKeepsFree DEF Take
<1>3. CASE CleanOne
  <2>1. turn \in Nat /\ turn' \in Nat /\ phase' = phase /\ phase = "clean" /\ file' = file
    BY <1>3 DEF CleanOne, FreeInv, Shape
  <2>2. CASE Dropped(data[turn])
    BY <1>3, <2>1, <2>2, ReleaseKeepsFree DEF CleanOne, Dropped
  <2>3. CASE ~Dropped(data[turn])
    BY <1>3, <2>1, <2>3 DEF CleanOne, FreeInv, Shape, Expected, NullIndices
  <2> QED
    BY <2>2, <2>3
<1>4. ASSUME NEW gone \in SUBSET Objects, LoadSizes(gone) PROVE FreeInv'
  <2>1. NullEntry \in Entries
    BY DEF NullEntry, Entries
  <2>2. data' \in Seq(Entries)
    BY <1>4, <2>1 DEF LoadSizes, FreeInv, Shape
  <2>3. /\ free' = <<>> /\ phase' = "read" /\ turn' = 1 /\ file' = file
    BY <1>4 DEF LoadSizes
  <2>4. free' \in Seq(Nat) /\ Range(free') = {} /\ Distinct(free')
    BY <2>3 DEF Range, Distinct
  <2> QED
    BY <2>2, <2>3, <2>4 DEF FreeInv, Shape, Expected
<1>5. CASE LoadOne
  <2>1. phase = "read" /\ phase' = "read" /\ turn' = turn + 1 /\ free' = free /\ file' = file
    BY <1>5 DEF LoadOne
  <2>2. data' \in Seq(Entries)
    <3>1. CASE UNCHANGED data
      BY <3>1 DEF FreeInv, Shape
    <3>2. CASE ~UNCHANGED data
      <4> DEFINE r == file.objs[turn]
      <4>1. data' = [data EXCEPT ![r.index] = [obj |-> r.obj, stack |-> r.stack]]
        BY <1>5, <3>2 DEF LoadOne
      <4>2. turn \in DOMAIN file.objs /\ file.objs \in Seq(Records)
        BY <1>5, <3>2 DEF LoadOne, FreeInv, Shape
      <4>3. r \in Records
        BY <4>2
      <4>4. [obj |-> r.obj, stack |-> r.stack] \in Entries
        BY <4>3 DEF Records, Entries
      <4>5. r.index \in DOMAIN data
        BY <3>2, <4>1 DEF FreeInv, Shape
      <4> QED
        BY <4>1, <4>4, <4>5, ExceptSeq DEF FreeInv, Shape
    <3> QED
      BY <3>1, <3>2
  <2> QED
    BY <2>1, <2>2 DEF FreeInv, Shape, Expected
<1>6. CASE LoadRead
  BY <1>6 DEF LoadRead, FreeInv, Shape, Expected, NullIndices
<1>7. CASE RebuildOne
  <2>1. /\ phase = "rebuild" /\ phase' = "rebuild" /\ turn' = turn + 1 /\ turn \in DOMAIN data
        /\ data' = data /\ file' = file /\ turn \in Nat /\ free \in Seq(Nat) /\ Distinct(free)
        /\ DOMAIN data \subseteq Nat
    BY <1>7 DEF RebuildOne, FreeInv, Shape
  <2>2. Range(free) = {i \in NullIndices : i < turn}
    BY <2>1 DEF FreeInv, Expected
  <2>3. NullIndices \subseteq Nat
    BY <2>1 DEF NullIndices
  <2>4. CASE data[turn].obj = NULL
    <3>1. free' = Append(free, turn) /\ turn \notin Range(free)
      BY <1>7, <2>1, <2>2, <2>4 DEF RebuildOne
    <3>2. free' \in Seq(Nat) /\ Distinct(free') /\ Range(free') = Range(free) \cup {turn}
      BY <2>1, <3>1, PushIndex
    <3>3. {i \in NullIndices : i < turn + 1} = {i \in NullIndices : i < turn} \cup {turn}
      BY <2>1, <2>3, <2>4 DEF NullIndices
    <3> QED
      BY <2>1, <2>2, <3>2, <3>3 DEF FreeInv, Shape, Expected, NullIndices
  <2>5. CASE data[turn].obj # NULL
    <3>1. {i \in NullIndices : i < turn + 1} = {i \in NullIndices : i < turn}
      BY <2>1, <2>3, <2>5 DEF NullIndices
    <3>2. free' = free
      BY <1>7, <2>5 DEF RebuildOne
    <3> QED
      BY <2>1, <2>2, <3>1, <3>2 DEF FreeInv, Shape, Expected, NullIndices
  <2> QED
    BY <2>4, <2>5
<1>8. CASE LoadEnd
  <2>1. /\ phase = "rebuild" /\ phase' = "run" /\ UNCHANGED <<data, free, turn, file>>
        /\ turn \notin DOMAIN data /\ turn \in Nat /\ turn > 0 /\ data \in Seq(Entries)
    BY <1>8 DEF LoadEnd, FreeInv, Shape
  <2>2. \A i \in DOMAIN data : i < turn
    BY <2>1
  <2>3. {i \in NullIndices : i < turn} = NullIndices
    BY <2>2 DEF NullIndices
  <2> QED
    BY <2>1, <2>3 DEF FreeInv, Shape, Expected, NullIndices
<1>9. CASE Revert
  <2>1. /\ data' = <<>> /\ free' = <<>> /\ phase' = "run" /\ turn' = turn /\ file' = file
        /\ data' \in Seq(Entries) /\ free' \in Seq(Nat)
    BY <1>9 DEF Revert, FreeInv, Shape
  <2>2. Range(free') = {} /\ Distinct(free') /\ NullIndices' = {}
    BY <2>1 DEF Range, Distinct, NullIndices
  <2> QED
    BY <2>1, <2>2 DEF FreeInv, Shape, Expected
<1>10. CASE SaveBegin \/ SaveSizes \/ SaveOne \/ SaveEnd
  <2>1. data' = data /\ free' = free
    BY <1>10 DEF SaveBegin, SaveSizes, SaveOne, SaveEnd
  <2>2. /\ turn' \in Nat /\ phase' \in {"run", "clean", "write"}
        /\ phase \in {"run", "clean", "write"}
    BY <1>10 DEF SaveBegin, SaveSizes, SaveOne, SaveEnd, FreeInv, Shape
  <2>3. /\ {"size", "objs"} \subseteq DOMAIN file' /\ file'.size \in Nat
        /\ file'.objs \in Seq(Records)
    <3>1. CASE SaveSizes
      <4>1. file'.size = Len(data) /\ file'.objs = <<>> /\ {"size", "objs"} \subseteq DOMAIN file'
        BY <3>1 DEF SaveSizes
      <4> QED
        BY <4>1 DEF FreeInv, Shape
    <3>2. CASE SaveOne
      <4> DEFINE r == [obj |-> data[turn].obj, stack |-> data[turn].stack, index |-> turn]
      <4>1. CASE data[turn].obj = NULL
        BY <3>2, <4>1 DEF SaveOne, FreeInv, Shape
      <4>2. CASE data[turn].obj # NULL
        <5>1. file' = [file EXCEPT !.objs = Append(@, r)] /\ turn \in DOMAIN data
          BY <3>2, <4>2 DEF SaveOne
        <5>2. data[turn] \in Entries /\ turn \in Nat
          BY <5>1 DEF FreeInv, Shape
        <5>3. r \in Records
          BY <4>2, <5>2 DEF Entries, Records
        <5>4. Append(file.objs, r) \in Seq(Records)
          BY <5>3 DEF FreeInv, Shape
        <5> QED
          BY <5>1, <5>4 DEF FreeInv, Shape
      <4> QED
        BY <4>1, <4>2
    <3>3. CASE SaveBegin \/ SaveEnd
      BY <3>3 DEF SaveBegin, SaveEnd, FreeInv, Shape
    <3> QED
      BY <1>10, <3>1, <3>2, <3>3
  <2> QED
    BY <2>1, <2>2, <2>3 DEF FreeInv, Shape, Expected, NullIndices
<1>11. ASSUME NEW s \in Stacks, StackEnds(s) \/ StackStarts(s) PROVE FreeInv'
  BY <1>11 DEF StackEnds, StackStarts, FreeInv, Shape, Expected, NullIndices
<1>12. CASE UNCHANGED objectVars
  BY <1>12 DEF objectVars, FreeInv, Shape, Expected, NullIndices
<1> QED
  BY <1>1, <1>2, <1>3, <1>4, <1>5, <1>6, <1>7, <1>8, <1>9, <1>10, <1>11, <1>12
  DEF ObjectNext, Scripts, Saving, Loading

(* The free indices are those without an object and no index is there      *)
(* twice, so that Store gives every handle to one object: freeIndices_ and *)
(* data_ agree after any stores, takes, saves and loads.                   *)
THEOREM NoHandleTwice == ObjectSpec => []FreeIndicesAreNull
PROOF
<1>1. FreeInv => FreeIndicesAreNull
  BY DEF FreeInv, FreeIndicesAreNull, Distinct, Expected
<1> QED
  BY <1>1, FreeInit, FreeStep, PTL DEF ObjectSpec

-----------------------------------------------------------------------------
(* For the handles: no object is stored twice, a save is a copy of the     *)
(* handles at its time, and a load gives nobody another handle than that.  *)
HandlesMatchData ==
  /\ \A o \in Objects : handles[o] # 0 => handles[o] \in DOMAIN data /\ data[handles[o]].obj = o
  /\ \A i \in DOMAIN data : data[i].obj # NULL => handles[data[i].obj] = i

CopyOfObjects ==
  /\ "handles" \in DOMAIN file /\ file.handles \in [Objects -> Nat]
  /\ \A p, q \in Objects : file.handles[p] = file.handles[q] /\ file.handles[p] # 0 => p = q
  /\ \A k \in DOMAIN file.objs :
       LET r == file.objs[k]
       IN r.index = file.handles[r.obj] /\ r.index \in 1..file.size
  /\ phase = "write" => file.handles = handles /\ file.size = Len(data)
  /\ phase = "read" => Len(data) = file.size /\ \A o \in Objects : handles[o] \in {0, file.handles[o]}

HandleInv == FreeInv /\ handles \in [Objects -> Nat] /\ HandlesMatchData /\ CopyOfObjects

LEMMA EntryType ==
  ASSUME Shape, NEW i \in DOMAIN data
  PROVE  /\ data[i] \in Entries /\ i \in Nat
         /\ data[i].obj \in Objects \cup {NULL} /\ data[i].stack \in Stacks \cup {NULL}
PROOF
<1>1. data[i] \in Entries /\ i \in Nat
  BY DEF Shape
<1> QED
  BY <1>1 DEF Entries

LEMMA RecordType ==
  ASSUME Shape, NEW k \in DOMAIN file.objs
  PROVE  file.objs[k] \in Records /\ file.objs[k].obj \in Objects
PROOF
<1>1. file.objs[k] \in Records
  BY DEF Shape
<1> QED
  BY <1>1 DEF Records

LEMMA HandleInit == ObjectInit => HandleInv
PROOF
  BY FreeInit DEF ObjectInit, HandleInv, HandlesMatchData, CopyOfObjects

LEMMA StoreKeepsHandles ==
  ASSUME HandleInv, NEW o \in Objects, NEW s \in Stacks, Store(o, s)
  PROVE  HandleInv'
PROOF
<1> DEFINE entry == [obj |-> o, stack |-> s]
           index == IF free = <<>> THEN Len(data) + 1 ELSE free[Len(free)]
<1>1. FreeInv'
  BY StoreKeepsFree DEF HandleInv
<1>2. /\ data \in Seq(Entries) /\ free \in Seq(Nat) /\ entry \in Entries
      /\ entry.obj = o /\ o # NULL /\ handles \in [Objects -> Nat]
      /\ DOMAIN data = 1..Len(data) /\ Len(data) \in Nat
  BY ObjectsAssumption DEF HandleInv, FreeInv, Shape, Entries
<1>3. free # <<>> => index \in NullIndices
  <2>1. Range(free) = NullIndices /\ Distinct(free)
    BY DEF HandleInv, FreeInv, Expected, Store
  <2> QED
    BY <1>2, <2>1, PopIndex
<1>4. /\ index \in Nat \ {0} /\ index \in DOMAIN data' /\ data'[index] = entry
      /\ \A i \in DOMAIN data' : i # index => i \in DOMAIN data /\ data'[i] = data[i]
      /\ \A i \in DOMAIN data : i # index => i \in DOMAIN data' /\ data'[i] = data[i]
  <2>1. CASE free = <<>>
    <3>1. data' = Append(data, entry)
      BY <2>1 DEF Store
    <3> QED
      BY <1>2, <2>1, <3>1, AppendProperties
  <2>2. CASE free # <<>>
    <3>1. data' = [data EXCEPT ![index] = entry] /\ index \in DOMAIN data
      BY <1>3, <2>2 DEF Store, NullIndices
    <3> QED
      BY <1>2, <3>1
  <2> QED
    BY <2>1, <2>2
<1>5. index \in DOMAIN data => data[index].obj = NULL
  BY <1>2, <1>3 DEF NullIndices
<1>6. handles' = [handles EXCEPT ![o] = index] /\ handles' \in [Objects -> Nat]
  BY <1>2, <1>4 DEF Store
<1> HIDE DEF index, entry
<1>7. ASSUME NEW p \in Objects, handles'[p] # 0
      PROVE  handles'[p] \in DOMAIN data' /\ data'[handles'[p]].obj = p
  <2>1. CASE p = o
    BY <1>2, <1>4, <1>6, <2>1
  <2>2. CASE p # o
    <3>1. handles'[p] = handles[p] /\ handles[p] \in DOMAIN data /\ data[handles[p]].obj = p
      BY <1>2, <1>6, <1>7, <2>2 DEF HandleInv, HandlesMatchData
    <3>2. handles[p] # index
      BY <1>5, <3>1, ObjectsAssumption
    <3> QED
      BY <1>4, <3>1, <3>2
  <2> QED
    BY <2>1, <2>2
<1>8. ASSUME NEW i \in DOMAIN data', data'[i].obj # NULL PROVE handles'[data'[i].obj] = i
  <2>1. CASE i = index
    BY <1>2, <1>4, <1>6, <2>1
  <2>2. CASE i # index
    <3>1. i \in DOMAIN data /\ data'[i] = data[i]
      BY <1>4, <2>2
    <3>2. data[i].obj # o
      BY <3>1 DEF Store, Stored
    <3>3. data[i].obj \in Objects
      BY <1>8, <3>1, EntryType DEF HandleInv, FreeInv
    <3> QED
      BY <1>2, <1>6, <1>8, <3>1, <3>2, <3>3 DEF HandleInv, HandlesMatchData
  <2> QED
    BY <2>1, <2>2
<1>9. CopyOfObjects'
  BY DEF HandleInv, CopyOfObjects, Store
<1> QED
  BY <1>1, <1>6, <1>7, <1>8, <1>9 DEF HandleInv, HandlesMatchData

LEMMA ReleaseKeepsHandles ==
  ASSUME HandleInv, FreeInv', phase \in {"run", "clean"}, phase' = phase, file' = file,
         NEW h \in DOMAIN data, data[h].obj # NULL,
         data' = [data EXCEPT ![h].obj = NULL],
         handles' = [handles EXCEPT ![data[h].obj] = 0]
  PROVE  HandleInv'
PROOF
<1>1. /\ data \in Seq(Entries) /\ handles \in [Objects -> Nat] /\ DOMAIN data' = DOMAIN data
      /\ handles' \in [Objects -> Nat]
  BY DEF HandleInv, FreeInv, Shape
<1>2. data[h].obj \in Objects /\ handles[data[h].obj] = h
  BY EntryType DEF HandleInv, FreeInv, HandlesMatchData
<1>3. data'[h].obj = NULL /\ \A i \in DOMAIN data : i # h => data'[i] = data[i]
  <2>1. data[h] \in Entries
    BY EntryType DEF HandleInv, FreeInv
  <2>2. [data[h] EXCEPT !.obj = NULL].obj = NULL
    BY <2>1 DEF Entries
  <2> QED
    BY <1>1, <2>2
<1>4. ASSUME NEW p \in Objects, handles'[p] # 0
      PROVE  handles'[p] \in DOMAIN data' /\ data'[handles'[p]].obj = p
  <2>1. p # data[h].obj /\ handles'[p] = handles[p]
    BY <1>1, <1>2, <1>4
  <2>2. handles[p] \in DOMAIN data /\ data[handles[p]].obj = p /\ handles[p] # h
    BY <1>4, <2>1 DEF HandleInv, HandlesMatchData
  <2> QED
    BY <1>1, <1>3, <2>1, <2>2
<1>5. ASSUME NEW i \in DOMAIN data', data'[i].obj # NULL PROVE handles'[data'[i].obj] = i
  <2>1. i \in DOMAIN data /\ i # h /\ data'[i] = data[i]
    BY <1>1, <1>3, <1>5
  <2>2. data[i].obj \in Objects /\ handles[data[i].obj] = i
    BY <1>5, <2>1, EntryType DEF HandleInv, FreeInv, HandlesMatchData
  <2>3. data[i].obj # data[h].obj
    BY <1>2, <2>1, <2>2
  <2> QED
    BY <1>1, <1>2, <2>1, <2>2, <2>3
<1>6. CopyOfObjects'
  BY DEF HandleInv, CopyOfObjects
<1> QED
  BY <1>1, <1>4, <1>5, <1>6 DEF HandleInv, HandlesMatchData

LEMMA LoadKeepsHandles ==
  ASSUME HandleInv, FreeInv', LoadOne
  PROVE  HandleInv'
PROOF
<1>1. CASE UNCHANGED <<data, handles>>
  BY <1>1 DEF LoadOne, HandleInv, HandlesMatchData, CopyOfObjects
<1>2. CASE ~UNCHANGED <<data, handles>>
  <2> DEFINE r == file.objs[turn]
             entry == [obj |-> r.obj, stack |-> r.stack]
  <2>1. /\ turn \in DOMAIN file.objs /\ phase = "read" /\ phase' = "read" /\ file' = file
        /\ data' = [data EXCEPT ![r.index] = entry]
        /\ handles' = [handles EXCEPT ![r.obj] = file.handles[r.obj]]
    BY <1>2 DEF LoadOne
  <2>2. /\ data \in Seq(Entries) /\ file.objs \in Seq(Records) /\ DOMAIN data = 1..Len(data)
        /\ handles \in [Objects -> Nat] /\ file.handles \in [Objects -> Nat]
        /\ Len(data) = file.size
    BY <2>1 DEF HandleInv, FreeInv, Shape, CopyOfObjects
  <2>3. r \in Records /\ r.obj \in Objects /\ r.obj # NULL
    BY <2>1, RecordType, ObjectsAssumption DEF HandleInv, FreeInv
  <2>4. r.index = file.handles[r.obj] /\ r.index \in DOMAIN data /\ r.index # 0
    BY <2>1, <2>2 DEF HandleInv, CopyOfObjects
  <2>5. /\ DOMAIN data' = DOMAIN data /\ data'[r.index] = entry /\ entry.obj = r.obj
        /\ \A i \in DOMAIN data : i # r.index => data'[i] = data[i]
    BY <2>1, <2>2, <2>4
  <2>6. /\ handles' \in [Objects -> Nat] /\ handles'[r.obj] = r.index
        /\ \A p \in Objects : p # r.obj => handles'[p] = handles[p]
    BY <2>1, <2>2, <2>3, <2>4
  <2> HIDE DEF r, entry
  <2>7. ASSUME NEW p \in Objects, p # r.obj, handles[p] # 0 PROVE handles[p] # r.index
    <3>1. handles[p] = file.handles[p]
      BY <2>1, <2>7 DEF HandleInv, CopyOfObjects
    <3>2. file.handles[p] = file.handles[r.obj] => p = r.obj
      BY <2>3, <2>7, <3>1 DEF HandleInv, CopyOfObjects
    <3> QED
      BY <2>4, <2>7, <3>1, <3>2
  <2>8. ASSUME NEW p \in Objects, handles'[p] # 0
        PROVE  handles'[p] \in DOMAIN data' /\ data'[handles'[p]].obj = p
    <3>1. CASE p = r.obj
      BY <2>4, <2>5, <2>6, <3>1
    <3>2. CASE p # r.obj
      <4>1. handles'[p] = handles[p] /\ handles[p] # 0
        BY <2>6, <2>8, <3>2
      <4>2. handles[p] \in DOMAIN data /\ data[handles[p]].obj = p /\ handles[p] # r.index
        BY <2>7, <3>2, <4>1 DEF HandleInv, HandlesMatchData
      <4> QED
        BY <2>5, <4>1, <4>2
    <3> QED
      BY <3>1, <3>2
  <2>9. ASSUME NEW i \in DOMAIN data', data'[i].obj # NULL PROVE handles'[data'[i].obj] = i
    <3>1. CASE i = r.index
      BY <2>5, <2>6, <3>1
    <3>2. CASE i # r.index
      <4>1. i \in DOMAIN data /\ data'[i] = data[i]
        BY <2>5, <3>2
      <4>2. data[i].obj \in Objects /\ handles[data[i].obj] = i
        BY <2>9, <4>1, EntryType DEF HandleInv, FreeInv, HandlesMatchData
      <4>3. data[i].obj # r.obj
        <5>1. handles[data[i].obj] \in {0, file.handles[data[i].obj]}
          BY <2>1, <4>2 DEF HandleInv, CopyOfObjects
        <5>2. i # 0
          BY <2>2, <4>1
        <5> QED
          BY <2>4, <3>2, <4>2, <5>1, <5>2
      <4> QED
        BY <2>6, <4>1, <4>2, <4>3
    <3> QED
      BY <3>1, <3>2
  <2>10. CopyOfObjects'
    <3>1. Len(data') = Len(data)
      BY <2>1, <2>2, <2>5
    <3>2. \A p \in Objects : handles'[p] \in {0, file.handles[p]}
      BY <2>1, <2>4, <2>6 DEF HandleInv, CopyOfObjects
    <3> QED
      BY <2>1, <2>2, <3>1, <3>2 DEF HandleInv, CopyOfObjects
  <2> QED
    BY <2>6, <2>8, <2>9, <2>10 DEF HandleInv, HandlesMatchData
<1> QED
  BY <1>1, <1>2

LEMMA SaveKeepsHandles ==
  ASSUME HandleInv, FreeInv', SaveSizes \/ SaveOne
  PROVE  HandleInv'
PROOF
<1>1. UNCHANGED <<data, handles>>
  BY DEF SaveSizes, SaveOne
<1>2. CASE SaveSizes
  <2>1. /\ file'.handles = handles /\ file'.size = Len(data) /\ file'.objs = <<>>
        /\ "handles" \in DOMAIN file' /\ phase' = "write"
    BY <1>2 DEF SaveSizes
  <2>2. \A p, q \in Objects : handles[p] = handles[q] /\ handles[p] # 0 => p = q
    BY DEF HandleInv, HandlesMatchData
  <2> QED
    BY <1>1, <2>1, <2>2 DEF HandleInv, HandlesMatchData, CopyOfObjects
<1>3. CASE SaveOne
  <2> DEFINE r == [obj |-> data[turn].obj, stack |-> data[turn].stack, index |-> turn]
  <2>1. phase = "write" /\ phase' = "write" /\ turn \in DOMAIN data
    BY <1>3 DEF SaveOne
  <2>2. CASE file' = file
    BY <1>1, <2>1, <2>2 DEF HandleInv, HandlesMatchData, CopyOfObjects
  <2>3. CASE file' # file
    <3>1. data[turn].obj # NULL /\ file' = [file EXCEPT !.objs = Append(@, r)]
      BY <1>3, <2>3 DEF SaveOne
    <3>2. /\ "handles" \in DOMAIN file /\ "objs" \in DOMAIN file /\ "size" \in DOMAIN file
          /\ file.objs \in Seq(Records)
          /\ data \in Seq(Entries) /\ DOMAIN data = 1..Len(data)
      BY DEF HandleInv, FreeInv, Shape, CopyOfObjects
    <3>3. /\ file'.handles = file.handles /\ file'.size = file.size
          /\ file'.objs = Append(file.objs, r) /\ "handles" \in DOMAIN file'
      BY <3>1, <3>2
    <3>4. data[turn].obj \in Objects /\ handles[data[turn].obj] = turn
          /\ file.handles = handles /\ file.size = Len(data)
      BY <2>1, <3>1, EntryType DEF HandleInv, FreeInv, HandlesMatchData, CopyOfObjects
    <3>5. r.index = file.handles[r.obj] /\ r.index \in 1..file.size
      BY <2>1, <3>2, <3>4
    <3>6. r \in Records
      <4>1. data[turn].stack \in Stacks \cup {NULL} /\ turn \in Nat
        BY <2>1, EntryType DEF HandleInv, FreeInv
      <4> QED
        BY <3>4, <4>1 DEF Records
    <3> HIDE DEF r
    <3>7. ASSUME NEW k \in DOMAIN file'.objs
          PROVE  /\ file'.objs[k].index = file.handles[file'.objs[k].obj]
                 /\ file'.objs[k].index \in 1..file.size
      <4>1. CASE k \in DOMAIN file.objs
        <5>1. file'.objs[k] = file.objs[k]
          BY <3>2, <3>3, <3>6, <4>1, AppendProperties
        <5> QED
          BY <4>1, <5>1 DEF HandleInv, CopyOfObjects
      <4>2. CASE k \notin DOMAIN file.objs
        <5>1. file'.objs[k] = r
          BY <3>2, <3>3, <3>6, <3>7, <4>2, AppendProperties
        <5> QED
          BY <3>5, <5>1
      <4> QED
        BY <4>1, <4>2
    <3> QED
      BY <1>1, <2>1, <3>3, <3>4, <3>7 DEF HandleInv, HandlesMatchData, CopyOfObjects
  <2> QED
    BY <2>2, <2>3
<1> QED
  BY <1>2, <1>3

LEMMA HandleStep == HandleInv /\ [ObjectNext]_objectVars => HandleInv'
PROOF
<1> SUFFICES ASSUME HandleInv, [ObjectNext]_objectVars PROVE HandleInv'
  OBVIOUS
<1>0. FreeInv'
  BY FreeStep DEF HandleInv
<1>1. ASSUME NEW o \in Objects, NEW s \in Stacks, Store(o, s) PROVE HandleInv'
  BY <1>1, StoreKeepsHandles
<1>2. ASSUME NEW h \in DOMAIN data, Take(h) PROVE HandleInv'
  BY <1>0, <1>2, ReleaseKeepsHandles DEF Take
<1>3. CASE CleanOne
  <2>1. CASE Dropped(data[turn])
    BY <1>0, <1>3, <2>1, ReleaseKeepsHandles DEF CleanOne, Dropped
  <2>2. CASE ~Dropped(data[turn])
    BY <1>0, <1>3, <2>2 DEF CleanOne, HandleInv, HandlesMatchData, CopyOfObjects
  <2> QED
    BY <2>1, <2>2
<1>4. ASSUME NEW gone \in SUBSET Objects, LoadSizes(gone) PROVE HandleInv'
  <2>1. /\ data = <<>> /\ data' = [i \in 1..file.size |-> NullEntry] /\ handles' = handles
        /\ file' = file /\ phase' = "read" /\ file.size \in Nat
    BY <1>4 DEF LoadSizes, HandleInv, FreeInv, Shape
  <2>2. \A o \in Objects : handles[o] = 0
    BY <2>1 DEF HandleInv, HandlesMatchData
  <2>3. Len(data') = file.size /\ \A i \in DOMAIN data' : data'[i].obj = NULL
    BY <2>1 DEF NullEntry
  <2> QED
    BY <1>0, <2>1, <2>2, <2>3 DEF HandleInv, HandlesMatchData, CopyOfObjects
<1>5. CASE LoadOne
  BY <1>0, <1>5, LoadKeepsHandles
<1>6. CASE SaveSizes \/ SaveOne
  BY <1>0, <1>6, SaveKeepsHandles
<1>7. CASE Revert
  <2>1. /\ data' = <<>> /\ handles' = [o \in Objects |-> 0] /\ file' = file /\ phase' = "run"
    BY <1>7 DEF Revert
  <2> QED
    BY <1>0, <2>1 DEF HandleInv, HandlesMatchData, CopyOfObjects
<1>8. CASE SaveBegin \/ SaveEnd \/ LoadRead \/ RebuildOne \/ LoadEnd
  <2>1. UNCHANGED <<data, handles, file>> /\ phase' \in {"clean", "run", "rebuild"}
    BY <1>8 DEF SaveBegin, SaveEnd, LoadRead, RebuildOne, LoadEnd
  <2> QED
    BY <1>0, <2>1 DEF HandleInv, HandlesMatchData, CopyOfObjects
<1>9. ASSUME NEW s \in Stacks, StackEnds(s) \/ StackStarts(s) PROVE HandleInv'
  BY <1>0, <1>9 DEF StackEnds, StackStarts, HandleInv, HandlesMatchData, CopyOfObjects
<1>10. CASE UNCHANGED objectVars
  BY <1>0, <1>10 DEF objectVars, HandleInv, HandlesMatchData, CopyOfObjects
<1> QED
  BY <1>1, <1>2, <1>3, <1>4, <1>5, <1>6, <1>7, <1>8, <1>9, <1>10
  DEF ObjectNext, Scripts, Saving, Loading

(* The handle a script was given names the object it stored until it is    *)
(* taken, or found dropped: Load puts every object at its own index, and   *)
(* nothing is put at an index that is in use.                              *)
THEOREM HandlesStayValid == ObjectSpec => []HandlesNameTheirObject
PROOF
<1>1. HandleInv => HandlesNameTheirObject
  BY DEF HandleInv, HandlesMatchData, HandlesNameTheirObject
<1> QED
  BY <1>1, HandleInit, HandleStep, PTL DEF ObjectSpec

(* Both, for any objects, stacks and number of saves and loads.            *)
THEOREM HandlesAlwaysHold == ObjectSpec => []HandlesHold
  BY NoHandleTwice, HandlesStayValid, PTL DEF HandlesHold

-----------------------------------------------------------------------------
(* For what is saved: while a save runs, what the loop has written is what *)
(* is stored below its index, and what is free is the rest.                *)
StoredBelow(n) == {i \in DOMAIN data : i < n /\ data[i].obj # NULL}

SaveInv ==
  /\ file \in Files
  /\ alive \subseteq Stacks /\ unknown \subseteq Objects /\ most \in Nat /\ loads \in Nat
  /\ phase \in {"clean", "write"} => turn > 0
  /\ phase = "clean" => \A i \in DOMAIN data : i < turn /\ data[i].obj # NULL => data[i].stack \in alive
  /\ IF phase = "write"
       THEN /\ Len(file.objs) = Cardinality(StoredBelow(turn))
            /\ file.filled = Len(data) - Len(free)
       ELSE Len(file.objs) = file.filled
  /\ Len(data) <= most /\ file.size <= file.most

StorageInv == HandleInv /\ SaveInv

LEMMA StoredIsRest ==
  ASSUME FreeInv, phase \in {"run", "clean", "write"}
  PROVE  /\ Len(free) \in Nat /\ Len(data) \in Nat /\ InUse \in Nat
         /\ InUse = Len(data) - Len(free)
PROOF
<1> DEFINE In == {i \in DOMAIN data : data[i].obj # NULL}
<1>1. /\ data \in Seq(Entries) /\ DOMAIN data = 1..Len(data) /\ Len(data) \in Nat
      /\ free \in Seq(Nat) /\ DOMAIN free = 1..Len(free) /\ Len(free) \in Nat
      /\ Distinct(free) /\ Range(free) = NullIndices
  BY DEF FreeInv, Shape, Expected
<1> DEFINE All == 1..Len(data)
<1>2. IsFiniteSet(All) /\ Cardinality(All) = Len(data)
  <2>1. \A n \in Nat : IsFiniteSet(1..n) /\ Cardinality(1..n) = IF 1 > n THEN 0 ELSE n - 1 + 1
    BY FS_Interval
  <2> QED
    BY <1>1, <2>1
<1>3. Cardinality(NullIndices) = Len(free)
  <2>1. free \in [1..Len(free) -> Range(free)]
    BY <1>1 DEF Range
  <2>2. free \in Bijection(1..Len(free), Range(free))
    BY <1>1, <2>1 DEF Bijection, Injection, Surjection, IsInjective, Distinct, Range
  <2>3. ExistsBijection(1..Len(free), NullIndices)
    BY <1>1, <2>2 DEF ExistsBijection
  <2> QED
    BY <1>1, <2>3, FS_CountingElements
<1>4. In = All \ NullIndices /\ All \cap NullIndices = NullIndices
  BY <1>1 DEF NullIndices
<1>5. Cardinality(In) = Cardinality(All) - Cardinality(NullIndices) /\ IsFiniteSet(In)
  <2> HIDE DEF All, In
  <2>1. /\ IsFiniteSet(All \ NullIndices)
        /\ Cardinality(All \ NullIndices) = Cardinality(All) - Cardinality(All \cap NullIndices)
    BY <1>2, FS_Difference
  <2> QED
    BY <1>4, <2>1
<1>6. Cardinality(In) \in Nat
  BY <1>5, FS_CardinalityType
<1> HIDE DEF In
<1>7. Cardinality(In) = Len(data) - Len(free)
  BY <1>2, <1>3, <1>4, <1>5
<1> QED
  BY <1>1, <1>6, <1>7 DEF In, InUse

LEMMA StoredBelowFacts ==
  ASSUME Shape, NEW n \in Nat
  PROVE  /\ Cardinality(StoredBelow(n)) \in Nat
         /\ n \in DOMAIN data =>
              Cardinality(StoredBelow(n + 1)) =
                Cardinality(StoredBelow(n)) + IF data[n].obj = NULL THEN 0 ELSE 1
         /\ n > 0 /\ n \notin DOMAIN data => Cardinality(StoredBelow(n)) = InUse
PROOF
<1>1. DOMAIN data = 1..Len(data) /\ Len(data) \in Nat
  BY DEF Shape
<1>2. IsFiniteSet(DOMAIN data)
  BY <1>1, FS_Interval
<1>3. StoredBelow(n) \in SUBSET DOMAIN data
  BY DEF StoredBelow
<1>4. IsFiniteSet(StoredBelow(n))
  BY <1>2, <1>3, FS_Subset
<1>5. Cardinality(StoredBelow(n)) \in Nat
  BY <1>4, FS_CardinalityType
<1>6. ASSUME n \in DOMAIN data
      PROVE  Cardinality(StoredBelow(n + 1)) =
               Cardinality(StoredBelow(n)) + IF data[n].obj = NULL THEN 0 ELSE 1
  <2>1. CASE data[n].obj = NULL
    <3>1. StoredBelow(n + 1) = StoredBelow(n)
      BY <1>1, <2>1 DEF StoredBelow
    <3> QED
      BY <1>5, <2>1, <3>1
  <2>2. CASE data[n].obj # NULL
    <3>1. StoredBelow(n + 1) = StoredBelow(n) \cup {n} /\ n \notin StoredBelow(n)
      BY <1>1, <1>6, <2>2 DEF StoredBelow
    <3> QED
      BY <1>4, <1>5, <2>2, <3>1, FS_AddElement
  <2> QED
    BY <2>1, <2>2
<1>7. ASSUME n > 0, n \notin DOMAIN data PROVE Cardinality(StoredBelow(n)) = InUse
  <2>1. StoredBelow(n) = {i \in DOMAIN data : data[i].obj # NULL}
    BY <1>1, <1>7 DEF StoredBelow
  <2> QED
    BY <2>1 DEF InUse
<1> QED
  BY <1>5, <1>6, <1>7

LEMMA StorageInitially == ObjectInit => StorageInv
PROOF
<1> SUFFICES ASSUME ObjectInit PROVE SaveInv
  BY HandleInit DEF StorageInv
<1>1. file \in Files
  BY DEF ObjectInit, Files
<1> QED
  BY <1>1 DEF ObjectInit, SaveInv

LEMMA SaveStep ==
  ASSUME StorageInv, HandleInv', [ObjectNext]_objectVars
  PROVE  SaveInv'
PROOF
<1>1. /\ data \in Seq(Entries) /\ DOMAIN data = 1..Len(data) /\ Len(data) \in Nat
      /\ turn \in Nat /\ Shape /\ file \in Files
      /\ phase \in {"run", "clean", "write", "read", "rebuild"}
  BY DEF StorageInv, HandleInv, FreeInv, Shape, SaveInv
<1>2. ASSUME NEW o \in Objects, NEW s \in Stacks, Store(o, s) PROVE SaveInv'
  <2>1. /\ phase = "run" /\ phase' = "run" /\ most' = IF InUse + 1 > most THEN InUse + 1 ELSE most
        /\ UNCHANGED <<file, unknown, alive, loads>>
    BY <1>2 DEF Store
  <2>2. InUse \in Nat /\ InUse = Len(data) - Len(free) /\ Len(free) \in Nat
    BY <2>1, StoredIsRest DEF StorageInv, HandleInv
  <2>3. Len(data') <= most'
    <3>1. CASE free = <<>>
      <4>1. data' = Append(data, [obj |-> o, stack |-> s]) /\ Len(free) = 0
        BY <1>2, <3>1 DEF Store
      <4>2. Len(data') = Len(data) + 1
        BY <1>1, <4>1
      <4> QED
        BY <1>1, <2>1, <2>2, <4>1, <4>2 DEF StorageInv, SaveInv
    <3>2. CASE free # <<>>
      <4>1. \E h : data' = [data EXCEPT ![h] = [obj |-> o, stack |-> s]]
        BY <1>2, <3>2 DEF Store
      <4>2. Len(data') = Len(data)
        BY <1>1, <4>1
      <4> QED
        BY <1>1, <2>1, <2>2, <4>2 DEF StorageInv, SaveInv
    <3> QED
      BY <3>1, <3>2
  <2>4. most' \in Nat
    BY <2>1, <2>2 DEF StorageInv, SaveInv
  <2> QED
    BY <2>1, <2>3, <2>4 DEF StorageInv, SaveInv
<1>3. ASSUME NEW h \in DOMAIN data, Take(h) PROVE SaveInv'
  <2>1. /\ phase = "run" /\ phase' = "run" /\ data' = [data EXCEPT ![h].obj = NULL]
        /\ UNCHANGED <<file, unknown, alive, loads, most>>
    BY <1>3 DEF Take
  <2>2. Len(data') = Len(data)
    BY <1>1, <2>1
  <2> QED
    BY <2>1, <2>2 DEF StorageInv, SaveInv
<1>4. ASSUME NEW s \in Stacks, StackEnds(s) \/ StackStarts(s) PROVE SaveInv'
  BY <1>4 DEF StackEnds, StackStarts, StorageInv, SaveInv
<1>5. CASE SaveBegin
  <2>1. loads' \in Nat
    BY <1>5 DEF SaveBegin, StorageInv, SaveInv
  <2>2. \A i \in DOMAIN data : ~(i < 1)
    BY <1>1
  <2> QED
    BY <1>5, <2>1, <2>2 DEF SaveBegin, StorageInv, SaveInv
<1>6. CASE CleanOne
  <2>1. /\ phase = "clean" /\ phase' = "clean" /\ turn \in DOMAIN data /\ turn' = turn + 1
        /\ UNCHANGED <<file, unknown, alive, loads, most>>
    BY <1>6 DEF CleanOne
  <2>2. /\ Len(data') = Len(data) /\ DOMAIN data' = DOMAIN data
        /\ \A i \in DOMAIN data : data'[i] = IF i = turn /\ Dropped(data[i])
                                               THEN [data[i] EXCEPT !.obj = NULL] ELSE data[i]
    <3>1. CASE Dropped(data[turn])
      <4>1. data' = [data EXCEPT ![turn].obj = NULL]
        BY <1>6, <3>1 DEF CleanOne
      <4> QED
        BY <1>1, <2>1, <3>1, <4>1
    <3>2. CASE ~Dropped(data[turn])
      BY <1>6, <3>2 DEF CleanOne
    <3> QED
      BY <3>1, <3>2
  <2>3. ASSUME NEW i \in DOMAIN data', i < turn', data'[i].obj # NULL
        PROVE  data'[i].stack \in alive'
    <3>1. CASE i < turn
      <4>1. data'[i] = data[i]
        BY <1>1, <2>1, <2>2, <3>1
      <4> QED
        BY <2>1, <2>2, <2>3, <3>1, <4>1 DEF StorageInv, SaveInv
    <3>2. CASE ~(i < turn)
      <4>1. i = turn
        BY <1>1, <2>1, <2>2, <2>3, <3>2
      <4>2. CASE Dropped(data[i])
        <5>1. data'[i] = [data[i] EXCEPT !.obj = NULL] /\ data[i] \in Entries
          BY <1>1, <2>2, <4>1, <4>2
        <5>2. data'[i].obj = NULL
          BY <5>1 DEF Entries
        <5> QED
          BY <2>3, <5>2
      <4>3. CASE ~Dropped(data[i])
        BY <2>1, <2>2, <2>3, <4>3 DEF Dropped
      <4> QED
        BY <4>2, <4>3
    <3> QED
      BY <3>1, <3>2
  <2>4. turn' > 0
    BY <1>1, <2>1
  <2> QED
    BY <2>1, <2>2, <2>3, <2>4 DEF StorageInv, SaveInv
<1>7. CASE SaveSizes
  <2>1. /\ phase = "clean" /\ phase' = "write" /\ turn' = 1
        /\ file' = [size |-> Len(data), filled |-> Len(data) - Len(free), objs |-> <<>>,
                    most |-> most, handles |-> handles, alive |-> alive]
        /\ UNCHANGED <<data, free, unknown, alive, handles, most, loads>>
    BY <1>7 DEF SaveSizes
  <2>2. Len(data) - Len(free) \in Nat
    BY <2>1, StoredIsRest DEF StorageInv, HandleInv
  <2>3. file' \in Files
    BY <1>1, <2>1, <2>2 DEF Files, StorageInv, HandleInv, SaveInv
  <2>4. StoredBelow(turn)' = {}
    BY <1>1, <2>1 DEF StoredBelow
  <2>5. Len(file'.objs) = Cardinality(StoredBelow(turn))'
    BY <2>1, <2>4, FS_EmptySet
  <2> QED
    BY <2>1, <2>3, <2>5 DEF StorageInv, SaveInv
<1>8. CASE SaveOne
  <2> DEFINE r == [obj |-> data[turn].obj, stack |-> data[turn].stack, index |-> turn]
  <2>1. /\ phase = "write" /\ phase' = "write" /\ turn \in DOMAIN data /\ turn' = turn + 1
        /\ UNCHANGED <<data, free, unknown, alive, handles, most, loads>>
        /\ file' = IF data[turn].obj = NULL THEN file ELSE [file EXCEPT !.objs = Append(@, r)]
    BY <1>8 DEF SaveOne
  <2>2. data[turn].obj # NULL => r \in Records
    <3>1. data[turn] \in Entries
      BY <1>1, <2>1
    <3> QED
      BY <1>1, <3>1 DEF Entries, Records
  <2> HIDE DEF r
  <2>3. /\ file' \in Files
        /\ Len(file'.objs) = Len(file.objs) + IF data[turn].obj = NULL THEN 0 ELSE 1
        /\ file'.filled = file.filled /\ file'.size = file.size /\ file'.most = file.most
    <3>1. file.objs \in Seq(Records) /\ Len(file.objs) \in Nat
      BY <1>1 DEF Files
    <3>2. CASE data[turn].obj = NULL
      BY <1>1, <2>1, <3>1, <3>2
    <3>3. CASE data[turn].obj # NULL
      <4> DEFINE longer == Append(file.objs, r)
      <4>1. longer \in Seq(Records) /\ Len(longer) = Len(file.objs) + 1
        BY <2>2, <3>1, <3>3
      <4>2. file' = [file EXCEPT !.objs = longer]
        BY <2>1, <3>3
      <4> HIDE DEF longer
      <4> QED
        BY <1>1, <3>3, <4>1, <4>2 DEF Files
    <3> QED
      BY <3>2, <3>3
  <2>4. StoredBelow(turn)' = StoredBelow(turn + 1)
    BY <2>1 DEF StoredBelow
  <2>5. Cardinality(StoredBelow(turn + 1)) =
          Cardinality(StoredBelow(turn)) + IF data[turn].obj = NULL THEN 0 ELSE 1
    BY <1>1, <2>1, StoredBelowFacts
  <2>6. Len(file'.objs) = Cardinality(StoredBelow(turn))'
    BY <2>1, <2>3, <2>4, <2>5 DEF StorageInv, SaveInv
  <2>7. turn' > 0
    BY <1>1, <2>1
  <2> QED
    BY <2>1, <2>3, <2>6, <2>7 DEF StorageInv, SaveInv
<1>9. CASE SaveEnd
  <2>1. /\ phase = "write" /\ phase' = "run" /\ turn \notin DOMAIN data
        /\ UNCHANGED <<data, free, turn, file, unknown, alive, handles, most, loads>>
    BY <1>9 DEF SaveEnd
  <2>2. Len(file.objs) = InUse
    BY <1>1, <2>1, StoredBelowFacts DEF StorageInv, SaveInv
  <2>3. file.filled = InUse
    BY <2>1, StoredIsRest DEF StorageInv, HandleInv, SaveInv
  <2> QED
    BY <2>1, <2>2, <2>3 DEF StorageInv, SaveInv
<1>10. CASE Revert
  <2>1. /\ data' = <<>> /\ most' = 0 /\ alive' = Stacks /\ loads' = loads + 1
        /\ phase = "run" /\ UNCHANGED <<phase, turn, file, unknown>>
    BY <1>10 DEF Revert
  <2>2. Len(data') = 0 /\ loads' \in Nat
    BY <2>1 DEF StorageInv, SaveInv
  <2> QED
    BY <2>1, <2>2 DEF StorageInv, SaveInv
<1>11. ASSUME NEW gone \in SUBSET Objects, LoadSizes(gone) PROVE SaveInv'
  <2>1. /\ phase = "run" /\ phase' = "read" /\ data' = [i \in 1..file.size |-> NullEntry]
        /\ unknown' = gone /\ alive' = file.alive /\ most' = file.most
        /\ UNCHANGED <<free, file, handles, loads>>
    BY <1>11 DEF LoadSizes
  <2>2. file.size \in Nat /\ file.most \in Nat /\ file.alive \subseteq Stacks
    BY <1>1 DEF Files
  <2>3. Len(data') = file.size
    BY <2>1, <2>2
  <2> QED
    BY <2>1, <2>2, <2>3 DEF StorageInv, SaveInv
<1>12. CASE LoadOne
  <2>1. /\ phase = "read" /\ phase' = "read" /\ UNCHANGED <<file, unknown, alive, most, loads>>
        /\ data' = data \/ \E h, e : data' = [data EXCEPT ![h] = e]
    BY <1>12 DEF LoadOne
  <2>2. Len(data') = Len(data)
    BY <1>1, <2>1
  <2> QED
    BY <2>1, <2>2 DEF StorageInv, SaveInv
<1>13. CASE LoadRead \/ RebuildOne \/ LoadEnd
  BY <1>13 DEF LoadRead, RebuildOne, LoadEnd, StorageInv, SaveInv
<1>14. CASE UNCHANGED objectVars
  BY <1>14 DEF objectVars, StorageInv, SaveInv, StoredBelow
<1> QED
  BY <1>2, <1>3, <1>4, <1>5, <1>6, <1>7, <1>8, <1>9, <1>10, <1>11, <1>12, <1>13, <1>14
  DEF ObjectNext, Scripts, Saving, Loading

LEMMA StorageInvHolds == ObjectSpec => []StorageInv
PROOF
<1>1. StorageInv /\ [ObjectNext]_objectVars => StorageInv'
  BY HandleStep, SaveStep DEF StorageInv
<1> QED
  BY <1>1, StorageInitially, PTL DEF ObjectSpec

(* What a save says of the storage is true of it, for any objects, stacks, *)
(* saves, loads and missing classes: the number of objects it announces    *)
(* (PapyrusObjects.h, Save) is that of the objects it writes, nothing of a *)
(* stack that ended is among them, and data_ never has more entries than   *)
(* were in use at one time, also after a load.                             *)
THEOREM StorageIsAlwaysKept == ObjectSpec => StorageIsKept
PROOF
<1>1. StorageInv => ObjectTypeOK /\ AnnouncedAreWritten /\ GrowsToWhatIsUsed
  BY DEF StorageInv, HandleInv, FreeInv, Shape, SaveInv, ObjectTypeOK, AnnouncedAreWritten,
         GrowsToWhatIsUsed
<1>2. StorageInv =>
        [SaveSizes => \A i \in DOMAIN data : data[i].obj # NULL => data[i].stack \in alive]_objectVars
  <2> SUFFICES ASSUME StorageInv, SaveSizes, NEW i \in DOMAIN data, data[i].obj # NULL
               PROVE  data[i].stack \in alive
    OBVIOUS
  <2>1. /\ phase = "clean" /\ turn \notin DOMAIN data /\ turn \in Nat /\ turn > 0
        /\ DOMAIN data = 1..Len(data) /\ Len(data) \in Nat
    BY DEF SaveSizes, StorageInv, HandleInv, FreeInv, Shape, SaveInv
  <2>2. i < turn
    BY <2>1
  <2> QED
    BY <2>1, <2>2 DEF StorageInv, SaveInv
<1>3. ObjectSpec => [](ObjectTypeOK /\ AnnouncedAreWritten /\ GrowsToWhatIsUsed)
  BY <1>1, StorageInvHolds, PTL
<1>4. ObjectSpec => SaveDropsForgotten
  BY <1>2, StorageInvHolds, PTL DEF SaveDropsForgotten
<1> QED
  BY <1>3, <1>4 DEF StorageIsKept
-----------------------------------------------------------------------------
(* The array of a native call.  What is in arrays.                         *)
Lists == BoundedSeq(Items, MaxLength)

(* The array behind the copy is never none; an array that a call packed is *)
(* as the script's was then, and a call that is put off never has the      *)
(* script's.                                                               *)
CallInv ==
  /\ CallTypeOK /\ CopyMirrorsArray /\ ReturnsItsCopy
  /\ stage \in {"running", "returned"} /\ view.arr # "nothing" => ~arrays[view.arr].none
  /\ stage = "queued" => latent /\ view.arr = "call" /\ arrays["call"].items = passed.items
  /\ stage = "script" => view.arr = "nothing"
  /\ latent => view.arr # "script"

(* Lists as sequences.                                                     *)
LEMMA ListFacts ==
  /\ \A s : s \in Lists <=> s \in Seq(Items) /\ Len(s) <= MaxLength
  /\ <<>> \in Lists
PROOF
<1>1. ASSUME NEW s, s \in Lists PROVE s \in Seq(Items) /\ Len(s) <= MaxLength
  <2>1. PICK m \in 0..MaxLength : s \in [1..m -> Items]
    BY <1>1, CallAssumption DEF Lists, BoundedSeq, SeqOf
  <2>2. m \in Nat /\ m <= MaxLength
    BY <2>1, CallAssumption
  <2>3. s \in Seq(Items) /\ Len(s) = m
    BY <2>1, <2>2
  <2> QED
    BY <2>2, <2>3
<1>2. ASSUME NEW s, s \in Seq(Items), Len(s) <= MaxLength PROVE s \in Lists
  <2>1. Len(s) \in 0..MaxLength /\ s \in [1..Len(s) -> Items]
    BY <1>2, CallAssumption
  <2> QED
    BY <2>1 DEF Lists, BoundedSeq, SeqOf
<1>3. <<>> \in Seq(Items) /\ Len(<<>>) = 0 /\ 0 <= MaxLength
  BY CallAssumption
<1> QED
  BY <1>1, <1>2, <1>3

(* Arrays.                                                                 *)
LEMMA ContentsFacts ==
  /\ NoArray \in Contents /\ NoArray.none /\ NoArray.items = <<>>
  /\ Cleared \in Contents /\ ~Cleared.none /\ Cleared.items = <<>>
  /\ \A s \in Lists : Some(s) \in Contents /\ ~Some(s).none /\ Some(s).items = s
  /\ \A c \in Contents : /\ c.items \in Lists /\ c.none \in BOOLEAN /\ c.block \in BOOLEAN
                         /\ c.none => c.items = <<>>
                         /\ ~c.none => IF c.block THEN c = Some(c.items) ELSE c = Cleared
PROOF
<1>1. NoArray \in Contents /\ NoArray.none /\ NoArray.items = <<>>
  BY DEF NoArray, Contents
<1>2. Cleared \in Contents /\ ~Cleared.none /\ Cleared.items = <<>>
  BY DEF Cleared, Contents
<1>3. \A s \in Lists : Some(s) \in Contents /\ ~Some(s).none /\ Some(s).items = s
  BY DEF Lists, Contents, Some
<1>4. ASSUME NEW c \in Contents
      PROVE  /\ c.items \in Lists /\ c.none \in BOOLEAN /\ c.block \in BOOLEAN
             /\ c.none => c.items = <<>>
             /\ ~c.none => IF c.block THEN c = Some(c.items) ELSE c = Cleared
  <2>1. CASE c = NoArray
    BY <2>1, ListFacts DEF NoArray
  <2>2. CASE c = Cleared
    BY <2>2, ListFacts DEF Cleared
  <2>3. CASE \E s \in Lists : c = Some(s)
    BY <2>3 DEF Some
  <2> QED
    BY <2>1, <2>2, <2>3 DEF Contents, Lists
<1> QED
  BY <1>1, <1>2, <1>3, <1>4

(* A list without one of its items.                                        *)
LEMMA Removed ==
  ASSUME NEW s \in Lists, NEW i \in DOMAIN s
  PROVE  RemoveAt(s, i) \in Lists /\ Len(RemoveAt(s, i)) = Len(s) - 1
PROOF
<1>1. s \in Seq(Items) /\ Len(s) <= MaxLength /\ Len(s) \in Nat /\ i \in 1..Len(s)
  BY ListFacts
<1> DEFINE a == SubSeq(s, 1, i - 1)
           b == SubSeq(s, i + 1, Len(s))
<1>2. a \in Seq(Items) /\ Len(a) = i - 1
  BY <1>1, SubSeqProperties
<1>3. b \in Seq(Items) /\ Len(b) = Len(s) - i
  <2>1. i + 1 \in 1..Len(s) + 1 /\ \A j \in i + 1..Len(s) : s[j] \in Items
    BY <1>1
  <2>2. Len(b) = IF i + 1 <= Len(s) THEN Len(s) - (i + 1) + 1 ELSE 0
    BY <1>1, <2>1
  <2> QED
    BY <1>1, <2>1, <2>2
<1> HIDE DEF a, b
<1>4. a \o b \in Seq(Items) /\ Len(a \o b) = Len(a) + Len(b)
  BY <1>2, <1>3, ConcatProperties
<1>5. Len(a \o b) <= MaxLength
  BY <1>1, <1>2, <1>3, <1>4, CallAssumption
<1>6. Len(a \o b) = Len(s) - 1
  BY <1>1, <1>2, <1>3, <1>4
<1> QED
  BY <1>4, <1>5, <1>6, ListFacts DEF RemoveAt, a, b

(* What is packed.                                                         *)
LEMMA Packed ==
  ASSUME NEW v, v.data \in Lists
  PROVE  /\ PackArray(v) \in Contents
         /\ ~PackArray(v).none => PackArray(v).items = v.data /\ ~v.none
PROOF
  BY ContentsFacts DEF PackArray

(* What is unpacked, and packed and unpacked again.                        *)
LEMMA Unpacked ==
  ASSUME CallTypeOK, NEW a \in {"script", "call"}
  PROVE  /\ UnpackArray(a) \in [arr : {"nothing", "script", "call"}, data : Lists, none : BOOLEAN]
         /\ UnpackArray(a).arr \in {"nothing", a}
         /\ UnpackArray(a).data = arrays[a].items
         /\ UnpackArray(a).arr # "nothing" => ~arrays[a].none
         /\ PackArray(UnpackArray(a)).items = arrays[a].items
PROOF
<1>1. arrays[a] \in Contents
  BY DEF CallTypeOK
<1>2. CASE arrays[a].none
  BY <1>1, <1>2, ContentsFacts, ListFacts DEF UnpackArray, PackArray
<1>3. CASE ~arrays[a].none
  BY <1>1, <1>3, ContentsFacts, ListFacts DEF UnpackArray, PackArray
<1> QED
  BY <1>1, <1>2, <1>3, ContentsFacts

-----------------------------------------------------------------------------
(* The invariant holds at first, and every step keeps it.                  *)
LEMMA CallInvInit == CallInit => CallInv
PROOF
<1> SUFFICES ASSUME CallInit PROVE CallInv
  OBVIOUS
<1>1. arrays \in [{"script", "call"} -> Contents]
  BY ContentsFacts DEF CallInit
<1>2. view \in [arr : {"nothing", "script", "call"}, data : Lists, none : BOOLEAN]
  BY ListFacts DEF CallInit
<1>3. passed \in Contents /\ result \in Contents /\ changes \in 0..MaxChanges
  BY ContentsFacts, CallAssumption DEF CallInit
<1>4. CallTypeOK
  BY <1>1, <1>2, <1>3 DEF CallInit, CallTypeOK, Lists
<1> QED
  BY <1>4 DEF CallInit, CallInv, CopyMirrorsArray, ReturnsItsCopy

(* The operations of an array that is not none: what they leave is one too,*)
(* and no longer than a copy that they are done to as well, nor different  *)
(* if the copy was the same.                                               *)
Behind(d, s, same) ==
  /\ d \in Contents /\ ~d.none
  /\ Len(d.items) <= Len(s)
  /\ same => s = d.items

LEMMA BehindSome ==
  ASSUME NEW s \in Lists, NEW t \in Lists, Len(t) <= Len(s), NEW same, same => s = t
  PROVE  Behind(Some(t), s, same)
PROOF
  BY ContentsFacts DEF Behind

LEMMA Appended ==
  ASSUME NEW s \in Lists, NEW x \in Items, Len(s) < MaxLength
  PROVE  Append(s, x) \in Lists /\ Len(Append(s, x)) = Len(s) + 1
PROOF
<1>1. s \in Seq(Items) /\ Len(s) \in Nat
  BY ListFacts
<1>2. Append(s, x) \in Seq(Items) /\ Len(Append(s, x)) = Len(s) + 1
  BY <1>1
<1>3. Len(Append(s, x)) <= MaxLength
  BY <1>1, <1>2, CallAssumption
<1> QED
  BY <1>2, <1>3, ListFacts, Zenon

LEMMA PushToKeeps ==
  ASSUME NEW d, NEW s \in Lists, NEW same, Behind(d, s, same), NEW x \in Items, Len(s) < MaxLength
  PROVE  Append(s, x) \in Lists /\ Behind(PushTo(d, x), Append(s, x), same)
PROOF
<1> PICK t : t = d.items
  OBVIOUS
<1>1. t \in Lists /\ Len(t) \in Nat /\ Len(s) \in Nat /\ Len(t) <= Len(s) /\ (same => s = t)
  BY ContentsFacts, ListFacts DEF Behind
<1>2. /\ Append(s, x) \in Lists /\ Len(Append(s, x)) = Len(s) + 1
      /\ Append(t, x) \in Lists /\ Len(Append(t, x)) = Len(t) + 1
  BY <1>1, Appended, CallAssumption
<1>3. PushTo(d, x) = Some(Append(t, x))
  BY DEF PushTo
<1>4. Len(Append(t, x)) <= Len(Append(s, x)) /\ (same => Append(s, x) = Append(t, x))
  BY <1>1, <1>2
<1> QED
  BY <1>2, <1>3, <1>4, BehindSome

LEMMA Written ==
  ASSUME NEW s \in Lists, NEW i \in DOMAIN s, NEW x \in Items
  PROVE  [s EXCEPT ![i] = x] \in Lists /\ Len([s EXCEPT ![i] = x]) = Len(s)
PROOF
<1> PICK t : t = [s EXCEPT ![i] = x]
  OBVIOUS
<1>1. s \in Seq(Items) /\ Len(s) <= MaxLength
  BY ListFacts, Zenon
<1>2. t \in Seq(Items) /\ Len(t) = Len(s)
  BY <1>1
<1>3. t \in Lists
  BY <1>1, <1>2, ListFacts
<1> QED
  BY <1>2, <1>3

LEMMA SetInKeeps ==
  ASSUME NEW d, NEW s \in Lists, NEW same \in BOOLEAN, Behind(d, s, same), NEW i \in DOMAIN s,
         NEW x \in Items
  PROVE  [s EXCEPT ![i] = x] \in Lists /\ Behind(SetIn(d, i, x), [s EXCEPT ![i] = x], same)
PROOF
<1> PICK t : t = d.items
  OBVIOUS
<1>1. t \in Lists /\ Len(t) <= Len(s) /\ (same => s = t) /\ d \in Contents /\ ~d.none
  BY ContentsFacts DEF Behind
<1>2. [s EXCEPT ![i] = x] \in Lists /\ Len([s EXCEPT ![i] = x]) = Len(s)
  BY Written
<1>3. CASE i \in DOMAIN t
  <2>1. [t EXCEPT ![i] = x] \in Lists /\ Len([t EXCEPT ![i] = x]) = Len(t)
    BY <1>1, <1>3, Written
  <2>2. SetIn(d, i, x) = Some([t EXCEPT ![i] = x])
    BY <1>3 DEF SetIn
  <2> QED
    BY <1>1, <1>2, <2>1, <2>2, BehindSome
<1>4. CASE i \notin DOMAIN t
  <2>1. SetIn(d, i, x) = d /\ ~same
    BY <1>1, <1>4 DEF SetIn
  <2> QED
    BY <1>1, <1>2, <2>1 DEF Behind
<1> QED
  BY <1>3, <1>4

LEMMA RemoveFromKeeps ==
  ASSUME NEW d, NEW s \in Lists, NEW same \in BOOLEAN, Behind(d, s, same), NEW i \in DOMAIN s
  PROVE  RemoveAt(s, i) \in Lists /\ Behind(RemoveFrom(d, i), RemoveAt(s, i), same)
PROOF
<1> PICK t : t = d.items
  OBVIOUS
<1>1. /\ t \in Lists /\ Len(t) <= Len(s) /\ (same => s = t) /\ d \in Contents /\ ~d.none
      /\ Len(t) \in Nat /\ Len(s) \in Nat /\ DOMAIN s = 1..Len(s) /\ DOMAIN t = 1..Len(t)
  BY ContentsFacts, ListFacts DEF Behind
<1>2. RemoveAt(s, i) \in Lists /\ Len(RemoveAt(s, i)) = Len(s) - 1
  BY Removed
<1>3. CASE i \in DOMAIN t
  <2>1. RemoveAt(t, i) \in Lists /\ Len(RemoveAt(t, i)) = Len(t) - 1
    BY <1>1, <1>3, Removed
  <2>2. RemoveFrom(d, i) = Some(RemoveAt(t, i))
    BY <1>3 DEF RemoveFrom
  <2>3. Len(RemoveAt(t, i)) <= Len(RemoveAt(s, i)) /\ (same => RemoveAt(s, i) = RemoveAt(t, i))
    BY <1>1, <1>2, <2>1
  <2> QED
    BY <1>2, <2>1, <2>2, <2>3, BehindSome
<1>4. CASE i \notin DOMAIN t
  <2>1. RemoveFrom(d, i) = d /\ ~same
    BY <1>1, <1>4 DEF RemoveFrom
  <2>2. Len(t) <= Len(s) - 1
    BY <1>1, <1>4
  <2> QED
    BY <1>1, <1>2, <2>1, <2>2 DEF Behind
<1> QED
  BY <1>3, <1>4

(* The copy, made n items long.                                            *)
ResizedTo(s, n) == [i \in 1..n |-> IF i \in DOMAIN s THEN s[i] ELSE Blank]

LEMMA ResizedList ==
  ASSUME NEW s \in Lists, NEW n \in 0..MaxLength
  PROVE  ResizedTo(s, n) \in Lists /\ Len(ResizedTo(s, n)) = n
PROOF
<1>1. \A i \in DOMAIN s : s[i] \in Items
  BY ListFacts
<1>2. ResizedTo(s, n) \in [1..n -> Items] /\ n \in Nat
  BY <1>1, CallAssumption DEF ResizedTo
<1> QED
  BY <1>2 DEF Lists, BoundedSeq, SeqOf

LEMMA ResizeKeeps ==
  ASSUME NEW d, NEW s \in Lists, NEW same \in BOOLEAN, Behind(d, s, same), NEW n \in 0..MaxLength
  PROVE  /\ ResizedTo(s, n) \in Lists
         /\ Behind(ResizeOf(d, n), ResizedTo(s, n), same /\ ~(d.block /\ n > Len(d.items)))
PROOF
<1> PICK t : t = d.items
  OBVIOUS
<1>1. /\ t \in Lists /\ Len(t) <= Len(s) /\ (same => s = t) /\ d \in Contents /\ ~d.none
      /\ Len(t) \in Nat /\ Len(s) \in Nat /\ t \in Seq(Items) /\ s \in Seq(Items)
      /\ n \in Nat /\ n <= MaxLength /\ Len(t) <= MaxLength
  BY ContentsFacts, ListFacts, CallAssumption DEF Behind
<1>2. ResizedTo(s, n) \in Lists /\ Len(ResizedTo(s, n)) = n
  BY ResizedList
<1>3. CASE d.block /\ n < Len(t)
  <2>1. SubSeq(t, 1, n) \in Seq(Items) /\ Len(SubSeq(t, 1, n)) = n
    BY <1>1, <1>3, SubSeqProperties
  <2>2. SubSeq(t, 1, n) \in Lists
    BY <1>1, <2>1, ListFacts
  <2>3. ResizeOf(d, n) = Some(SubSeq(t, 1, n))
    BY <1>3 DEF ResizeOf
  <2>4. same => ResizedTo(s, n) = SubSeq(t, 1, n)
    <3>1. ResizedTo(t, n) = [i \in 1..n |-> t[i]]
      BY <1>1, <1>3 DEF ResizedTo
    <3>2. SubSeq(t, 1, n) = [i \in 1..n |-> t[i]]
      BY <1>1, <1>3
    <3> QED
      BY <1>1, <3>1, <3>2
  <2>5. Behind(Some(SubSeq(t, 1, n)), ResizedTo(s, n), same /\ ~(d.block /\ n > Len(d.items)))
    <3>1. Len(SubSeq(t, 1, n)) <= Len(ResizedTo(s, n))
      BY <1>1, <1>2, <2>1
    <3> QED
      BY <1>2, <2>2, <2>4, <3>1, BehindSome
  <2> QED
    BY <1>2, <2>3, <2>5
<1>4. CASE d.block /\ ~(n < Len(t))
  <2>1. ResizeOf(d, n) = d
    <3>1. d = Some(t)
      BY <1>1, <1>4, ContentsFacts
    <3> QED
      BY <1>4, <3>1 DEF ResizeOf
  <2>2. Len(t) <= n /\ Len(ResizedTo(s, n)) = n
    BY <1>1, <1>2, <1>4
  <2>3. same /\ ~(n > Len(t)) => ResizedTo(s, n) = t
    <3>1. SUFFICES ASSUME same, n = Len(t), s = t PROVE ResizedTo(s, n) = t
      BY <1>1, <1>4
    <3>2. ResizedTo(s, n) = [i \in 1..Len(t) |-> t[i]]
      BY <1>1, <3>1 DEF ResizedTo
    <3> QED
      BY <1>1, <3>2
  <2> QED
    BY <1>1, <1>2, <1>4, <2>1, <2>2, <2>3 DEF Behind
<1>5. CASE ~d.block
  <2>1. d = Cleared /\ t = <<>>
    BY <1>1, <1>5, ContentsFacts
  <2>2. CASE n = 0
    <3>1. ResizeOf(d, n) = d /\ ResizedTo(s, n) = <<>>
      BY <1>5, <2>2 DEF ResizeOf, ResizedTo
    <3> QED
      BY <1>1, <1>2, <2>1, <3>1 DEF Behind
  <2>3. CASE n # 0
    <3>1. ResizeOf(d, n) = Some(Blanks(n))
      BY <1>5, <2>3 DEF ResizeOf
    <3>2. Blanks(n) = ResizedTo(t, n)
      BY <2>1 DEF Blanks, ResizedTo
    <3>3. Blanks(n) \in Lists /\ Len(Blanks(n)) = n
      BY <1>1, <3>2, ResizedList
    <3>4. same => ResizedTo(s, n) = Blanks(n)
      BY <1>1, <3>2
    <3>5. Behind(Some(Blanks(n)), ResizedTo(s, n), same /\ ~(d.block /\ n > Len(d.items)))
      BY <1>2, <3>3, <3>4, BehindSome
    <3> QED
      BY <1>2, <3>1, <3>5
  <2> QED
    BY <2>2, <2>3
<1> QED
  BY <1>3, <1>4, <1>5

(* The change of the copy and of the array behind it.                      *)
LEMMA ChangeStep ==
  ASSUME CallInv, NEW s \in Lists, NEW d, stage = "running", changes < MaxChanges,
         view' = [view EXCEPT !.data = s],
         arrays' = IF view.arr = "nothing" THEN arrays ELSE [arrays EXCEPT ![view.arr] = d],
         changes' = changes + 1, grown' \in BOOLEAN,
         view.arr # "nothing" => Behind(d, s, ~grown'),
         UNCHANGED <<object, stage, latent, isStatic, passed, chosen, result>>
  PROVE  CallInv'
PROOF
<1>1. /\ view' \in [arr : {"nothing", "script", "call"}, data : Lists, none : BOOLEAN]
      /\ view'.arr = view.arr /\ view'.data = s
  BY DEF CallInv, CallTypeOK, Lists
<1>2. /\ arrays' \in [{"script", "call"} -> Contents]
      /\ view.arr # "nothing" => Behind(arrays'[view.arr], s, ~grown')
  <2>1. CASE view.arr = "nothing"
    BY <2>1 DEF CallInv, CallTypeOK
  <2>2. CASE view.arr # "nothing"
    <3>1. /\ view.arr \in {"script", "call"} /\ arrays \in [{"script", "call"} -> Contents]
          /\ d \in Contents
      BY <2>2 DEF CallInv, CallTypeOK, Behind
    <3> QED
      BY <2>2, <3>1
  <2> QED
    BY <2>1, <2>2
<1>3. changes' \in 0..MaxChanges
  BY CallAssumption DEF CallInv, CallTypeOK
<1>4. CallTypeOK'
  BY <1>1, <1>2, <1>3 DEF CallInv, CallTypeOK, Lists
<1> QED
  BY <1>1, <1>2, <1>4 DEF CallInv, CopyMirrorsArray, ReturnsItsCopy, Behind

LEMMA CallInvNext == CallInv /\ [CallNext]_callVars => CallInv'
PROOF
<1> SUFFICES ASSUME CallInv, [CallNext]_callVars PROVE CallInv'
  OBVIOUS
<1> USE DEF Lists
<1>0. /\ arrays["script"] \in Contents /\ view.data \in Lists /\ CallTypeOK
      /\ stage = "running" /\ view.arr # "nothing" => Behind(arrays[view.arr], view.data, ~grown)
      /\ grown \in BOOLEAN /\ view.arr \in {"nothing", "script", "call"}
  BY DEF CallInv, CallTypeOK, CopyMirrorsArray, Behind
<1>1. CASE Run
  <2>1. CASE HasBase
    <3>1. view' = UnpackArray("script") /\ passed' = arrays["script"] /\ stage' = "running"
      BY <1>1, <2>1 DEF Run
    <3>2. CallTypeOK'
      BY <1>0, <1>1, <3>1, Unpacked DEF Run, CallTypeOK
    <3> QED
      BY <1>0, <1>1, <3>1, <3>2, Unpacked DEF Run, CallInv, CopyMirrorsArray, ReturnsItsCopy
  <2>2. CASE ~HasBase
    BY <1>1, <2>2 DEF Run, CallInv, CallTypeOK, CopyMirrorsArray, ReturnsItsCopy
  <2> QED
    BY <2>1, <2>2
<1>2. CASE Enqueue
  <2>1. CASE HasBase
    <3> DEFINE c == PackArray(UnpackArray("script"))
    <3>1. /\ arrays' = [arrays EXCEPT !["call"] = c] /\ passed' = arrays["script"]
          /\ view' = [arr |-> "call", data |-> <<>>, none |-> FALSE] /\ stage' = "queued"
      BY <1>2, <2>1 DEF Enqueue
    <3>2. c \in Contents /\ c.items = arrays["script"].items
      BY <1>0, Unpacked, Packed
    <3> HIDE DEF c
    <3>3. arrays' \in [{"script", "call"} -> Contents] /\ arrays'["call"] = c
      BY <1>0, <3>1, <3>2 DEF CallTypeOK
    <3>4. CallTypeOK'
      BY <1>0, <1>2, <3>1, <3>3, ListFacts DEF Enqueue, CallTypeOK
    <3> QED
      BY <1>2, <3>1, <3>2, <3>3, <3>4 DEF Enqueue, CallInv, CopyMirrorsArray, ReturnsItsCopy
  <2>2. CASE ~HasBase
    BY <1>2, <2>2 DEF Enqueue, CallInv, CallTypeOK, CopyMirrorsArray, ReturnsItsCopy
  <2> QED
    BY <2>1, <2>2
<1>3. CASE RunLater
  <2>1. view.arr = "call" /\ latent
    BY <1>3 DEF RunLater, CallInv
  <2>2. CASE HasBase
    <3>1. view' = UnpackArray("call") /\ stage' = "running"
      BY <1>3, <2>1, <2>2 DEF RunLater
    <3>2. CallTypeOK'
      BY <1>0, <1>3, <3>1, Unpacked DEF RunLater, CallTypeOK
    <3> QED
      BY <1>0, <1>3, <3>1, <3>2, Unpacked DEF RunLater, CallInv, CopyMirrorsArray, ReturnsItsCopy
  <2>3. CASE ~HasBase
    BY <1>3, <2>3 DEF RunLater, CallInv, CallTypeOK, CopyMirrorsArray, ReturnsItsCopy
  <2> QED
    BY <2>2, <2>3
<1>4. CASE ObjectGoes
  BY <1>4 DEF ObjectGoes, CallInv, CallTypeOK, CopyMirrorsArray, ReturnsItsCopy
<1>5. CASE Return
  <2>1. result' = PackArray(view) /\ result' \in Contents
        /\ (~result'.none => result'.items = view.data /\ ~view.none)
    BY <1>0, <1>5, Packed DEF Return
  <2> QED
    BY <1>5, <2>1 DEF Return, CallInv, CallTypeOK, CopyMirrorsArray, ReturnsItsCopy
<1>6. ASSUME NEW c \in Contents, OtherScript(c) PROVE CallInv'
  <2>1. changes' \in 0..MaxChanges
    BY <1>6, CallAssumption DEF OtherScript, CallInv, CallTypeOK
  <2>2. arrays' \in [{"script", "call"} -> Contents] /\ arrays'["call"] = arrays["call"]
    BY <1>0, <1>6 DEF OtherScript, CallTypeOK
  <2>3. CallTypeOK'
    BY <1>0, <1>6, <2>1, <2>2 DEF OtherScript, CallTypeOK
  <2> QED
    BY <1>6, <2>2, <2>3 DEF OtherScript, CallInv, CopyMirrorsArray, ReturnsItsCopy
<1>7. ASSUME NEW s \in Lists, Assign(s) PROVE CallInv'
  <2> DEFINE d == IF s = <<>> THEN Cleared ELSE Some(s)
  <2>1. Behind(d, s, TRUE)
    <3>1. CASE s = <<>>
      BY <3>1, ContentsFacts, ListFacts DEF Behind
    <3>2. CASE s # <<>>
      <4>1. Len(s) \in Nat /\ Len(s) <= Len(s)
        BY ListFacts
      <4>2. Behind(Some(s), s, TRUE)
        BY <4>1, BehindSome
      <4> QED
        BY <3>2, <4>2
    <3> QED
      BY <3>1, <3>2
  <2>2. /\ stage = "running" /\ changes < MaxChanges
        /\ view' = [view EXCEPT !.data = s]
        /\ arrays' = IF view.arr = "nothing" THEN arrays ELSE [arrays EXCEPT ![view.arr] = d]
        /\ changes' = changes + 1 /\ grown' = FALSE
        /\ UNCHANGED <<object, stage, latent, isStatic, passed, chosen, result>>
    BY <1>7 DEF Assign, Through
  <2> HIDE DEF d
  <2> QED
    BY <2>1, <2>2, ChangeStep
<1>8. ASSUME NEW x \in Items, Push(x) PROVE CallInv'
  <2> DEFINE d == PushTo(arrays[view.arr], x)
             t == Append(view.data, x)
  <2>1. /\ stage = "running" /\ changes < MaxChanges
        /\ view' = [view EXCEPT !.data = t]
        /\ arrays' = IF view.arr = "nothing" THEN arrays ELSE [arrays EXCEPT ![view.arr] = d]
        /\ changes' = changes + 1 /\ grown' = grown /\ Len(view.data) < MaxLength
        /\ UNCHANGED <<object, stage, latent, isStatic, passed, chosen, result>>
    BY <1>8 DEF Push, Through
  <2>2. t \in Lists
    BY <1>0, <2>1, Appended
  <2>3. view.arr # "nothing" => Behind(d, t, ~grown)
    BY <1>0, <2>1, PushToKeeps
  <2> HIDE DEF d, t
  <2> QED
    BY <1>0, <2>1, <2>2, <2>3, ChangeStep
<1>9. ASSUME NEW x \in Items, NEW i \in 1..MaxLength, Set(i, x) PROVE CallInv'
  <2> DEFINE d == SetIn(arrays[view.arr], i, x)
             t == [view.data EXCEPT ![i] = x]
  <2>1. /\ stage = "running" /\ changes < MaxChanges /\ i \in DOMAIN view.data
        /\ view' = [view EXCEPT !.data = t]
        /\ arrays' = IF view.arr = "nothing" THEN arrays ELSE [arrays EXCEPT ![view.arr] = d]
        /\ changes' = changes + 1 /\ grown' = grown
        /\ UNCHANGED <<object, stage, latent, isStatic, passed, chosen, result>>
    BY <1>9 DEF Set, Through
  <2>2. t \in Lists
    BY <1>0, <2>1, Written
  <2>3. view.arr # "nothing" => Behind(d, t, ~grown)
    BY <1>0, <2>1, SetInKeeps
  <2> HIDE DEF d, t
  <2> QED
    BY <1>0, <2>1, <2>2, <2>3, ChangeStep
<1>10. ASSUME NEW i \in 1..MaxLength, RemoveItem(i) PROVE CallInv'
  <2> DEFINE d == RemoveFrom(arrays[view.arr], i)
             t == RemoveAt(view.data, i)
  <2>1. /\ stage = "running" /\ changes < MaxChanges /\ i \in DOMAIN view.data
        /\ view' = [view EXCEPT !.data = t]
        /\ arrays' = IF view.arr = "nothing" THEN arrays ELSE [arrays EXCEPT ![view.arr] = d]
        /\ changes' = changes + 1 /\ grown' = grown
        /\ UNCHANGED <<object, stage, latent, isStatic, passed, chosen, result>>
    BY <1>10 DEF RemoveItem, Through
  <2>2. t \in Lists
    BY <1>0, <2>1, Removed
  <2>3. view.arr # "nothing" => Behind(d, t, ~grown)
    BY <1>0, <2>1, RemoveFromKeeps
  <2> HIDE DEF d, t
  <2> QED
    BY <1>0, <2>1, <2>2, <2>3, ChangeStep
<1>11. ASSUME NEW n \in 0..MaxLength, Resize(n) PROVE CallInv'
  <2> DEFINE a == arrays[view.arr]
             d == ResizeOf(a, n)
             t == ResizedTo(view.data, n)
  <2>1. /\ stage = "running" /\ changes < MaxChanges
        /\ view' = [view EXCEPT !.data = t]
        /\ arrays' = IF view.arr = "nothing" THEN arrays ELSE [arrays EXCEPT ![view.arr] = d]
        /\ changes' = changes + 1
        /\ grown' = (grown \/ (view.arr # "nothing" /\ a.block /\ n > Len(a.items)))
        /\ UNCHANGED <<object, stage, latent, isStatic, passed, chosen, result>>
    BY <1>11 DEF Resize, Through, ResizedTo
  <2>2. t \in Lists
    BY <1>0, ResizedList
  <2>3. view.arr # "nothing" => Behind(d, t, ~grown /\ ~(a.block /\ n > Len(a.items)))
    BY <1>0, <2>1, ResizeKeeps
  <2> HIDE DEF a, d, t
  <2>4. grown' \in BOOLEAN /\ (view.arr # "nothing" => Behind(d, t, ~grown'))
    BY <1>0, <2>1, <2>3 DEF Behind
  <2> QED
    BY <2>1, <2>2, <2>4, ChangeStep
<1>12. ASSUME NEW b \in BOOLEAN, SetNone(b) PROVE CallInv'
  <2>1. view' \in [arr : {"nothing", "script", "call"}, data : Lists, none : BOOLEAN]
        /\ view'.arr = view.arr /\ view'.data = view.data /\ changes' \in 0..MaxChanges
    BY <1>0, <1>12, CallAssumption DEF SetNone, CallTypeOK
  <2> QED
    BY <1>12, <2>1 DEF SetNone, CallInv, CallTypeOK, CopyMirrorsArray, ReturnsItsCopy
<1>13. CASE UNCHANGED callVars
  BY <1>13 DEF callVars, CallInv, CallTypeOK, CopyMirrorsArray, ReturnsItsCopy
<1> QED
  BY <1>1, <1>2, <1>3, <1>4, <1>5, <1>6, <1>7, <1>8, <1>9, <1>10, <1>11, <1>12, <1>13 DEF CallNext

(* The step property, from the invariant.                                  *)
LEMMA LaterCallsStep ==
  ASSUME CallInv, CallNext
  PROVE  /\ latent /\ stage = "running" => arrays'["script"] = arrays["script"]
         /\ stage = "queued" /\ stage' = "running" => view'.data = passed.items /\ HasBase
PROOF
<1>1. ASSUME latent, stage = "running" PROVE arrays'["script"] = arrays["script"]
  <2>1. view.arr \in {"nothing", "call"} /\ arrays \in [{"script", "call"} -> Contents]
    BY <1>1 DEF CallInv, CallTypeOK
  <2>2. ASSUME NEW d, arrays' = IF view.arr = "nothing" THEN arrays ELSE [arrays EXCEPT ![view.arr] = d]
        PROVE  arrays'["script"] = arrays["script"]
    BY <2>1, <2>2
  <2> QED
    BY <1>1, <2>2 DEF CallNext, Run, Enqueue, RunLater, ObjectGoes, Return, OtherScript, Assign, Push,
                      Set, RemoveItem, Resize, SetNone, Through
<1>2. ASSUME stage = "queued", stage' = "running" PROVE view'.data = passed.items /\ HasBase
  <2>1. RunLater
    BY <1>2 DEF CallNext, Run, Enqueue, RunLater, ObjectGoes, Return, OtherScript, Assign, Push,
                Set, RemoveItem, Resize, SetNone, Through
  <2>2. HasBase /\ view' = UnpackArray(view.arr) /\ view.arr = "call"
        /\ arrays["call"].items = passed.items /\ CallTypeOK
    BY <1>2, <2>1 DEF RunLater, CallInv
  <2> QED
    BY <2>2, Unpacked
<1> QED
  BY <1>1, <1>2

(* PapyrusNativeFunctions.h: a call that was put off begins with the array *)
(* as the script passed it and leaves the script's alone; one that was not *)
(* changes the script's array as it changes its copy, until it has asked   *)
(* Resize (PapyrusArgs.h:98) for more than the array has, and even then    *)
(* leaves it no longer than its copy; what a script gets back is that copy.*)
THEOREM CallsAlwaysKeepTheirArrays == CallSpec => CallsKeepTheirArrays
PROOF
<1>1. CallInv => CallTypeOK /\ CopyMirrorsArray /\ ReturnsItsCopy
  BY DEF CallInv
<1>2. CallInv /\ [CallNext]_callVars
        => [/\ latent /\ stage = "running" => arrays'["script"] = arrays["script"]
            /\ stage = "queued" /\ stage' = "running"
                 => view'.data = passed.items /\ HasBase]_callVars
  BY LaterCallsStep
<1> QED
  BY <1>1, <1>2, CallInvInit, CallInvNext, PTL DEF CallSpec, CallsKeepTheirArrays, LaterCallsAreOnTheirOwn
-----------------------------------------------------------------------------
(* The lists of extra data.                                                *)
Pending(t) == call[t].op = "add"

(* What a list needs to stay as OneOfEachType and PresentIsFound say: a    *)
(* thread is adding an entry that is not in the chain, that nobody else is *)
(* adding, and of whose type there is none yet if it is the only adder.    *)
ListInv ==
  /\ ExtraTypeOK
  /\ \A t \in Threads : Pending(t) =>
       call[t].entry \notin Range(chain) /\ <<t, TypeOf[call[t].entry]>> \in adders
  /\ \A t, u \in Threads : Pending(t) /\ Pending(u) /\ call[t].entry = call[u].entry => t = u
  /\ \A type \in presence : \E e \in Range(chain) : TypeOf[e] = type
  /\ OneAdderEach =>
       /\ \A t \in Threads : Pending(t) => TypeOf[call[t].entry] \notin presence
       /\ \A e \in Range(chain) : TypeOf[e] \in presence
       /\ \A e, f \in Range(chain) : TypeOf[e] = TypeOf[f] => e = f

IsJob(j) ==
  \/ j = NoJob
  \/ j.op = "get" /\ j.owner \in owners
  \/ /\ j.op = "set" /\ j.owner \in owners /\ j.attribute \in uses
     /\ j.argument \in Arguments[j.attribute]

Attached == {e \in Range(chain) : TypeOf[e] = InstanceType}

(* Where the function is, what its thread does to the list then, and what  *)
(* data it may have.                                                       *)
PlaceInv ==
  /\ IsJob(job)
  /\ at \in {"idle", "look", "find", "copy", "insert", "apply"}
  /\ at = "idle" <=> job = NoJob
  /\ at \in {"idle", "look", "copy", "apply"} => call[Script] = Idle
  /\ at = "find" => call[Script] = [op |-> "get", type |-> InstanceType]
  /\ at = "insert" => call[Script] = [op |-> "add", entry |-> target]
  /\ at \in {"look", "find", "copy", "insert"} => HasList(job.owner)
  /\ at \in {"idle", "look", "find", "copy"} => target = NoData
  /\ at = "insert" => target \in Copies
  /\ at = "apply" => IF HasList(job.owner) THEN target \in Copies \cup {NoData}
                     ELSE target = OfForm(job.owner)

ValueInv ==
  /\ value = [d \in Data |-> value[d]] /\ \A d \in Data : DOMAIN value[d] = Attributes
  /\ \A d \in Data, a \in Attributes \cap Amounts : value[d][a] \in 0 .. Greatest[a]
  /\ DOMAIN asked = Owners
  /\ \A o \in Owners : DOMAIN asked[o] \subseteq Attributes
  /\ \A o \in Owners \ owners : DOMAIN asked[o] = {}

(* With one user: a copy is made when there is none, what the function has *)
(* is what is in the chain, and each owner's data has what was set.        *)
Holder(o) == IF o = "form" THEN {"base"} ELSE IF o = "worn" THEN {"slot"}
             ELSE IF HasList(o) THEN Attached ELSE {}

UserInv ==
  OneUser =>
    /\ at = "copy" => InstanceType \notin presence
    /\ at = "apply" /\ HasList(job.owner) /\ target # NoData => target \in Attached
    /\ \A o \in owners : \A a \in DOMAIN asked[o] :
         /\ Holder(o) # {}
         /\ \A d \in Holder(o) : value[d][a] = asked[o][a]

ProgramInv ==
  /\ <<Script, InstanceType>> \in adders
  /\ owners \subseteq Owners /\ uses \subseteq Attributes

ItemInv == ListInv /\ ProgramInv /\ PlaceInv /\ ValueInv /\ UserInv

-----------------------------------------------------------------------------
LEMMA LinkInFront ==
  ASSUME NEW S, NEW s \in Seq(S), NEW e \in S, IsInjective(s), e \notin Range(s)
  PROVE  /\ <<e>> \o s \in Seq(S) /\ IsInjective(<<e>> \o s)
         /\ Range(<<e>> \o s) = Range(s) \cup {e}
PROOF
<1> DEFINE t == <<e>> \o s
<1>1. <<e>> \in Seq(S) /\ Len(<<e>>) = 1 /\ <<e>>[1] = e
  OBVIOUS
<1>2. /\ t \in Seq(S) /\ Len(t) = Len(s) + 1 /\ t[1] = e
      /\ \A i \in 2..Len(t) : t[i] = s[i - 1]
  BY <1>1, ConcatProperties
<1>3. DOMAIN t = 1..(Len(s) + 1) /\ DOMAIN s = 1..Len(s) /\ Len(s) \in Nat
  BY <1>2
<1> HIDE DEF t
<1>4. \A i \in DOMAIN t : i # 1 => i - 1 \in DOMAIN s /\ t[i] = s[i - 1]
  BY <1>2, <1>3
<1>5. \A i \in DOMAIN s : i + 1 \in DOMAIN t /\ t[i + 1] = s[i]
  BY <1>2, <1>3
<1>6. Range(t) = Range(s) \cup {e}
  <2>1. \A x \in Range(t) : x \in Range(s) \cup {e}
    BY <1>2, <1>4 DEF Range
  <2>2. \A x \in Range(s) \cup {e} : x \in Range(t)
    BY <1>2, <1>3, <1>5 DEF Range
  <2> QED
    BY <2>1, <2>2
<1>7. ASSUME NEW i \in DOMAIN t, NEW j \in DOMAIN t, t[i] = t[j] PROVE i = j
  <2>1. \A k \in DOMAIN t : k # 1 => t[k] # e
    BY <1>4 DEF Range
  <2>2. CASE i = 1 \/ j = 1
    BY <1>2, <1>7, <2>1, <2>2
  <2>3. CASE i # 1 /\ j # 1
    <3>1. i - 1 = j - 1
      BY <1>4, <1>7, <2>3 DEF IsInjective
    <3> QED
      BY <1>3, <3>1
  <2> QED
    BY <2>2, <2>3
<1> QED
  BY <1>2, <1>6, <1>7 DEF t, IsInjective

LEMMA Unlink ==
  ASSUME NEW S, NEW s \in Seq(S), IsInjective(s), NEW p \in DOMAIN s
  PROVE  /\ RemoveAt(s, p) \in Seq(S) /\ IsInjective(RemoveAt(s, p))
         /\ Range(RemoveAt(s, p)) = Range(s) \ {s[p]}
PROOF
<1> DEFINE a == SubSeq(s, 1, p - 1)
           b == SubSeq(s, p + 1, Len(s))
           t == RemoveAt(s, p)
           from(i) == IF i < p THEN i ELSE i + 1
<1>1. DOMAIN s = 1..Len(s) /\ Len(s) \in Nat /\ p \in 1..Len(s) /\ \A i \in 1..Len(s) : s[i] \in S
  OBVIOUS
<1>2. a \in Seq(S) /\ Len(a) = p - 1 /\ \A i \in 1..(p - 1) : a[i] = s[i]
  BY <1>1, SubSeqProperties
<1>3. b \in Seq(S) /\ Len(b) = Len(s) - p /\ \A i \in 1..(Len(s) - p) : b[i] = s[p + i]
  BY <1>1, SubSeqProperties
<1>4. t = a \o b
  BY DEF RemoveAt
<1> HIDE DEF a, b
<1>5. t \in Seq(S) /\ Len(t) = Len(s) - 1 /\ DOMAIN t = 1..(Len(s) - 1)
  <2>1. t \in Seq(S) /\ Len(t) = Len(a) + Len(b)
    BY <1>2, <1>3, <1>4, ConcatProperties
  <2> HIDE DEF t
  <2>2. Len(t) = Len(s) - 1
    BY <1>1, <1>2, <1>3, <2>1
  <2> QED
    BY <2>1, <2>2
<1>6. \A i \in DOMAIN t : t[i] = s[from(i)]
  <2> SUFFICES ASSUME NEW i \in 1..(Len(s) - 1) PROVE t[i] = s[from(i)]
    BY <1>5
  <2>1. t[i] = IF i <= p - 1 THEN a[i] ELSE b[i - (p - 1)]
    BY <1>1, <1>2, <1>3, <1>4, ConcatProperties
  <2> HIDE DEF t
  <2>2. CASE i < p
    BY <1>1, <1>2, <2>1, <2>2
  <2>3. CASE i >= p
    <3>1. i - (p - 1) \in 1..(Len(s) - p) /\ p + (i - (p - 1)) = i + 1
      BY <1>1, <2>3
    <3> QED
      BY <1>1, <1>3, <2>1, <2>3, <3>1
  <2> QED
    BY <1>1, <2>2, <2>3
<1> HIDE DEF t
<1>7. \A i \in DOMAIN t : from(i) \in DOMAIN s /\ from(i) # p
  BY <1>1, <1>5
<1>8. \A k \in DOMAIN s : k # p => \E i \in DOMAIN t : from(i) = k
  <2> SUFFICES ASSUME NEW k \in 1..Len(s), k # p PROVE \E i \in DOMAIN t : from(i) = k
    BY <1>1
  <2>1. CASE k < p
    BY <1>1, <1>5, <2>1
  <2>2. CASE k > p
    <3>1. k - 1 \in DOMAIN t /\ from(k - 1) = k
      BY <1>1, <1>5, <2>2
    <3> QED
      BY <3>1
  <2> QED
    BY <1>1, <2>1, <2>2
<1>9. \A i, j \in DOMAIN t : from(i) = from(j) => i = j
  BY <1>1, <1>5
<1> HIDE DEF from
<1>10. IsInjective(t)
  BY <1>6, <1>7, <1>9 DEF IsInjective
<1>11. Range(t) = Range(s) \ {s[p]}
  <2>1. \A x \in Range(t) : x \in Range(s) \ {s[p]}
    BY <1>6, <1>7 DEF Range, IsInjective
  <2>2. \A x \in Range(s) \ {s[p]} : x \in Range(t)
    BY <1>6, <1>8 DEF Range
  <2> QED
    BY <2>1, <2>2
<1> QED
  BY <1>5, <1>10, <1>11 DEF t

LEMMA LeastPlace ==
  ASSUME NEW T \in SUBSET Nat, T # {}
  PROVE  First(T) \in T
PROOF
<1>1. \E x \in T : \A y \in T : ~ (<<y, x>> \in OpToRel(<, Nat))
  BY NatLessThanWellFounded, WFMin
<1>2. \A x, y \in T : y < x => <<y, x>> \in OpToRel(<, Nat)
  BY DEF OpToRel
<1>3. \E x \in T : \A y \in T : ~ (y < x)
  BY <1>1, <1>2, Zenon
<1>4. \E x \in T : \A y \in T : x <= y
  BY <1>3
<1> QED
  BY <1>4 DEF First

-----------------------------------------------------------------------------
Calls == {Idle} \cup [op : {"add"}, entry : Extras] \cup [op : {"get"}, type : Types]

LEMMA CallFacts ==
  ASSUME ListInv, NEW t \in Threads
  PROVE  /\ call \in [Threads -> Calls] /\ found \in [Threads -> Extras \cup {NoEntry}]
         /\ Pending(t) => call[t].entry \in Extras /\ call[t] = [op |-> "add", entry |-> call[t].entry]
         /\ call[t].op = "get" => call[t].type \in Types
         /\ call[t] = Idle => ~ Pending(t)
BY DEF ListInv, ExtraTypeOK, Calls, Idle, Pending

LEMMA ChainFacts ==
  ASSUME ListInv
  PROVE  /\ chain \in Seq(Extras) /\ IsInjective(chain) /\ Range(chain) \subseteq Extras
         /\ \A i \in DOMAIN chain : i \in Nat /\ chain[i] \in Range(chain)
         /\ \A e \in Range(chain) : PlaceOf(e) # {} /\ PlaceOf(e) \subseteq DOMAIN chain
         /\ \A type : OfType(type) \subseteq DOMAIN chain
         /\ \A type : OfType(type) = {} <=> \A e \in Range(chain) : TypeOf[e] # type
BY DEF ListInv, ExtraTypeOK, Range, PlaceOf, OfType

LEMMA AddTestKeeps ==
  ASSUME ListInv, NEW t \in Threads, NEW e \in Extras, Spare(e), <<t, TypeOf[e]>> \in adders,
         AddTest(t, e)
  PROVE  ListInv'
PROOF
<1>1. call \in [Threads -> Calls]
  BY CallFacts
<1>2. CASE HasType(TypeOf[e])
  BY <1>2 DEF AddTest, ListInv, ExtraTypeOK, Pending, OneAdderEach
<1>3. CASE ~ HasType(TypeOf[e])
  <2> DEFINE job1 == [op |-> "add", entry |-> e]
  <2>1. job1 \in Calls /\ job1.op = "add" /\ job1.entry = e
    BY DEF Calls
  <2>2. call' = [call EXCEPT ![t] = job1] /\ UNCHANGED <<adders, chain, presence, found>>
    BY <1>3 DEF AddTest
  <2> HIDE DEF job1
  <2>3. call' \in [Threads -> Calls] /\ call'[t] = job1 /\ \A u \in Threads \ {t} : call'[u] = call[u]
    BY <1>1, <2>1, <2>2
  <2>4. ExtraTypeOK'
    BY <2>2, <2>3 DEF ListInv, ExtraTypeOK, Calls
  <2>5. ASSUME NEW u \in Threads, Pending(u)'
        PROVE  call'[u].entry \notin Range(chain) /\ <<u, TypeOf[call'[u].entry]>> \in adders
    BY <2>1, <2>3, <2>5 DEF ListInv, Pending, Spare
  <2>6. ASSUME NEW u \in Threads, NEW v \in Threads, Pending(u)', Pending(v)',
               call'[u].entry = call'[v].entry
        PROVE  u = v
    BY <2>1, <2>3, <2>6 DEF ListInv, Pending, Spare
  <2>7. ASSUME OneAdderEach, NEW u \in Threads, Pending(u)'
        PROVE  TypeOf[call'[u].entry] \notin presence
    BY <1>3, <2>1, <2>3, <2>7 DEF ListInv, Pending, HasType
  <2>8. OneAdderEach' <=> OneAdderEach
    BY <2>2 DEF OneAdderEach
  <2> HIDE DEF Pending
  <2> QED
    BY <2>2, <2>4, <2>5, <2>6, <2>7, <2>8 DEF ListInv
<1> QED
  BY <1>2, <1>3

LEMMA AddInsertKeeps ==
  ASSUME ListInv, NEW t \in Threads, AddInsert(t)
  PROVE  /\ ListInv'
         /\ Range(chain)' = Range(chain) \cup {call[t].entry}
PROOF
<1> DEFINE e == call[t].entry
<1>1. /\ call \in [Threads -> Calls] /\ Pending(t) /\ e \in Extras /\ e \notin Range(chain)
      /\ <<t, TypeOf[e]>> \in adders /\ TypeOf[e] \in Types
  BY CallFacts DEF AddInsert, ListInv, Pending, Types
<1>2. /\ chain' = <<e>> \o chain /\ presence' = presence \cup {TypeOf[e]}
      /\ call' = [call EXCEPT ![t] = Idle] /\ UNCHANGED <<adders, found>>
  BY DEF AddInsert
<1>3. chain' \in Seq(Extras) /\ IsInjective(chain') /\ Range(chain') = Range(chain) \cup {e}
  BY <1>1, <1>2, ChainFacts, LinkInFront
<1>4. /\ Idle \in Calls /\ Idle.op # "add"
      /\ call' \in [Threads -> Calls] /\ call'[t] = Idle
      /\ \A u \in Threads \ {t} : call'[u] = call[u]
  BY <1>1, <1>2 DEF Calls, Idle
<1>5. ASSUME NEW u \in Threads, Pending(u)'
      PROVE  u # t /\ Pending(u) /\ call'[u] = call[u] /\ call[u].entry # e
  BY <1>1, <1>4, <1>5 DEF Pending, ListInv
<1> HIDE DEF e
<1>6. ExtraTypeOK'
  BY <1>1, <1>2, <1>3, <1>4 DEF ListInv, ExtraTypeOK, Calls
<1>7. \A u \in Threads : Pending(u)' =>
        call'[u].entry \notin Range(chain') /\ <<u, TypeOf[call'[u].entry]>> \in adders'
  BY <1>2, <1>3, <1>5 DEF ListInv
<1>8. \A u, v \in Threads : Pending(u)' /\ Pending(v)' /\ call'[u].entry = call'[v].entry => u = v
  BY <1>5 DEF ListInv
<1>9. \A type \in presence' : \E f \in Range(chain') : TypeOf[f] = type
  BY <1>2, <1>3 DEF ListInv
<1>10. ASSUME OneAdderEach'
       PROVE  /\ \A u \in Threads : Pending(u)' => TypeOf[call'[u].entry] \notin presence'
              /\ \A f \in Range(chain') : TypeOf[f] \in presence'
              /\ \A f, g \in Range(chain') : TypeOf[f] = TypeOf[g] => f = g
  <2>1. OneAdderEach
    BY <1>2, <1>10 DEF OneAdderEach
  <2>2. TypeOf[e] \notin presence
    BY <1>1, <2>1 DEF ListInv, e
  <2>3. \A u \in Threads : Pending(u)' => TypeOf[call'[u].entry] # TypeOf[e]
    <3> SUFFICES ASSUME NEW u \in Threads, Pending(u)', TypeOf[call'[u].entry] = TypeOf[e] PROVE FALSE
      OBVIOUS
    <3>1. u # t /\ <<u, TypeOf[e]>> \in adders
      BY <1>5 DEF ListInv
    <3> QED
      BY <1>1, <2>1, <3>1 DEF OneAdderEach
  <2> QED
    BY <1>2, <1>3, <1>5, <2>1, <2>2, <2>3 DEF ListInv
<1> QED
  BY <1>3, <1>6, <1>7, <1>8, <1>9, <1>10 DEF ListInv, e

LEMMA RemoveEntryKeeps ==
  ASSUME ListInv, NEW t \in Threads, NEW e \in Extras, RemoveEntry(t, e)
  PROVE  ListInv'
PROOF
<1>1. CASE HasType(TypeOf[e]) /\ e \in Range(chain)
  <2>1. /\ chain' = RemoveAt(chain, First(PlaceOf(e))) /\ presence' = presence \ {TypeOf[e]}
        /\ UNCHANGED <<adders, call, found>>
    BY <1>1 DEF RemoveEntry
  <2>2. First(PlaceOf(e)) \in PlaceOf(e)
    BY <1>1, ChainFacts, LeastPlace
  <2>3. First(PlaceOf(e)) \in DOMAIN chain /\ chain[First(PlaceOf(e))] = e
    BY <2>2 DEF PlaceOf
  <2>4. chain' \in Seq(Extras) /\ IsInjective(chain') /\ Range(chain') = Range(chain) \ {e}
    BY <2>1, <2>3, ChainFacts, Unlink
  <2>5. ExtraTypeOK'
    BY <2>1, <2>4 DEF ListInv, ExtraTypeOK
  <2>6. \A u \in Threads : Pending(u)' <=> Pending(u)
    BY <2>1 DEF Pending
  <2> QED
    <3> HIDE DEF Pending
    <3>1. \A type \in presence' : \E f \in Range(chain') : TypeOf[f] = type
      BY <2>1, <2>4 DEF ListInv
    <3>2. ASSUME OneAdderEach'
          PROVE  /\ \A u \in Threads : Pending(u)' => TypeOf[call'[u].entry] \notin presence'
                 /\ \A f \in Range(chain') : TypeOf[f] \in presence'
                 /\ \A f, g \in Range(chain') : TypeOf[f] = TypeOf[g] => f = g
      <4>1. OneAdderEach
        BY <2>1, <3>2 DEF OneAdderEach
      <4> QED
        BY <1>1, <2>1, <2>4, <2>6, <4>1 DEF ListInv
    <3>3. \A u \in Threads : Pending(u)' =>
            call'[u].entry \notin Range(chain') /\ <<u, TypeOf[call'[u].entry]>> \in adders'
      BY <2>1, <2>4, <2>6 DEF ListInv
    <3>4. \A u, v \in Threads : Pending(u)' /\ Pending(v)' /\ call'[u].entry = call'[v].entry => u = v
      BY <2>1, <2>6 DEF ListInv
    <3> QED
      BY <2>5, <3>1, <3>2, <3>3, <3>4 DEF ListInv
<1>2. CASE ~ (HasType(TypeOf[e]) /\ e \in Range(chain))
  BY <1>2 DEF RemoveEntry, ListInv, ExtraTypeOK, Pending, OneAdderEach
<1> QED
  BY <1>1, <1>2

LEMMA GetTestKeeps ==
  ASSUME ListInv, NEW t \in Threads, NEW type \in Types, GetTest(t, type)
  PROVE  ListInv'
PROOF
<1>1. /\ call \in [Threads -> Calls] /\ found \in [Threads -> Extras \cup {NoEntry}]
  BY CallFacts
<1>2. /\ call' \in [Threads -> Calls] /\ found' \in [Threads -> Extras \cup {NoEntry}]
      /\ \A u \in Threads : call'[u] = call[u] \/ call'[u].op = "get"
      /\ UNCHANGED <<adders, chain, presence>>
  BY <1>1 DEF GetTest, Calls
<1>3. \A u \in Threads : Pending(u)' => Pending(u) /\ call'[u] = call[u]
  BY <1>2 DEF Pending
<1>4. ExtraTypeOK'
  BY <1>2 DEF ListInv, ExtraTypeOK, Calls
<1> QED
  BY <1>2, <1>3, <1>4 DEF ListInv, OneAdderEach

LEMMA GetFindKeeps ==
  ASSUME ListInv, NEW t \in Threads, GetFind(t)
  PROVE  /\ ListInv'
         /\ \/ found'[t] = NoEntry /\ call[t].type \notin presence
               /\ \A e \in Range(chain) : TypeOf[e] # call[t].type
            \/ found'[t] \in Range(chain) /\ TypeOf[found'[t]] = call[t].type
PROOF
<1> DEFINE same == OfType(call[t].type)
           e == IF same = {} THEN NoEntry ELSE chain[First(same)]
<1>1. /\ call \in [Threads -> Calls] /\ found \in [Threads -> Extras \cup {NoEntry}]
  BY CallFacts
<1>2. /\ found' = [found EXCEPT ![t] = e] /\ call' = [call EXCEPT ![t] = Idle]
      /\ UNCHANGED <<adders, chain, presence>>
  BY DEF GetFind
<1>3. same # {} => First(same) \in same
  BY ChainFacts, LeastPlace
<1>4. same # {} => e \in Range(chain) /\ TypeOf[e] = call[t].type
  BY <1>3, ChainFacts DEF OfType
<1>5. same = {} => e = NoEntry /\ call[t].type \notin presence
                     /\ \A f \in Range(chain) : TypeOf[f] # call[t].type
  <2> SUFFICES ASSUME same = {}
               PROVE  e = NoEntry /\ call[t].type \notin presence
                        /\ \A f \in Range(chain) : TypeOf[f] # call[t].type
    OBVIOUS
  <2>1. \A f \in Range(chain) : TypeOf[f] # call[t].type
    BY ChainFacts
  <2>2. call[t].type \notin presence
    BY <2>1 DEF ListInv
  <2> QED
    BY <2>1, <2>2
<1>6. e \in Extras \cup {NoEntry}
  BY <1>4, <1>5, ChainFacts
<1> HIDE DEF e, same
<1>7. /\ Idle \in Calls /\ Idle.op # "add"
      /\ call' \in [Threads -> Calls] /\ found' \in [Threads -> Extras \cup {NoEntry}]
      /\ call'[t] = Idle /\ found'[t] = e /\ \A u \in Threads \ {t} : call'[u] = call[u]
  BY <1>1, <1>2, <1>6 DEF Calls, Idle
<1>8. \A u \in Threads : Pending(u)' => Pending(u) /\ call'[u] = call[u]
  BY <1>7 DEF Pending
<1>9. ExtraTypeOK'
  BY <1>2, <1>7 DEF ListInv, ExtraTypeOK, Calls
<1> QED
  BY <1>2, <1>4, <1>5, <1>7, <1>8, <1>9 DEF ListInv, OneAdderEach

LEMMA ListInvInit == ExtraInit => ListInv
PROOF
<1> SUFFICES ASSUME ExtraInit PROVE ListInv
  OBVIOUS
<1>1. chain = <<>> /\ presence = {} /\ \A t \in Threads : ~ Pending(t)
  BY DEF ExtraInit, Pending, Idle
<1>2. ExtraTypeOK
  BY DEF ExtraInit, ExtraTypeOK, IsInjective
<1>3. Range(chain) = {}
  BY <1>1 DEF Range
<1> QED
  BY <1>1, <1>2, <1>3 DEF ListInv

LEMMA ListUnchanged == ASSUME ListInv, UNCHANGED extraVars PROVE ListInv'
BY DEF ListInv, extraVars, ExtraTypeOK, Pending, OneAdderEach

LEMMA ListStep == ListInv /\ [ExtraNext]_extraVars => ListInv'
PROOF
<1> SUFFICES ASSUME ListInv, [ExtraNext]_extraVars PROVE ListInv'
  OBVIOUS
<1>1. ASSUME NEW t \in Threads, Use(t) PROVE ListInv'
  BY <1>1, AddTestKeeps, AddInsertKeeps, RemoveEntryKeeps, GetTestKeeps, GetFindKeeps DEF Use
<1> QED
  BY <1>1, ListUnchanged DEF ExtraNext

LEMMA ListIsSound == ListInv => ExtraTypeOK /\ PresentIsFound /\ OneOfEachType
PROOF
<1> SUFFICES ASSUME ListInv PROVE ExtraTypeOK /\ PresentIsFound /\ OneOfEachType
  OBVIOUS
<1>1. PresentIsFound
  BY ChainFacts DEF PresentIsFound, ListInv
<1>2. ASSUME OneAdderEach, NEW type \in Types
      PROVE  /\ OfType(type) # {} => type \in presence
             /\ \A i, j \in OfType(type) : i = j
  <2>1. /\ \A e \in Range(chain) : TypeOf[e] \in presence
        /\ \A e, f \in Range(chain) : TypeOf[e] = TypeOf[f] => e = f
    BY <1>2 DEF ListInv
  <2>2. \A i \in OfType(type) : i \in DOMAIN chain /\ chain[i] \in Range(chain) /\ TypeOf[chain[i]] = type
    BY ChainFacts DEF OfType
  <2>3. ASSUME NEW i \in OfType(type), NEW j \in OfType(type) PROVE i = j
    <3>1. chain[i] = chain[j]
      BY <2>1, <2>2
    <3> QED
      BY <2>2, <3>1, ChainFacts DEF IsInjective
  <2> QED
    BY <2>1, <2>2, <2>3
<1> QED
  BY <1>1, <1>2 DEF OneOfEachType, ListInv

(* A list of extra data that any threads add to, remove from and search: a *)
(* bit that is set stands for an entry, and with one thread that adds each *)
(* type nothing hides behind another entry of its type.                    *)
THEOREM ListsAreAlwaysSound == ExtraSpec => [](ExtraTypeOK /\ PresentIsFound /\ OneOfEachType)
BY ListInvInit, ListStep, ListIsSound, PTL DEF ExtraSpec

-----------------------------------------------------------------------------
(* The functions on instance data.                                         *)
LEMMA AmountFacts ==
  \A a \in Amounts, n \in Int : \A before :
    Greatest[a] \in Nat /\ Kept(a, n, before) \in 0 .. Greatest[a]
PROOF
<1> SUFFICES ASSUME NEW a \in Amounts, NEW n \in Int, NEW before
             PROVE  Greatest[a] \in Nat /\ Kept(a, n, before) \in 0 .. Greatest[a]
  OBVIOUS
<1>1. Greatest[a] \in {65535, 255, 4} /\ a \notin {"flags", "damageTypes"}
  BY DEF Greatest, Amounts, WordAmounts, AccuracyAmounts, StaggerAmounts, FiringAmounts
<1>2. AsUInt32(n) \in Nat
  BY ItemAssumption DEF AsUInt32
<1>3. Kept(a, n, before) = IF AsUInt32(n) < Greatest[a] THEN AsUInt32(n) ELSE Greatest[a]
  BY <1>1 DEF Kept
<1> QED
  BY <1>1, <1>2, <1>3

LEMMA ItemInvInit == InstanceInit => ItemInv
PROOF
<1> SUFFICES ASSUME InstanceInit PROVE ItemInv
  OBVIOUS
<1>1. ListInv /\ ProgramInv
  BY ListInvInit DEF InstanceInit, ProgramInv
<1>2. PlaceInv
  BY ItemAssumption DEF InstanceInit, ExtraInit, PlaceInv, IsJob, NoJob
<1>3. \A o \in Owners : DOMAIN asked[o] = {}
  BY DEF InstanceInit
<1>4. \A d \in Data : value[d] = Original
  BY DEF InstanceInit
<1>5. ValueInv
  <2>1. \A d \in Data, a \in Attributes \cap Amounts : value[d][a] \in 0 .. Greatest[a]
    BY <1>4, AmountAssumption
  <2>2. value = [d \in Data |-> value[d]] /\ \A d \in Data : DOMAIN value[d] = Attributes
    BY <1>4 DEF InstanceInit, Attributes
  <2> QED
    BY <1>3, <2>1, <2>2 DEF InstanceInit, ValueInv
<1>6. UserInv
  BY <1>1, <1>3 DEF UserInv, InstanceInit, ProgramInv
<1> QED
  BY <1>1, <1>2, <1>5, <1>6 DEF ItemInv, ProgramInv

LEMMA CopyFacts ==
  /\ \A e \in Copies : e \in Extras /\ e \in Data /\ TypeOf[e] = InstanceType
                       /\ e # "base" /\ e # "slot" /\ e # NoData
  /\ "base" \in Data /\ "slot" \in Data /\ NoData \notin Data /\ "base" # NoData /\ "slot" # NoData
BY ItemAssumption DEF Copies, Data, NoData

LEMMA UserFrame ==
  ASSUME ItemInv, UNCHANGED <<owners, adders, chain, value, asked>>,
         OneUser /\ at' = "copy" => InstanceType \notin presence',
         OneUser /\ at' = "apply" /\ HasList(job'.owner) /\ target' # NoData => target' \in Attached
  PROVE  UserInv'
PROOF
<1>1. (OneUser' <=> OneUser) /\ Attached' = Attached /\ \A o : Holder(o)' = Holder(o)
  BY DEF OneUser, OneAdderEach, Attached, Holder
<1> HIDE DEF OneUser, Attached, Holder
<1> QED
  BY <1>1 DEF ItemInv, UserInv

LEMMA StartKeeps ==
  ASSUME ItemInv, NEW j, IsJob(j), j # NoJob, Start(j)
  PROVE  ItemInv'
PROOF
<1>1. /\ at = "idle" /\ job' = j /\ UNCHANGED <<program, extraVars, value, asked>>
      /\ call[Script] = Idle /\ target = NoData
  BY DEF Start, ItemInv, PlaceInv
<1>2. ListInv' /\ ProgramInv' /\ ValueInv'
  BY <1>1, ListUnchanged DEF ItemInv, ProgramInv, ValueInv, extraVars, program
<1>3. IsJob(job)' /\ job' # NoJob
  BY <1>1 DEF IsJob, program
<1>4. CASE HasList(j.owner)
  <2>1. at' = "look" /\ target' = NoData /\ call'[Script] = Idle
    BY <1>1, <1>4 DEF Start, extraVars
  <2>2. PlaceInv'
    BY <1>1, <1>3, <1>4, <2>1 DEF PlaceInv
  <2>3. UserInv'
    BY <1>1, <2>1, UserFrame DEF ItemInv, UserInv, HasType, program, extraVars
  <2> QED
    BY <1>2, <2>2, <2>3 DEF ItemInv
<1>5. CASE ~ HasList(j.owner)
  <2>1. at' = "apply" /\ target' = OfForm(j.owner) /\ call'[Script] = Idle
    BY <1>1, <1>5 DEF Start, extraVars
  <2>2. PlaceInv'
    BY <1>1, <1>3, <1>5, <2>1 DEF PlaceInv
  <2>3. UserInv'
    BY <1>1, <1>5, <2>1, UserFrame DEF ItemInv, UserInv, HasType, program, extraVars
  <2> QED
    BY <1>2, <2>2, <2>3 DEF ItemInv
<1> QED
  BY <1>4, <1>5

LEMMA LookTestKeeps == ASSUME ItemInv, LookTest PROVE ItemInv'
PROOF
<1>1. /\ at = "look" /\ GetTest(Script, InstanceType) /\ HasList(job.owner) /\ IsJob(job) /\ job # NoJob
      /\ target = NoData /\ call[Script] = Idle /\ UNCHANGED <<program, value, job, target, asked>>
      /\ at' = IF HasType(InstanceType) THEN "find" ELSE "copy"
  BY DEF LookTest, ItemInv, PlaceInv
<1>2. ListInv' /\ UNCHANGED <<adders, chain, presence>>
  BY <1>1, GetTestKeeps, ItemAssumption DEF ItemInv, GetTest
<1>3. ProgramInv' /\ ValueInv'
  BY <1>1, <1>2 DEF ItemInv, ProgramInv, ValueInv, program
<1>4. IsJob(job)' /\ job' # NoJob
  BY <1>1 DEF IsJob, program
<1>5. call \in [Threads -> Calls] /\ Script \in Threads
  BY CallFacts, ItemAssumption DEF ItemInv
<1>6. PlaceInv'
  <2>1. CASE HasType(InstanceType)
    <3>1. call'[Script] = [op |-> "get", type |-> InstanceType]
      BY <1>1, <1>5, <2>1 DEF GetTest
    <3> QED
      BY <1>1, <1>4, <2>1, <3>1 DEF PlaceInv
  <2>2. CASE ~ HasType(InstanceType)
    <3>1. call'[Script] = Idle
      BY <1>1, <2>2 DEF GetTest
    <3> QED
      BY <1>1, <1>4, <2>2, <3>1 DEF PlaceInv
  <2> QED
    BY <2>1, <2>2
<1>7. UserInv'
  BY <1>1, <1>2, UserFrame DEF ItemInv, UserInv, HasType, program, extraVars
<1> QED
  BY <1>2, <1>3, <1>6, <1>7 DEF ItemInv

LEMMA LookFindKeeps == ASSUME ItemInv, LookFind PROVE ItemInv'
PROOF
<1>1. /\ at = "find" /\ GetFind(Script) /\ HasList(job.owner) /\ IsJob(job) /\ job # NoJob
      /\ target = NoData /\ call[Script] = [op |-> "get", type |-> InstanceType]
      /\ UNCHANGED <<program, value, job, asked>>
  BY DEF LookFind, ItemInv, PlaceInv
<1>2. ListInv' /\ UNCHANGED <<adders, chain, presence>>
  BY <1>1, GetFindKeeps, ItemAssumption DEF ItemInv, GetFind
<1>3. ProgramInv' /\ ValueInv'
  BY <1>1, <1>2 DEF ItemInv, ProgramInv, ValueInv, program
<1>4. IsJob(job)' /\ job' # NoJob
  BY <1>1 DEF IsJob, program
<1>5. call'[Script] = Idle
  BY <1>1, CallFacts, ItemAssumption DEF ItemInv, GetFind
<1>6. call[Script].type = InstanceType
  BY <1>1
<1>7. \/ found'[Script] = NoEntry /\ InstanceType \notin presence
      \/ found'[Script] \in Range(chain) /\ TypeOf[found'[Script]] = InstanceType
  BY <1>1, <1>6, GetFindKeeps, ItemAssumption DEF ItemInv
<1>8. CASE found'[Script] = NoEntry
  <2>1. InstanceType \notin presence
    BY <1>7, <1>8, ChainFacts, ItemAssumption DEF ItemInv
  <2>2. at' = "copy" /\ target' = NoData
    BY <1>1, <1>8 DEF LookFind
  <2>3. PlaceInv'
    BY <1>1, <1>4, <1>5, <2>2 DEF PlaceInv
  <2>4. UserInv'
    BY <1>1, <1>2, <2>1, <2>2, UserFrame DEF ItemInv, UserInv, HasType, program, extraVars
  <2> QED
    BY <1>2, <1>3, <2>3, <2>4 DEF ItemInv
<1>9. CASE found'[Script] # NoEntry
  <2>1. found'[Script] \in Attached /\ found'[Script] \in Copies
    BY <1>7, <1>9, ChainFacts DEF ItemInv, Attached, Copies
  <2>2. at' = "apply" /\ target' = found'[Script]
    BY <1>1, <1>9 DEF LookFind
  <2>3. PlaceInv'
    BY <1>1, <1>4, <1>5, <2>1, <2>2 DEF PlaceInv
  <2>4. UserInv'
    BY <1>1, <1>2, <2>1, <2>2, UserFrame DEF ItemInv, UserInv, HasType, program, extraVars
  <2> QED
    BY <1>2, <1>3, <2>3, <2>4 DEF ItemInv
<1> QED
  BY <1>8, <1>9


LEMMA HolderFacts ==
  ASSUME ItemInv
  PROVE  /\ Attached \subseteq Copies
         /\ \A o : Holder(o) \subseteq Data /\ (~ HasList(o) => Holder(o) \cap Copies = {})
BY ChainFacts, CopyFacts DEF ItemInv, Attached, Copies, Holder, Data, HasList

LEMMA CopyKeeps == ASSUME ItemInv, Copy PROVE ItemInv'
PROOF
<1>1. /\ at = "copy" /\ HasList(job.owner) /\ IsJob(job) /\ job # NoJob
      /\ target = NoData /\ call[Script] = Idle /\ UNCHANGED <<program, job, asked>>
  BY DEF Copy, ItemInv, PlaceInv
<1>2. IsJob(job)' /\ job' # NoJob
  BY <1>1 DEF IsJob, program
<1>3. CASE ~ IsBoundObject(job.owner)
  <2>1. target' = NoData /\ at' = "apply" /\ UNCHANGED <<extraVars, value>>
    BY <1>1, <1>3 DEF Copy, OfForm, IsBoundObject, HasList
  <2>2. ListInv' /\ ProgramInv' /\ ValueInv'
    BY <1>1, <2>1, ListUnchanged DEF ItemInv, ProgramInv, ValueInv, extraVars, program
  <2>3. PlaceInv'
    BY <1>1, <1>2, <2>1 DEF PlaceInv, extraVars
  <2>4. UserInv'
    BY <1>1, <2>1, UserFrame DEF ItemInv, UserInv, HasType, program, extraVars
  <2> QED
    BY <2>2, <2>3, <2>4 DEF ItemInv
<1>4. CASE IsBoundObject(job.owner)
  <2>1. PICK e \in Copies :
           /\ Spare(e) /\ value' = [value EXCEPT ![e] = value["base"]] /\ target' = e
           /\ AddTest(Script, e) /\ at' = IF HasType(InstanceType) THEN "apply" ELSE "insert"
    BY <1>4 DEF Copy
  <2>2. e \in Extras /\ TypeOf[e] = InstanceType /\ Script \in Threads
    BY CopyFacts, ItemAssumption
  <2>3. ListInv' /\ UNCHANGED <<adders, chain, presence>>
    BY <1>1, <2>1, <2>2, AddTestKeeps DEF ItemInv, ProgramInv, AddTest
  <2>4. ProgramInv'
    BY <1>1, <2>3 DEF ItemInv, ProgramInv, program
  <2>5. PlaceInv'
    <3>1. CASE HasType(InstanceType)
      <4>1. at' = "apply" /\ call'[Script] = Idle
        BY <1>1, <2>1, <2>2, <3>1 DEF AddTest
      <4> QED
        BY <1>1, <1>2, <2>1, <4>1 DEF PlaceInv
    <3>2. CASE ~ HasType(InstanceType)
      <4>1. at' = "insert" /\ call'[Script] = [op |-> "add", entry |-> e]
        BY <2>1, <2>2, <3>2, CallFacts DEF AddTest, ItemInv
      <4> QED
        BY <1>1, <1>2, <2>1, <4>1 DEF PlaceInv
    <3> QED
      BY <3>1, <3>2
  <2>6. DOMAIN value = Data /\ "base" \in Data /\ e \in Data
    BY CopyFacts DEF ItemInv, ValueInv
  <2>7. value'[e] = value["base"] /\ DOMAIN value' = Data /\ \A d \in Data \ {e} : value'[d] = value[d]
    BY <2>1, <2>6
  <2>8. ValueInv'
    <3>1. value' = [d \in Data |-> value'[d]]
      BY <2>1, <2>6
    <3>2. \A d \in Data : DOMAIN value'[d] = Attributes
      BY <2>6, <2>7 DEF ItemInv, ValueInv
    <3>3. \A d \in Data, a \in Attributes \cap Amounts : value'[d][a] \in 0 .. Greatest[a]
      BY <2>6, <2>7 DEF ItemInv, ValueInv
    <3> QED
      BY <1>1, <3>1, <3>2, <3>3 DEF ItemInv, ValueInv, program
  <2>9. UserInv'
    <3> SUFFICES ASSUME OneUser
                 PROVE  UserInv'
      BY <1>1, <2>3 DEF UserInv, OneUser, OneAdderEach, program
    <3>1. at' = "insert"
      BY <1>1, <2>1 DEF ItemInv, UserInv, HasType
    <3>2. \A o \in owners : Holder(o)' = Holder(o) /\ e \notin Holder(o) /\ Holder(o) \subseteq Data
      BY <2>1, <2>2, <2>3, HolderFacts, CopyFacts DEF Spare, Holder, Attached
    <3>3. \A o \in owners : \A a \in DOMAIN asked[o] :
             Holder(o) # {} /\ \A d \in Holder(o) : value'[d][a] = asked[o][a]
      BY <2>7, <3>2 DEF ItemInv, UserInv
    <3> HIDE DEF Holder
    <3> QED
      BY <1>1, <3>1, <3>2, <3>3 DEF UserInv, program
  <2> QED
    BY <2>3, <2>4, <2>5, <2>8, <2>9 DEF ItemInv
<1> QED
  BY <1>3, <1>4

LEMMA InsertKeeps == ASSUME ItemInv, Insert PROVE ItemInv'
PROOF
<1>1. /\ at = "insert" /\ at' = "apply" /\ AddInsert(Script) /\ HasList(job.owner) /\ IsJob(job)
      /\ job # NoJob /\ target \in Copies /\ call[Script] = [op |-> "add", entry |-> target]
      /\ UNCHANGED <<program, value, job, target, asked>>
  BY DEF Insert, ItemInv, PlaceInv
<1>2. call[Script].entry = target /\ Pending(Script) /\ Script \in Threads
  BY <1>1, ItemAssumption DEF Pending
<1>3. ListInv' /\ Range(chain)' = Range(chain) \cup {target} /\ UNCHANGED adders
  BY <1>1, <1>2, AddInsertKeeps DEF ItemInv, AddInsert
<1>4. ProgramInv' /\ ValueInv'
  BY <1>1, <1>3 DEF ItemInv, ProgramInv, ValueInv, program
<1>5. call'[Script] = Idle
  BY <1>1, <1>2, CallFacts DEF ItemInv, AddInsert
<1>6. IsJob(job)' /\ job' # NoJob
  BY <1>1 DEF IsJob, program
<1>7. PlaceInv'
  BY <1>1, <1>5, <1>6 DEF PlaceInv
<1>8. UserInv'
  <2> SUFFICES ASSUME OneUser PROVE UserInv'
    BY <1>1, <1>3 DEF UserInv, OneUser, OneAdderEach, program
  <2>1. InstanceType \notin presence
    BY <1>1, <1>2, CopyFacts DEF ItemInv, ListInv, OneUser
  <2>2. Attached = {} /\ Attached' = {target}
    BY <1>1, <1>3, <2>1, CopyFacts DEF ItemInv, ListInv, OneUser, Attached
  <2>3. \A o \in owners : \A a \in DOMAIN asked[o] : ~ HasList(o)
    BY <2>2 DEF ItemInv, UserInv, Holder, HasList
  <2>4. \A o : ~ HasList(o) => Holder(o)' = Holder(o)
    BY DEF Holder
  <2>5. \A o \in owners : \A a \in DOMAIN asked[o] :
           Holder(o)' # {} /\ \A d \in Holder(o)' : value[d][a] = asked[o][a]
    BY <2>3, <2>4 DEF ItemInv, UserInv
  <2> HIDE DEF Holder, Attached
  <2> QED
    BY <1>1, <2>2, <2>5 DEF UserInv, program
<1> QED
  BY <1>3, <1>4, <1>7, <1>8 DEF ItemInv

LEMMA GetValueKeeps == ASSUME ItemInv, GetValue PROVE ItemInv'
PROOF
<1>1. /\ at' = "idle" /\ job' = NoJob /\ target' = NoData /\ call[Script] = Idle
      /\ UNCHANGED <<program, extraVars, value, asked>>
  BY DEF GetValue, ItemInv, PlaceInv
<1>2. ListInv' /\ ProgramInv' /\ ValueInv'
  BY <1>1, ListUnchanged DEF ItemInv, ProgramInv, ValueInv, extraVars, program
<1>3. PlaceInv'
  BY <1>1 DEF PlaceInv, IsJob, extraVars
<1>4. UserInv'
  BY <1>1, UserFrame DEF ItemInv, UserInv, HasType, program, extraVars
<1> QED
  BY <1>2, <1>3, <1>4 DEF ItemInv


LEMMA SetValueKeeps == ASSUME ItemInv, SetValue PROVE ItemInv'
PROOF
<1> DEFINE o == job.owner
           a == job.attribute
           n == Kept(a, job.argument, value[target][a])
<1>1. /\ at = "apply" /\ at' = "idle" /\ job' = NoJob /\ target' = NoData /\ call[Script] = Idle
      /\ UNCHANGED <<program, extraVars>>
      /\ IF HasList(o) THEN target \in Copies \cup {NoData} ELSE target = OfForm(o)
  BY DEF SetValue, ItemInv, PlaceInv
<1>2. o \in owners /\ o \in Owners /\ a \in uses /\ a \in Attributes /\ job.argument \in Arguments[a]
  BY DEF SetValue, ItemInv, PlaceInv, ProgramInv, IsJob, NoJob
<1>3. ListInv' /\ ProgramInv'
  BY <1>1, ListUnchanged DEF ItemInv, ProgramInv, extraVars, program
<1>4. PlaceInv'
  BY <1>1 DEF PlaceInv, IsJob, extraVars
<1>5. CASE UNCHANGED <<value, asked>>
  <2>1. ValueInv'
    BY <1>1, <1>5 DEF ItemInv, ValueInv, program
  <2>2. UserInv'
    BY <1>1, <1>5, UserFrame DEF ItemInv, UserInv, HasType, program, extraVars
  <2> QED
    BY <1>3, <1>4, <2>1, <2>2 DEF ItemInv
<1>6. CASE ~ UNCHANGED <<value, asked>>
  <2>1. /\ target # NoData
        /\ value' = [value EXCEPT ![target][a] = n] /\ asked' = [asked EXCEPT ![o] = With(@, a, n)]
    BY <1>6 DEF SetValue
  <2>2. target \in Data /\ (~ HasList(o) => target = OfForm(o) /\ o \in {"form", "worn"})
    BY <1>1, <2>1, CopyFacts DEF OfForm, HasList
  <2>3. a \in Amounts => n \in 0 .. Greatest[a]
    BY <1>2, AmountFacts, AmountAssumption
  <2> HIDE DEF n, o, a
  <2>4. /\ value = [d \in Data |-> value[d]] /\ DOMAIN value = Data /\ DOMAIN asked = Owners
        /\ \A d \in Data : DOMAIN value[d] = Attributes
    BY DEF ItemInv, ValueInv
  <2>5. /\ DOMAIN value' = Data /\ value' = [d \in Data |-> value'[d]]
        /\ \A d \in Data \ {target} : value'[d] = value[d]
        /\ value'[target] = [value[target] EXCEPT ![a] = n]
    BY <2>1, <2>2, <2>4
  <2>6. /\ DOMAIN value'[target] = Attributes /\ value'[target][a] = n
        /\ \A x \in Attributes \ {a} : value'[target][x] = value[target][x]
    BY <1>2, <2>2, <2>4, <2>5
  <2>7. /\ DOMAIN asked' = Owners /\ asked'[o] = With(asked[o], a, n)
        /\ \A u \in Owners \ {o} : asked'[u] = asked[u]
    BY <1>2, <2>1, <2>4
  <2>8. /\ DOMAIN asked'[o] = DOMAIN asked[o] \cup {a} /\ asked'[o][a] = n
        /\ \A x \in DOMAIN asked[o] \ {a} : asked'[o][x] = asked[o][x]
    BY <2>7 DEF With
  <2>9. ValueInv'
    <3>1. \A d \in Data : DOMAIN value'[d] = Attributes
      BY <2>4, <2>5, <2>6
    <3>2. \A d \in Data, x \in Attributes \cap Amounts : value'[d][x] \in 0 .. Greatest[x]
      <4> SUFFICES ASSUME NEW d \in Data, NEW x \in Attributes \cap Amounts
                   PROVE  value'[d][x] \in 0 .. Greatest[x]
        OBVIOUS
      <4>1. CASE d = target /\ x = a
        BY <2>3, <2>6, <4>1
      <4>2. CASE d = target /\ x # a
        BY <2>6, <4>2 DEF ItemInv, ValueInv
      <4>3. CASE d # target
        BY <2>5, <4>3 DEF ItemInv, ValueInv
      <4> QED
        BY <4>1, <4>2, <4>3
    <3>3. \A u \in Owners : DOMAIN asked'[u] \subseteq Attributes
      BY <1>2, <2>7, <2>8 DEF ItemInv, ValueInv
    <3>4. \A u \in Owners \ owners' : DOMAIN asked'[u] = {}
      BY <1>1, <1>2, <2>7 DEF ItemInv, ValueInv, program
    <3> QED
      BY <2>5, <2>7, <3>1, <3>2, <3>3, <3>4 DEF ValueInv
  <2>10. UserInv'
    <3> SUFFICES ASSUME OneUser PROVE UserInv'
      BY <1>1 DEF UserInv, OneUser, OneAdderEach, program, extraVars
    <3>1. Holder(o) = {target}
      <4>1. CASE HasList(o)
        <5>1. target \in Attached
          BY <1>1, <2>1, <4>1 DEF ItemInv, UserInv, o
        <5>2. \A e, f \in Attached : e = f
          BY DEF ItemInv, ListInv, OneUser, Attached
        <5> QED
          BY <4>1, <5>1, <5>2 DEF Holder, HasList
      <4>2. CASE ~ HasList(o)
        BY <2>2, <4>2 DEF Holder, OfForm, HasList
      <4> QED
        BY <4>1, <4>2
    <3>2. \A u \in owners : u # o => target \notin Holder(u)
      <4> SUFFICES ASSUME NEW u \in owners, u # o PROVE target \notin Holder(u)
        OBVIOUS
      <4>1. CASE HasList(o)
        <5>1. ~ HasList(u) /\ target \in Copies
          BY <1>1, <1>2, <2>1, <4>1 DEF OneUser
        <5> QED
          BY <5>1, HolderFacts
      <4>2. CASE ~ HasList(o)
        <5>1. target = OfForm(o) /\ o \in {"form", "worn"} /\ \A e \in Attached : e # "base" /\ e # "slot"
          BY <2>2, <4>2, HolderFacts, CopyFacts
        <5> QED
          BY <5>1 DEF Holder, OfForm
      <4> QED
        BY <4>1, <4>2
    <3>3. \A u : Holder(u)' = Holder(u)
      BY <1>1 DEF Holder, Attached, extraVars
    <3>4. \A u \in owners : Holder(u) \subseteq Data /\ u \in Owners
      BY HolderFacts DEF ItemInv, ProgramInv
    <3>5. \A u \in owners : \A x \in DOMAIN asked[u] :
             Holder(u) # {} /\ \A d \in Holder(u) : value[d][x] = asked[u][x]
      BY DEF ItemInv, UserInv
    <3> HIDE DEF Holder
    <3>6. ASSUME NEW u \in owners, NEW x \in DOMAIN asked'[u]
          PROVE  Holder(u) # {} /\ \A d \in Holder(u) : value'[d][x] = asked'[u][x]
      <4>1. CASE u # o
        BY <2>5, <2>7, <3>2, <3>4, <3>5, <4>1
      <4>2. CASE u = o /\ x = a
        BY <2>6, <2>8, <3>1, <4>2
      <4>3. CASE u = o /\ x # a
        <5>1. x \in DOMAIN asked[o] /\ x \in Attributes
          BY <1>2, <2>8, <4>3 DEF ItemInv, ValueInv
        <5> QED
          BY <2>6, <2>8, <3>1, <3>5, <4>3, <5>1
      <4> QED
        BY <4>1, <4>2, <4>3
    <3> QED
      BY <1>1, <3>3, <3>6 DEF UserInv, program
  <2> QED
    BY <1>3, <1>4, <2>9, <2>10 DEF ItemInv
<1> QED
  BY <1>5, <1>6

LEMMA AttachKeeps == ASSUME ItemInv, NEW t \in Threads \ {Script}, Attach(t) PROVE ItemInv'
PROOF
<1>1. UNCHANGED scriptVars
  BY DEF Attach
<1>2. Script \in Threads /\ InstanceType \in Types
  BY ItemAssumption
<1>3. /\ ListInv' /\ call'[Script] = call[Script] /\ UNCHANGED adders
      /\ OneAdderEach => Attached' = Attached /\ InstanceType \notin presence' \ presence
  <2>1. CASE AddInsert(t)
    <3>1. ListInv' /\ Range(chain)' = Range(chain) \cup {call[t].entry} /\ UNCHANGED adders
      BY <2>1, AddInsertKeeps DEF ItemInv, AddInsert
    <3>2. call'[Script] = call[Script] /\ presence' = presence \cup {TypeOf[call[t].entry]}
      BY <1>2, <2>1, CallFacts DEF ItemInv, AddInsert
    <3>3. ASSUME OneAdderEach PROVE TypeOf[call[t].entry] # InstanceType
      <4>1. <<t, TypeOf[call[t].entry]>> \in adders /\ <<Script, InstanceType>> \in adders
        BY <2>1 DEF ItemInv, ProgramInv, ListInv, AddInsert, Pending
      <4> QED
        BY <1>2, <3>3, <4>1 DEF OneAdderEach
    <3> QED
      BY <3>1, <3>2, <3>3 DEF Attached
  <2>2. ASSUME NEW e \in Copies, Spare(e), <<t, InstanceType>> \in adders, AddTest(t, e)
        PROVE  ListInv' /\ call'[Script] = call[Script] /\ UNCHANGED <<adders, presence, chain>>
    <3>1. e \in Extras /\ TypeOf[e] = InstanceType
      BY CopyFacts
    <3>2. ListInv' /\ UNCHANGED <<adders, presence, chain>>
      BY <2>2, <3>1, AddTestKeeps DEF ItemInv, AddTest
    <3>3. call'[Script] = call[Script]
      BY <1>2, <2>2, CallFacts DEF ItemInv, AddTest
    <3> QED
      BY <3>2, <3>3
  <2>3. CASE \E e \in Copies : Spare(e) /\ <<t, InstanceType>> \in adders /\ AddTest(t, e)
    BY <2>2, <2>3 DEF Attached
  <2> QED
    BY <2>1, <2>3 DEF Attach
<1>4. ProgramInv' /\ ValueInv' /\ PlaceInv'
  BY <1>1, <1>3 DEF ItemInv, ProgramInv, ValueInv, PlaceInv, IsJob, scriptVars, program
<1>5. UserInv'
  <2> SUFFICES ASSUME OneUser PROVE UserInv'
    BY <1>1, <1>3 DEF UserInv, OneUser, OneAdderEach, scriptVars, program
  <2>1. Attached' = Attached /\ (InstanceType \in presence' => InstanceType \in presence)
    BY <1>3 DEF OneUser
  <2>2. \A o : Holder(o)' = Holder(o)
    BY <2>1 DEF Holder
  <2> HIDE DEF Holder, Attached
  <2> QED
    BY <1>1, <2>1, <2>2 DEF ItemInv, UserInv, scriptVars, program
<1> QED
  BY <1>3, <1>4, <1>5 DEF ItemInv

LEMMA ItemUnchanged == ASSUME ItemInv, UNCHANGED itemVars PROVE ItemInv'
PROOF
<1>1. UNCHANGED <<program, extraVars, value, job, at, target, asked>>
  BY DEF itemVars, scriptVars
<1>2. ListInv' /\ ProgramInv' /\ ValueInv' /\ PlaceInv'
  BY <1>1, ListUnchanged DEF ItemInv, ProgramInv, ValueInv, PlaceInv, IsJob, extraVars, program
<1>3. UserInv'
  BY <1>1, UserFrame DEF ItemInv, UserInv, HasType, program, extraVars
<1> QED
  BY <1>2, <1>3 DEF ItemInv

LEMMA ItemStep == ItemInv /\ [InstanceNext]_itemVars => ItemInv'
PROOF
<1> SUFFICES ASSUME ItemInv, [InstanceNext]_itemVars PROVE ItemInv'
  OBVIOUS
<1>1. ASSUME CallScript PROVE ItemInv'
  <2>1. PICK o \in owners, a \in uses :
           \/ Start([op |-> "get", owner |-> o])
           \/ \E n \in Arguments[a] : Start([op |-> "set", owner |-> o, attribute |-> a, argument |-> n])
    BY <1>1 DEF CallScript
  <2>2. IsJob([op |-> "get", owner |-> o]) /\ [op |-> "get", owner |-> o] # NoJob
    BY DEF IsJob, NoJob
  <2>3. \A n \in Arguments[a] :
           /\ IsJob([op |-> "set", owner |-> o, attribute |-> a, argument |-> n])
           /\ [op |-> "set", owner |-> o, attribute |-> a, argument |-> n] # NoJob
    BY DEF IsJob, NoJob
  <2> QED
    BY <2>1, <2>2, <2>3, StartKeeps
<1> QED
  BY <1>1, LookTestKeeps, LookFindKeeps, CopyKeeps, InsertKeeps, SetValueKeeps, GetValueKeeps,
     AttachKeeps, ItemUnchanged DEF InstanceNext, GetInstanceData

LEMMA ItemIsSound == ItemInv => InstanceTypeOK /\ PresentIsFound /\ OneOfEachType /\ KeepsWhatIsSet
PROOF
<1> SUFFICES ASSUME ItemInv PROVE InstanceTypeOK /\ PresentIsFound /\ OneOfEachType /\ KeepsWhatIsSet
  OBVIOUS
<1>1. ExtraTypeOK /\ PresentIsFound /\ OneOfEachType
  BY ListIsSound DEF ItemInv
<1>2. InstanceTypeOK
  <2>1. at \in {"find", "insert"} => call[Script] # Idle
    BY DEF ItemInv, PlaceInv, Idle
  <2>2. target \in DOMAIN value \cup {NoData}
    BY CopyFacts DEF ItemInv, PlaceInv, ValueInv, OfForm, HasList
  <2>3. \A d \in DOMAIN value, a \in Attributes : a \in Amounts => value[d][a] \in 0 .. Greatest[a]
    BY DEF ItemInv, ValueInv
  <2> QED
    BY <1>1, <2>1, <2>2, <2>3 DEF InstanceTypeOK, ItemInv, PlaceInv
<1>3. ASSUME OneUser, NEW o \in owners, NEW a \in DOMAIN asked[o]
      PROVE  Current(o) # NoData /\ value[Current(o)][a] = asked[o][a]
  <2>1. Holder(o) # {} /\ \A d \in Holder(o) : value[d][a] = asked[o][a]
    BY <1>3 DEF ItemInv, UserInv
  <2>2. CASE HasList(o)
    <3> DEFINE places == OfType(InstanceType)
    <3>1. Attached # {} /\ Holder(o) = Attached
      BY <2>1, <2>2 DEF Holder, HasList
    <3>2. places # {} /\ places \in SUBSET Nat
      BY <3>1, ChainFacts DEF ItemInv, Attached
    <3>3. First(places) \in places
      BY <3>2, LeastPlace
    <3>4. chain[First(places)] \in Attached
      BY <3>3, ChainFacts DEF ItemInv, Attached, OfType
    <3>5. Current(o) = chain[First(places)]
      BY <2>2, <3>2 DEF Current, HasList
    <3> HIDE DEF places
    <3> QED
      BY <2>1, <3>1, <3>4, <3>5, HolderFacts, CopyFacts
  <2>3. CASE ~ HasList(o)
    <3>1. o \in {"form", "worn"} /\ Current(o) \in Holder(o)
      BY <2>1, <2>3 DEF Holder, Current, HasList
    <3> QED
      BY <2>1, <3>1, HolderFacts, CopyFacts
  <2> QED
    BY <2>2, <2>3
<1> QED
  BY <1>1, <1>2, <1>3 DEF KeepsWhatIsSet

LEMMA ItemStepLeavesForm ==
  ItemInv /\ [InstanceNext]_itemVars =>
    [at # "idle" /\ HasList(job.owner) => value'["base"] = value["base"]]_itemVars
PROOF
<1> SUFFICES ASSUME ItemInv, InstanceNext, at # "idle", HasList(job.owner)
             PROVE  value'["base"] = value["base"]
  OBVIOUS
<1>1. "base" \in Data /\ DOMAIN value = Data /\ "base" \notin Copies /\ "base" # NoData
  BY CopyFacts DEF ItemInv, ValueInv
<1>2. CASE Copy
  BY <1>1, <1>2 DEF Copy
<1>3. CASE SetValue
  <2>1. target # "base"
    BY <1>1, <1>3 DEF ItemInv, PlaceInv, SetValue
  <2> QED
    BY <1>1, <1>3, <2>1 DEF SetValue
<1>4. CASE CallScript \/ LookTest \/ LookFind \/ Insert \/ GetValue \/ \E t \in Threads \ {Script} : Attach(t)
  BY <1>4 DEF CallScript, Start, LookTest, LookFind, Insert, GetValue, Attach, scriptVars
<1> QED
  BY <1>2, <1>3, <1>4 DEF InstanceNext, GetInstanceData

(* The functions on instance data and the lists they keep it in, whatever  *)
(* values the game's forms have, whatever scripts pass, and whatever other *)
(* threads do to the same list.                                            *)
THEOREM ItemsAlwaysKeepTheirData == InstanceSpec => ItemsKeepTheirData
PROOF
<1>1. InstanceInit => ItemInv
  BY ItemInvInit
<1>2. ItemInv /\ [InstanceNext]_itemVars => ItemInv'
  BY ItemStep
<1>3. ItemInv => InstanceTypeOK /\ PresentIsFound /\ OneOfEachType /\ KeepsWhatIsSet
  BY ItemIsSound
<1>4. ItemInv /\ [InstanceNext]_itemVars =>
        [at # "idle" /\ HasList(job.owner) => value'["base"] = value["base"]]_itemVars
  BY ItemStepLeavesForm
<1> QED
  BY <1>1, <1>2, <1>3, <1>4, PTL DEF InstanceSpec, ItemsKeepTheirData, ItemLeavesForm
=============================================================================
