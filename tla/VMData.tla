------------------------------- MODULE VMData -------------------------------
(***************************************************************************)
(* Values of the script machine in the co-save (f4se/                      *)
(* PapyrusSerialization.cpp): WriteVMData and ReadVMData, called for one   *)
(* argument after another by the delay functors that wait when the game is *)
(* saved (PapyrusDelayFunctorsDef_Base.inl).                               *)
(*                                                                         *)
(* The record is a sequence of items; an item has the kind it was written  *)
(* with, and a reader that asks for another kind at its place has lost its *)
(* step.  A value is a record: its kind k and what that kind carries.  A   *)
(* text is its length.  The game that loads may know other types than the  *)
(* one that saved: a world has the structures it knows, with their         *)
(* members, the object types, and the handles that resolve to an object.   *)
(***************************************************************************)
EXTENDS Integers, Sequences, SequencesExt

CONSTANTS
  Values,    \* the values that arguments may have
  Worlds,    \* games that may load the save
  None,      \* no handle, no structure
  TextMax,   \* SHRT_MAX, the longest text that is written
  TextWrap,  \* 2^16: lengths are kept in 16 bits
  MaxArgs    \* bound: arguments of a functor (NUM_PARAMS)

VARIABLES
  args,     \* the arguments saved so far
  items,    \* what the record holds
  saved,    \* how the writing went: "ok", "failed" or "fault"
  world,    \* the game that loads, None before
  at,       \* the reader's place
  loaded,   \* the arguments loaded so far
  reading   \* how it goes: "ok", "failed", "astray" or "wild"

dataVars == <<args, items, saved, world, at, loaded, reading>>

NoneValue == [k |-> "none"]

-----------------------------------------------------------------------------
(* A write: the items it leaves and how it went.  Then stops at the first  *)
(* failure; Ignored goes on after one.                                     *)
Done == [out |-> <<>>, st |-> "ok"]
Fault == [out |-> <<>>, st |-> "fault"]
Put(kind, v) == [out |-> <<[kind |-> kind, v |-> v]>>, st |-> "ok"]
Then(a, b) == IF a.st # "ok" THEN a ELSE [out |-> a.out \o b.out, st |-> b.st]
All(writes) == FoldLeft(Then, Done, writes)
Ignored(a) == IF a.st = "failed" THEN [a EXCEPT !.st = "ok"] ELSE a

(* A text that is too long is refused before anything is written.          *)
WriteText(length) ==
  LET len == length % TextWrap
  IN IF len > TextMax THEN [Done EXCEPT !.st = "failed"] ELSE Put("string", len)

(* An object: the name of its type and its handle; none has neither.       *)
WriteIdentifier(val) == All(<<Put("string", val.t), Put("handle", val.h)>>)

RECURSIVE WriteVMData(_)

(* The members of a structure, by name; the results are not looked at.     *)
WriteMembers(members) ==
  All([i \in 1..Len(SetToSeq(DOMAIN members)) |->
         LET name == SetToSeq(DOMAIN members)[i]
         IN Then(Put("string", name), Ignored(WriteVMData(members[name])))])

(* A structure that is None is written through a null pointer.             *)
WriteStruct(val) ==
  IF val.m = None THEN Fault
  ELSE All(<<Put("string", val.t), Put("word", Len(SetToSeq(DOMAIN val.m))),
             WriteMembers(val.m)>>)

WriteIdentifiers(val) ==
  All(<<Put("word", Len(val.e)), Put("string", val.t)>>
        \o [i \in 1..Len(val.e) |-> Put("handle", val.e[i])])

(* The arrays of simple values; an item has the size of its kind.          *)
SimpleItem == [texts |-> "string", ints |-> "word", floats |-> "word", bools |-> "bool"]

WriteSimples(val) ==
  Then(Put("word", Len(val.e)),
       All([i \in 1..Len(val.e) |->
              IF val.k = "texts" THEN WriteText(val.e[i])
              ELSE Put(SimpleItem[val.k], val.e[i])]))

WriteVariables(val) ==
  Then(Put("word", Len(val.e)), All([i \in 1..Len(val.e) |-> WriteVMData(val.e[i])]))

(* As with a structure of its own, an entry that is None is followed.      *)
WriteStructs(val) ==
  IF \E i \in 1..Len(val.e) : val.e[i] = None THEN Fault
  ELSE
  All(<<Put("word", Len(val.e)), Put("string", val.t),
        Put("word", IF val.e = <<>> THEN 0 ELSE Len(SetToSeq(DOMAIN val.e[1])))>>
        \o [i \in 1..Len(val.e) |-> WriteMembers(val.e[i])])

WriteVMData(val) ==
  Then(Put("type", val.k),
       CASE val.k = "none" -> Done
         [] val.k = "identifier" -> WriteIdentifier(val)
         [] val.k = "text" -> WriteText(val.v)
         [] val.k \in {"int", "float"} -> Put("word", val.v)
         [] val.k = "bool" -> Put("bool", val.v)
         [] val.k = "variable" -> WriteVMData(val.v)
         [] val.k = "struct" -> WriteStruct(val)
         [] val.k = "identifiers" -> WriteIdentifiers(val)
         [] val.k \in DOMAIN SimpleItem -> WriteSimples(val)
         [] val.k = "variables" -> WriteVariables(val)
         [] val.k = "structs" -> WriteStructs(val))

-----------------------------------------------------------------------------
(* A read from place p: the value, the place after it and how it went.     *)
(* Bind goes on with the next read unless this one failed.                 *)
Got(val, p) == [v |-> val, p |-> p, st |-> "ok"]
Bind(r, Next(_)) == IF r.st # "ok" THEN r ELSE Next(r)

Read(kind, p) ==
  IF p > Len(items) THEN [v |-> None, p |-> p, st |-> "failed"]
  ELSE IF items[p].kind # kind THEN [v |-> None, p |-> p, st |-> "astray"]
  ELSE Got(items[p].v, p + 1)

(* ResolveHandle and GetIdentifier: the object, or None if its type or it  *)
(* is gone.                                                                *)
Identified(t, h, w) ==
  IF t \in w.objects /\ h \in w.handles THEN [k |-> "identifier", t |-> t, h |-> h]
  ELSE NoneValue

ReadIdentifier(p, w) ==
  Bind(Read("string", p), LAMBDA t :
    Bind(Read("handle", t.p), LAMBDA h : Got(Identified(t.v, h.v, w), h.p)))

(* The reader of a number with a fraction, or of a truth value, writes.    *)
ReadSimple(kind, p) ==
  CASE kind = "text" -> Bind(Read("string", p), LAMBDA r : Got([k |-> kind, v |-> r.v], r.p))
    [] kind = "int" -> Bind(Read("word", p), LAMBDA r : Got([k |-> kind, v |-> r.v], r.p))
    [] kind \in {"float", "bool"} -> Got([k |-> kind, v |-> 0], p)

RECURSIVE ReadVMData(_, _), ReadMembers(_, _, _, _)

(* n members are read whether the structure is still known or not; those   *)
(* that it still has are set.                                              *)
ReadMembers(n, p, w, struct) ==
  IF n = 0 THEN Got(struct, p)
  ELSE Bind(Read("string", p), LAMBDA name :
         Bind(ReadVMData(name.p, w), LAMBDA data :
           ReadMembers(n - 1, data.p, w,
             IF struct # None /\ name.v \in DOMAIN struct
             THEN [struct EXCEPT ![name.v] = data.v] ELSE struct)))

(* CreateStruct: every member is there and empty.                          *)
NewStruct(t, w) ==
  IF t \in DOMAIN w.structs THEN [name \in w.structs[t] |-> NoneValue] ELSE None

(* A member that is gone is not skipped.                                   *)
ReadStructForgets(p, w) ==
  Bind(Read("string", p), LAMBDA t :
    Bind(Read("word", t.p), LAMBDA n :
      IF NewStruct(t.v, w) = None THEN Got(NoneValue, n.p)
      ELSE Bind(ReadMembers(n.v, n.p, w, NewStruct(t.v, w)), LAMBDA r :
             Got([k |-> "struct", t |-> t.v, m |-> r.v], r.p))))

ReadStruct(p, w) ==
  Bind(Read("string", p), LAMBDA t :
    Bind(Read("word", t.p), LAMBDA n :
      Bind(ReadMembers(n.v, n.p, w, NewStruct(t.v, w)), LAMBDA r :
        Got(IF r.v = None THEN NoneValue ELSE [k |-> "struct", t |-> t.v, m |-> r.v], r.p))))

(* The n items of an array, one after another.                             *)
ReadList(n, p, Item(_)) ==
  FoldLeft(LAMBDA r, i : Bind(r, LAMBDA list :
                           Bind(Item(list.p), LAMBDA x : Got(Append(list.v, x.v), x.p))),
           Got(<<>>, p), [i \in 1..n |-> i])

(* The array is attached to a value whose type is that of its objects.     *)
ReadIdentifiers(p, w) ==
  Bind(Read("word", p), LAMBDA n :
    Bind(Read("string", n.p), LAMBDA t :
      Bind(ReadList(n.v, t.p, LAMBDA q : Read("handle", q)), LAMBDA r :
        Got(IF t.v \in w.objects THEN [k |-> "identifier", t |-> t.v, h |-> r.v]
            ELSE NoneValue, r.p))))

(* The array that was read is not attached to the value; an item of an     *)
(* array of whole numbers is put where its own value says.                 *)
ReadSimples(kind, p) ==
  Bind(Read("word", p), LAMBDA n :
    Bind(ReadList(n.v, n.p, LAMBDA q :
           CASE kind = "texts" -> Read("string", q)
             [] kind = "ints" -> Read("word", q)
             [] kind \in {"floats", "bools"} -> Got(0, q)), LAMBDA r :
      IF kind = "ints" /\ \E i \in 1..Len(r.v) : r.v[i] \notin 0..(n.v - 1)
      THEN [r EXCEPT !.st = "wild"] ELSE Got([k |-> kind, e |-> None], r.p)))

(* The length is written where it should be read, and stays 0.             *)
ReadVariables(p) == Got([k |-> "variables", e |-> None], p)

(* The structures are read into an array that is not attached either.      *)
ReadStructs(p, w) ==
  Bind(Read("word", p), LAMBDA n :
    Bind(Read("string", n.p), LAMBDA t :
      Bind(Read("word", t.p), LAMBDA k :
        Bind(ReadList(n.v, k.p,
                      LAMBDA q : ReadMembers(k.v, q, w, NewStruct(t.v, w))), LAMBDA r :
          Got(IF NewStruct(t.v, w) = None THEN NoneValue
              ELSE [k |-> "structs", t |-> t.v, e |-> None], r.p)))))

ReadVMData(p, w) ==
  Bind(Read("type", p), LAMBDA r :
    CASE r.v = "none" -> Got(NoneValue, r.p)
      [] r.v = "identifier" -> ReadIdentifier(r.p, w)
      [] r.v \in {"text", "int", "float", "bool"} -> ReadSimple(r.v, r.p)
      [] r.v = "variable" ->
           Bind(ReadVMData(r.p, w), LAMBDA s : Got([k |-> "variable", v |-> s.v], s.p))
      [] r.v = "struct" -> ReadStruct(r.p, w)
      [] r.v = "identifiers" -> ReadIdentifiers(r.p, w)
      [] r.v \in DOMAIN SimpleItem -> ReadSimples(r.v, r.p)
      [] r.v = "variables" -> ReadVariables(r.p)
      [] r.v = "structs" -> ReadStructs(r.p, w))

-----------------------------------------------------------------------------
DataInit ==
  /\ args = <<>> /\ items = <<>> /\ saved = "ok"
  /\ world = None
  /\ at = 1 /\ loaded = <<>> /\ reading = "ok"

(* Save of a functor writes its arguments until one fails.                 *)
SaveArg(val) ==
  /\ world = None
  /\ saved = "ok"
  /\ Len(args) < MaxArgs
  /\ args' = Append(args, val)
  /\ items' = items \o WriteVMData(val).out
  /\ saved' = WriteVMData(val).st
  /\ UNCHANGED <<world, at, loaded, reading>>

(* Some game loads the save ...                                            *)
OpenSave(w) ==
  /\ world = None
  /\ saved # "fault"
  /\ world' = w
  /\ UNCHANGED <<args, items, saved, at, loaded, reading>>

(* ... and Load reads the arguments until one fails.                       *)
LoadArg ==
  /\ world # None
  /\ reading = "ok"
  /\ Len(loaded) < Len(args)
  /\ LET r == ReadVMData(at, world)
     IN /\ reading' = r.st
        /\ at' = r.p
        /\ loaded' = IF r.st = "ok" THEN Append(loaded, r.v) ELSE loaded
  /\ UNCHANGED <<args, items, saved, world>>

DataNext ==
  \/ \E val \in Values : SaveArg(val)
  \/ \E w \in Worlds : OpenSave(w)
  \/ LoadArg

DataSpec == DataInit /\ [][DataNext]_dataVars

-----------------------------------------------------------------------------
(* Types of all variables.                                                 *)
DataTypeOK ==
  /\ args \in Seq(Values) /\ Len(args) <= MaxArgs
  /\ \A i \in 1..Len(items) : items[i].kind \in {"type", "string", "word", "bool", "handle"}
  /\ saved \in {"ok", "failed", "fault"}
  /\ world \in Worlds \cup {None}
  /\ at \in 1..(Len(items) + 1)
  /\ Len(loaded) <= Len(args)
  /\ reading \in {"ok", "failed", "astray", "wild"}

(* The values that a reader finds its way through.  It writes where it     *)
(* should read a fraction, a truth value (PapyrusSerialization.cpp:283,    *)
(* 291), an item of an array of these (426, 434) or the length of an array *)
(* of variables (446); it stores a whole number of an array where the      *)
(* number itself says (420); a structure that is None is followed by the   *)
(* writer (67, 222); and the writer of a structure goes on after a member  *)
(* that it could not write (80, 228).                                      *)
RECURSIVE IsWritten(_), KeepsStep(_)
IsWritten(val) ==
  CASE val.k = "text" -> val.v % TextWrap <= TextMax
    [] val.k = "texts" -> \A i \in 1..Len(val.e) : val.e[i] % TextWrap <= TextMax
    [] val.k = "variable" -> IsWritten(val.v)
    [] OTHER -> TRUE

KeepStepAsMembers(members) ==
  members # None /\ \A name \in DOMAIN members : IsWritten(members[name]) /\ KeepsStep(members[name])

KeepsStep(val) ==
  CASE val.k \in {"none", "identifier", "text", "int", "identifiers", "texts"} -> TRUE
    [] val.k \in {"float", "bool", "variables"} -> FALSE
    [] val.k \in {"floats", "bools"} -> val.e = <<>>
    [] val.k = "ints" -> \A i \in 1..Len(val.e) : val.e[i] \in 0..(Len(val.e) - 1)
    [] val.k = "variable" -> KeepsStep(val.v)
    [] val.k = "struct" -> KeepStepAsMembers(val.m)
    [] val.k = "structs" -> \A i \in 1..Len(val.e) : KeepStepAsMembers(val.e[i])

(* Of these, the ones whose reader also returns what it read: no array     *)
(* does, because the value loses the bit that says so (386) or the array   *)
(* itself (402, 452, 513), and a text whose length does not fit 16 bits is *)
(* cut (Serialization.cpp:625).                                            *)
RECURSIVE IsReturned(_)
IsReturned(val) ==
  CASE val.k = "text" -> val.v < TextWrap
    [] val.k = "variable" -> IsReturned(val.v)
    [] val.k = "struct" -> \A name \in DOMAIN val.m : IsReturned(val.m[name])
    [] OTHER -> val.k \in {"none", "identifier", "int"}

(* What a value is in the game that loads it: members that are gone are    *)
(* left out, new ones are empty, and objects and structures that are gone  *)
(* are None.                                                               *)
RECURSIVE Surviving(_, _)
Surviving(val, w) ==
  CASE val.k = "identifier" ->
         IF val.t \in w.objects /\ val.h \in w.handles THEN val ELSE NoneValue
    [] val.k = "variable" -> [val EXCEPT !.v = Surviving(@, w)]
    [] val.k = "struct" ->
         IF val.t \notin DOMAIN w.structs THEN NoneValue
         ELSE [val EXCEPT !.m =
                 [name \in w.structs[val.t] |->
                    IF name \in DOMAIN @ THEN Surviving(@[name], w) ELSE NoneValue]]
    [] OTHER -> val

FirstKeepStep(n) == \A i \in 1..n : i <= Len(args) => KeepsStep(args[i])

(* Where the writer put an argument.                                       *)
WrittenAt(n) ==
  FoldLeft(LAMBDA p, val : p + Len(WriteVMData(val).out), 1, SubSeq(args, 1, n - 1))

(* As long as the arguments are such that keep it in step, and whatever has*)
(* become of the types and the objects since the game was saved, a reader  *)
(* finds every argument where the writer put it, never takes a part of one *)
(* value for a part of another, and fails only at an argument that could   *)
(* not be written.                                                         *)
ReaderKeepsStep ==
  LET n == Len(loaded)
  IN /\ FirstKeepStep(n) /\ reading = "ok" => at = WrittenAt(n + 1)
     /\ FirstKeepStep(n + 1) =>
          /\ reading \notin {"astray", "wild"}
          /\ reading = "failed" => n + 1 = Len(args) /\ saved = "failed"

(* Such an argument, if its reader returns what it reads, is loaded as it  *)
(* was saved, as far as the game that loads it still has its types, its    *)
(* members and its objects.                                                *)
LoadsWhatSurvives ==
  \A i \in 1..Len(loaded) :
    FirstKeepStep(i) /\ IsReturned(args[i]) => loaded[i] = Surviving(args[i], world)

=============================================================================
