---------------------------- MODULE MovieValues ----------------------------
(***************************************************************************)
(* Script values handed to an interface movie and taken back (f4se/        *)
(* PapyrusScaleformAdapter.cpp: ConvertPapyrusValue and                    *)
(* ConvertScaleformValue), and the functions a movie calls scripts with    *)
(* (Hooks_Scaleform.cpp).                                                  *)
(*                                                                         *)
(* A movie has fewer kinds of values than a script: an object, a structure *)
(* and a variable become movie objects with members of agreed names, and   *)
(* the movie may change them before it gives them back.  A 64-bit handle   *)
(* travels in two halves.  A script value is a record of its kind k and    *)
(* what that kind carries; so is a movie value.                            *)
(***************************************************************************)
EXTENDS Integers, Sequences

CONSTANTS
  Values,    \* script values that are handed to the movie
  Changes,   \* movie values that the movie may put in the place of others
  Known,     \* the types the machine knows: objects, structs and bound handles
  HalfWrap   \* 2^32: the values of half a handle

VARIABLES
  sent,    \* the value the script handed over
  movie,   \* what the movie has of it
  touched, \* whether the movie changed it
  back,    \* what the script got back, with whether the conversion succeeded
  phase    \* "script", "movie", "back" or "called"

movieVars == <<sent, movie, touched, back, phase>>

NoneValue == [k |-> "none"]
EmptyMember == [k |-> "empty"]
Variable(val) == [k |-> "variable", v |-> val]
Undefined == [k |-> "undefined"]

-----------------------------------------------------------------------------
(* ConvertPapyrusValue.                                                    *)
Object(members) == [k |-> "object", m |-> members]
Member(name, val) == [n \in {name} |-> val]

(* High and low half of a handle, as unsigned numbers.                     *)
HandleObject(val) ==
  Object([n \in {"__handleHigh__", "__handleLow__", "__type__"} |->
    CASE n = "__handleHigh__" -> [k |-> "uint", v |-> val.h \div HalfWrap]
      [] n = "__handleLow__" -> [k |-> "uint", v |-> val.h % HalfWrap]
      [] n = "__type__" -> [k |-> "string", v |-> val.t]])

RECURSIVE ConvertPapyrusValue(_)
ConvertPapyrusValue(val) ==
  CASE val.k = "text" -> [k |-> "string", v |-> val.v]
    [] val.k = "int" -> [k |-> "int", v |-> val.v]
    [] val.k = "float" -> [k |-> "number", v |-> val.v]
    [] val.k = "bool" -> [k |-> "bool", v |-> val.v]
    [] val.k = "identifier" -> HandleObject(val)
    [] val.k = "struct" ->
         Object(Member("__struct__",
           Object([n \in {"__type__", "__data__"} |->
             IF n = "__type__" THEN [k |-> "string", v |-> val.t]
             ELSE Object([name \in DOMAIN val.m |-> ConvertPapyrusValue(val.m[name])])])))
    [] val.k = "variable" -> Object(Member("__var__", ConvertPapyrusValue(val.v)))
    [] val.k = "array" ->
         [k |-> "array", e |-> [i \in 1..Len(val.e) |-> ConvertPapyrusValue(val.e[i])]]
    [] val.k \in {"none", "empty"} -> Undefined

-----------------------------------------------------------------------------
(* ConvertScaleformValue: the value, and whether it is one.                *)
Converted(val) == [v |-> val, ok |-> TRUE]
Refused(val) == [v |-> val, ok |-> FALSE]

Has(obj, name) == name \in DOMAIN obj.m

(* GetInt of half a handle that was put there with SetUInt: the upper half *)
(* of the values are negative, and widening fills the high half with ones. *)
Widened(half) == IF half >= HalfWrap \div 2 THEN half - HalfWrap ELSE half

(* Bitwise or of the high half and the low one, widened.                   *)
HandleOf(high, low) ==
  IF Widened(low) < 0 THEN (HalfWrap - 1) * HalfWrap + low ELSE high * HalfWrap + low

GetIdentifier(t, h) ==
  IF t \in Known.objects /\ h \in Known.handles
  THEN Converted([k |-> "identifier", t |-> t, h |-> h]) ELSE Refused(NoneValue)

ValueType(val) == IF val.k \in {"identifier", "struct"} THEN val.t ELSE val.k

(* StructMemberVisitor: a member takes a value of its own type.  The first *)
(* takes any: it is what the comment of the code warns of.                 *)
VisitedUntyped(t, name, got) == IF got.ok THEN got.v ELSE EmptyMember

Visited(t, name, got) ==
  IF got.ok /\ ValueType(got.v) = Known.structs[t][name] THEN got.v ELSE EmptyMember

RECURSIVE ConvertScaleformValue(_)
ConvertStruct(obj) ==
  LET t == obj.m["__type__"].v
      data == obj.m["__data__"].m
  IN IF t \notin DOMAIN Known.structs THEN Converted(NoneValue)
     ELSE Converted([k |-> "struct", t |-> t,
            m |-> [name \in DOMAIN Known.structs[t] |->
                     IF name \in DOMAIN data
                     THEN Visited(t, name, ConvertScaleformValue(data[name]))
                     ELSE EmptyMember]])

ConvertScaleformValue(mv) ==
  CASE mv.k = "undefined" -> Converted(Variable(NoneValue))
    [] mv.k \in {"int", "uint"} -> Converted([k |-> "int", v |-> mv.v])
    [] mv.k = "number" -> Converted([k |-> "float", v |-> mv.v])
    [] mv.k = "string" -> Converted([k |-> "text", v |-> mv.v])
    [] mv.k = "bool" -> Converted([k |-> "bool", v |-> mv.v])
    [] mv.k = "object" ->
         IF Has(mv, "__var__")
           THEN Converted(Variable(ConvertScaleformValue(mv.m["__var__"]).v))
         ELSE IF Has(mv, "__type__")
           THEN GetIdentifier(mv.m["__type__"].v,
                              HandleOf(mv.m["__handleHigh__"].v, mv.m["__handleLow__"].v))
         ELSE IF Has(mv, "__struct__") THEN ConvertStruct(mv.m["__struct__"])
         ELSE Refused(Variable(NoneValue))
    [] mv.k = "array" ->
         Converted([k |-> "array",
                    e |-> [i \in 1..Len(mv.e) |-> Variable(ConvertScaleformValue(mv.e[i]).v)]])

-----------------------------------------------------------------------------
MovieInit ==
  /\ sent = NoneValue /\ movie = Undefined /\ touched = FALSE
  /\ back = Refused(NoneValue) /\ phase = "script"

(* A script hands a value over (an argument of UI.Invoke, or of UI.Set).   *)
HandOver(val) ==
  /\ phase = "script"
  /\ sent' = val
  /\ movie' = ConvertPapyrusValue(val)
  /\ phase' = "movie"
  /\ UNCHANGED <<touched, back>>

(* The movie puts another value in the place of a member of a structure,   *)
(* of an item of an array, or of the whole.                                *)
ChangeMember(mv) ==
  /\ phase = "movie"
  /\ movie.k = "object" /\ Has(movie, "__struct__")
  /\ \E name \in DOMAIN movie.m["__struct__"].m["__data__"].m :
       movie' = [movie EXCEPT !.m["__struct__"].m["__data__"].m[name] = mv]
  /\ touched' = TRUE
  /\ UNCHANGED <<sent, back, phase>>

ChangeItem(mv) ==
  /\ phase = "movie"
  /\ movie.k = "array"
  /\ \E i \in 1..Len(movie.e) : movie' = [movie EXCEPT !.e[i] = mv]
  /\ touched' = TRUE
  /\ UNCHANGED <<sent, back, phase>>

ChangeAll(mv) ==
  /\ phase = "movie"
  /\ movie' = mv
  /\ touched' = TRUE
  /\ UNCHANGED <<sent, back, phase>>

(* The script reads it back (UI.Get).                                      *)
TakeBack ==
  /\ phase = "movie"
  /\ back' = ConvertScaleformValue(movie)
  /\ phase' = "back"
  /\ UNCHANGED <<sent, movie, touched>>

(* F4SEScaleform_CallFunctionNoWait: the movie calls a function of what it *)
(* was given, and is told whether that is an object.                       *)
CallFunctionNoWait ==
  LET receiver == ConvertScaleformValue(movie).v
  IN /\ phase = "movie"
     /\ movie.k = "object"
     /\ back' = [v |-> receiver, ok |-> receiver.k = "identifier"]
     /\ phase' = "called"
     /\ UNCHANGED <<sent, movie, touched>>

MovieNext ==
  \/ \E val \in Values : HandOver(val)
  \/ \E mv \in Changes : ChangeMember(mv) \/ ChangeItem(mv) \/ ChangeAll(mv)
  \/ TakeBack \/ CallFunctionNoWait

MovieSpec == MovieInit /\ [][MovieNext]_movieVars

-----------------------------------------------------------------------------
(* Every structure in a script value has a value of its own type, or none, *)
(* in each of its members.                                                 *)
RECURSIVE MembersTyped(_)
MembersTyped(val) ==
  CASE val.k = "struct" ->
         \A name \in DOMAIN val.m :
           /\ val.m[name] = EmptyMember \/ ValueType(val.m[name]) = Known.structs[val.t][name]
           /\ MembersTyped(val.m[name])
    [] val.k = "variable" -> MembersTyped(val.v)
    [] val.k = "array" -> \A i \in 1..Len(val.e) : MembersTyped(val.e[i])
    [] OTHER -> TRUE

(* Types of all variables.                                                 *)
MovieTypeOK ==
  /\ sent \in Values \cup {NoneValue}
  /\ touched \in BOOLEAN
  /\ back.ok \in BOOLEAN
  /\ phase \in {"script", "movie", "back", "called"}
  /\ movie.k \in {"undefined", "int", "uint", "number", "string", "bool", "object", "array"}

(* The handles that are the same when their halves are joined again: widen-*)
(* ing the low half spoils the others (PapyrusScaleformAdapter.cpp:200-204)*)
(* and a low half is the number of a form, which has its top bit set for   *)
(* forms of the plugins from place 80 (hexadecimal) on.                    *)
Crosses(h) == h % HalfWrap < HalfWrap \div 2

(* What they are spoiled to is the handle of no object.                    *)
OnesAreNobodys == \A h \in Known.handles : h \div HalfWrap # HalfWrap - 1

(* What the movie did not touch comes back as it went: a movie has only    *)
(* variables in arrays and for nothing; an object whose type or handle the *)
(* machine does not know comes back as nothing, and so does one it knows   *)
(* whose handle does not cross, and a member whose value changed its kind  *)
(* on the way.                                                             *)
RECURSIVE Returned(_)
Returned(val) ==
  CASE val.k = "identifier" ->
         IF val.t \in Known.objects /\ val.h \in Known.handles /\ Crosses(val.h)
         THEN val ELSE NoneValue
    [] val.k \in {"none", "empty"} -> Variable(NoneValue)
    [] val.k = "variable" -> Variable(Returned(val.v))
    [] val.k = "array" -> [val EXCEPT !.e = [i \in 1..Len(@) |-> Variable(Returned(@[i]))]]
    [] val.k = "struct" ->
         IF val.t \notin DOMAIN Known.structs THEN NoneValue
         ELSE [val EXCEPT !.m = [name \in DOMAIN Known.structs[val.t] |->
                 IF Returned(@[name]).k # "none"
                      /\ ValueType(Returned(@[name])) = Known.structs[val.t][name]
                 THEN Returned(@[name]) ELSE EmptyMember]]
    [] OTHER -> val

UntouchedComesBack ==
  OnesAreNobodys /\ phase = "back" /\ ~touched => back.v = Returned(sent)

(* Whatever a movie puts into a structure, a script never finds a member   *)
(* of another type in it: "otherwise we are type clobbering".              *)
TypesAreNotClobbered == phase = "back" => MembersTyped(back.v)

(* A movie that is told its call was made has called a function of the     *)
(* object it was given, and of no other; of an object whose handle does not*)
(* cross, of an array, a structure or a variable it calls none.            *)
CallsReachObjects ==
  OnesAreNobodys /\ phase = "called" /\ back.ok /\ ~touched
    => back.v = sent /\ Crosses(sent.h)

=============================================================================
