------------------------------ MODULE MCValues ------------------------------
(***************************************************************************)
(* Values of scripts outside the scripts, each part on an instance of its  *)
(* own: arguments in the co-save, the array of a native function, values   *)
(* in an interface movie, the data of an item and the list it is kept in.  *)
(* A behaviour is about one part, and the others stay as they start.       *)
(***************************************************************************)
EXTENDS NativeCalls, InstanceData, TLC

CONSTANTS None, other, e1, e2, e3, e4

VARIABLES
  part,
  args, items, saved, world, place, loaded, reading,
  sent, movie, touched, back, movieAt

dataVars == <<args, items, saved, world, place, loaded, reading>>
movieVars == <<sent, movie, touched, back, movieAt>>
vars == <<part, dataVars, callVars, movieVars, itemVars>>

-----------------------------------------------------------------------------
(* Arguments in the co-save: values of every kind, and games that load     *)
(* them: one with everything, one without the object that values name, one *)
(* whose structure has another member, one that knows no type.  Texts are  *)
(* written up to a length of 3, and lengths are kept modulo 8.             *)
Structs(members) == [t \in {"pair"} |-> members]
Worlds ==
  {[structs |-> Structs({"left", "right"}), objects |-> {"gun"}, handles |-> {"key", "other"}],
   [structs |-> Structs({"left", "right"}), objects |-> {"gun"}, handles |-> {"other"}],
   [structs |-> Structs({"new", "right"}), objects |-> {"gun"}, handles |-> {"key"}],
   [structs |-> [t \in {} |-> {}], objects |-> {}, handles |-> {}]}

Empty == [k |-> "none"]
Text(n) == [k |-> "text", v |-> n]
Whole(n) == [k |-> "int", v |-> n]
Gun(h) == [k |-> "identifier", t |-> "gun", h |-> h]
Members(a, b) == [n \in {"left", "right"} |-> IF n = "left" THEN a ELSE b]
PairOf(a, b) == [k |-> "struct", t |-> "pair", m |-> Members(a, b)]
Variable(val) == [k |-> "variable", v |-> val]

Leaves == {Empty, Text(0), Text(1), Whole(1), Gun("key"),
           [k |-> "identifier", t |-> None, h |-> None]}

Fraction == [k |-> "float", v |-> 1]
NoPair == [k |-> "struct", t |-> "pair", m |-> None]
StepLosers == {Fraction, [k |-> "bool", v |-> TRUE], NoPair}
SimpleArray(kind, e) == [k |-> kind, e |-> e]
TypedArray(kind, t, e) == [k |-> kind, t |-> t, e |-> e]
SavedArrays ==
  {TypedArray("identifiers", "gun", e) : e \in {<<>>, <<"key", "other">>}}
    \cup {SimpleArray("texts", e) : e \in {<<>>, <<1, 2>>, <<1, 4>>, <<9>>}}
    \cup {SimpleArray("ints", e) : e \in {<<>>, <<1, 0>>, <<2, 1>>, <<-1>>}}
    \cup {SimpleArray("floats", e) : e \in {<<>>, <<1>>}}
    \cup {SimpleArray("bools", e) : e \in {<<>>, <<TRUE, FALSE>>}}
    \cup {SimpleArray("variables", e) : e \in {<<>>, <<Whole(1), Text(1)>>}}
    \cup {TypedArray("structs", "pair", e) :
             e \in {<<>>, <<Members(Text(1), Whole(2)), Members(Gun("key"), Empty)>>,
                    <<Members(Text(4), Whole(2))>>, <<Members(Fraction, Whole(2))>>, <<None>>}}

SavedValues ==
  Leaves \cup {Variable(v) : v \in Leaves}
         \cup {PairOf(a, b) : a \in Leaves, b \in {Empty, Whole(2), Gun("other")}}
         \cup {Variable(PairOf(Whole(1), Text(1))),
               PairOf(Variable(Whole(1)), PairOf(Whole(1), Text(2)))}
         \cup {Text(3), Text(4), Text(9)}
         \cup StepLosers \cup {Variable(Fraction), Variable(Text(4)), Variable(Text(9))}
         \cup {PairOf(a, Whole(2)) : a \in StepLosers \cup {Text(4), Text(9), Variable(Text(4))}}
         \cup SavedArrays

SavedArguments ==
  INSTANCE VMData WITH at <- place, Values <- SavedValues, TextMax <- 3, TextWrap <- 8, MaxArgs <- 2

-----------------------------------------------------------------------------
(* Values in a movie: halves of two bits, one type of objects, and a       *)
(* structure whose members are a number, an object and a variable.  Of the *)
(* known handles 1 and 5 cross and 7 does not; 4 and 6 are of no object.   *)
MovieKnown ==
  [objects |-> {"gun"}, handles |-> {1, 5, 7},
   structs |-> [t \in {"set"} |->
     [n \in {"count", "gun", "any"} |->
        CASE n = "count" -> "int" [] n = "gun" -> "gun" [] n = "any" -> "variable"]]]

SetOf(g, a) ==
  [k |-> "struct", t |-> "set",
   m |-> [n \in {"count", "gun", "any"} |->
            CASE n = "count" -> Whole(1) [] n = "gun" -> g [] n = "any" -> Variable(a)]]
MovieGuns == {Gun(h) : h \in {1, 4, 5, 6, 7}}
MovieLeaves ==
  {Empty, Whole(1), Fraction, [k |-> "bool", v |-> TRUE], [k |-> "text", v |-> "x"]} \cup MovieGuns
MovieArrays == {[k |-> "array", e |-> <<a, b>>] : a \in MovieLeaves, b \in {Whole(2), Gun(1), Gun(7)}}
HandedOver ==
  MovieLeaves \cup MovieArrays \cup {Variable(a) : a \in MovieLeaves}
    \cup {SetOf(g, a) : g \in {[k |-> "empty"]} \cup MovieGuns, a \in MovieLeaves}
    \cup {Variable(SetOf(Gun(1), Whole(3))), Variable(SetOf(Gun(7), Gun(7))),
          [k |-> "struct", t |-> "lost", m |-> [n \in {"count"} |-> Whole(1)]]}

Movie ==
  INSTANCE MovieValues WITH
    phase <- movieAt, Values <- HandedOver, Known <- MovieKnown, HalfWrap <- 4,
    Changes <- {[k |-> "undefined"], [k |-> "number", v |-> 2], [k |-> "string", v |-> "y"],
                [k |-> "array", e |-> <<>>],
                [k |-> "object", m |-> [n \in {"width"} |-> Whole(3)]],
                [k |-> "object", m |-> [n \in {"__handleHigh__", "__handleLow__", "__type__"} |->
                   IF n = "__type__" THEN [k |-> "string", v |-> "gun"]
                   ELSE [k |-> "uint", v |-> 1]]]}

-----------------------------------------------------------------------------
(* Three copies of instance data and an entry of another type; the values  *)
(* of a weapon, and what scripts pass for them, none of it for armor.      *)
MCTypeOf == [e \in Extras |-> IF e = e4 THEN "health" ELSE "instance"]
Physical == [damage |-> 2, isDamageType |-> TRUE]
NoType == [damage |-> 1, isDamageType |-> FALSE]
MCOriginal ==
  [stagger |-> 1, damageTypes |-> <<Physical>>, armorRating |-> 0, numProjectiles |-> 1,
   keywords |-> <<"sharp">>, flags |-> {2}]
MCArguments ==
  [stagger |-> {-1, 3, 5}, damageTypes |-> {<<>>, <<Physical, NoType, Physical>>},
   armorRating |-> {7}, numProjectiles |-> {300}, keywords |-> {<<>>}, flags |-> {[bits |-> b, set |-> s] : b \in {{1}, {1, 2}}, s \in BOOLEAN}]

(* A list of which each thread adds one type and both remove; the data of  *)
(* an item of which the scripts are the only user; and that of a thing     *)
(* that another thread attaches data to as well.                           *)
ListInit == /\ owners = {} /\ uses = {} /\ missing = {}
            /\ adders = {<<Script, "instance">>, <<other, "health">>}
ItemInit == /\ owners = {"form", "item", "worn"}
            /\ \/ uses = {"stagger", "damageTypes", "armorRating"} /\ missing = {}
               \/ uses = {"numProjectiles", "keywords"}
                    /\ missing \in {{}, {"firing data"}, {"keyword form"}}
            /\ adders = {<<Script, "instance">>}
SharedItemInit == /\ owners = {"form", "item", "reference", "nothing worn"} /\ uses = {"flags"}
                  /\ missing = {}
                  /\ adders = {<<Script, "instance">>, <<other, "instance">>}

-----------------------------------------------------------------------------
MCInit ==
  /\ part \in {"arguments", "call", "movie", "list", "item", "shared item"}
  /\ SavedArguments!DataInit /\ CallInit /\ Movie!MovieInit
  /\ part # "call" => ~latent /\ ~isStatic /\ arrays["script"].none
  /\ IF part = "item" THEN ItemInit ELSE IF part = "shared item" THEN SharedItemInit ELSE ListInit
  /\ InstanceInit

MCNext ==
  \/ part = "arguments" /\ SavedArguments!DataNext /\ UNCHANGED <<part, callVars, movieVars, itemVars>>
  \/ part = "call" /\ CallNext /\ UNCHANGED <<part, dataVars, movieVars, itemVars>>
  \/ part = "movie" /\ Movie!MovieNext /\ UNCHANGED <<part, dataVars, callVars, itemVars>>
  \/ part = "list" /\ ExtraNext /\ UNCHANGED <<part, dataVars, callVars, movieVars, scriptVars>>
  \/ part \in {"item", "shared item"} /\ InstanceNext
       /\ UNCHANGED <<part, dataVars, callVars, movieVars>>

MCSpec == MCInit /\ [][MCNext]_vars

-----------------------------------------------------------------------------
(* PapyrusSerialization.cpp: in whatever game arguments are loaded, the    *)
(* reader keeps in step with the writer, and what still exists in that     *)
(* game is loaded as it was saved.  That is not so for every kind of value:*)
(* from the first argument on that has a fraction, a truth value, an array *)
(* of these or of variables, an array of whole numbers that are no indices *)
(* of it, or a text that is too long as a member of a structure, the reader*)
(* is lost (283, 291, 426, 434, 446, 420, 79-80), and nothing is claimed;  *)
(* nor about the value of an array, which never comes back (387, 402, 452, *)
(* 513), or of a text of 2^16 characters or more, which is cut.            *)
ArgumentsAreLoaded ==
  SavedArguments!DataTypeOK /\ SavedArguments!ReaderKeepsStep /\ SavedArguments!LoadsWhatSurvives

(* PapyrusScaleformAdapter.cpp: whatever a movie does to a value, a script *)
(* finds no member of another type in it; what the movie leaves alone comes*)
(* back as it went, and a call the movie makes reaches its object, except  *)
(* that an object whose handle has the top bit of its low half set (200-   *)
(* 204) comes back as nothing and is not reached.                          *)
MovieValuesComeBack ==
  /\ Movie!MovieTypeOK /\ Movie!TypesAreNotClobbered
  /\ Movie!UntouchedComesBack /\ Movie!CallsReachObjects
=============================================================================
