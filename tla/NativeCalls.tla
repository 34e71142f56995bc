----------------------------- MODULE NativeCalls -----------------------------
(***************************************************************************)
(* A script calls a native function with an array (f4se/PapyrusArgs.h,     *)
(* VMArray; PapyrusNativeFunctionDef_Base.inl and, for the ones that run   *)
(* later, PapyrusDelayFunctorsDef_Base.inl).                               *)
(*                                                                         *)
(* The function works on a copy of the array and every change is made to   *)
(* the script's array as well.  A call that is put off packs its           *)
(* arguments, which makes an array of its own, and unpacks them when its   *)
(* turn comes: meanwhile other scripts run, and the object that was called *)
(* may go.                                                                 *)
(***************************************************************************)
EXTENDS Integers, Sequences, SequencesExt

CONSTANTS
  Items,      \* what is in arrays
  Blank,      \* the item that is none
  MaxLength,  \* bound on the length of arrays
  MaxChanges  \* bound on the changes the function makes, and other scripts

ASSUME CallAssumption == Blank \in Items /\ MaxLength \in Nat /\ MaxChanges \in Nat

(* An array of the machine is its entries; an empty one has a block of      *)
(* memory for them or not.  How large the block is, its capacity, is left   *)
(* out: no operation makes more or fewer entries because of it.             *)
NoArray == [none |-> TRUE, items |-> <<>>, block |-> FALSE]
Some(items) == [none |-> FALSE, items |-> items, block |-> TRUE]
Cleared == [none |-> FALSE, items |-> <<>>, block |-> FALSE]

VARIABLES
  arrays,   \* the machine's arrays: the script's own, and the one of the call
  object,   \* whether the object that is called exists
  stage,    \* "script", "queued", "running", "returned" or "failed"
  latent,   \* whether the call is put off
  isStatic, \* whether it is a call of no object
  view,     \* VMArray: m_arr (the array behind it), m_data, m_none
  passed,   \* the script's array when it made the call
  chosen,   \* whether the function said itself if the array is none
  result,   \* what the script gets back
  grown,    \* history: whether a Resize asked for entries that the array behind
            \* the copy has not got, since the function last assigned all of it
  changes   \* changes so far

callVars == <<arrays, object, stage, latent, isStatic, view, passed, chosen, result, grown, changes>>

Contents == {NoArray, Cleared} \cup {Some(s) : s \in BoundedSeq(Items, MaxLength)}

-----------------------------------------------------------------------------
(* UnpackArray: no array, or the script's and a copy of it.                *)
UnpackArray(which) ==
  IF arrays[which].none THEN [arr |-> "nothing", data |-> <<>>, none |-> TRUE]
  ELSE [arr |-> which, data |-> arrays[which].items, none |-> FALSE]

(* PackArray: a new array, if there is anything to put in it.              *)
PackArray(v) == IF v.data # <<>> /\ ~v.none THEN Some(v.data) ELSE NoArray

CallInit ==
  /\ arrays \in [{"script", "call"} -> {NoArray}] \cup
                {[a \in {"script", "call"} |-> IF a = "script" THEN c ELSE NoArray] : c \in Contents}
  /\ object = TRUE /\ stage = "script"
  /\ latent \in BOOLEAN /\ isStatic \in BOOLEAN
  /\ view = [arr |-> "nothing", data |-> <<>>, none |-> FALSE]
  /\ passed = NoArray /\ chosen = FALSE /\ result = NoArray /\ changes = 0
  /\ grown = FALSE

HasBase == isStatic \/ object

(* NativeFunction::Run of a function that does its work at once.           *)
Run ==
  /\ stage = "script" /\ ~latent
  /\ IF HasBase
     THEN /\ view' = UnpackArray("script") /\ passed' = arrays["script"]
          /\ stage' = "running"
     ELSE stage' = "failed" /\ UNCHANGED <<view, passed>>
  /\ UNCHANGED <<arrays, object, latent, isStatic, chosen, result, grown, changes>>

EnqueueShared ==
  /\ stage = "script" /\ latent
  /\ IF HasBase
     THEN /\ passed' = arrays["script"]
          /\ view' = [arr |-> "script", data |-> <<>>, none |-> FALSE]
          /\ stage' = "queued"
     ELSE stage' = "failed" /\ UNCHANGED <<passed, view>>
  /\ UNCHANGED <<arrays, object, latent, isStatic, chosen, result, grown, changes>>

(* ... and of one that is put off: the functor's constructor packs the     *)
(* arguments.  The one above would keep the script's array instead.        *)
Enqueue ==
  /\ stage = "script" /\ latent
  /\ IF HasBase
     THEN /\ arrays' = [arrays EXCEPT !["call"] = PackArray(UnpackArray("script"))]
          /\ passed' = arrays["script"]
          /\ view' = [arr |-> "call", data |-> <<>>, none |-> FALSE]
          /\ stage' = "queued"
     ELSE stage' = "failed" /\ UNCHANGED <<arrays, passed, view>>
  /\ UNCHANGED <<object, latent, isStatic, chosen, result, grown, changes>>

(* The functor's Run.                                                      *)
RunLater ==
  /\ stage = "queued"
  /\ IF HasBase
     THEN /\ view' = UnpackArray(view.arr)
          /\ stage' = "running"
     ELSE stage' = "failed" /\ view' = view
  /\ UNCHANGED <<arrays, object, latent, isStatic, passed, chosen, result, grown, changes>>

(* While it waits another script changes the array, or the object goes.    *)
OtherScript(c) ==
  /\ stage = "queued" /\ changes < MaxChanges
  /\ ~arrays["script"].none /\ ~c.none
  /\ arrays' = [arrays EXCEPT !["script"] = c]
  /\ changes' = changes + 1
  /\ UNCHANGED <<object, stage, latent, isStatic, view, passed, chosen, result, grown>>

ObjectGoes ==
  /\ stage \in {"script", "queued"}
  /\ object /\ object' = FALSE
  /\ UNCHANGED <<arrays, stage, latent, isStatic, view, passed, chosen, result, grown, changes>>

-----------------------------------------------------------------------------
(* tArray, the array behind the copy: a Remove or a write behind its last   *)
(* entry leaves it as it is, and so does a Resize to more than it has: that *)
(* makes its block larger and no entries (GameTypes.h:246), unless there was*)
(* no block.                                                                *)
PushTo(a, x) == Some(Append(a.items, x))
SetIn(a, i, x) == IF i \in DOMAIN a.items THEN Some([a.items EXCEPT ![i] = x]) ELSE a
RemoveFrom(a, i) == IF i \in DOMAIN a.items THEN Some(RemoveAt(a.items, i)) ELSE a
Blanks(n) == [i \in 1..n |-> Blank]
ResizeOf(a, n) ==
  IF a.block THEN Some(IF n < Len(a.items) THEN SubSeq(a.items, 1, n) ELSE a.items)
  ELSE IF n = 0 THEN a
  ELSE Some(Blanks(n))

(* A change of the copy, and of the array behind it.                       *)
Through(data, Changed(_)) ==
  /\ stage = "running" /\ changes < MaxChanges
  /\ view' = [view EXCEPT !.data = data]
  /\ arrays' = IF view.arr = "nothing" THEN arrays
               ELSE [arrays EXCEPT ![view.arr] = Changed(@)]
  /\ changes' = changes + 1
  /\ UNCHANGED <<object, stage, latent, isStatic, passed, chosen, result>>

Push(x) ==
  /\ Len(view.data) < MaxLength
  /\ Through(Append(view.data, x), LAMBDA a : PushTo(a, x))
  /\ UNCHANGED grown

Set(i, x) ==
  /\ i \in DOMAIN view.data
  /\ Through([view.data EXCEPT ![i] = x], LAMBDA a : SetIn(a, i, x))
  /\ UNCHANGED grown

RemoveItem(i) ==
  /\ i \in DOMAIN view.data
  /\ Through(RemoveAt(view.data, i), LAMBDA a : RemoveFrom(a, i))
  /\ UNCHANGED grown

Resize(n) ==
  /\ Through([i \in 1..n |-> IF i \in DOMAIN view.data THEN view.data[i] ELSE Blank],
             LAMBDA a : ResizeOf(a, n))
  /\ grown' = (grown \/ (view.arr # "nothing" /\ arrays[view.arr].block
                            /\ n > Len(arrays[view.arr].items)))

(* operator=(vector): Clear, and a Push of every value.                    *)
Assign(values) ==
  /\ Through(values, LAMBDA a : IF values = <<>> THEN Cleared ELSE Some(values))
  /\ grown' = FALSE

SetNone(b) ==
  /\ stage = "running" /\ changes < MaxChanges
  /\ view' = [view EXCEPT !.none = b]
  /\ chosen' = TRUE
  /\ changes' = changes + 1
  /\ UNCHANGED <<arrays, object, stage, latent, isStatic, passed, result, grown>>

(* The function returns the array.                                         *)
Return ==
  /\ stage = "running"
  /\ result' = PackArray(view)
  /\ stage' = "returned"
  /\ UNCHANGED <<arrays, object, latent, isStatic, view, passed, chosen, grown, changes>>

CallNext ==
  \/ Run \/ Enqueue \/ RunLater \/ ObjectGoes \/ Return
  \/ \E c \in Contents : OtherScript(c)
  \/ \E s \in BoundedSeq(Items, MaxLength) : Assign(s)
  \/ \E x \in Items : Push(x) \/ \E i \in 1..MaxLength : Set(i, x)
  \/ \E i \in 1..MaxLength : RemoveItem(i)
  \/ \E n \in 0..MaxLength : Resize(n)
  \/ \E b \in BOOLEAN : SetNone(b)

CallSpec == CallInit /\ [][CallNext]_callVars

-----------------------------------------------------------------------------
(* Types of all variables.  No array is none and has items.                *)
CallTypeOK ==
  /\ arrays \in [{"script", "call"} -> Contents]
  /\ object \in BOOLEAN /\ latent \in BOOLEAN /\ isStatic \in BOOLEAN /\ chosen \in BOOLEAN
  /\ grown \in BOOLEAN
  /\ stage \in {"script", "queued", "running", "returned", "failed"}
  /\ view \in [arr : {"nothing", "script", "call"}, data : BoundedSeq(Items, MaxLength),
               none : BOOLEAN]
  /\ passed \in Contents /\ result \in Contents /\ changes \in 0..MaxChanges

(* While a function runs, the array behind its copy is what the copy is:   *)
(* the script finds in its array what the function did, and no more.  That *)
(* ends with a Resize to more than the array has, which makes the copy     *)
(* longer and not the array, until the function assigns all of it anew;    *)
(* the array never is the longer one of the two.                           *)
CopyMirrorsArray ==
  stage \in {"running", "returned"} /\ view.arr # "nothing"
    => /\ Len(arrays[view.arr].items) <= Len(view.data)
       /\ ~grown => view.data = arrays[view.arr].items

(* A call that was put off begins with what the script passed, whatever    *)
(* other scripts do to their array before its turn, if its object is still *)
(* there, and its steps leave the script's array alone.                    *)
LaterCallsAreOnTheirOwn ==
  [][/\ latent /\ stage = "running" => arrays'["script"] = arrays["script"]
     /\ stage = "queued" /\ stage' = "running"
          => view'.data = passed.items /\ HasBase]_callVars

(* What a script gets back, is what the function's copy is.                *)
ReturnsItsCopy ==
  stage = "returned" /\ ~result.none => result.items = view.data /\ ~view.none

(* PapyrusNativeFunctions.h, PapyrusArgs.h: a call that is put off has its *)
(* own copy of an array, from when it was made; one that is not changes the*)
(* array of the script as it changes its copy, as long as it has not asked *)
(* Resize (98) for more than the array has, and hands back what it has.    *)
CallsKeepTheirArrays ==
  /\ LaterCallsAreOnTheirOwn
  /\ [](CallTypeOK /\ CopyMirrorsArray /\ ReturnsItsCopy)
=============================================================================
