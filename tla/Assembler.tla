----------------------------- MODULE Assembler -----------------------------
(***************************************************************************)
(* The code generator the hooks are assembled with (xbyak), as far as its  *)
(* labels go: code is written into a buffer of fixed size, references to   *)
(* labels may come before or after the definition, and label objects that  *)
(* are copies of each other share a definition and count their users.      *)
(* Instructions are so many bytes each; short and near displacements take  *)
(* one and NearSize bytes and a short one reaches ShortReach bytes.        *)
(***************************************************************************)
EXTENDS Integers, Sequences, FiniteSets

CONSTANTS
    Handles,        \* the Label objects of a program
    Names,          \* its global label strings, "@@" among them if it is used
    LocalNames,     \* those that begin with a dot
    MaxSize,        \* size of the buffer
    Top,            \* its address
    NearSize, ShortReach,
    Immediates,     \* bytes of an instruction behind the reference in it
    MaxDepth, MaxScopes, \* bounds on nested local scopes and on all of them
    MaxAnonymous,   \* bound on the labels "@@"
    AssignTo        \* which labels it passes to assignL

\* A program does not use the spellings of "@@" as names.  A short jump has a
\* byte and everything else more; assignL is given labels that were jumped to.
ASSUME AssemblerAssumption ==
    /\ IsFiniteSet(Handles)
    /\ Names \cap LocalNames = {} /\ "@@" \notin LocalNames
    /\ {"@b", "@f"} \cap (Names \cup LocalNames) = {}
    /\ MaxSize \in Nat /\ Top \in Int /\ NearSize \in Nat /\ NearSize > 1
    /\ ShortReach \in Nat /\ Immediates \subseteq Nat
    /\ MaxDepth \in Nat /\ MaxDepth >= 2
    /\ AssignTo \subseteq {"jumped to"}

VARIABLES
    size,       \* bytes written
    defs,       \* the definition lists: offset of each key
    undefs,     \* the lists of references that wait for a definition
    depth,      \* scopes in stateList_, the global one is 1, the local one last
    labelId,    \* the next identifier of a label object
    label,      \* the label objects: identifier, manager set, alive
    refCount,   \* users of each definition of a label object
    error,      \* what was thrown
    refs,       \* history: each reference, by its end, with the place it means
    place,      \* history: where each label was put
    thing,      \* history: the label an object is a copy of
    entered     \* history: local scopes entered, and labels "@@" defined

codeVars == <<size, defs, undefs, depth, labelId, label, refCount, error, refs, place, thing, entered>>

NoError == "none"
Fresh == [id |-> 0, mgr |-> FALSE, alive |-> TRUE]

AssemblerInit ==
    /\ size = 0 /\ defs = <<>> /\ undefs = {} /\ depth = 2 /\ labelId = 1
    /\ label = [h \in Handles |-> Fresh]
    /\ refCount = <<>> /\ error = NoError
    /\ refs = <<>> /\ place = <<>>
    /\ thing = [h \in Handles |-> h]
    /\ entered = [scopes |-> <<0, 0>>, last |-> 0, anonymous |-> 0]

-----------------------------------------------------------------------------
(* Keys of the lists: label objects by identifier in table 0, strings by scope.  What a
   reference or a definition means is the object it was made from, the string
   with the scope it is in, or the number of the "@@". *)

Key(table, name) == <<table, name>>
Object(h) == <<thing[h], -1>>
Scope(name) == IF name \in LocalNames THEN depth ELSE 1
Meaning(name) ==
    CASE name = "@b" -> <<"@@", entered.anonymous>>
      [] name = "@f" -> <<"@@", entered.anonymous + 1>>
      [] OTHER -> <<name, entered.scopes[Scope(name)]>>

With(f, key, x) == [k \in DOMAIN f \cup {key} |-> IF k = key THEN x ELSE f[k]]
Without(f, key) == [k \in DOMAIN f \ {key} |-> f[k]]
Short(distance) == -ShortReach - 1 <= distance /\ distance <= ShortReach

Throw(e) ==
    /\ error' = e
    /\ UNCHANGED <<size, defs, undefs, depth, labelId, label, refCount, refs, place, thing, entered>>

\* What define_inner writes for a reference that waited.
Resolved(ref, offset) ==
    IF ref.mode = "absolute" THEN Top + size ELSE offset - ref.end + ref.disp

TooFar(ref, offset) == ref.size = 1 /\ ~Short(Resolved(ref, offset))

\* define_inner leaves the references to other keys and takes all to this one.
Waiting(key) == {r \in undefs : r.key = key}

\* A define_inner that resolves the first reference it finds.
DefineOne(table, key, offset, meaning) ==
    /\ defs' = With(table, key, offset)
    /\ IF Waiting(key) = {}
       THEN UNCHANGED <<undefs, refs>>
       ELSE LET first == CHOOSE r \in Waiting(key) : TRUE
            IN  /\ undefs' = undefs \ {first}
                /\ refs' = [refs EXCEPT ![first.end].value = Resolved(first, offset)]
    /\ place' = With(place, meaning, offset)

Define(table, key, offset, meaning) ==
    /\ defs' = With(table, key, offset)
    /\ undefs' = undefs \ Waiting(key)
    /\ refs' = [e \in DOMAIN refs |->
                    IF \E r \in Waiting(key) : r.end = e
                    THEN [refs[e] EXCEPT !.value =
                            Resolved(CHOOSE r \in Waiting(key) : r.end = e, offset)]
                    ELSE refs[e]]
    /\ place' = With(place, meaning, offset)

\* The exceptions of define_inner; nothing goes on after one.
Redefined(table, key) == key \in DOMAIN table
Unreachable(key, offset) == \E r \in Waiting(key) : TooFar(r, offset)

DefineInner(table, key, offset, meaning) ==
    IF Redefined(table, key) THEN Throw("redefined")
    ELSE IF Unreachable(key, offset) THEN Throw("too far")
    ELSE Define(table, key, offset, meaning) /\ UNCHANGED <<size, depth, labelId, error, thing>>

-----------------------------------------------------------------------------
(* Label objects. *)

\* getId gives an object its identifier when it is first used.
Id(h) == IF label[h].id = 0 THEN labelId ELSE label[h].id
Identify(h) == labelId' = IF label[h].id = 0 THEN labelId + 1 ELSE labelId

\* L(label).
DefineLabel(h) ==
    /\ error = NoError /\ label[h].alive
    /\ LET key == Key(0, Id(h))
       IN  IF Redefined(defs, key) THEN Throw("redefined")
           ELSE IF Unreachable(key, size) THEN Throw("too far")
           ELSE /\ Define(defs, key, size, Object(h))
                /\ Identify(h)
                /\ label' = [label EXCEPT ![h] = [@ EXCEPT !.id = Id(h), !.mgr = TRUE]]
                /\ refCount' = With(refCount, Id(h), 1)
                /\ UNCHANGED <<size, depth, error, thing, entered>>

\* Which use of assignL it is.
Awaited(h) ==
    IF label[h].id = 0 THEN "fresh"
    ELSE IF \E r \in Waiting(Key(0, label[h].id)) : r.mode = "absolute" THEN "stored"
    ELSE "jumped to"

\* assignL(dst, src), of a dst that was not defined and a src that was.
AssignLabel(dst, src) ==
    /\ error = NoError /\ label[dst].alive /\ label[src].alive
    /\ ~label[dst].mgr /\ Awaited(dst) \in AssignTo
    /\ Key(0, label[src].id) \in DOMAIN defs
    /\ LET key == Key(0, label[dst].id)
           offset == defs[Key(0, label[src].id)]
       IN  IF Redefined(defs, key) THEN Throw("redefined")
           ELSE IF Unreachable(key, offset) THEN Throw("too far")
           ELSE /\ Define(defs, key, offset, Object(dst))
                /\ label' = [label EXCEPT ![dst].mgr = TRUE]
                /\ refCount' = With(refCount, label[dst].id, 1)
                /\ UNCHANGED <<size, depth, labelId, error, thing, entered>>

\* A label that is made or assigned from another one, which has been defined
\* or not been used at all; a copy of a used label would not be counted.
CopyLabel(h, from) ==
    /\ error = NoError /\ label[h] = Fresh /\ thing[h] = h /\ label[from].alive /\ h # from
    /\ label[from].mgr \/ label[from].id = 0
    /\ label' = [label EXCEPT ![h] = label[from]]
    /\ refCount' = IF label[from].mgr THEN [refCount EXCEPT ![label[from].id] = @ + 1] ELSE refCount
    /\ thing' = IF label[from].mgr THEN [thing EXCEPT ![h] = thing[from]] ELSE thing
    /\ UNCHANGED <<size, defs, undefs, depth, labelId, error, refs, place, entered>>

DestroyLabel(h) ==
    /\ error = NoError /\ label[h].alive
    /\ label' = [label EXCEPT ![h].alive = FALSE]
    /\ LET id == label[h].id
       IN  IF id # 0 /\ label[h].mgr /\ id \in DOMAIN refCount
           THEN IF refCount[id] = 1
                THEN /\ refCount' = Without(refCount, id)
                     /\ defs' = Without(defs, Key(0, id))
                ELSE refCount' = [refCount EXCEPT ![id] = @ - 1] /\ UNCHANGED defs
           ELSE UNCHANGED <<refCount, defs>>
    /\ UNCHANGED <<size, undefs, depth, labelId, error, refs, place, thing, entered>>

-----------------------------------------------------------------------------
(* String labels. *)

\* "@@" is "@f" and "@b" in turn and takes the other name's entry away.
Anonymous ==
    IF Key(1, "@f") \in DOMAIN defs
    THEN [name |-> "@b", table |-> Without(defs, Key(1, "@f"))]
    ELSE [name |-> "@f", table |-> Without(defs, Key(1, "@b"))]

DefineAnonymous ==
    /\ error = NoError /\ "@@" \in Names /\ entered.anonymous < MaxAnonymous
    /\ LET a == Anonymous
       IN  DefineInner(a.table, Key(1, a.name), size, <<"@@", entered.anonymous + 1>>)
    /\ entered' = IF error' = NoError THEN [entered EXCEPT !.anonymous = @ + 1] ELSE entered
    /\ UNCHANGED <<label, refCount>>

DefineName(name) ==
    /\ error = NoError
    /\ DefineInner(defs, Key(Scope(name), name), size, Meaning(name))
    /\ UNCHANGED <<label, refCount, entered>>

EnterLocal ==
    /\ error = NoError /\ depth < MaxDepth /\ entered.last < MaxScopes
    /\ depth' = depth + 1
    /\ entered' = [entered EXCEPT !.scopes = Append(@, entered.last + 1), !.last = @ + 1]
    /\ UNCHANGED <<size, defs, undefs, labelId, label, refCount, error, refs, place, thing>>

LeaveLocal ==
    /\ error = NoError
    /\ IF depth <= 2 THEN Throw("under local label")
       ELSE IF \E r \in undefs : r.key[1] = depth THEN Throw("label is not found")
       ELSE /\ depth' = depth - 1
            /\ defs' = [k \in {k \in DOMAIN defs : k[1] # depth} |-> defs[k]]
            /\ entered' = [entered EXCEPT !.scopes = SubSeq(@, 1, depth - 1)]
            /\ UNCHANGED <<size, undefs, labelId, label, refCount, error, refs, place, thing>>

-----------------------------------------------------------------------------
(* References. *)

\* The key under which a string is looked for, and waits when it is not found.
NameKey(name) ==
    IF name \in {"@b", "@f"}
    THEN Key(1, IF Key(1, "@f") \in DOMAIN defs
                THEN (IF name = "@b" THEN "@f" ELSE "@b") ELSE name)
    ELSE Key(Scope(name), name)

\* Code and a reference of so many bytes at its end; imm bytes follow it.
Write(bytes, refSize, imm, mode, value, meaning) ==
    /\ size' = size + bytes
    /\ refs' = With(refs, size + bytes - imm,
                    [meaning |-> meaning, mode |-> mode, size |-> refSize, imm |-> imm, value |-> value])

\* The forms of a reference to a key that is known.
KnownJump(key, type, meaning) ==
    LET distance == defs[key] - size
    IN  IF type # "near" /\ Short(distance - 2)
        THEN /\ size + 2 <= MaxSize
             /\ Write(2, 1, 0, "relative", distance - 2, meaning)
        ELSE /\ type # "short"
             /\ size + 1 + NearSize <= MaxSize
             /\ Write(1 + NearSize, NearSize, 0, "relative", distance - 1 - NearSize, meaning)

KnownLoad(key, imm, meaning) ==
    /\ size + 1 + NearSize + imm <= MaxSize
    /\ Write(1 + NearSize + imm, NearSize, imm, "relative",
             defs[key] - imm - (size + 1) - NearSize, meaning)

KnownAddress(key, meaning) ==
    /\ size + NearSize <= MaxSize
    /\ Write(NearSize, NearSize, 0, "absolute", Top + defs[key], meaning)

\* The same when the key is not known: zero is written, and what to do later.
Later(key, bytes, refSize, imm, mode, meaning) ==
    /\ size + bytes <= MaxSize
    /\ Write(bytes, refSize, imm, mode, 0, meaning)
    /\ undefs' = undefs \cup {[key |-> key, end |-> size + bytes - imm, size |-> refSize,
                               mode |-> mode, disp |-> -imm]}

Jump(key, type, meaning) ==
    IF key \in DOMAIN defs
    THEN KnownJump(key, type, meaning) /\ UNCHANGED undefs
    ELSE IF type = "near" THEN Later(key, 1 + NearSize, NearSize, 0, "relative", meaning)
    ELSE Later(key, 2, 1, 0, "relative", meaning)

\* [rip + label] in an instruction with an immediate operand of imm bytes.
Load(key, imm, meaning) ==
    IF key \in DOMAIN defs
    THEN KnownLoad(key, imm, meaning) /\ UNCHANGED undefs
    ELSE Later(key, 1 + NearSize + imm, NearSize, imm, "relative", meaning)

\* putL.
Address(key, meaning) ==
    IF key \in DOMAIN defs
    THEN KnownAddress(key, meaning) /\ UNCHANGED undefs
    ELSE Later(key, NearSize, NearSize, 0, "absolute", meaning)

Refer(key, meaning) ==
    \/ \E type \in {"short", "near", "auto"} : Jump(key, type, meaning)
    \/ \E imm \in Immediates : Load(key, imm, meaning)
    \/ Address(key, meaning)

ReferToLabel(h) ==
    /\ error = NoError /\ label[h].alive
    /\ Refer(Key(0, Id(h)), Object(h))
    /\ Identify(h)
    /\ label' = [label EXCEPT ![h].id = Id(h)]
    /\ UNCHANGED <<defs, depth, refCount, error, place, thing, entered>>

ReferToName(name) ==
    /\ error = NoError
    /\ name = "@b" => entered.anonymous > 0     \* getOffset throws otherwise
    /\ Refer(NameKey(name), Meaning(name))
    /\ UNCHANGED <<defs, depth, labelId, label, refCount, error, place, thing, entered>>

\* Any other instruction.
Emit ==
    /\ error = NoError /\ size < MaxSize
    /\ size' = size + 1
    /\ UNCHANGED <<defs, undefs, depth, labelId, label, refCount, error, refs, place, thing, entered>>

\* Code that no longer fits, and a short jump back that does not reach.
Overflow == error = NoError /\ size = MaxSize /\ Throw("code is too big")
JumpTooFar ==
    /\ error = NoError
    /\ \E key \in DOMAIN defs : ~Short(defs[key] - size - 2)
    /\ Throw("too far")

AssemblerNext ==
    \/ \E h \in Handles : DefineLabel(h) \/ DestroyLabel(h) \/ ReferToLabel(h)
    \/ \E h, g \in Handles : CopyLabel(h, g) \/ AssignLabel(h, g)
    \/ \E name \in (Names \ {"@@"}) \cup LocalNames : DefineName(name) \/ ReferToName(name)
    \/ \E name \in {"@b", "@f"} : "@@" \in Names /\ ReferToName(name)
    \/ DefineAnonymous
    \/ EnterLocal \/ LeaveLocal
    \/ Emit \/ Overflow \/ JumpTooFar

AssemblerSpec == AssemblerInit /\ [][AssemblerNext]_codeVars

-----------------------------------------------------------------------------
(* AssemblerTypeOK: the code stays in its buffer, and whatever waits, waits in
   a scope that is still open for bytes that have been written. *)
AssemblerTypeOK ==
    /\ size \in 0 .. MaxSize
    /\ depth \in 2 .. MaxDepth /\ Len(entered.scopes) = depth
    /\ \A r \in undefs : r.end \in DOMAIN refs /\ (r.key[1] \in 0 .. depth)
    /\ \A key \in DOMAIN defs : defs[key] \in 0 .. size
    /\ {key[2] : key \in {k \in DOMAIN defs : k[1] = 0}} = DOMAIN refCount

\* Where the processor goes, or what it loads.
Target(e) ==
    IF refs[e].mode = "absolute" THEN refs[e].value - Top ELSE e + refs[e].imm + refs[e].value

(* ReferencesReach: every reference that waits for nothing leads to the place
   of its label, whether the label came before or after it, short or near, with
   bytes of the instruction behind it, and for "@b" and "@f" to the last and the
   next "@@" as they were where the reference was written; and a short one
   reaches it. *)
ReferencesReach ==
    \A e \in DOMAIN refs :
        (\A r \in undefs : r.end # e) =>
            /\ refs[e].meaning \in DOMAIN place
            /\ Target(e) = place[refs[e].meaning]
            /\ refs[e].size = 1 => Short(refs[e].value)

(* NothingWaitsForItsLabel: no reference waits for a label that has been put
   somewhere, whichever object or spelling names it: code is run without a call
   of ready, which would notice. *)
NothingWaitsForItsLabel ==
    error = NoError => \A r \in undefs : refs[r.end].meaning \notin DOMAIN place

(* UsersAreCounted: a definition is kept for as long as one of the label
   objects that know of it lives, and no longer. *)
UsersAreCounted ==
    \A id \in 1 .. labelId - 1 :
        LET users == {h \in Handles : label[h].alive /\ label[h].mgr /\ label[h].id = id}
        IN  IF id \in DOMAIN refCount THEN refCount[id] = Cardinality(users) ELSE users = {}

(* All that is said of references and of the labels they lead to. *)
ReferencesAreResolved ==
    AssemblerTypeOK /\ NothingWaitsForItsLabel /\ ReferencesReach /\ UsersAreCounted
=============================================================================
