--------------------------- MODULE ExtraDataList ---------------------------
(***************************************************************************)
(* The extra data of a reference or of a stack of items (GameExtraData):   *)
(* a chain of entries with a set of bits that says which types are in it.  *)
(* Each use of the lock of a list touches nothing but the list, so what a  *)
(* function does under the lock is one step.  Add and GetByType ask        *)
(* HasType before they lock again for the rest, which makes two steps.     *)
(***************************************************************************)
EXTENDS SequencesExt

CONSTANTS
    Threads,    \* the threads that use the list
    Extras,     \* the entries, BSExtraData
    TypeOf,     \* their types
    NoEntry     \* a null pointer

Types == {TypeOf[e] : e \in Extras}
Idle == [op |-> "idle"]

VARIABLES
    adders,     \* which thread may add which type, a set of pairs: never changes
    chain,      \* the entries from m_data on
    presence,   \* the types whose bit is set in m_presence
    call,       \* what each thread is about to do under the lock
    found       \* what the last GetByType of each thread returned

extraVars == <<adders, chain, presence, call, found>>

ExtraTypeOK ==
    /\ adders \subseteq Threads \X Types
    /\ chain \in Seq(Extras) /\ IsInjective(chain)
    /\ presence \subseteq Types
    /\ call \in [Threads -> {Idle} \cup [op : {"add"}, entry : Extras]
                                  \cup [op : {"get"}, type : Types]]
    /\ found \in [Threads -> Extras \cup {NoEntry}]

ExtraInit ==
    /\ adders \subseteq Threads \X Types
    /\ chain = <<>>
    /\ presence = {}
    /\ call = [t \in Threads |-> Idle]
    /\ found = [t \in Threads |-> NoEntry]

-----------------------------------------------------------------------------
HasType(type) == type \in presence

\* The places in the chain that a walk looks for, and the one it stops at.
OfType(type) == {i \in DOMAIN chain : TypeOf[chain[i]] = type}
PlaceOf(e) == {i \in DOMAIN chain : chain[i] = e}
First(places) == CHOOSE i \in places : \A j \in places : i <= j

\* Nobody has the entry in a list or is adding it.
Spare(e) ==
    /\ e \notin Range(chain)
    /\ \A t \in Threads : call[t].op = "add" => call[t].entry # e

\* Add returns false when the type is present.
AddTest(t, e) ==
    /\ call[t] = Idle
    /\ call' = IF HasType(TypeOf[e]) THEN call ELSE [call EXCEPT ![t] = [op |-> "add", entry |-> e]]
    /\ UNCHANGED <<adders, chain, presence, found>>

AddInsert(t) ==
    /\ call[t].op = "add"
    /\ chain' = <<call[t].entry>> \o chain
    /\ presence' = presence \cup {TypeOf[call[t].entry]}
    /\ call' = [call EXCEPT ![t] = Idle]
    /\ UNCHANGED <<adders, found>>

\* All under the lock, HasType included.
RemoveEntry(t, e) ==
    /\ call[t] = Idle
    /\ IF HasType(TypeOf[e]) /\ e \in Range(chain)
       THEN /\ chain' = RemoveAt(chain, First(PlaceOf(e)))
            /\ presence' = presence \ {TypeOf[e]}
       ELSE UNCHANGED <<chain, presence>>
    /\ UNCHANGED <<adders, call, found>>

GetTest(t, type) ==
    /\ call[t] = Idle
    /\ IF HasType(type)
       THEN call' = [call EXCEPT ![t] = [op |-> "get", type |-> type]] /\ UNCHANGED found
       ELSE found' = [found EXCEPT ![t] = NoEntry] /\ UNCHANGED call
    /\ UNCHANGED <<adders, chain, presence>>

GetFind(t) ==
    /\ call[t].op = "get"
    /\ LET same == OfType(call[t].type)
       IN  found' = [found EXCEPT ![t] = IF same = {} THEN NoEntry ELSE chain[First(same)]]
    /\ call' = [call EXCEPT ![t] = Idle]
    /\ UNCHANGED <<adders, chain, presence>>

\* A user of the list: it adds entries of its types, removes those it knows
\* of, and looks for any.
Use(t) ==
    \/ \E e \in Extras : Spare(e) /\ <<t, TypeOf[e]>> \in adders /\ AddTest(t, e)
    \/ AddInsert(t)
    \/ \E e \in Extras : RemoveEntry(t, e)
    \/ \E type \in Types : GetTest(t, type)
    \/ GetFind(t)

ExtraNext == \E t \in Threads : Use(t)

ExtraSpec == ExtraInit /\ [][ExtraNext]_extraVars

-----------------------------------------------------------------------------
(* PresentIsFound: a bit that is set stands for an entry, whichever threads
   add and remove at once: GetByType, which trusts the bit first and searches
   in a second critical section, fails to find a type only when the entry was
   removed in between. *)
PresentIsFound == \A type \in presence : OfType(type) # {}

(* OneOfEachType: when each type is added by one thread only, there is one
   entry of each type at most and no entry without its bit, so that nothing
   hides in the chain.  Add decides on a HasType whose lock it has given back. *)
OneAdderEach ==
    \A t, u \in Threads, type \in Types :
        <<t, type>> \in adders /\ <<u, type>> \in adders => t = u

OneOfEachType ==
    OneAdderEach =>
        \A type \in Types :
            /\ OfType(type) # {} => type \in presence
            /\ \A i, j \in OfType(type) : i = j
=============================================================================
