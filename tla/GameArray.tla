----------------------------- MODULE GameArray -----------------------------
(***************************************************************************)
(* tArray of f4se/GameTypes.h, and the event dispatchers that keep their   *)
(* sinks in one (BSTEventDispatcher, GameEvents.h).                        *)
(*                                                                         *)
(* The array owns a block of cells, of which the first count are entries.  *)
(* Raw cells were never constructed; a memmove that runs past the block    *)
(* brings in what lies there, which is Raw, too.                           *)
(***************************************************************************)
EXTENDS Integers, Sequences, FiniteSetsExt

CONSTANTS
  Items,     \* what is kept
  Raw,       \* memory that no constructor has seen
  Constructed, \* an entry that was constructed and not written yet
  nGrow,     \* the block grows by so much
  nShrink,   \* and is cut when it has so much to spare
  MaxCount,  \* bound: entries
  Sizes      \* sizes that Resize and Allocate are asked for

VARIABLES
  ops,       \* which operations are used: "array" or "dispatcher"
  entries,   \* the cells of the block, or the null pointer
  count,     \* how many of them are entries
  answer     \* what the last call returned

arrayVars == <<ops, entries, count, answer>>

Null == <<"null">>

ASSUME GrowthAssumption == nGrow \in Nat \ {0} /\ nShrink \in Nat /\ MaxCount \in Nat
ASSUME SizesAssumption == Sizes \subseteq Nat
ASSUME CellsAssumption == {"null", Raw, Constructed} \cap Items = {} /\ "null" \notin {Raw, Constructed}

Capacity == IF entries = Null THEN 0 ELSE Len(entries)
Cells(n, c) == [k \in 1..n |-> c]
Cell(b, k) == IF k \in DOMAIN b THEN b[k] ELSE Raw

ArrayInit ==
  /\ ops \in {"array", "dispatcher"}
  /\ entries = Null
  /\ count = 0
  /\ answer = TRUE

-----------------------------------------------------------------------------
(* Grow: the first block is taken as it comes.                             *)
Grown ==
  IF entries = Null THEN Cells(nGrow, Raw) ELSE entries \o Cells(nGrow, Constructed)

Roomy == IF entries = Null \/ count + 1 > Capacity THEN Grown ELSE entries

(* memmove of n cells, and one cell written.                               *)
Moved(b, to, from, n) ==
  [k \in DOMAIN b |-> IF k \in to..to + n - 1 THEN Cell(b, from + k - to) ELSE b[k]]
Written(b, k, x) == [b EXCEPT ![k] = x]

Push(x) ==
  /\ count < MaxCount
  /\ entries' = Written(Roomy, count + 1, x)
  /\ count' = count + 1
  /\ answer' = TRUE

(* Insert at the place i, from 1; nothing is inserted without a block.     *)
Inserted(i, x) ==
  /\ entries' = Written(IF i = count + 1 THEN Roomy
                        ELSE Moved(Roomy, i + 1, i, count - i + 1), i, x)
  /\ count' = count + 1

Insert(i, x) ==
  IF entries = Null THEN answer' = FALSE /\ UNCHANGED <<entries, count>>
  ELSE Inserted(i, x) /\ answer' = TRUE

ShiftedShort(i) == Moved(entries, i, i + 1, count - i - 1)

(* Remove moves one cell more than there are entries behind it, and Shrink *)
(* then cuts the block to the entries.                                     *)
Shifted(i) ==
  IF i < count THEN Moved(entries, i, i + 1, count - i + 1) ELSE entries

Removed(i) ==
  /\ entries' = IF Capacity > count - 1 + nShrink THEN SubSeq(Shifted(i), 1, count - 1)
                ELSE Shifted(i)
  /\ count' = count - 1

Remove(i) == Removed(i) /\ answer' = TRUE

(* Resize: the new entries are constructed in the old block, beyond its    *)
(* end; the new block stays as it comes.  Allocate counts them at once.    *)
(* Neither that, nor the freeing of addresses inside the block when an     *)
(* array is made shorter (GameTypes.h:231-235), is held to harm anything   *)
(* else: what the heap makes of it is left out.                            *)
Resized(n) ==
  [k \in 1..n |-> Cell(entries, k)]

Resize(n) ==
  /\ answer' = (n # Capacity)
  /\ IF n = Capacity THEN UNCHANGED <<entries, count>>
     ELSE IF entries = Null THEN entries' = Cells(n, Constructed) /\ count' = n
     ELSE entries' = Resized(n) /\ count' = Min({n, count})

Clear ==
  /\ entries' = Null
  /\ count' = 0
  /\ answer' = TRUE

-----------------------------------------------------------------------------
(* BSTEventDispatcher, under its lock.                                     *)
Holds(x) == \E k \in 1..count : entries[k] = x

AddEventSink(x) ==
  IF Holds(x) THEN answer' = FALSE /\ UNCHANGED <<entries, count>>
  ELSE /\ answer' = TRUE
       /\ IF entries = Null THEN UNCHANGED <<entries, count>> ELSE Inserted(1, x)

RemoveEventSink(x) ==
  /\ answer' = answer
  /\ IF Holds(x) THEN Removed(Min({k \in 1..count : entries[k] = x}))
     ELSE UNCHANGED <<entries, count>>

(* The game gives the dispatcher its first block.                          *)
GameGrows ==
  /\ entries = Null
  /\ entries' = Cells(nGrow, Raw)
  /\ UNCHANGED <<count, answer>>

-----------------------------------------------------------------------------
ArrayOps ==
  \/ \E x \in Items : Push(x)
  \/ \E i \in 1..count + 1, x \in Items : count < MaxCount /\ Insert(i, x)
  \/ \E i \in 1..count : Remove(i)
  \/ \E n \in Sizes : Resize(n)
  \/ Clear

DispatcherOps ==
  \/ \E x \in Items : AddEventSink(x) \/ RemoveEventSink(x)
  \/ GameGrows

ArrayNext ==
  /\ ops' = ops
  /\ \/ ops = "array" /\ ArrayOps
     \/ ops = "dispatcher" /\ DispatcherOps

ArraySpec == ArrayInit /\ [][ArrayNext]_arrayVars

-----------------------------------------------------------------------------
(* Types of all variables.                                                 *)
ArrayTypeOK ==
  /\ entries = Null \/ entries \in Seq(Items \cup {Raw, Constructed})
  /\ count \in 0..Capacity
  /\ answer \in BOOLEAN

(* An entry is an item that was put there, or one that Allocate made:      *)
(* never memory from outside the block, nor what a move left behind.  What *)
(* Remove moves in from behind the last entry, perhaps from behind the     *)
(* block, is no entry, and is written before it becomes one.               *)
EntriesAreItems ==
  \A k \in 1..count : entries[k] \in Items \cup {Constructed}

(* A sink is never in a dispatcher twice, though it may be added again and *)
(* again, so it hears of an event once.                                    *)
SinksAreDistinct ==
  ops = "dispatcher" => \A j, k \in 1..count : entries[j] = entries[k] => j = k

(* For its users the array is a sequence.                                  *)
listed == IF entries = Null THEN << >> ELSE SubSeq(entries, 1, count)
List == INSTANCE ItemSequence WITH
          Items <- Items \cup {Constructed}, New <- Constructed, items <- listed

(* tArray and BSTEventDispatcher are sequences to their users, whose       *)
(* entries are what was put there, whatever moved, grew or was cut; a sink *)
(* is never in a dispatcher twice.                                         *)
ImplementsSequence ==
  /\ List!SeqSpec
  /\ [](ArrayTypeOK /\ EntriesAreItems /\ SinksAreDistinct)
=============================================================================
