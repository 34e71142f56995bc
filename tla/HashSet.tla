------------------------------ MODULE HashSet ------------------------------
(***************************************************************************)
(* tHashSet (f4se/f4se/GameTypes.h): a table whose entries are chained     *)
(* through the table itself.  An item starts at the entry its hash names;  *)
(* when that is taken the newcomer goes to a free entry behind it, unless  *)
(* the occupant is a guest from another chain, which then moves.  Users    *)
(* hold a lock around every call.                                          *)
(*                                                                         *)
(* A table is a record; next is Free for an entry nobody uses, whose item  *)
(* is never read, and Eol at the end of a chain.  A table that is too      *)
(* small is copied into a larger one, an entry in a step.                  *)
(***************************************************************************)
EXTENDS Integers, FiniteSets

CONSTANTS
  Keys,
  Hashes,        \* the values GetHash can return
  InitialSize,   \* entries of the first table: 8
  NoItem, Free, Eol

ASSUME HashAssumption ==
  /\ Hashes \subseteq Nat /\ InitialSize \in Nat \ {0}
  /\ NoItem \notin Keys /\ Free \notin Nat /\ Eol \notin Nat /\ Free # Eol

VARIABLES
  hash,      \* hash[k]: GetHash of the key k
  table,
  growing,   \* the old table, its next entry to copy, the key that is added
  result,    \* what the last Add or Remove returned
  held       \* history: the keys that were added and not removed since

hashVars == <<hash, table, growing, result, held>>

Slots(t) == 0..(t.size - 1)
Home(t, k) == hash[k] % t.size      \* GetEntry
IsFree(t, i) == t.next[i] = Free

Empty(n) ==
  [size |-> n, freeCount |-> n, freeOffset |-> n,
   item |-> [i \in 0..(n - 1) |-> NoItem], next |-> [i \in 0..(n - 1) |-> Free]]

NotGrowing == [from |-> Empty(0), at |-> 0, key |-> NoItem]

HashInit ==
  /\ hash \in [Keys -> Hashes]
  /\ table = Empty(0) /\ growing = NotGrowing /\ result = FALSE /\ held = {}

-----------------------------------------------------------------------------
(* The entries from i to the end of its chain: those of every set that has *)
(* i and goes on as the entries do.                                        *)
Closed(t, S) == \A j \in S : t.next[j] \in Slots(t) => t.next[j] \in S
Chain(t, i) ==
  {j \in Slots(t) : ~IsFree(t, j) /\ \A S \in SUBSET Slots(t) : i \in S /\ Closed(t, S) => j \in S}

(* The entry Find stops at.                                                *)
Holders(t, k) == IF t.size = 0 THEN {} ELSE {i \in Chain(t, Home(t, k)) : t.item[i] = k}
IsFound(t, k) == Holders(t, k) # {}

(* NextFreeEntry: backwards from the last one, around the end.             *)
FreeEntries(t) == {i \in Slots(t) : IsFree(t, i)}
Highest(S) == CHOOSE i \in S : \A j \in S : j <= i
NextFreeEntry(t) ==
  LET before == {i \in FreeEntries(t) : i < t.freeOffset}
  IN Highest(IF before = {} THEN FreeEntries(t) ELSE before)

Taken(t, f) == [t EXCEPT !.freeOffset = f, !.freeCount = @ - 1]

(* What Insert and CopyEntry do with an item that is not in the table yet  *)
(* and for which there is a free entry: the entry its hash names is free,  *)
(* or its own chain's, or a guest's who has to move.                       *)
PutAtHome(t, k) ==
  LET h == Home(t, k)
  IN [t EXCEPT !.item[h] = k, !.next[h] = Eol, !.freeCount = @ - 1]

PutBehind(t, k) ==
  LET h == Home(t, k)
      f == NextFreeEntry(t)
  IN [Taken(t, f) EXCEPT !.item[f] = k, !.next[f] = t.next[h], !.next[h] = f]

Before(t, h) == CHOOSE p \in Chain(t, Home(t, t.item[h])) : t.next[p] = h

PutForGuest(t, k) ==
  LET h == Home(t, k)
      f == NextFreeEntry(t)
  IN [Taken(t, f) EXCEPT !.item[f] = t.item[h], !.next[f] = t.next[h], !.next[Before(t, h)] = f,
                         !.item[h] = k, !.next[h] = Eol]

Put(t, k) ==
  LET h == Home(t, k)
  IN IF IsFree(t, h) THEN PutAtHome(t, k)
     ELSE IF Home(t, t.item[h]) = h THEN PutBehind(t, k) ELSE PutForGuest(t, k)

(* Insert has to give up.                                                  *)
OutOfSpace(t, k) == t.size = 0 \/ (~IsFree(t, Home(t, k)) /\ t.freeCount = 0)

InsertKey(k) ==
  IF IsFound(table, k)
  THEN result' = FALSE /\ growing' = NotGrowing /\ UNCHANGED <<table, held>>
  ELSE IF OutOfSpace(table, k)
  THEN /\ growing' = [from |-> table, at |-> 0, key |-> k]
       /\ table' = Empty(IF table.size = 0 THEN InitialSize ELSE 2 * table.size)
       /\ UNCHANGED <<result, held>>
  ELSE /\ table' = Put(table, k) /\ held' = held \cup {k}
       /\ result' = TRUE /\ growing' = NotGrowing

AddItem(k) == growing = NotGrowing /\ InsertKey(k) /\ UNCHANGED hash

(* Grow: the old entries are copied in their order in the table, and Add   *)
(* tries again.                                                            *)
CopyNext ==
  /\ growing # NotGrowing /\ growing.at < growing.from.size
  /\ table' = IF IsFree(growing.from, growing.at) THEN table
              ELSE Put(table, growing.from.item[growing.at])
  /\ growing' = [growing EXCEPT !.at = @ + 1]
  /\ UNCHANGED <<hash, result, held>>

AddAgain ==
  /\ growing # NotGrowing /\ growing.at = growing.from.size
  /\ InsertKey(growing.key)
  /\ UNCHANGED hash

(* Remove that unlinks the entry from the one before it, if there is one.  *)
FreedInPlace(t, i) ==
  [t EXCEPT !.next = [j \in Slots(t) |-> IF j = i THEN Free ELSE IF t.next[j] = i THEN t.next[i] ELSE t.next[j]],
            !.item[i] = NoItem, !.freeCount = @ + 1]

(* Remove from inside a chain copies the next entry here and frees that.   *)
FreedLast(t, i) ==
  [t EXCEPT !.next = [j \in Slots(t) |-> IF j = i THEN Free ELSE IF t.next[j] = i THEN Eol ELSE t.next[j]],
            !.item[i] = NoItem, !.freeCount = @ + 1]

FreedNext(t, i) ==
  LET n == t.next[i]
  IN [t EXCEPT !.item[i] = t.item[n], !.next[i] = t.next[n],
               !.item[n] = NoItem, !.next[n] = Free, !.freeCount = @ + 1]

Freed(t, i) == IF t.next[i] = Eol THEN FreedLast(t, i) ELSE FreedNext(t, i)

RemoveKey(k) ==
  /\ growing = NotGrowing
  /\ result' = IsFound(table, k)
  /\ table' = IF IsFound(table, k) THEN Freed(table, CHOOSE i \in Holders(table, k) : TRUE) ELSE table
  /\ held' = held \ {k}
  /\ UNCHANGED <<hash, growing>>

ClearTable ==
  /\ growing = NotGrowing
  /\ table' = Empty(table.size) /\ held' = {}
  /\ UNCHANGED <<hash, growing, result>>

HashNext == ClearTable \/ CopyNext \/ AddAgain \/ \E k \in Keys : AddItem(k) \/ RemoveKey(k)

HashSpec == HashInit /\ [][HashNext]_hashVars

-----------------------------------------------------------------------------
(* The entries whose items ForEach passes to its functor; it does not look *)
(* at a table whose entries are counted free.                              *)
ForEach ==
  IF table.freeCount = table.size THEN {} ELSE {i \in Slots(table) : ~IsFree(table, i)}

HashTypeOK ==
  /\ table.size \in Nat /\ table.freeCount \in 0..table.size /\ table.freeOffset \in 0..table.size
  /\ table.item \in [Slots(table) -> Keys \cup {NoItem}]
  /\ table.next \in [Slots(table) -> Slots(table) \cup {Free, Eol}]
  /\ growing.at \in 0..growing.from.size /\ growing.key \in Keys \cup {NoItem}
  /\ result \in BOOLEAN /\ held \subseteq Keys

(* Every item can be reached from the entry its hash names, along a chain  *)
(* that starts there, has no items of other hashes and ends: also after    *)
(* guests were moved, entries copied over one another and while a table    *)
(* grows.                                                                  *)
ChainsAreHomed ==
  \A i \in Slots(table) : ~IsFree(table, i) =>
    LET home == Home(table, table.item[i])
        chain == Chain(table, home)
    IN /\ i \in chain /\ \A j \in chain : Home(table, table.item[j]) = home
       /\ Cardinality({j \in chain : table.next[j] = Eol}) = 1

(* The count of free entries is right, so that NextFreeEntry, which looks  *)
(* until it finds one, finds one.                                          *)
FreeCountIsExact == table.freeCount = Cardinality(FreeEntries(table))

(* Between two calls looking keys up and enumerating the table both give   *)
(* the keys that were added and not removed, and each key is enumerated    *)
(* once.                                                                   *)
ListedAreFound ==
  growing = NotGrowing =>
    /\ \A k \in Keys : /\ IsFound(table, k) <=> k \in held
                       /\ (\E i \in ForEach : table.item[i] = k) <=> k \in held
    /\ \A i, j \in ForEach : i # j => table.item[i] # table.item[j]

(* All that is said of a table.                                            *)
TableIsSound == HashTypeOK /\ ListedAreFound /\ ChainsAreHomed /\ FreeCountIsExact
=============================================================================
