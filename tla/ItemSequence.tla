---------------------------- MODULE ItemSequence ----------------------------
(***************************************************************************)
(* What the game's arrays promise (tArray of f4se/GameTypes.h): a sequence *)
(* of items that grows and shrinks anywhere, one operation at a time.      *)
(***************************************************************************)
EXTENDS Naturals, Sequences, SequencesExt

CONSTANTS
  Items,
  New      \* an item nobody has written yet

VARIABLE items

SeqInit == items = << >>

InsertItem(i, x) == items' = InsertAt(items, i, x)
RemoveItem(i) == items' = RemoveAt(items, i)
Truncate(n) == items' = SubSeq(items, 1, n)
Fill(n) == items = << >> /\ items' = [k \in 1..n |-> New]

SeqNext ==
  \/ \E x \in Items, i \in 1..Len(items) + 1 : InsertItem(i, x)
  \/ \E i \in DOMAIN items : RemoveItem(i)
  \/ \E n \in 0..Len(items) : Truncate(n)
  \/ Fill(Len(items'))

SeqSpec == SeqInit /\ [][SeqNext]_items
=============================================================================
