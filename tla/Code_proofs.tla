----------------------------- MODULE Code_proofs -----------------------------
(***************************************************************************)
(* Wherever memory was free, every hook reaches the trampoline, for every  *)
(* size of module, trampoline and hooks, as long as the scratch space is   *)
(* as large as the module, the trampoline and what VirtualAlloc rounds     *)
(* taken together; and nothing of the trampoline is handed out twice.      *)
(* The array in which dispatchers keep their sinks is a sequence to its    *)
(* users, for every growth, however it is cut and moved.  Whatever code    *)
(* refers to a label is led to the place of that label.  A hash set finds  *)
(* and enumerates what was added and not removed.  And what a search for a *)
(* signature finds is a match of it in the code as it is now.              *)
(***************************************************************************)
EXTENDS
  BranchTrampoline, GameArray, Assembler, HashSet, SignatureScan,
  FiniteSetTheorems, SequenceTheorems, WellFoundedInduction, TLAPS

(* A trampoline starts at most its own length below the lowest address,    *)
(* rounded down, and ends below the module.                                *)
WellPlaced ==
  /\ base \in Int /\ base + len <= ModuleBase
  /\ base > LowestOKAddress - len - Granularity

PlaceInv ==
  /\ len \in 1..MaxLen /\ addr \in Int /\ addr < ModuleBase
  /\ phase = "search" => base = None /\ (addr < 0 \/ addr >= LowestOKAddress)
  /\ phase = "ready" => base # None
  /\ base # None => WellPlaced

LEMMA PlaceInit == TrampolineInit => PlaceInv
PROOF
  BY MemoryAssumption DEF TrampolineInit, PlaceInv, LowestOKAddress

LEMMA SearchKeepsPlace ==
  ASSUME PlaceInv, NEW from \in 0..(ModuleBase - 1), NEW to \in 0..(ModuleBase - 1),
         Search(from, to)
  PROVE  PlaceInv'
PROOF
<1>1. /\ addr \in Int /\ addr >= LowestOKAddress /\ len \in 1..MaxLen /\ len' = len
      /\ from \in 0..addr /\ to \in addr..(ModuleBase - 1) /\ LowestOKAddress \in Int
      /\ LowestOKAddress > 0
  BY MemoryAssumption DEF Search, PlaceInv, IsBlock, LowestOKAddress
<1>2. CASE base' \in Allocated(HighEnd(from, to)) /\ addr' = HighEnd(from, to)
  <2>1. base' \in Int /\ base' # None /\ phase' = "ready"
    <3>1. HighEnd(from, to) \in Int
      BY <1>1, MemoryAssumption DEF HighEnd
    <3>2. base' \in (HighEnd(from, to) - Granularity + 1)..HighEnd(from, to)
      BY <1>2 DEF Allocated
    <3> QED
      BY <3>1, <3>2, MemoryAssumption DEF Search
  <2>2. base' <= to + 1 - len /\ base' >= to + 1 - len - Granularity + 1
    BY <1>1, <1>2, <2>1, MemoryAssumption DEF Allocated, HighEnd
  <2>3. WellPlaced'
    <3>1. Granularity \in Nat /\ ModuleBase \in Nat
      BY MemoryAssumption
    <3>2. to \in Int /\ to >= LowestOKAddress /\ to < ModuleBase /\ len \in Int
      BY <1>1, <3>1
    <3>3. LowestOKAddress' = LowestOKAddress
      BY DEF LowestOKAddress
    <3>4. base' > LowestOKAddress - len - Granularity
      BY <1>1, <2>1, <2>2, <3>1, <3>2
    <3>5. base' + len <= ModuleBase
      <4>1. to + 1 <= ModuleBase
        BY <3>1, <3>2
      <4>2. \A b, l, t \in Int : b <= t + 1 - l /\ t + 1 <= ModuleBase => b + l <= ModuleBase
        BY <3>1
      <4> QED
        BY <2>1, <2>2, <3>2, <4>1, <4>2
    <3> QED
      BY <1>1, <2>1, <3>3, <3>4, <3>5 DEF WellPlaced
  <2>4. addr' \in Int /\ addr' < ModuleBase
    BY <1>1, <1>2, MemoryAssumption DEF HighEnd
  <2> QED
    BY <1>1, <2>1, <2>3, <2>4 DEF PlaceInv
<1>3. CASE base' = None /\ addr' = from - 1
  <2>1. addr' \in Int /\ addr' < ModuleBase
    BY <1>1, <1>3, MemoryAssumption
  <2>2. phase' = "search" => addr' < 0 \/ addr' >= LowestOKAddress
    <3>1. phase' = IF refused' THEN "failed" ELSE "search"
      BY <1>3 DEF Search
    <3>2. refused' = (addr' \in 0..(LowestOKAddress - 1))
      BY DEF Search
    <3>3. CASE refused'
      BY <3>1, <3>3
    <3>4. CASE ~refused'
      <4>1. addr' \notin 0..(LowestOKAddress - 1)
        BY <3>2, <3>4
      <4> QED
        BY <1>1, <2>1, <4>1
    <3> QED
      BY <3>3, <3>4
  <2>3. phase' \in {"search", "failed"}
    BY <1>3 DEF Search
  <2> QED
    BY <1>1, <1>3, <2>1, <2>2, <2>3 DEF PlaceInv, LowestOKAddress
<1> QED
  BY <1>2, <1>3 DEF Search

LEMMA PlaceStep == PlaceInv /\ [TrampolineNext]_trampolineVars => PlaceInv'
PROOF
<1> SUFFICES ASSUME PlaceInv, [TrampolineNext]_trampolineVars PROVE PlaceInv'
  OBVIOUS
<1>1. ASSUME NEW from \in 0..(ModuleBase - 1), NEW to \in 0..(ModuleBase - 1), Search(from, to)
      PROVE  PlaceInv'
  BY <1>1, SearchKeepsPlace
<1>2. CASE QueryFails
  BY <1>2 DEF QueryFails, PlaceInv, WellPlaced
<1>3. ASSUME NEW hook \in Hooks, NEW src \in Places(hook), WriteBranch(hook, src) PROVE PlaceInv'
  <2>1. UNCHANGED <<addr, len, base>> /\ phase' \in {phase, "aborted"} /\ phase = "ready"
    BY <1>3 DEF WriteBranch
  <2> QED
    BY <2>1 DEF PlaceInv, WellPlaced
<1>4. CASE StartAlloc
  BY <1>4 DEF StartAlloc, PlaceInv, WellPlaced
<1>5. ASSUME NEW bytes \in 1..MaxCode, EndAlloc(bytes) PROVE PlaceInv'
  <2>1. UNCHANGED <<addr, len, base>> /\ phase' \in {phase, "aborted"} /\ phase = "ready"
    BY <1>5 DEF EndAlloc
  <2> QED
    BY <2>1 DEF PlaceInv, WellPlaced
<1>6. CASE UNCHANGED trampolineVars
  BY <1>6 DEF trampolineVars, PlaceInv, WellPlaced
<1> QED
  BY <1>1, <1>2, <1>3, <1>4, <1>5, <1>6 DEF TrampolineNext

LEMMA WellPlacedReaches == PlaceInv => TrampolineIsReachable
PROOF
<1> SUFFICES ASSUME PlaceInv, base # None, NEW hook \in Hooks, NEW src \in Places(hook),
                    NEW at \in 0..(len - 1)
             PROVE  base + at - (src + hook.instr) \in -Reach..(Reach - 1)
  BY DEF TrampolineIsReachable
<1>1. WellPlaced /\ len \in 1..MaxLen
  BY DEF PlaceInv
<1>2. /\ ModuleBase \in Nat /\ ImageSize \in Nat /\ Reach \in Nat /\ Scratch \in Nat
      /\ Granularity \in Nat /\ MaxLen \in Nat /\ Scratch < Reach
      /\ ImageSize + MaxLen + Granularity <= Scratch /\ hook.instr \in Nat
  BY MemoryAssumption, ScratchAssumption
<1>3. src \in Int /\ src >= ModuleBase /\ src + hook.instr <= ModuleBase + ImageSize
  BY <1>2 DEF Places
<1>4. /\ base \in Int /\ base + len <= ModuleBase
      /\ base > ModuleBase - Reach + Scratch - len - Granularity
  BY <1>1, <1>2 DEF WellPlaced, LowestOKAddress
<1>5. base + at - (src + hook.instr) >= -Reach
  BY <1>1, <1>2, <1>3, <1>4
<1>6. base + at - (src + hook.instr) < 0
  BY <1>1, <1>2, <1>3, <1>4
<1> QED
  BY <1>1, <1>2, <1>3, <1>4, <1>5, <1>6

(* The assertion of Write5Branch_Internal, that a displacement into the    *)
(* trampoline fits, holds for whatever Create returns.                     *)
THEOREM HooksReach == TrampolineSpec => []TrampolineIsReachable
PROOF
  BY PlaceInit, PlaceStep, WellPlacedReaches, PTL DEF TrampolineSpec

-----------------------------------------------------------------------------
Block == [start : Int, size : Nat]

BlocksInv ==
  /\ PlaceInv
  /\ allocated \in Nat /\ allocated <= len
  /\ blocks \in Seq(Block) /\ (base = None => blocks = <<>>)
  /\ \A i \in DOMAIN blocks :
       blocks[i].start >= base /\ blocks[i].start + blocks[i].size <= base + allocated
  /\ \A i, j \in DOMAIN blocks : i < j => blocks[i].start + blocks[i].size <= blocks[j].start

LEMMA AllocateKeepsBlocks ==
  ASSUME BlocksInv, base # None, NEW bytes \in Nat, Fits(bytes), Allocate(bytes), UNCHANGED <<base, len>>,
         PlaceInv'
  PROVE  BlocksInv'
PROOF
<1> DEFINE new == [start |-> base + allocated, size |-> bytes]
           n == Len(blocks)
<1>1. /\ base \in Int /\ allocated \in Nat /\ blocks \in Seq(Block) /\ n \in Nat
      /\ DOMAIN blocks = 1..n /\ len \in Int
  BY DEF BlocksInv, PlaceInv, WellPlaced
<1>2. new \in Block
  BY <1>1 DEF Block
<1>3. /\ blocks' \in Seq(Block) /\ DOMAIN blocks' = 1..(n + 1) /\ blocks'[n + 1] = new
      /\ \A i \in 1..n : blocks'[i] = blocks[i]
  BY <1>1, <1>2, AppendProperties DEF Allocate
<1>4. allocated' = allocated + bytes /\ allocated' <= len
  BY <1>1 DEF Allocate, Fits, Remain
<1>5. \A i \in 1..n : blocks[i].start \in Int /\ blocks[i].size \in Nat
  <2>1. \A i \in 1..n : blocks[i] \in Block
    BY <1>1
  <2> QED
    BY <2>1 DEF Block
<1>6. \A i \in 1..n : blocks[i].start >= base /\ blocks[i].start + blocks[i].size <= base + allocated
  BY <1>1 DEF BlocksInv
<1>7. ASSUME NEW i \in DOMAIN blocks'
      PROVE  /\ blocks'[i].start >= base
             /\ blocks'[i].start + blocks'[i].size <= base + allocated'
  <2>1. CASE i \in 1..n
    BY <1>1, <1>3, <1>4, <1>5, <1>6, <2>1
  <2>2. CASE i = n + 1
    BY <1>1, <1>3, <1>4, <2>2
  <2> QED
    BY <1>1, <1>3, <2>1, <2>2
<1>8. ASSUME NEW i \in DOMAIN blocks', NEW j \in DOMAIN blocks', i < j
      PROVE  blocks'[i].start + blocks'[i].size <= blocks'[j].start
  <2>1. i \in 1..n
    BY <1>1, <1>3, <1>8
  <2>2. CASE j \in 1..n
    BY <1>1, <1>3, <1>8, <2>1, <2>2 DEF BlocksInv
  <2>3. CASE j = n + 1
    BY <1>3, <1>6, <2>1, <2>3
  <2> QED
    BY <1>1, <1>3, <2>2, <2>3
<1> QED
  BY <1>1, <1>3, <1>4, <1>7, <1>8 DEF BlocksInv

LEMMA BlocksStep == BlocksInv /\ [TrampolineNext]_trampolineVars => BlocksInv'
PROOF
<1> SUFFICES ASSUME BlocksInv, [TrampolineNext]_trampolineVars PROVE BlocksInv'
  OBVIOUS
<1>0. PlaceInv'
  BY PlaceStep DEF BlocksInv
<1>1. ASSUME NEW from \in 0..(ModuleBase - 1), NEW to \in 0..(ModuleBase - 1), Search(from, to)
      PROVE  BlocksInv'
  <2>1. base = None /\ blocks = <<>> /\ UNCHANGED <<blocks, allocated, len>>
    BY <1>1 DEF Search, BlocksInv, PlaceInv
  <2>2. DOMAIN blocks' = {}
    BY <2>1
  <2> QED
    BY <1>0, <2>1, <2>2 DEF BlocksInv
<1>2. ASSUME NEW hook \in Hooks, NEW src \in Places(hook), WriteBranch(hook, src) PROVE BlocksInv'
  <2>1. UNCHANGED <<base, len>> /\ base # None
    BY <1>2 DEF WriteBranch, BlocksInv, PlaceInv
  <2>2. hook.code \in Nat
    BY MemoryAssumption
  <2>3. CASE Fits(hook.code) /\ Allocate(hook.code)
    BY <1>0, <2>1, <2>2, <2>3, AllocateKeepsBlocks
  <2>4. CASE UNCHANGED <<allocated, blocks>>
    BY <1>0, <2>1, <2>4 DEF BlocksInv
  <2> QED
    BY <1>2, <2>3, <2>4 DEF WriteBranch
<1>3. ASSUME NEW bytes \in 1..MaxCode, EndAlloc(bytes) PROVE BlocksInv'
  <2>1. UNCHANGED <<base, len>> /\ base # None
    BY <1>3 DEF EndAlloc, BlocksInv, PlaceInv
  <2>2. bytes \in Nat
    BY MemoryAssumption
  <2>3. CASE Fits(bytes) /\ Allocate(bytes)
    BY <1>0, <2>1, <2>2, <2>3, AllocateKeepsBlocks
  <2>4. CASE UNCHANGED <<allocated, blocks>>
    BY <1>0, <2>1, <2>4 DEF BlocksInv
  <2> QED
    BY <1>3, <2>3, <2>4 DEF EndAlloc
<1>4. CASE QueryFails \/ StartAlloc \/ UNCHANGED trampolineVars
  <2>1. UNCHANGED <<base, len, allocated, blocks>>
    BY <1>4 DEF QueryFails, StartAlloc, trampolineVars
  <2> QED
    BY <1>0, <2>1 DEF BlocksInv
<1> QED
  BY <1>1, <1>2, <1>3, <1>4 DEF TrampolineNext

(* What Allocate and EndAlloc hand out lies inside the trampoline, and no  *)
(* two of it overlap.                                                      *)
THEOREM NothingHandedOutTwice == TrampolineSpec => []BlocksAreDisjoint
PROOF
<1>1. TrampolineInit => BlocksInv
  <2> SUFFICES ASSUME TrampolineInit PROVE BlocksInv
    OBVIOUS
  <2>1. blocks = <<>> /\ allocated = 0 /\ len \in 1..MaxLen /\ DOMAIN blocks = {}
    BY DEF TrampolineInit
  <2> QED
    BY <2>1, PlaceInit, MemoryAssumption DEF BlocksInv
<1>2. BlocksInv => BlocksAreDisjoint
  <2> SUFFICES ASSUME BlocksInv, NEW i \in DOMAIN blocks
               PROVE  blocks[i].start >= base /\ blocks[i].start + blocks[i].size <= base + len
    BY DEF BlocksInv, BlocksAreDisjoint
  <2>1. base # None /\ base \in Int /\ len \in Int
    BY DEF BlocksInv, PlaceInv, WellPlaced
  <2>2. blocks[i] \in Block
    BY DEF BlocksInv
  <2>3. blocks[i].start \in Int /\ blocks[i].size \in Nat
    BY <2>2 DEF Block
  <2> QED
    BY <2>1, <2>3 DEF BlocksInv
<1> QED
  BY <1>1, <1>2, BlocksStep, PTL DEF TrampolineSpec

(* Both, for any image, reach and order of allocations.                    *)
THEOREM TrampolineAlwaysHolds == TrampolineSpec => []TrampolineHolds
  BY HooksReach, NothingHandedOutTwice, PTL DEF TrampolineHolds
-----------------------------------------------------------------------------
(* Arrays.  What is in their blocks.                                       *)
Values == Items \cup {Raw, Constructed}
Blocks == Seq(Values)

(* Dispatchers hold nothing but sinks that were added.                     *)
ArrayInv ==
  /\ ArrayTypeOK /\ EntriesAreItems /\ SinksAreDistinct
  /\ ops \in {"array", "dispatcher"}
  /\ ops = "dispatcher" => \A k \in 1..count : entries[k] \in Items

(* No block is the null pointer.                                           *)
LEMMA BlockFacts ==
  /\ \A b \in Blocks : b # Null
  /\ Null # << >>
PROOF
<1>1. ASSUME NEW b \in Blocks, b = Null PROVE FALSE
  <2>1. Null[1] = "null" /\ 1 \in 1..Len(Null)
    BY DEF Null
  <2>2. "null" \in Values
    BY <1>1, <2>1 DEF Blocks
  <2> QED
    BY <2>2, CellsAssumption DEF Values
<1>2. Null # << >>
  BY DEF Null
<1> QED
  BY <1>1, <1>2

(* Sequences of the same items in the same places, and a part of a block.  *)
LEMMA SameSequence ==
  ASSUME NEW T, NEW s \in Seq(T), NEW t \in Seq(T), Len(s) = Len(t),
         \A k \in 1..Len(s) : s[k] = t[k]
  PROVE  s = t
PROOF
  BY SeqEqual

LEMMA Listing ==
  ASSUME NEW b \in Blocks, NEW n \in 0..Len(b)
  PROVE  /\ SubSeq(b, 1, n) \in Blocks /\ Len(SubSeq(b, 1, n)) = n
         /\ \A k \in 1..n : SubSeq(b, 1, n)[k] = b[k]
PROOF
  BY SubSeqProperties DEF Blocks

(* A sequence with an item put in, and one with an item taken out.         *)
IsInserted(t, s, i, x) ==
  /\ Len(t) = Len(s) + 1
  /\ \A k \in 1..Len(s) + 1 : t[k] = IF k < i THEN s[k] ELSE IF k = i THEN x ELSE s[k - 1]

LEMMA InsertAtFacts ==
  ASSUME NEW T, NEW s \in Seq(T), NEW x \in T, NEW i \in 1..Len(s) + 1
  PROVE  List!InsertAt(s, i, x) \in Seq(T) /\ IsInserted(List!InsertAt(s, i, x), s, i, x)
PROOF
<1> DEFINE a == SubSeq(s, 1, i - 1)
           b == SubSeq(s, i, Len(s))
           c == a \o <<x>>
<1>1. Len(s) \in Nat /\ i \in Nat /\ i >= 1 /\ i <= Len(s) + 1
  OBVIOUS
<1>2. a \in Seq(T) /\ Len(a) = i - 1 /\ \A k \in 1..i - 1 : a[k] = s[k]
  BY <1>1, SubSeqProperties
<1>3. b \in Seq(T) /\ Len(b) = Len(s) - i + 1 /\ \A k \in 1..Len(s) - i + 1 : b[k] = s[i + k - 1]
  BY <1>1, SubSeqProperties
<1> HIDE DEF a, b
<1>4. <<x>> \in Seq(T) /\ Len(<<x>>) = 1 /\ <<x>>[1] = x
  OBVIOUS
<1>5. /\ c \in Seq(T) /\ Len(c) = Len(a) + 1
      /\ \A k \in 1..Len(a) + 1 : c[k] = IF k <= Len(a) THEN a[k] ELSE <<x>>[k - Len(a)]
  BY <1>2, <1>4, ConcatProperties
<1>6. \A k \in 1..i : c[k] = IF k < i THEN s[k] ELSE x
  <2> SUFFICES ASSUME NEW k \in 1..i PROVE c[k] = IF k < i THEN s[k] ELSE x
    OBVIOUS
  <2>1. CASE k < i
    <3>1. k <= Len(a) /\ k \in 1..Len(a) + 1 /\ k \in 1..i - 1
      BY <1>1, <1>2, <2>1
    <3> QED
      BY <1>2, <1>5, <2>1, <3>1
  <2>2. CASE k = i
    <3>1. ~(k <= Len(a)) /\ k \in 1..Len(a) + 1 /\ k - Len(a) = 1
      BY <1>1, <1>2, <2>2
    <3> QED
      BY <1>4, <1>5, <2>2, <3>1
  <2>3. k < i \/ k = i
    BY <1>1
  <2> QED
    BY <2>1, <2>2, <2>3
<1>7. Len(c) = i
  BY <1>1, <1>2, <1>5
<1> HIDE DEF c
<1>8. /\ c \o b \in Seq(T) /\ Len(c \o b) = Len(c) + Len(b)
      /\ \A k \in 1..Len(c) + Len(b) : (c \o b)[k] = IF k <= Len(c) THEN c[k] ELSE b[k - Len(c)]
  BY <1>3, <1>5, ConcatProperties
<1>9. Len(c \o b) = Len(s) + 1
  BY <1>1, <1>3, <1>7, <1>8
<1>10. ASSUME NEW k \in 1..Len(s) + 1
       PROVE  (c \o b)[k] = IF k < i THEN s[k] ELSE IF k = i THEN x ELSE s[k - 1]
  <2>1. k \in 1..Len(c) + Len(b)
    BY <1>8, <1>9
  <2>2. CASE k <= i
    BY <1>6, <1>7, <1>8, <2>1, <2>2
  <2>3. CASE k > i
    <3>1. k - i \in 1..Len(s) - i + 1 /\ i + (k - i) - 1 = k - 1 /\ ~(k <= Len(c)) /\ k - Len(c) = k - i
      BY <1>1, <1>7, <2>3
    <3>2. (c \o b)[k] = b[k - i]
      BY <1>8, <2>1, <3>1
    <3>3. b[k - i] = s[k - 1]
      BY <1>3, <3>1
    <3> QED
      BY <1>1, <2>3, <3>2, <3>3
  <2>4. k <= i \/ k > i
    BY <1>1
  <2> QED
    BY <2>2, <2>3, <2>4
<1> QED
  BY <1>8, <1>9, <1>10 DEF List!InsertAt, IsInserted, a, b, c

LEMMA RemoveAtFacts ==
  ASSUME NEW T, NEW s \in Seq(T), NEW i \in 1..Len(s)
  PROVE  /\ List!RemoveAt(s, i) \in Seq(T) /\ Len(List!RemoveAt(s, i)) = Len(s) - 1
         /\ \A k \in 1..Len(s) - 1 : List!RemoveAt(s, i)[k] = IF k < i THEN s[k] ELSE s[k + 1]
PROOF
<1> DEFINE a == SubSeq(s, 1, i - 1)
           b == SubSeq(s, i + 1, Len(s))
<1>1. Len(s) \in Nat /\ i \in Nat /\ i >= 1 /\ i <= Len(s)
  OBVIOUS
<1>2. a \in Seq(T) /\ Len(a) = i - 1 /\ \A k \in 1..i - 1 : a[k] = s[k]
  BY <1>1, SubSeqProperties
<1>3. b \in Seq(T) /\ Len(b) = Len(s) - i /\ \A k \in 1..Len(s) - i : b[k] = s[i + 1 + k - 1]
  BY <1>1, SubSeqProperties
<1> HIDE DEF a, b
<1>4. /\ a \o b \in Seq(T) /\ Len(a \o b) = Len(a) + Len(b)
      /\ \A k \in 1..Len(a) + Len(b) : (a \o b)[k] = IF k <= Len(a) THEN a[k] ELSE b[k - Len(a)]
  BY <1>2, <1>3, ConcatProperties
<1>5. Len(a \o b) = Len(s) - 1
  BY <1>1, <1>2, <1>3, <1>4
<1>6. ASSUME NEW k \in 1..Len(s) - 1 PROVE (a \o b)[k] = IF k < i THEN s[k] ELSE s[k + 1]
  <2>1. k \in 1..Len(a) + Len(b)
    BY <1>4, <1>5
  <2>2. CASE k < i
    <3>1. k \in 1..i - 1 /\ k <= Len(a)
      BY <1>1, <1>2, <2>2
    <3> QED
      BY <1>2, <1>4, <2>1, <2>2, <3>1
  <2>3. CASE k >= i
    <3>1. /\ k - Len(a) \in 1..Len(s) - i /\ i + 1 + (k - Len(a)) - 1 = k + 1
          /\ ~(k <= Len(a)) /\ ~(k < i)
      BY <1>1, <1>2, <2>3
    <3>2. (a \o b)[k] = b[k - Len(a)]
      BY <1>4, <2>1, <3>1
    <3>3. b[k - Len(a)] = s[k + 1]
      BY <1>3, <3>1
    <3> QED
      BY <3>1, <3>2, <3>3
  <2>4. k < i \/ k >= i
    BY <1>1
  <2> QED
    BY <2>2, <2>3, <2>4
<1> QED
  BY <1>4, <1>5, <1>6 DEF List!RemoveAt, a, b

-----------------------------------------------------------------------------
(* What a user sees of the block.                                          *)
LEMMA ListedFacts ==
  ASSUME ArrayInv
  PROVE  /\ count \in Nat /\ (entries = Null => count = 0)
         /\ entries # Null => entries \in Blocks /\ count <= Len(entries)
         /\ listed \in Seq(Items \cup {Constructed}) /\ Len(listed) = count
         /\ \A k \in 1..count : listed[k] = entries[k]
PROOF
<1>1. CASE entries = Null
  BY <1>1 DEF ArrayInv, ArrayTypeOK, Capacity, listed
<1>2. CASE entries # Null
  <2>1. entries \in Blocks /\ count \in 0..Len(entries)
    BY <1>2 DEF ArrayInv, ArrayTypeOK, Capacity, Blocks, Values
  <2>2. listed \in Blocks /\ Len(listed) = count /\ \A k \in 1..count : listed[k] = entries[k]
    BY <1>2, <2>1, Listing DEF listed
  <2>3. \A k \in 1..count : listed[k] \in Items \cup {Constructed}
    BY <2>2 DEF ArrayInv, EntriesAreItems
  <2>4. listed \in Seq(Items \cup {Constructed})
    BY <2>2, <2>3 DEF Blocks
  <2> QED
    BY <1>2, <2>1, <2>2, <2>4
<1> QED
  BY <1>1, <1>2

(* The same after a step that leaves a block.                              *)
LEMMA ListedNext ==
  ASSUME NEW b \in Blocks, entries' = b, NEW n \in 0..Len(b), count' = n, answer' \in BOOLEAN,
         \A k \in 1..n : b[k] \in Items \cup {Constructed}
  PROVE  /\ ArrayTypeOK' /\ EntriesAreItems'
         /\ listed' \in Seq(Items \cup {Constructed}) /\ Len(listed') = n
         /\ \A k \in 1..n : listed'[k] = b[k]
PROOF
<1>1. b # Null
  BY BlockFacts
<1>2. listed' = SubSeq(b, 1, n)
  BY <1>1 DEF listed
<1>3. listed' \in Blocks /\ Len(listed') = n /\ \A k \in 1..n : listed'[k] = b[k]
  BY <1>2, Listing
<1>4. ArrayTypeOK'
  BY <1>1 DEF ArrayTypeOK, Capacity, Blocks, Values
<1>5. EntriesAreItems'
  BY DEF EntriesAreItems
<1>6. listed' \in Seq(Items \cup {Constructed})
  <2>1. \A k \in 1..n : listed'[k] \in Items \cup {Constructed}
    BY <1>3
  <2> QED
    BY <1>3, <2>1 DEF Blocks
<1> QED
  BY <1>3, <1>4, <1>5, <1>6

(* A cell of a block or from behind it, and a block some cells of which    *)
(* were moved.                                                             *)
LEMMA CellFacts ==
  ASSUME NEW b \in Blocks, NEW k \in Int
  PROVE  Cell(b, k) \in Values /\ (k \in 1..Len(b) => Cell(b, k) = b[k])
PROOF
  BY DEF Cell, Blocks, Values

LEMMA MovedFacts ==
  ASSUME NEW b \in Blocks, NEW to \in Nat, NEW from \in Nat, NEW n \in Int
  PROVE  /\ Moved(b, to, from, n) \in Blocks /\ Len(Moved(b, to, from, n)) = Len(b)
         /\ \A k \in 1..Len(b) :
              Moved(b, to, from, n)[k] = IF k \in to..to + n - 1 THEN Cell(b, from + k - to) ELSE b[k]
PROOF
<1>1. DOMAIN b = 1..Len(b) /\ Len(b) \in Nat /\ \A k \in 1..Len(b) : b[k] \in Values
  BY DEF Blocks
<1>2. \A k \in 1..Len(b) : from + k - to \in Int
  BY <1>1
<1>3. \A k \in 1..Len(b) : Cell(b, from + k - to) \in Values
  BY <1>2, CellFacts
<1>4. Moved(b, to, from, n) \in [1..Len(b) -> Values]
  BY <1>1, <1>3 DEF Moved
<1>5. Moved(b, to, from, n) \in Blocks /\ Len(Moved(b, to, from, n)) = Len(b)
  BY <1>1, <1>4 DEF Blocks
<1> QED
  BY <1>1, <1>5 DEF Moved

(* A block with room for one entry more holds the entries.                 *)
LEMMA RoomyFacts ==
  ASSUME ArrayInv
  PROVE  /\ Roomy \in Blocks /\ Len(Roomy) >= count + 1
         /\ \A k \in 1..count : Roomy[k] = entries[k]
PROOF
<1>1. count \in Nat /\ nGrow \in Nat /\ nGrow >= 1
  BY ListedFacts, GrowthAssumption
<1>2. \A c \in Values : Cells(nGrow, c) \in Blocks /\ Len(Cells(nGrow, c)) = nGrow
  <2> SUFFICES ASSUME NEW c \in Values PROVE Cells(nGrow, c) \in Blocks /\ Len(Cells(nGrow, c)) = nGrow
    OBVIOUS
  <2>1. Cells(nGrow, c) \in [1..nGrow -> Values]
    BY DEF Cells
  <2> QED
    BY <1>1, <2>1 DEF Blocks
<1>3. CASE entries = Null
  BY <1>1, <1>2, <1>3, ListedFacts DEF Roomy, Grown, Values
<1>4. CASE entries # Null /\ count + 1 <= Len(entries)
  BY <1>1, <1>4, ListedFacts DEF Roomy, Capacity
<1>5. CASE entries # Null /\ ~(count + 1 <= Len(entries))
  <2> DEFINE g == Cells(nGrow, Constructed)
  <2>1. entries \in Blocks /\ Len(entries) \in Nat /\ count <= Len(entries)
    BY <1>5, ListedFacts DEF Blocks
  <2>2. g \in Blocks /\ Len(g) = nGrow
    BY <1>2 DEF Values
  <2>3. Roomy = entries \o g
    BY <1>1, <1>5, <2>1 DEF Roomy, Grown, Capacity
  <2> HIDE DEF g
  <2>4. /\ entries \o g \in Blocks /\ Len(entries \o g) = Len(entries) + Len(g)
        /\ \A k \in 1..Len(entries) + Len(g) :
             (entries \o g)[k] = IF k <= Len(entries) THEN entries[k] ELSE g[k - Len(entries)]
    BY <2>1, <2>2, ConcatProperties DEF Blocks
  <2>5. Len(entries \o g) >= count + 1
    BY <1>1, <2>1, <2>2, <2>4
  <2>6. \A k \in 1..count : k \in 1..Len(entries) + Len(g) /\ k <= Len(entries)
    BY <1>1, <2>1, <2>2
  <2> QED
    BY <2>3, <2>4, <2>5, <2>6
<1> QED
  BY <1>1, <1>3, <1>4, <1>5, ListedFacts

-----------------------------------------------------------------------------
(* Where a cell behind the gap of an insertion was before.                 *)
LEMMA ShiftedPlace ==
  ASSUME NEW n \in Nat, NEW room \in Nat, room >= n + 1, NEW i \in 1..n + 1, NEW k \in 1..n + 1, k > i
  PROVE  /\ k \in 1..room /\ k \in i + 1..i + 1 + (n - i + 1) - 1
         /\ i + k - (i + 1) = k - 1 /\ k - 1 \in 1..n /\ k - 1 \in 1..room
OBVIOUS

(* What an insertion leaves in the block.                                  *)
LEMMA InsertedBlock ==
  ASSUME ArrayInv, NEW i \in 1..count + 1, NEW x \in Items, Inserted(i, x)
  PROVE  /\ entries' \in Blocks /\ count' = count + 1 /\ count' <= Len(entries')
         /\ \A k \in 1..count + 1 :
              entries'[k] = IF k < i THEN entries[k] ELSE IF k = i THEN x ELSE entries[k - 1]
PROOF
<1>1. count \in Nat /\ i \in Nat /\ i >= 1 /\ i <= count + 1 /\ x \in Values
  BY ListedFacts DEF Values
<1> DEFINE R == Roomy
<1>2. R \in Blocks /\ Len(R) \in Nat /\ Len(R) >= count + 1 /\ \A k \in 1..count : R[k] = entries[k]
  BY RoomyFacts DEF Blocks
<1> DEFINE M == IF i = count + 1 THEN R ELSE Moved(R, i + 1, i, count - i + 1)
<1>3. entries' = [M EXCEPT ![i] = x] /\ count' = count + 1
  BY DEF Inserted, Written
<1> HIDE DEF R
<1>4. /\ M \in Blocks /\ Len(M) = Len(R)
      /\ \A k \in 1..count + 1 : k # i => M[k] = IF k < i THEN entries[k] ELSE entries[k - 1]
  <2>1. CASE i = count + 1
    <3>1. \A k \in 1..count + 1 : k # i => k \in 1..count /\ k < i
      BY <1>1, <2>1
    <3> QED
      BY <1>2, <2>1, <3>1
  <2>2. CASE i # count + 1
    <3>1. i + 1 \in Nat /\ count - i + 1 \in Int
      BY <1>1
    <3>2. /\ M \in Blocks /\ Len(M) = Len(R)
          /\ \A k \in 1..Len(R) :
               M[k] = IF k \in i + 1..i + 1 + (count - i + 1) - 1 THEN Cell(R, i + k - (i + 1)) ELSE R[k]
      BY <1>1, <1>2, <2>2, <3>1, MovedFacts
    <3> HIDE DEF M
    <3>3. ASSUME NEW k \in 1..count + 1, k < i PROVE M[k] = entries[k]
      <4>1. k \in 1..Len(R) /\ k \notin i + 1..i + 1 + (count - i + 1) - 1 /\ k \in 1..count
        BY <1>1, <1>2, <3>3
      <4> QED
        BY <1>2, <3>2, <4>1
    <3>4. ASSUME NEW k \in 1..count + 1, k > i PROVE M[k] = entries[k - 1]
      <4>1. /\ k \in 1..Len(R) /\ k \in i + 1..i + 1 + (count - i + 1) - 1
            /\ i + k - (i + 1) = k - 1 /\ k - 1 \in 1..count /\ k - 1 \in 1..Len(R)
        BY <1>1, <1>2, <3>4, ShiftedPlace
      <4>2. M[k] = Cell(R, k - 1)
        BY <3>2, <4>1
      <4>3. Cell(R, k - 1) = R[k - 1]
        BY <1>2, <4>1, CellFacts
      <4> QED
        BY <1>2, <4>1, <4>2, <4>3
    <3> QED
      BY <1>1, <3>2, <3>3, <3>4
  <2> QED
    BY <2>1, <2>2
<1> HIDE DEF M
<1>5. i \in 1..Len(M)
  BY <1>1, <1>2, <1>4
<1>6. /\ entries' \in Blocks /\ Len(entries') = Len(M) /\ entries'[i] = x
      /\ \A k \in 1..Len(M) : k # i => entries'[k] = M[k]
  BY <1>1, <1>3, <1>4, <1>5 DEF Blocks
<1>7. ASSUME NEW k \in 1..count + 1
      PROVE  entries'[k] = IF k < i THEN entries[k] ELSE IF k = i THEN x ELSE entries[k - 1]
  <2>1. k \in 1..Len(M)
    BY <1>1, <1>2, <1>4
  <2> QED
    BY <1>4, <1>6, <2>1
<1>8. count' <= Len(entries')
  BY <1>2, <1>3, <1>4, <1>6
<1> QED
  BY <1>3, <1>6, <1>7, <1>8

(* An insertion: the step of the sequence, and what it keeps.              *)
LEMMA InsertedStep ==
  ASSUME ArrayInv, NEW i \in 1..count + 1, NEW x \in Items, Inserted(i, x), answer' \in BOOLEAN
  PROVE  /\ ArrayTypeOK' /\ EntriesAreItems'
         /\ List!InsertItem(i, x) /\ i \in 1..Len(listed) + 1
PROOF
<1> DEFINE T == Items \cup {Constructed}
           t == List!InsertAt(listed, i, x)
<1>1. /\ count \in Nat /\ listed \in Seq(T) /\ Len(listed) = count
      /\ \A k \in 1..count : listed[k] = entries[k] /\ entries[k] \in T
  BY ListedFacts DEF ArrayInv, EntriesAreItems
<1>2. /\ entries' \in Blocks /\ count' = count + 1 /\ count' <= Len(entries')
      /\ \A k \in 1..count + 1 :
           entries'[k] = IF k < i THEN entries[k] ELSE IF k = i THEN x ELSE entries[k - 1]
  BY InsertedBlock
<1>3. \A k \in 1..count + 1 : /\ k < i => k \in 1..count
                              /\ k > i => k - 1 \in 1..count
  BY <1>1
<1>4. \A k \in 1..count + 1 : entries'[k] \in T
  <2> SUFFICES ASSUME NEW k \in 1..count + 1 PROVE entries'[k] \in T
    OBVIOUS
  <2>1. CASE k < i
    BY <1>1, <1>2, <1>3, <2>1
  <2>2. CASE k = i
    BY <1>1, <1>2, <2>2
  <2>3. CASE k > i
    BY <1>1, <1>2, <1>3, <2>3
  <2> QED
    BY <1>1, <2>1, <2>2, <2>3
<1>5. count + 1 \in 0..Len(entries')
  BY <1>1, <1>2 DEF Blocks
<1>6. /\ ArrayTypeOK' /\ EntriesAreItems' /\ listed' \in Seq(T) /\ Len(listed') = count + 1
      /\ \A k \in 1..count + 1 : listed'[k] = entries'[k]
  BY <1>2, <1>4, <1>5, ListedNext
<1>7. /\ t \in Seq(T) /\ Len(t) = count + 1
      /\ \A k \in 1..count + 1 : t[k] = IF k < i THEN listed[k] ELSE IF k = i THEN x ELSE listed[k - 1]
  <2>1. x \in T /\ i \in 1..Len(listed) + 1
    BY <1>1
  <2> HIDE DEF T
  <2>2. Len(listed) = count /\ listed \in Seq(T)
    BY <1>1
  <2>3. List!InsertAt(listed, i, x) \in Seq(T) /\ IsInserted(List!InsertAt(listed, i, x), listed, i, x)
    BY <2>1, <2>2, InsertAtFacts
  <2> HIDE DEF t
  <2> QED
    BY <2>2, <2>3 DEF t, IsInserted
<1> HIDE DEF t, T
<1>8. \A k \in 1..count + 1 : listed'[k] = t[k]
  <2> SUFFICES ASSUME NEW k \in 1..count + 1 PROVE listed'[k] = t[k]
    OBVIOUS
  <2>1. CASE k < i
    BY <1>1, <1>2, <1>3, <1>6, <1>7, <2>1
  <2>2. CASE k = i
    BY <1>1, <1>2, <1>6, <1>7, <2>2
  <2>3. CASE k > i
    BY <1>1, <1>2, <1>3, <1>6, <1>7, <2>3
  <2> QED
    BY <1>1, <2>1, <2>2, <2>3
<1>9. listed' = t
  BY <1>6, <1>7, <1>8, SameSequence
<1> QED
  BY <1>1, <1>6, <1>9 DEF List!InsertItem, List!InsertAt, t

(* What a removal leaves in the block: the cell that is moved in from      *)
(* behind the last entry is not among the entries.                         *)
LEMMA RemovedBlock ==
  ASSUME ArrayInv, NEW i \in 1..count, Removed(i)
  PROVE  /\ entries' \in Blocks /\ count' = count - 1 /\ count' <= Len(entries')
         /\ \A k \in 1..count - 1 : entries'[k] = IF k < i THEN entries[k] ELSE entries[k + 1]
PROOF
<1>1. /\ count \in Nat /\ i \in Nat /\ i >= 1 /\ i <= count
      /\ entries \in Blocks /\ count <= Len(entries) /\ Len(entries) \in Nat
  BY ListedFacts DEF Blocks
<1> DEFINE S == Shifted(i)
<1>2. /\ S \in Blocks /\ Len(S) = Len(entries)
      /\ \A k \in 1..count - 1 : S[k] = IF k < i THEN entries[k] ELSE entries[k + 1]
  <2>1. CASE i < count
    <3>1. i + 1 \in Nat /\ count - i + 1 \in Int
      BY <1>1
    <3>2. /\ S \in Blocks /\ Len(S) = Len(entries)
          /\ \A k \in 1..Len(entries) :
               S[k] = IF k \in i..i + (count - i + 1) - 1 THEN Cell(entries, i + 1 + k - i) ELSE entries[k]
      BY <1>1, <2>1, <3>1, MovedFacts DEF Shifted
    <3> HIDE DEF S
    <3>3. ASSUME NEW k \in 1..count - 1, k < i PROVE S[k] = entries[k]
      <4>1. k \in 1..Len(entries) /\ k \notin i..i + (count - i + 1) - 1
        BY <1>1, <3>3
      <4> QED
        BY <3>2, <4>1
    <3>4. ASSUME NEW k \in 1..count - 1, k >= i PROVE S[k] = entries[k + 1]
      <4>1. /\ k \in 1..Len(entries) /\ k \in i..i + (count - i + 1) - 1
            /\ i + 1 + k - i = k + 1 /\ k + 1 \in 1..Len(entries)
        BY <1>1, <3>4
      <4>2. S[k] = Cell(entries, k + 1)
        BY <3>2, <4>1
      <4> QED
        BY <1>1, <4>1, <4>2, CellFacts
    <3> QED
      BY <1>1, <3>2, <3>3, <3>4
  <2>2. CASE ~(i < count)
    <3>1. \A k \in 1..count - 1 : k < i
      BY <1>1, <2>2
    <3> QED
      BY <1>1, <2>2, <3>1 DEF Shifted
  <2> QED
    BY <2>1, <2>2
<1>3. /\ entries' = IF Capacity > count - 1 + nShrink THEN SubSeq(S, 1, count - 1) ELSE S
      /\ count' = count - 1
  BY DEF Removed
<1> HIDE DEF S
<1>4. count - 1 \in 0..Len(S) /\ count - 1 <= Len(S)
  BY <1>1, <1>2
<1>5. /\ SubSeq(S, 1, count - 1) \in Blocks /\ Len(SubSeq(S, 1, count - 1)) = count - 1
      /\ \A k \in 1..count - 1 : SubSeq(S, 1, count - 1)[k] = S[k]
  BY <1>2, <1>4, Listing
<1>6. CASE entries' = SubSeq(S, 1, count - 1)
  <2>1. count' <= Len(entries')
    BY <1>1, <1>3, <1>5, <1>6
  <2> QED
    BY <1>2, <1>3, <1>5, <1>6, <2>1
<1>7. CASE entries' = S
  BY <1>2, <1>3, <1>4, <1>7
<1> QED
  BY <1>3, <1>6, <1>7

(* A removal: the step of the sequence, and what it keeps.                 *)
LEMMA RemovedStep ==
  ASSUME ArrayInv, NEW i \in 1..count, Removed(i), answer' \in BOOLEAN
  PROVE  /\ ArrayTypeOK' /\ EntriesAreItems'
         /\ List!RemoveItem(i) /\ i \in DOMAIN listed
PROOF
<1> DEFINE T == Items \cup {Constructed}
           t == List!RemoveAt(listed, i)
<1>1. /\ count \in Nat /\ listed \in Seq(T) /\ Len(listed) = count /\ i \in Nat
      /\ \A k \in 1..count : listed[k] = entries[k] /\ entries[k] \in T
  BY ListedFacts DEF ArrayInv, EntriesAreItems
<1>2. /\ entries' \in Blocks /\ count' = count - 1 /\ count' <= Len(entries')
      /\ \A k \in 1..count - 1 : entries'[k] = IF k < i THEN entries[k] ELSE entries[k + 1]
  BY RemovedBlock
<1>3. \A k \in 1..count - 1 : k \in 1..count /\ k + 1 \in 1..count
  BY <1>1
<1>4. \A k \in 1..count - 1 : entries'[k] \in T
  BY <1>1, <1>2, <1>3
<1>5. count - 1 \in 0..Len(entries')
  BY <1>1, <1>2 DEF Blocks
<1>6. /\ ArrayTypeOK' /\ EntriesAreItems' /\ listed' \in Seq(T) /\ Len(listed') = count - 1
      /\ \A k \in 1..count - 1 : listed'[k] = entries'[k]
  BY <1>2, <1>4, <1>5, ListedNext
<1>7. /\ t \in Seq(T) /\ Len(t) = count - 1
      /\ \A k \in 1..count - 1 : t[k] = IF k < i THEN listed[k] ELSE listed[k + 1]
  BY <1>1, RemoveAtFacts
<1> HIDE DEF t, T
<1>8. \A k \in 1..count - 1 : listed'[k] = t[k]
  BY <1>1, <1>2, <1>3, <1>6, <1>7
<1>9. listed' = t
  BY <1>6, <1>7, <1>8, SameSequence
<1>10. i \in DOMAIN listed
  BY <1>1
<1> QED
  BY <1>6, <1>9, <1>10 DEF List!RemoveItem, List!RemoveAt, t

(* A block of another size: entries that no longer fit are gone, and a     *)
(* first block has so many entries that nobody has written.                *)
LEMMA ResizeStep ==
  ASSUME ArrayInv, NEW n \in Sizes, Resize(n)
  PROVE  ArrayTypeOK' /\ EntriesAreItems' /\ (List!SeqNext \/ listed' = listed)
PROOF
<1> DEFINE T == Items \cup {Constructed}
<1>0. /\ count \in Nat /\ n \in Nat /\ answer' \in BOOLEAN
      /\ listed \in Seq(T) /\ Len(listed) = count
      /\ \A k \in 1..count : listed[k] = entries[k] /\ entries[k] \in T
  BY ListedFacts, SizesAssumption DEF Resize, ArrayInv, EntriesAreItems
<1>1. CASE n = Capacity
  BY <1>0, <1>1 DEF Resize, ArrayInv, ArrayTypeOK, EntriesAreItems, Capacity, listed
<1>2. CASE n # Capacity /\ entries = Null
  <2> DEFINE b == Cells(n, Constructed)
  <2>1. entries' = b /\ count' = n /\ listed = << >>
    BY <1>2 DEF Resize, listed
  <2>2. b \in Blocks /\ Len(b) = n /\ \A k \in 1..n : b[k] = Constructed
    BY <1>0 DEF Cells, Blocks, Values
  <2> HIDE DEF b
  <2>3. n \in 0..Len(b) /\ \A k \in 1..n : b[k] \in T
    BY <1>0, <2>2
  <2>4. /\ ArrayTypeOK' /\ EntriesAreItems' /\ listed' \in Seq(T) /\ Len(listed') = n
        /\ \A k \in 1..n : listed'[k] = b[k]
    BY <1>0, <2>1, <2>2, <2>3, ListedNext
  <2> DEFINE t == [k \in 1..n |-> Constructed]
  <2>5. t \in Seq(T) /\ Len(t) = n /\ \A k \in 1..n : t[k] = Constructed
    BY <1>0
  <2> HIDE DEF t, T
  <2>6. listed' = t
    BY <2>2, <2>4, <2>5, SameSequence
  <2>7. List!Fill(Len(listed'))
    BY <2>1, <2>4, <2>6 DEF List!Fill, t
  <2> QED
    BY <2>4, <2>7 DEF List!SeqNext
<1>3. CASE n # Capacity /\ entries # Null
  <2> DEFINE b == Resized(n)
             m == IF n <= count THEN n ELSE count
  <2>1. entries \in Blocks /\ count <= Len(entries) /\ Len(entries) \in Nat
    BY <1>3, ListedFacts DEF Blocks
  <2>2. Min({n, count}) = m
    BY <1>0 DEF Min
  <2>3. entries' = b /\ count' = m
    BY <1>3, <2>2 DEF Resize
  <2>4. b \in [1..n -> Values] /\ \A k \in 1..n : b[k] = Cell(entries, k)
    BY <1>0, <2>1, CellFacts DEF Resized
  <2> HIDE DEF b
  <2>5. b \in Blocks /\ Len(b) = n
    BY <1>0, <2>4 DEF Blocks
  <2>6. m \in 0..n /\ m \in 0..count /\ \A k \in 1..m : k \in 1..n /\ k \in 1..count /\ k \in 1..Len(entries)
    BY <1>0, <2>1
  <2> HIDE DEF m
  <2>7. \A k \in 1..m : b[k] = entries[k]
    BY <2>1, <2>4, <2>6, CellFacts
  <2>8. \A k \in 1..m : b[k] \in T
    BY <1>0, <2>6, <2>7
  <2>9. /\ ArrayTypeOK' /\ EntriesAreItems' /\ listed' \in Seq(T) /\ Len(listed') = m
        /\ \A k \in 1..m : listed'[k] = b[k]
    BY <1>0, <2>3, <2>5, <2>6, <2>8, ListedNext
  <2>10. /\ SubSeq(listed, 1, m) \in Seq(T) /\ Len(SubSeq(listed, 1, m)) = m
         /\ \A k \in 1..m : SubSeq(listed, 1, m)[k] = listed[k]
    BY <1>0, <2>6, SubSeqProperties
  <2> HIDE DEF T
  <2>11. \A k \in 1..m : listed'[k] = SubSeq(listed, 1, m)[k]
    BY <1>0, <2>6, <2>7, <2>9, <2>10
  <2>12. listed' = SubSeq(listed, 1, m)
    BY <2>9, <2>10, <2>11, SameSequence
  <2>13. List!Truncate(m) /\ m \in 0..Len(listed)
    BY <1>0, <2>6, <2>12 DEF List!Truncate
  <2> QED
    BY <2>9, <2>13 DEF List!SeqNext
<1> QED
  BY <1>1, <1>2, <1>3
-----------------------------------------------------------------------------
(* The invariant holds at first, and every step keeps it and is a step of  *)
(* the sequence or none.                                                   *)
LEMMA ArrayInvInit == ArrayInit => ArrayInv /\ List!SeqInit
PROOF
<1> SUFFICES ASSUME ArrayInit PROVE ArrayInv /\ List!SeqInit
  OBVIOUS
<1>1. count = 0 /\ entries = Null /\ answer = TRUE /\ ops \in {"array", "dispatcher"}
  BY DEF ArrayInit
<1>2. \A k : k \notin 1..0
  OBVIOUS
<1>3. ArrayTypeOK /\ EntriesAreItems /\ SinksAreDistinct
  BY <1>1, <1>2 DEF ArrayTypeOK, EntriesAreItems, SinksAreDistinct, Capacity
<1> QED
  BY <1>1, <1>2, <1>3 DEF ArrayInv, List!SeqInit, listed

(* Steps of the array's own users.                                         *)
LEMMA ArrayOpsStep ==
  ASSUME ArrayInv, ops = "array", ops' = ops, ArrayOps
  PROVE  ArrayInv' /\ (List!SeqNext \/ listed' = listed)
PROOF
<1>0. SinksAreDistinct' /\ ops' = "array" /\ count \in Nat
  BY ListedFacts DEF SinksAreDistinct
<1>1. SUFFICES ArrayTypeOK' /\ EntriesAreItems' /\ (List!SeqNext \/ listed' = listed)
  BY <1>0 DEF ArrayInv
<1>2. ASSUME NEW i \in 1..count + 1, NEW x \in Items, Inserted(i, x), answer' \in BOOLEAN
      PROVE  ArrayTypeOK' /\ EntriesAreItems' /\ List!SeqNext
  <2>1. ArrayTypeOK' /\ EntriesAreItems' /\ List!InsertItem(i, x) /\ i \in 1..Len(listed) + 1
    BY <1>2, InsertedStep
  <2> QED
    BY <2>1 DEF List!SeqNext
<1>3. ASSUME UNCHANGED <<entries, count>>, answer' \in BOOLEAN
      PROVE  ArrayTypeOK' /\ EntriesAreItems' /\ listed' = listed
  BY <1>3 DEF ArrayInv, ArrayTypeOK, EntriesAreItems, Capacity, listed
<1>4. ASSUME NEW x \in Items, Push(x) PROVE ArrayTypeOK' /\ EntriesAreItems' /\ List!SeqNext
  <2>1. Inserted(count + 1, x) /\ answer' \in BOOLEAN /\ count + 1 \in 1..count + 1
    BY <1>0, <1>4 DEF Push, Inserted
  <2> QED
    BY <1>2, <2>1
<1>5. ASSUME NEW i \in 1..count + 1, NEW x \in Items, Insert(i, x)
      PROVE  ArrayTypeOK' /\ EntriesAreItems' /\ (List!SeqNext \/ listed' = listed)
  <2>1. CASE entries = Null
    BY <1>3, <1>5, <2>1 DEF Insert
  <2>2. CASE entries # Null
    <3>1. Inserted(i, x) /\ answer' \in BOOLEAN
      BY <1>5, <2>2 DEF Insert
    <3> QED
      BY <1>2, <3>1
  <2> QED
    BY <2>1, <2>2
<1>6. ASSUME NEW i \in 1..count, Remove(i) PROVE ArrayTypeOK' /\ EntriesAreItems' /\ List!SeqNext
  <2>1. ArrayTypeOK' /\ EntriesAreItems' /\ List!RemoveItem(i) /\ i \in DOMAIN listed
    BY <1>6, RemovedStep DEF Remove
  <2> QED
    BY <2>1 DEF List!SeqNext
<1>7. ASSUME NEW n \in Sizes, Resize(n)
      PROVE  ArrayTypeOK' /\ EntriesAreItems' /\ (List!SeqNext \/ listed' = listed)
  BY <1>7, ResizeStep
<1>8. ASSUME Clear PROVE ArrayTypeOK' /\ EntriesAreItems' /\ List!SeqNext
  <2>1. count' = 0 /\ entries' = Null /\ answer' = TRUE /\ \A k : k \notin 1..0
    BY <1>8 DEF Clear
  <2>2. listed' = << >> /\ ArrayTypeOK' /\ EntriesAreItems'
    BY <2>1 DEF listed, ArrayTypeOK, EntriesAreItems, Capacity
  <2>3. SubSeq(listed, 1, 0) = << >>
    BY SubSeqEmpty
  <2>4. List!Truncate(0) /\ 0 \in 0..Len(listed)
    BY <1>0, <2>2, <2>3, ListedFacts DEF List!Truncate
  <2> QED
    BY <2>2, <2>4 DEF List!SeqNext
<1> QED
  BY <1>4, <1>5, <1>6, <1>7, <1>8 DEF ArrayOps

(* Steps of a dispatcher: a sink that is held is held once.                *)
LEMMA DispatcherOpsStep ==
  ASSUME ArrayInv, ops = "dispatcher", ops' = ops, DispatcherOps
  PROVE  ArrayInv' /\ (List!SeqNext \/ listed' = listed)
PROOF
<1>0. /\ count \in Nat /\ answer \in BOOLEAN
      /\ \A k \in 1..count : entries[k] \in Items
      /\ \A j, k \in 1..count : entries[j] = entries[k] => j = k
  BY ListedFacts DEF ArrayInv, SinksAreDistinct, ArrayTypeOK
<1>1. ASSUME UNCHANGED <<entries, count>>, answer' \in BOOLEAN
      PROVE  ArrayInv' /\ listed' = listed
  <2>1. ArrayTypeOK' /\ EntriesAreItems' /\ listed' = listed
    BY <1>1 DEF ArrayInv, ArrayTypeOK, EntriesAreItems, Capacity, listed
  <2>2. SinksAreDistinct'
    BY <1>0, <1>1 DEF SinksAreDistinct
  <2> QED
    BY <1>0, <1>1, <2>1, <2>2 DEF ArrayInv
<1>2. ASSUME NEW x \in Items, AddEventSink(x) PROVE ArrayInv' /\ (List!SeqNext \/ listed' = listed)
  <2>1. CASE Holds(x) \/ entries = Null
    BY <1>1, <1>2, <2>1 DEF AddEventSink
  <2>2. CASE ~Holds(x) /\ entries # Null
    <3>1. Inserted(1, x) /\ answer' \in BOOLEAN /\ 1 \in 1..count + 1
      BY <1>0, <1>2, <2>2 DEF AddEventSink
    <3>2. ArrayTypeOK' /\ EntriesAreItems' /\ List!InsertItem(1, x) /\ 1 \in 1..Len(listed) + 1
      BY <3>1, InsertedStep
    <3>3. /\ count' = count + 1
          /\ \A k \in 1..count + 1 :
               entries'[k] = IF k < 1 THEN entries[k] ELSE IF k = 1 THEN x ELSE entries[k - 1]
      BY <3>1, InsertedBlock
    <3>4. /\ entries'[1] = x
          /\ \A k \in 2..count + 1 : entries'[k] = entries[k - 1] /\ k - 1 \in 1..count
      BY <1>0, <3>3
    <3>5. \A k \in 1..count : entries[k] # x
      BY <2>2 DEF Holds
    <3>6. \A k \in 1..count + 1 : entries'[k] \in Items
      BY <1>0, <3>4
    <3>7. ASSUME NEW j \in 1..count + 1, NEW k \in 1..count + 1, entries'[j] = entries'[k]
          PROVE  j = k
      <4>1. CASE j = 1 /\ k = 1
        BY <4>1
      <4>2. CASE j = 1 /\ k \in 2..count + 1
        BY <3>4, <3>5, <3>7, <4>2
      <4>3. CASE j \in 2..count + 1 /\ k = 1
        BY <3>4, <3>5, <3>7, <4>3
      <4>4. CASE j \in 2..count + 1 /\ k \in 2..count + 1
        <5>1. j - 1 = k - 1
          BY <1>0, <3>4, <3>7, <4>4
        <5> QED
          BY <5>1
      <4> QED
        BY <1>0, <4>1, <4>2, <4>3, <4>4
    <3>8. SinksAreDistinct'
      BY <3>3, <3>7 DEF SinksAreDistinct
    <3>9. List!SeqNext
      BY <3>2 DEF List!SeqNext
    <3> QED
      BY <3>2, <3>3, <3>6, <3>8, <3>9 DEF ArrayInv
  <2> QED
    BY <2>1, <2>2
<1>3. ASSUME NEW x \in Items, RemoveEventSink(x) PROVE ArrayInv' /\ (List!SeqNext \/ listed' = listed)
  <2>1. CASE ~Holds(x)
    BY <1>0, <1>1, <1>3, <2>1 DEF RemoveEventSink
  <2>2. CASE Holds(x)
    <3>1. PICK i \in 1..count : entries[i] = x
      BY <2>2 DEF Holds
    <3>2. {k \in 1..count : entries[k] = x} = {i}
      BY <1>0, <3>1
    <3>3. Min({i}) = i
      BY <1>0 DEF Min
    <3>4. Removed(i) /\ answer' \in BOOLEAN
      BY <1>0, <1>3, <2>2, <3>2, <3>3 DEF RemoveEventSink
    <3>5. ArrayTypeOK' /\ EntriesAreItems' /\ List!RemoveItem(i) /\ i \in DOMAIN listed
      BY <3>4, RemovedStep
    <3>6. /\ count' = count - 1
          /\ \A k \in 1..count - 1 : entries'[k] = IF k < i THEN entries[k] ELSE entries[k + 1]
      BY <3>4, RemovedBlock
    <3>7. \A k \in 1..count - 1 : k \in 1..count /\ k + 1 \in 1..count
      BY <1>0
    <3>8. \A k \in 1..count - 1 : entries'[k] \in Items
      BY <1>0, <3>6, <3>7
    <3>9. ASSUME NEW j \in 1..count - 1, NEW k \in 1..count - 1, entries'[j] = entries'[k]
          PROVE  j = k
      <4>1. CASE j < i /\ k < i
        BY <1>0, <3>6, <3>7, <3>9, <4>1
      <4>2. CASE j < i /\ ~(k < i)
        <5>1. j = k + 1
          BY <1>0, <3>6, <3>7, <3>9, <4>2
        <5> QED
          BY <1>0, <4>2, <5>1
      <4>3. CASE ~(j < i) /\ k < i
        <5>1. k = j + 1
          BY <1>0, <3>6, <3>7, <3>9, <4>3
        <5> QED
          BY <1>0, <4>3, <5>1
      <4>4. CASE ~(j < i) /\ ~(k < i)
        <5>1. j + 1 = k + 1
          BY <1>0, <3>6, <3>7, <3>9, <4>4
        <5> QED
          BY <1>0, <5>1
      <4> QED
        BY <4>1, <4>2, <4>3, <4>4
    <3>10. SinksAreDistinct'
      BY <3>6, <3>9 DEF SinksAreDistinct
    <3>11. List!SeqNext
      BY <3>5 DEF List!SeqNext
    <3> QED
      BY <3>5, <3>6, <3>8, <3>10, <3>11 DEF ArrayInv
  <2> QED
    BY <2>1, <2>2
<1>4. ASSUME GameGrows PROVE ArrayInv' /\ listed' = listed
  <2>1. count = 0 /\ count' = 0 /\ answer' \in BOOLEAN /\ listed = << >>
    BY <1>0, <1>4, ListedFacts DEF GameGrows, listed
  <2>2. entries' \in Blocks
    <3>1. entries' \in [1..nGrow -> Values] /\ nGrow \in Nat
      BY <1>4, GrowthAssumption DEF GameGrows, Cells, Values
    <3> QED
      BY <3>1 DEF Blocks
  <2>3. 0 \in 0..Len(entries') /\ \A k : k \notin 1..0
    BY <2>2 DEF Blocks
  <2>4. /\ ArrayTypeOK' /\ EntriesAreItems' /\ listed' \in Seq(Items \cup {Constructed})
        /\ Len(listed') = 0
    BY <2>1, <2>2, <2>3, ListedNext
  <2>5. listed' = << >>
    BY <2>4
  <2> QED
    BY <1>0, <2>1, <2>3, <2>4, <2>5 DEF ArrayInv, SinksAreDistinct
<1> QED
  BY <1>2, <1>3, <1>4 DEF DispatcherOps

LEMMA ArrayStep == ArrayInv /\ [ArrayNext]_arrayVars => ArrayInv' /\ [List!SeqNext]_listed
PROOF
<1> SUFFICES ASSUME ArrayInv, [ArrayNext]_arrayVars PROVE ArrayInv' /\ [List!SeqNext]_listed
  OBVIOUS
<1>1. CASE UNCHANGED arrayVars
  BY <1>1 DEF arrayVars, ArrayInv, ArrayTypeOK, EntriesAreItems, SinksAreDistinct, Capacity, listed
<1>2. CASE ArrayNext
  BY <1>2, ArrayOpsStep, DispatcherOpsStep DEF ArrayNext
<1> QED
  BY <1>1, <1>2

(* tArray and BSTEventDispatcher: to its users an array is a sequence that *)
(* grows and shrinks anywhere, whose entries are what was put there, and a *)
(* sink is never in a dispatcher twice, for any items, sizes and growth.   *)
THEOREM ArraysAlwaysImplementSequence == ArraySpec => ImplementsSequence
PROOF
<1>1. ArrayInv => ArrayTypeOK /\ EntriesAreItems /\ SinksAreDistinct
  BY DEF ArrayInv
<1> QED
  BY <1>1, ArrayInvInit, ArrayStep, PTL DEF ArraySpec, ImplementsSequence, List!SeqSpec

-----------------------------------------------------------------------------
(* Keys of strings and of objects, what they can mean, and references.     *)
Texts == Names \cup LocalNames \cup {"@b", "@f"}
TextKeys == (1 .. MaxDepth) \X Texts
ObjectKeys == {0} \X (Nat \ {0})
TextMeanings == (Names \cup LocalNames \cup {"@@"}) \X Nat
ObjectMeanings == Handles \X {-1}
Meanings == TextMeanings \cup ObjectMeanings
Modes == {"relative", "absolute"}
Refs == [meaning : Meanings, mode : Modes, size : Nat, imm : Nat, value : Int]
Waits == [key : ObjectKeys \cup TextKeys, end : Nat, size : Nat, mode : Modes, disp : Int]
LabelObjects == [id : Nat, mgr : BOOLEAN, alive : BOOLEAN]

LEMMA Widths ==
  MaxSize \in Nat /\ Top \in Int /\ NearSize \in Nat /\ NearSize > 1 /\ Immediates \subseteq Nat
    /\ MaxDepth \in Nat /\ MaxDepth >= 2 /\ ShortReach \in Nat
BY AssemblerAssumption

(* A reference that waits is as it was written, and its label has no place *)
(* yet; any other leads to the place of its label.                         *)
Agrees(r) ==
  /\ r.end \in DOMAIN refs
  /\ refs[r.end].mode = r.mode /\ refs[r.end].size = r.size /\ refs[r.end].imm = - r.disp
  /\ r.mode = "absolute" => r.disp = 0
  /\ refs[r.end].meaning \notin DOMAIN place

Reached(e) ==
  /\ refs[e].meaning \in DOMAIN place
  /\ Target(e) = place[refs[e].meaning]
  /\ refs[e].size = 1 => Short(refs[e].value)

RefInv ==
  /\ size \in 0 .. MaxSize
  /\ DOMAIN place \subseteq Meanings /\ \A m \in DOMAIN place : place[m] \in 0 .. size
  /\ DOMAIN refs \subseteq 1 .. size /\ \A e \in DOMAIN refs : refs[e] \in Refs
  /\ undefs \subseteq Waits
  /\ \A r \in undefs : Agrees(r)
  /\ \A r, s \in undefs : r.end = s.end => r = s
  /\ \A e \in DOMAIN refs : (\A r \in undefs : r.end # e) => Reached(e)

LEMMA DefineKeeps ==
  ASSUME RefInv, NEW list, NEW key, NEW offset \in 0 .. size, NEW m \in Meanings,
         m \notin DOMAIN place,
         \A r \in undefs : r.key = key <=> refs[r.end].meaning = m,
         \A r \in undefs : r.key = key /\ r.mode = "absolute" => offset = size,
         ~ Unreachable(key, offset), Define(list, key, offset, m), UNCHANGED size
  PROVE  /\ RefInv'
         /\ defs' = With(list, key, offset) /\ place' = With(place, m, offset)
         /\ undefs' = {r \in undefs : r.key # key}
         /\ DOMAIN refs' = DOMAIN refs /\ \A e \in DOMAIN refs : refs'[e].meaning = refs[e].meaning
PROOF
<1> DEFINE W == Waiting(key)
           val(r) == Resolved(r, offset)
<1>1. /\ defs' = With(list, key, offset) /\ place' = With(place, m, offset)
      /\ undefs' = undefs \ W
      /\ refs' = [e \in DOMAIN refs |->
                    IF \E r \in W : r.end = e
                    THEN [refs[e] EXCEPT !.value = val(CHOOSE r \in W : r.end = e)]
                    ELSE refs[e]]
  BY DEF Define
<1>2. W \subseteq undefs /\ \A r \in undefs : r \in W <=> r.key = key
  BY DEF Waiting
<1>3. \A r \in W : r.end \in DOMAIN refs /\ Agrees(r) /\ r \in Waits /\ refs[r.end] \in Refs
                   /\ refs[r.end].meaning = m
  BY <1>2 DEF RefInv, Agrees
<1>4. size \in Nat /\ offset \in Nat /\ Top \in Int
  BY Widths DEF RefInv
<1>5. ASSUME NEW r \in W
      PROVE  /\ val(r) \in Int /\ (r.size = 1 => Short(val(r)))
             /\ IF r.mode = "absolute" THEN val(r) - Top = offset
                ELSE r.end - r.disp + val(r) = offset
  <2>1. r.end \in Int /\ r.disp \in Int
    BY <1>3 DEF Waits
  <2>2. r.mode = "absolute" => offset = size
    BY <1>2
  <2>3. ~ TooFar(r, offset)
    BY <1>5 DEF Unreachable
  <2>4. CASE r.mode = "absolute"
    BY <1>4, <2>1, <2>2, <2>3, <2>4 DEF Resolved, TooFar
  <2>5. CASE r.mode # "absolute"
    BY <1>4, <2>1, <2>3, <2>5 DEF Resolved, TooFar
  <2> QED
    BY <2>4, <2>5
<1> HIDE DEF W, val
<1>6. \A r \in W : refs'[r.end] = [refs[r.end] EXCEPT !.value = val(r)]
  <2> SUFFICES ASSUME NEW r \in W PROVE refs'[r.end] = [refs[r.end] EXCEPT !.value = val(r)]
    OBVIOUS
  <2>1. (CHOOSE s \in W : s.end = r.end) = r
    BY <1>2 DEF RefInv
  <2> QED
    BY <1>1, <1>3, <2>1
<1>7. \A e \in DOMAIN refs : (\A r \in W : r.end # e) => refs'[e] = refs[e]
  BY <1>1
<1>8. DOMAIN refs' = DOMAIN refs
  BY <1>1
<1>9. ASSUME NEW r \in W
      PROVE  /\ refs'[r.end] \in Refs /\ refs'[r.end].value = val(r)
             /\ refs'[r.end].meaning = m /\ refs'[r.end].mode = r.mode
             /\ refs'[r.end].size = r.size /\ refs'[r.end].imm = - r.disp
  BY <1>3, <1>5, <1>6 DEF Refs, Agrees
<1>10. \A e \in DOMAIN refs : refs'[e] \in Refs /\ refs'[e].meaning = refs[e].meaning
  <2> SUFFICES ASSUME NEW e \in DOMAIN refs
               PROVE  refs'[e] \in Refs /\ refs'[e].meaning = refs[e].meaning
    OBVIOUS
  <2>1. CASE \E r \in W : r.end = e
    BY <1>3, <1>9, <2>1
  <2>2. CASE \A r \in W : r.end # e
    BY <1>7, <2>2 DEF RefInv
  <2> QED
    BY <2>1, <2>2
<1>11. /\ DOMAIN place' = DOMAIN place \cup {m} /\ place'[m] = offset
       /\ \A x \in DOMAIN place : place'[x] = place[x]
  BY <1>1 DEF With
<1>12. \A r \in undefs' : Agrees(r)'
  <2> SUFFICES ASSUME NEW r \in undefs' PROVE Agrees(r)'
    OBVIOUS
  <2>1. r \in undefs /\ r \notin W /\ r.key # key /\ Agrees(r)
    BY <1>1, <1>2 DEF RefInv
  <2>2. \A s \in W : s.end # r.end
    BY <1>2, <2>1 DEF RefInv
  <2>3. refs'[r.end] = refs[r.end] /\ refs[r.end].meaning # m
    BY <1>7, <2>1, <2>2 DEF Agrees
  <2> QED
    BY <1>8, <1>11, <2>1, <2>3 DEF Agrees
<1>13. ASSUME NEW e \in DOMAIN refs', \A r \in undefs' : r.end # e PROVE Reached(e)'
  <2>1. CASE \E r \in W : r.end = e
    <3>1. PICK r \in W : r.end = e
      BY <2>1
    <3>2. /\ refs'[e].meaning = m /\ refs'[e].mode = r.mode /\ refs'[e].value = val(r)
          /\ refs'[e].imm = - r.disp /\ refs'[e].size = r.size
      BY <1>9, <3>1
    <3>3. r.end \in Int /\ r.disp \in Int /\ val(r) \in Int
      BY <1>3, <1>5 DEF Waits
    <3>4. (r.size = 1 => Short(val(r)))
             /\ IF r.mode = "absolute" THEN val(r) - Top = offset ELSE r.end - r.disp + val(r) = offset
      BY <1>5
    <3>5. Target(e)' = offset
      BY <3>1, <3>2, <3>3, <3>4 DEF Target
    <3> QED
      BY <1>11, <3>2, <3>4, <3>5 DEF Reached
  <2>2. CASE \A r \in W : r.end # e
    <3>1. \A r \in undefs : r.end # e
      BY <1>1, <1>13, <2>2
    <3>2. Reached(e) /\ refs'[e] = refs[e]
      BY <1>7, <1>8, <2>2, <3>1 DEF RefInv
    <3>3. Target(e)' = Target(e)
      BY <3>2 DEF Target
    <3> QED
      BY <1>11, <3>2, <3>3 DEF Reached
  <2> QED
    BY <2>1, <2>2
<1>14. undefs' = {r \in undefs : r.key # key}
  BY <1>1, <1>2
<1>15. DOMAIN place' \subseteq Meanings /\ \A x \in DOMAIN place' : place'[x] \in 0 .. size
  BY <1>11 DEF RefInv
<1> HIDE DEF Agrees, Reached
<1>16. RefInv'
  BY <1>8, <1>10, <1>12, <1>13, <1>14, <1>15 DEF RefInv
<1> QED
  BY <1>1, <1>8, <1>10, <1>14, <1>16

LEMMA WriteKeeps ==
  ASSUME RefInv, NEW bytes \in Nat, NEW refSize \in Nat, NEW imm \in Nat, NEW mode \in Modes,
         NEW value \in Int, NEW m \in Meanings, NEW key \in ObjectKeys \cup TextKeys,
         imm < bytes, size + bytes <= MaxSize,
         Write(bytes, refSize, imm, mode, value, m), UNCHANGED place,
         \/ /\ undefs' = undefs /\ m \in DOMAIN place
            /\ IF mode = "absolute" THEN value - Top = place[m] ELSE size + bytes + value = place[m]
            /\ refSize = 1 => Short(value)
         \/ /\ undefs' = undefs \cup {[key |-> key, end |-> size + bytes - imm, size |-> refSize,
                                       mode |-> mode, disp |-> -imm]}
            /\ m \notin DOMAIN place /\ (mode = "absolute" => imm = 0)
  PROVE  /\ RefInv' /\ size' >= size
         /\ \A e \in DOMAIN refs : e \in DOMAIN refs' /\ refs'[e] = refs[e]
         /\ undefs \subseteq undefs'
         /\ \A r \in undefs' : r \in undefs \/ (r.key = key /\ refs'[r.end].meaning = m)
PROOF
<1>0. PICK e \in Int : e = size + bytes - imm
  BY DEF RefInv
<1> DEFINE new == [meaning |-> m, mode |-> mode, size |-> refSize, imm |-> imm, value |-> value]
           wait == [key |-> key, end |-> e, size |-> refSize, mode |-> mode, disp |-> -imm]
<1>1. size \in Nat /\ MaxSize \in Nat /\ Top \in Int /\ e \in Nat /\ e > size /\ e <= size + bytes
      /\ e + imm = size + bytes /\ - imm \in Int /\ - (- imm) = imm
  BY <1>0, Widths DEF RefInv
<1>2. size' = size + bytes /\ refs' = With(refs, e, new)
  BY <1>0 DEF Write
<1>3. /\ new \in Refs /\ new.meaning = m /\ new.mode = mode /\ new.size = refSize
      /\ new.imm = imm /\ new.value = value
  BY DEF Refs
<1>4. /\ wait \in Waits /\ wait.key = key /\ wait.end = e /\ wait.size = refSize
      /\ wait.mode = mode /\ wait.disp = - imm
  BY <1>1 DEF Waits
<1> HIDE DEF new, wait
<1>5. DOMAIN refs' = DOMAIN refs \cup {e} /\ refs'[e] = new
  BY <1>2 DEF With
<1>6. e \notin DOMAIN refs
  BY <1>1 DEF RefInv
<1>7. \A f \in DOMAIN refs : f \in DOMAIN refs' /\ refs'[f] = refs[f]
  BY <1>2, <1>6 DEF With
<1>8. \A f \in DOMAIN refs' : f \in 1 .. size' /\ refs'[f] \in Refs
  BY <1>1, <1>2, <1>3, <1>5, <1>7 DEF RefInv
<1>9. size' \in 0 .. MaxSize /\ size' >= size
  BY <1>1, <1>2
<1>10. \A x \in DOMAIN place : place[x] \in 0 .. size'
  BY <1>1, <1>9 DEF RefInv
<1>11. \A r \in undefs : Agrees(r) /\ Agrees(r)' /\ r.end # e
  BY <1>6, <1>7 DEF RefInv, Agrees
<1>12. ASSUME NEW f \in DOMAIN refs, \A r \in undefs : r.end # f PROVE Reached(f)'
  <2>1. Reached(f)
    BY <1>12 DEF RefInv
  <2> QED
    BY <1>7, <2>1 DEF Reached, Target
<1>13. CASE undefs' = undefs
  <2>1. m \in DOMAIN place /\ (refSize = 1 => Short(value))
        /\ IF mode = "absolute" THEN value - Top = place[m] ELSE size + bytes + value = place[m]
    <3>1. wait \notin undefs
      BY <1>4, <1>11
    <3> QED
      BY <1>0, <1>13, <3>1 DEF wait
  <2>2. Reached(e)'
    <3>1. Target(e)' = place[m]
      BY <1>1, <1>3, <1>5, <2>1 DEF Target
    <3> QED
      BY <1>3, <1>5, <2>1, <3>1 DEF Reached
  <2>3. \A f \in DOMAIN refs' : (\A r \in undefs' : r.end # f) => Reached(f)'
    BY <1>5, <1>12, <1>13, <2>2
  <2> HIDE DEF Agrees, Reached
  <2>4. RefInv'
    BY <1>8, <1>9, <1>10, <1>11, <1>13, <2>3 DEF RefInv
  <2> QED
    BY <1>7, <1>9, <1>13, <2>4
<1>14. CASE undefs' # undefs
  <2>1. undefs' = undefs \cup {wait} /\ m \notin DOMAIN place /\ (mode = "absolute" => imm = 0)
    BY <1>0, <1>14 DEF wait
  <2>2. Agrees(wait)'
    BY <1>1, <1>3, <1>4, <1>5, <2>1 DEF Agrees
  <2>3. \A r \in undefs' : r \in Waits /\ Agrees(r)'
    BY <1>4, <1>11, <2>1, <2>2 DEF RefInv
  <2>4. \A r, s \in undefs' : r.end = s.end => r = s
    BY <1>4, <1>11, <2>1 DEF RefInv
  <2>5. ASSUME NEW f \in DOMAIN refs', \A r \in undefs' : r.end # f PROVE Reached(f)'
    BY <1>4, <1>5, <1>12, <2>1, <2>5
  <2>6. \A r \in undefs' : r \in undefs \/ (r.key = key /\ refs'[r.end].meaning = m)
    BY <1>3, <1>4, <1>5, <2>1
  <2> HIDE DEF Agrees, Reached
  <2>7. RefInv'
    BY <1>8, <1>9, <1>10, <2>3, <2>4, <2>5 DEF RefInv
  <2> QED
    BY <1>7, <1>9, <2>1, <2>6, <2>7
<1> QED
  BY <1>13, <1>14

LEMMA ReferKeeps ==
  ASSUME RefInv, NEW key \in ObjectKeys \cup TextKeys, NEW m \in Meanings,
         Refer(key, m), UNCHANGED place,
         IF key \in DOMAIN defs THEN m \in DOMAIN place /\ defs[key] = place[m]
         ELSE m \notin DOMAIN place
  PROVE  /\ RefInv' /\ size' >= size
         /\ \A e \in DOMAIN refs : e \in DOMAIN refs' /\ refs'[e] = refs[e]
         /\ undefs \subseteq undefs'
         /\ \A r \in undefs' : r \in undefs \/ (r.key = key /\ refs'[r.end].meaning = m)
PROOF
<1> DEFINE Sound == /\ RefInv' /\ size' >= size
                    /\ \A e \in DOMAIN refs : e \in DOMAIN refs' /\ refs'[e] = refs[e]
                    /\ undefs \subseteq undefs'
                    /\ \A r \in undefs' : r \in undefs \/ (r.key = key /\ refs'[r.end].meaning = m)
<1>1. size \in Nat /\ MaxSize \in Nat /\ Top \in Int /\ NearSize \in Nat /\ NearSize > 1
      /\ ShortReach \in Nat
  BY Widths DEF RefInv
<1>2. key \in DOMAIN defs => place[m] \in Int
  BY DEF RefInv
<1>3. ASSUME NEW bytes \in Nat, NEW refSize \in Nat, NEW imm \in Nat, NEW mode \in Modes,
             NEW value \in Int, imm < bytes, size + bytes <= MaxSize, key \in DOMAIN defs,
             Write(bytes, refSize, imm, mode, value, m), undefs' = undefs,
             IF mode = "absolute" THEN value - Top = place[m] ELSE size + bytes + value = place[m],
             refSize = 1 => Short(value)
      PROVE  Sound
  BY <1>3, WriteKeeps
<1>4. ASSUME NEW bytes \in Nat, NEW refSize \in Nat, NEW imm \in Nat, NEW mode \in Modes,
             imm < bytes, key \notin DOMAIN defs, mode = "absolute" => imm = 0,
             Later(key, bytes, refSize, imm, mode, m)
      PROVE  Sound
  <2>1. /\ size + bytes <= MaxSize /\ Write(bytes, refSize, imm, mode, 0, m) /\ 0 \in Int
        /\ undefs' = undefs \cup {[key |-> key, end |-> size + bytes - imm, size |-> refSize,
                                   mode |-> mode, disp |-> -imm]}
    BY <1>4 DEF Later
  <2> QED
    BY <1>4, <2>1, WriteKeeps
<1>5. ASSUME NEW type \in {"short", "near", "auto"}, Jump(key, type, m) PROVE Sound
  <2>1. CASE key \in DOMAIN defs
    <3> DEFINE distance == defs[key] - size
    <3>1. distance \in Int /\ size + distance = place[m]
      BY <1>1, <1>2, <2>1
    <3>2. KnownJump(key, type, m) /\ undefs' = undefs
      BY <1>5, <2>1 DEF Jump
    <3>3. CASE type # "near" /\ Short(distance - 2)
      <4>1. size + 2 <= MaxSize /\ Write(2, 1, 0, "relative", distance - 2, m)
        BY <3>2, <3>3 DEF KnownJump
      <4> HIDE DEF distance
      <4>2. /\ distance - 2 \in Int /\ size + 2 + (distance - 2) = place[m] /\ 0 < 2
            /\ "relative" \in Modes /\ "relative" # "absolute"
        BY <1>1, <3>1 DEF Modes
      <4> HIDE DEF Sound
      <4> QED
        BY <1>3, <2>1, <3>2, <3>3, <4>1, <4>2
    <3>4. CASE ~ (type # "near" /\ Short(distance - 2))
      <4>1. size + (1 + NearSize) <= MaxSize
            /\ Write(1 + NearSize, NearSize, 0, "relative", distance - 1 - NearSize, m)
        BY <1>1, <3>2, <3>4 DEF KnownJump
      <4> HIDE DEF distance
      <4>2. /\ distance - 1 - NearSize \in Int /\ size + (1 + NearSize) + (distance - 1 - NearSize) = place[m]
            /\ 0 < 1 + NearSize /\ 1 + NearSize \in Nat /\ NearSize # 1
            /\ "relative" \in Modes /\ "relative" # "absolute"
        BY <1>1, <3>1 DEF Modes
      <4> HIDE DEF Sound
      <4> QED
        BY <1>1, <1>3, <2>1, <3>2, <4>1, <4>2
    <3> QED
      BY <3>3, <3>4
  <2>2. CASE key \notin DOMAIN defs
    <3>1. \/ Later(key, 1 + NearSize, NearSize, 0, "relative", m) \/ Later(key, 2, 1, 0, "relative", m)
      BY <1>5, <2>2 DEF Jump
    <3>2. 0 < 1 + NearSize /\ 1 + NearSize \in Nat /\ "relative" \in Modes
      BY <1>1 DEF Modes
    <3>3. 0 < 2 /\ 2 \in Nat /\ 0 \in Nat /\ 1 \in Nat /\ "relative" # "absolute"
      OBVIOUS
    <3> HIDE DEF Sound
    <3>4. CASE Later(key, 1 + NearSize, NearSize, 0, "relative", m)
      BY <1>1, <1>4, <2>2, <3>2, <3>3, <3>4
    <3>5. CASE Later(key, 2, 1, 0, "relative", m)
      BY <1>4, <2>2, <3>2, <3>3, <3>5
    <3> QED
      BY <3>1, <3>4, <3>5
  <2> QED
    BY <2>1, <2>2
<1>6. ASSUME NEW imm \in Immediates, Load(key, imm, m) PROVE Sound
  <2>1. imm \in Nat /\ 1 + NearSize + imm \in Nat /\ imm < 1 + NearSize + imm
        /\ "relative" \in Modes /\ "relative" # "absolute" /\ NearSize # 1
    BY <1>1, Widths DEF Modes
  <2>2. CASE key \in DOMAIN defs
    <3> DEFINE value == defs[key] - imm - (size + 1) - NearSize
               bytes == 1 + NearSize + imm
    <3>1. size + bytes <= MaxSize /\ undefs' = undefs
          /\ Write(bytes, NearSize, imm, "relative", value, m)
      BY <1>1, <1>6, <2>1, <2>2 DEF Load, KnownLoad
    <3>2. value \in Int /\ size + bytes + value = place[m] /\ bytes \in Nat /\ imm < bytes
      BY <1>1, <1>2, <2>1, <2>2
    <3> HIDE DEF value, bytes, Sound
    <3> QED
      BY <1>1, <1>3, <2>1, <2>2, <3>1, <3>2
  <2>3. CASE key \notin DOMAIN defs
    <3>1. Later(key, 1 + NearSize + imm, NearSize, imm, "relative", m)
      BY <1>6, <2>3 DEF Load
    <3> HIDE DEF Sound
    <3> QED
      BY <1>1, <1>4, <2>1, <2>3, <3>1
  <2> QED
    BY <2>2, <2>3
<1>7. ASSUME Address(key, m) PROVE Sound
  <2>1. "absolute" \in Modes /\ NearSize # 1 /\ 0 < NearSize
    BY <1>1 DEF Modes
  <2>2. CASE key \in DOMAIN defs
    <3>1. size + NearSize <= MaxSize /\ undefs' = undefs
          /\ Write(NearSize, NearSize, 0, "absolute", Top + defs[key], m)
      BY <1>7, <2>2 DEF Address, KnownAddress
    <3>2. Top + defs[key] \in Int /\ (Top + defs[key]) - Top = place[m]
      BY <1>1, <1>2, <2>2
    <3> HIDE DEF Sound
    <3> QED
      BY <1>1, <1>3, <2>1, <2>2, <3>1, <3>2
  <2>3. CASE key \notin DOMAIN defs
    <3>1. Later(key, NearSize, NearSize, 0, "absolute", m)
      BY <1>7, <2>3 DEF Address
    <3> HIDE DEF Sound
    <3> QED
      BY <1>1, <1>4, <2>1, <2>3, <3>1
  <2> QED
    BY <2>2, <2>3
<1>8. Sound
  <2> HIDE DEF Sound
  <2> QED
    BY <1>5, <1>6, <1>7 DEF Refer
<1> QED
  BY <1>8

LEMMA RefFrame ==
  ASSUME RefInv, UNCHANGED <<refs, undefs, place>>, size' \in size .. MaxSize
  PROVE  RefInv'
PROOF
<1>1. size \in Nat /\ size' \in Nat /\ size' >= size /\ size' <= MaxSize /\ MaxSize \in Nat
  BY Widths DEF RefInv
<1>2. DOMAIN refs \subseteq 1 .. size' /\ \A m \in DOMAIN place : place[m] \in 0 .. size'
  BY <1>1 DEF RefInv
<1>3. /\ \A r \in undefs : Agrees(r)' <=> Agrees(r)
      /\ \A e \in DOMAIN refs : Reached(e)' <=> Reached(e)
  BY DEF Agrees, Reached, Target
<1> HIDE DEF Agrees, Reached
<1> QED
  BY <1>1, <1>2, <1>3 DEF RefInv

-----------------------------------------------------------------------------
(* Label objects: those with one identifier, or with one history, are      *)
(* copies of a defined label, whose users are counted.                     *)
Users(id) == {h \in Handles : label[h].alive /\ label[h].mgr /\ label[h].id = id}

Same(h, g) == label[h].mgr /\ label[g].mgr /\ label[h].id = label[g].id /\ thing[h] = thing[g]

ObjectInv ==
  /\ labelId \in Nat \ {0}
  /\ label \in [Handles -> LabelObjects] /\ thing \in [Handles -> Handles]
  /\ \A h \in Handles :
       /\ label[h].id < labelId
       /\ label[h].mgr => label[h].id # 0
       /\ ~ label[h].mgr => thing[h] = h
       /\ label[h].mgr <=> Object(h) \in DOMAIN place
       /\ label[h].alive /\ label[h].mgr => defs[Key(0, label[h].id)] = place[Object(h)]
  /\ \A h, g \in Handles :
       h # g /\ ((label[h].id = label[g].id /\ label[h].id # 0) \/ thing[h] = thing[g]) => Same(h, g)
  /\ DOMAIN refCount \subseteq Nat \ {0}
  /\ \A id \in Nat \ {0} :
       /\ id \in DOMAIN refCount <=> Users(id) # {}
       /\ id \in DOMAIN refCount => refCount[id] = Cardinality(Users(id))
       /\ id \in DOMAIN refCount <=> Key(0, id) \in DOMAIN defs

(* Strings, each in its scope: one that is defined has a place.            *)
Forward == Key(1, "@f")
Backward == Key(1, "@b")
Number(n) == <<"@@", n>>
Open(k) ==
  \/ k[1] = 1 /\ k[2] \in (Names \ {"@@"}) \cup {"@b", "@f"}
  \/ k[1] \in 2 .. depth /\ k[2] \in LocalNames
Plain(k) == Open(k) /\ k[2] \notin {"@b", "@f"}
Says(k) == <<k[2], entered.scopes[k[1]]>>

ScopesInv ==
  /\ depth \in 2 .. MaxDepth
  /\ entered \in [scopes : Seq(Nat), last : Nat, anonymous : Nat]
  /\ Len(entered.scopes) = depth /\ entered.scopes[1] = 0
  /\ \A t \in 2 .. depth : entered.scopes[t] <= entered.last
  /\ \A s, t \in 2 .. depth : s < t => entered.scopes[s] < entered.scopes[t]

NameInv ==
  /\ ScopesInv
  /\ \A k \in TextKeys : k \in DOMAIN defs => Open(k)
  /\ \A k \in TextKeys : Plain(k) =>
       /\ k \in DOMAIN defs <=> Says(k) \in DOMAIN place
       /\ k \in DOMAIN defs => defs[k] = place[Says(k)]
  /\ \A name \in LocalNames, n \in Nat : <<name, n>> \in DOMAIN place => n <= entered.last
  /\ \A n \in Nat : Number(n) \in DOMAIN place <=> n \in 1 .. entered.anonymous
  /\ ~ (Forward \in DOMAIN defs /\ Backward \in DOMAIN defs)
  /\ entered.anonymous > 0 <=> Forward \in DOMAIN defs \/ Backward \in DOMAIN defs
  /\ \A k \in {Forward, Backward} \cap DOMAIN defs : defs[k] = place[Number(entered.anonymous)]

DefsInv == \A k \in DOMAIN defs : k \in ObjectKeys \cup TextKeys /\ defs[k] \in 0 .. size

(* What waits, waits under the key its label will be defined with.         *)
WaitsFor(r) ==
  \/ r.key \in ObjectKeys
       /\ \E h \in Handles : label[h].id = r.key[2] /\ refs[r.end].meaning = Object(h)
  \/ r.key \in TextKeys /\ Plain(r.key) /\ refs[r.end].meaning = Says(r.key)
  \/ r.key = (IF Forward \in DOMAIN defs THEN Backward ELSE Forward)
       /\ refs[r.end].meaning = Number(entered.anonymous + 1)

AsmInv == RefInv /\ ObjectInv /\ NameInv /\ DefsInv /\ \A r \in undefs : WaitsFor(r)

LEMMA Spellings ==
  /\ Names \cap LocalNames = {} /\ "@@" \notin LocalNames
  /\ {"@b", "@f"} \cap (Names \cup LocalNames) = {}
BY AssemblerAssumption

LEMMA KeyFacts ==
  /\ \A id \in Nat \ {0} : Key(0, id) \in ObjectKeys
  /\ \A k \in ObjectKeys : k = Key(0, k[2]) /\ k[2] \in Nat \ {0} /\ k \notin TextKeys
  /\ \A k \in TextKeys : k = Key(k[1], k[2]) /\ k[1] \in 1 .. MaxDepth /\ k[2] \in Texts
  /\ \A t \in 1 .. MaxDepth, x \in Texts : Key(t, x) \in TextKeys /\ Key(t, x)[1] = t /\ Key(t, x)[2] = x
  /\ \A i, j : Key(0, i) = Key(0, j) => i = j
  /\ \A t, x : Key(t, x)[1] = t /\ Key(t, x)[2] = x
  /\ Forward \in TextKeys /\ Backward \in TextKeys /\ Forward # Backward
BY Widths DEF Key, ObjectKeys, TextKeys, Texts, Forward, Backward

LEMMA MeaningFacts ==
  /\ \A m \in TextMeanings : m \notin ObjectMeanings
  /\ \A n \in Nat : Number(n) \in TextMeanings
  /\ \A i, j : Number(i) = Number(j) => i = j
BY DEF TextMeanings, ObjectMeanings, Number

LEMMA ObjectMeansObject ==
  ASSUME ObjectInv
  PROVE  /\ \A h \in Handles : Object(h) \in ObjectMeanings /\ Object(h) \in Meanings /\ Object(h) \notin TextMeanings
         /\ \A h, g \in Handles : Object(h) = Object(g) => thing[h] = thing[g]
BY MeaningFacts DEF ObjectInv, Object, ObjectMeanings, Meanings

LEMMA PlainFacts ==
  ASSUME ScopesInv
  PROVE  /\ \A k \in TextKeys : Plain(k) => /\ Says(k) \in TextMeanings /\ Says(k) \in Meanings
                                           /\ \A n : Says(k) # Number(n)
                                           /\ k # Forward /\ k # Backward
         /\ \A k, l \in TextKeys : Plain(k) /\ Plain(l) /\ Says(k) = Says(l) => k = l
         /\ \A k \in TextKeys : Open(k) <=> Plain(k) \/ k = Forward \/ k = Backward
PROOF
<1>1. \A t \in 1 .. depth : entered.scopes[t] \in Nat
  BY DEF ScopesInv
<1>2. \A k \in TextKeys : Open(k) => k[1] \in 1 .. depth
  BY DEF ScopesInv, Open
<1>3. ASSUME NEW k \in TextKeys, Plain(k)
      PROVE  /\ Says(k) \in TextMeanings /\ Says(k) \in Meanings
             /\ \A n : Says(k) # Number(n)
             /\ k # Forward /\ k # Backward
  <2>1. k[2] \in Names \cup LocalNames /\ k[2] # "@@" /\ entered.scopes[k[1]] \in Nat
    BY <1>1, <1>2, <1>3, Spellings DEF Plain, Open
  <2>2. k # Forward /\ k # Backward
    BY <1>3, KeyFacts DEF Plain, Forward, Backward
  <2> QED
    BY <2>1, <2>2 DEF Says, TextMeanings, Meanings, Number
<1>4. ASSUME NEW k \in TextKeys, NEW l \in TextKeys, Plain(k), Plain(l), Says(k) = Says(l)
      PROVE  k = l
  <2>1. k[2] = l[2] /\ entered.scopes[k[1]] = entered.scopes[l[1]]
    BY <1>4 DEF Says
  <2>2. k[1] = l[1]
    <3>1. CASE k[2] \in LocalNames
      <4>1. k[1] \in 2 .. depth /\ l[1] \in 2 .. depth
        BY <1>4, <2>1, <3>1, Spellings DEF Plain, Open
      <4>2. PICK s, t \in 2 .. depth : s = k[1] /\ t = l[1]
        BY <4>1
      <4>3. /\ entered.scopes[s] = entered.scopes[t] /\ entered.scopes[s] \in Nat
            /\ s < t => entered.scopes[s] < entered.scopes[t]
            /\ t < s => entered.scopes[t] < entered.scopes[s]
        BY <1>1, <2>1, <4>2, SMTT(60) DEF ScopesInv
      <4>4. s = t
        BY <4>3
      <4> QED
        BY <4>2, <4>4
    <3>2. CASE k[2] \notin LocalNames
      BY <1>4, <2>1, <3>2 DEF Plain, Open
    <3> QED
      BY <3>1, <3>2
  <2> QED
    BY <2>1, <2>2, KeyFacts
<1>5. ASSUME NEW k \in TextKeys PROVE Open(k) <=> Plain(k) \/ k = Forward \/ k = Backward
  <2>1. Open(Forward) /\ Open(Backward)
    BY KeyFacts DEF Open, Forward, Backward
  <2>2. ASSUME Open(k), ~ Plain(k) PROVE k = Forward \/ k = Backward
    BY <2>2, KeyFacts, Spellings DEF Open, Plain, Forward, Backward
  <2> QED
    BY <2>1, <2>2 DEF Plain
<1> QED
  BY <1>3, <1>4, <1>5

LEMMA ObjectAlone ==
  ASSUME ObjectInv, NEW h \in Handles, ~ label[h].mgr
  PROVE  /\ \A g \in Handles : g # h => Object(g) # Object(h) /\ label[g].id # Id(h)
         /\ Object(h) \notin DOMAIN place /\ thing[h] = h /\ Id(h) \in Nat \ {0} /\ Id(h) <= labelId
         /\ Key(0, Id(h)) \in ObjectKeys
PROOF
<1>1. label[h].id \in Nat /\ labelId \in Nat \ {0} /\ label[h].id < labelId
  BY DEF ObjectInv, LabelObjects
<1>2. Id(h) \in Nat \ {0} /\ Id(h) <= labelId /\ (label[h].id # 0 => Id(h) = label[h].id)
      /\ (label[h].id = 0 => Id(h) = labelId)
  BY <1>1 DEF Id
<1>3. ASSUME NEW g \in Handles, g # h PROVE Object(g) # Object(h) /\ label[g].id # Id(h)
  <2>1. ~ Same(g, h)
    BY DEF Same
  <2>2. label[g].id \in Nat /\ label[g].id < labelId
    BY DEF ObjectInv, LabelObjects
  <2>3. thing[g] # thing[h] /\ (label[h].id # 0 => label[g].id # label[h].id)
    BY <1>3, <2>1 DEF ObjectInv
  <2> QED
    BY <1>1, <1>2, <2>2, <2>3, ObjectMeansObject
<1>4. Object(h) \notin DOMAIN place /\ thing[h] = h
  BY DEF ObjectInv
<1> QED
  BY <1>2, <1>3, <1>4, KeyFacts

LEMMA AliveIsDefined ==
  ASSUME ObjectInv, NEW h \in Handles, label[h].alive
  PROVE  /\ Key(0, Id(h)) \in DOMAIN defs <=> label[h].mgr
         /\ label[h].mgr => /\ Id(h) = label[h].id /\ Object(h) \in DOMAIN place
                            /\ defs[Key(0, Id(h))] = place[Object(h)]
PROOF
<1>1. CASE label[h].mgr
  <2>1. label[h].id \in Nat \ {0} /\ h \in Users(label[h].id) /\ Id(h) = label[h].id
    BY <1>1 DEF ObjectInv, LabelObjects, Users, Id
  <2> QED
    BY <1>1, <2>1 DEF ObjectInv
<1>2. CASE ~ label[h].mgr
  <2>1. Id(h) \in Nat \ {0} /\ \A g \in Handles : g # h => label[g].id # Id(h)
    BY <1>2, ObjectAlone
  <2>2. Users(Id(h)) = {}
    BY <1>2, <2>1 DEF Users
  <2> QED
    BY <1>2, <2>1, <2>2 DEF ObjectInv
<1> QED
  BY <1>1, <1>2

-----------------------------------------------------------------------------
(* What an action leaves alone.                                            *)
LEMMA ObjectFrame ==
  ASSUME ObjectInv, UNCHANGED <<label, labelId, refCount, thing>>,
         \A k \in ObjectKeys : (k \in DOMAIN defs' <=> k \in DOMAIN defs) /\ (k \in DOMAIN defs => defs'[k] = defs[k]),
         \A m \in ObjectMeanings : (m \in DOMAIN place' <=> m \in DOMAIN place) /\ (m \in DOMAIN place => place'[m] = place[m])
  PROVE  ObjectInv'
PROOF
<1>1. \A h \in Handles : Object(h)' = Object(h) /\ Object(h) \in ObjectMeanings
  BY ObjectMeansObject DEF Object
<1>2. \A id : Users(id)' = Users(id)
  BY DEF Users
<1>3. \A h, g : Same(h, g)' <=> Same(h, g)
  BY DEF Same
<1>4. \A h \in Handles : label[h].mgr => label[h].id \in Nat \ {0} /\ Key(0, label[h].id) \in ObjectKeys
  BY KeyFacts DEF ObjectInv, LabelObjects
<1>5. \A h \in Handles : label[h].alive /\ label[h].mgr =>
        Key(0, label[h].id) \in DOMAIN defs /\ Object(h) \in DOMAIN place
  BY AliveIsDefined DEF Id
<1> HIDE DEF Users, Same, Object
<1> QED
  BY <1>1, <1>2, <1>3, <1>4, <1>5, KeyFacts DEF ObjectInv

LEMMA NameFrame ==
  ASSUME NameInv, UNCHANGED <<depth, entered>>,
         \A k \in TextKeys : (k \in DOMAIN defs' <=> k \in DOMAIN defs) /\ (k \in DOMAIN defs => defs'[k] = defs[k]),
         \A m \in TextMeanings : (m \in DOMAIN place' <=> m \in DOMAIN place) /\ (m \in DOMAIN place => place'[m] = place[m])
  PROVE  NameInv'
PROOF
<1>1. \A k : (Open(k)' <=> Open(k)) /\ (Plain(k)' <=> Plain(k)) /\ Says(k)' = Says(k)
  BY DEF Open, Plain, Says
<1>2. ScopesInv'
  BY DEF NameInv, ScopesInv
<1>3. /\ Forward' = Forward /\ Backward' = Backward
      /\ \A k \in TextKeys : Plain(k) => Says(k) \in TextMeanings
      /\ \A n \in Nat : Number(n) \in TextMeanings
      /\ \A name \in LocalNames, n \in Nat : <<name, n>> \in TextMeanings
      /\ entered.anonymous \in Nat
  BY PlainFacts, MeaningFacts DEF NameInv, ScopesInv, TextMeanings, Forward, Backward
<1> HIDE DEF Open, Plain, Says, Forward, Backward, Number
<1> QED
  BY <1>1, <1>2, <1>3, KeyFacts DEF NameInv

LEMMA WaitFrame ==
  ASSUME NEW r, r.key \in ObjectKeys \cup TextKeys, WaitsFor(r), refs'[r.end].meaning = refs[r.end].meaning,
         \A h \in Handles : label[h].id # 0 => label'[h].id = label[h].id /\ thing'[h] = thing[h],
         \A k \in TextKeys : Plain(k) => Plain(k)' /\ Says(k)' = Says(k),
         r.key \in {Forward, Backward} =>
           entered'.anonymous = entered.anonymous /\ (Forward \in DOMAIN defs' <=> Forward \in DOMAIN defs)
  PROVE  WaitsFor(r)'
PROOF
<1>1. CASE r.key \in ObjectKeys /\ \E h \in Handles : label[h].id = r.key[2] /\ refs[r.end].meaning = Object(h)
  <2>1. PICK h \in Handles : label[h].id = r.key[2] /\ refs[r.end].meaning = Object(h)
    BY <1>1
  <2>2. label'[h].id = r.key[2] /\ Object(h)' = Object(h)
    BY <1>1, <2>1, KeyFacts DEF Object
  <2> QED
    BY <1>1, <2>1, <2>2 DEF WaitsFor
<1>2. CASE r.key \in TextKeys /\ Plain(r.key) /\ refs[r.end].meaning = Says(r.key)
  <2>1. Plain(r.key)' /\ Says(r.key)' = Says(r.key)
    BY <1>2
  <2> QED
    BY <1>2, <2>1 DEF WaitsFor
<1>3. CASE r.key = (IF Forward \in DOMAIN defs THEN Backward ELSE Forward)
            /\ refs[r.end].meaning = Number(entered.anonymous + 1)
  BY <1>3 DEF WaitsFor, Forward, Backward
<1> QED
  BY <1>1, <1>2, <1>3 DEF WaitsFor

-----------------------------------------------------------------------------
(* A label object gets a place.                                            *)
LEMMA WaitsForObject ==
  ASSUME AsmInv, NEW h \in Handles, ~ label[h].mgr, NEW r \in undefs
  PROVE  r.key = Key(0, Id(h)) <=> refs[r.end].meaning = Object(h)
PROOF
<1>1. WaitsFor(r)
  BY DEF AsmInv
<1>2. /\ \A g \in Handles : g # h => Object(g) # Object(h) /\ label[g].id # Id(h)
      /\ Key(0, Id(h)) \in ObjectKeys /\ Id(h) \in Nat \ {0} /\ label[h].id \in {0, Id(h)}
      /\ Object(h) \notin TextMeanings
  BY ObjectAlone, ObjectMeansObject DEF AsmInv, Id
<1>3. CASE r.key \in ObjectKeys /\ \E g \in Handles : label[g].id = r.key[2] /\ refs[r.end].meaning = Object(g)
  <2>1. PICK g \in Handles : label[g].id = r.key[2] /\ refs[r.end].meaning = Object(g)
    BY <1>3
  <2>2. r.key = Key(0, label[g].id) /\ label[g].id # 0
    BY <1>3, <2>1, KeyFacts
  <2> QED
    BY <1>2, <2>1, <2>2, KeyFacts
<1>4. CASE r.key \in TextKeys /\ Plain(r.key) /\ refs[r.end].meaning = Says(r.key)
  BY <1>2, <1>4, KeyFacts, PlainFacts DEF AsmInv, NameInv
<1>5. CASE r.key = (IF Forward \in DOMAIN defs THEN Backward ELSE Forward)
            /\ refs[r.end].meaning = Number(entered.anonymous + 1)
  <2>1. r.key \in TextKeys /\ Number(entered.anonymous + 1) \in TextMeanings
    BY <1>5, KeyFacts, MeaningFacts DEF AsmInv, NameInv, ScopesInv
  <2> QED
    BY <1>2, <1>5, <2>1, KeyFacts
<1> QED
  BY <1>1, <1>3, <1>4, <1>5 DEF WaitsFor

LEMMA PlaceObject ==
  ASSUME AsmInv, NEW h \in Handles, ~ label[h].mgr, label[h].alive, NEW offset \in 0 .. size,
         Key(0, Id(h)) \notin DOMAIN defs, ~ Unreachable(Key(0, Id(h)), offset),
         \A r \in undefs : r.key = Key(0, Id(h)) /\ r.mode = "absolute" => offset = size,
         Define(defs, Key(0, Id(h)), offset, Object(h)),
         label' \in [Handles -> LabelObjects],
         label'[h].id = Id(h) /\ label'[h].mgr /\ label'[h].alive,
         \A g \in Handles : g # h => label'[g] = label[g],
         labelId' \in Nat, labelId' >= labelId, Id(h) < labelId',
         refCount' = With(refCount, Id(h), 1), UNCHANGED <<size, depth, thing, entered>>
  PROVE  AsmInv'
PROOF
<1>1. PICK id \in Nat \ {0} : id = Id(h)
  BY ObjectAlone DEF AsmInv
<1>2. PICK m \in ObjectMeanings : m = Object(h)
  BY ObjectMeansObject DEF AsmInv
<1> DEFINE key == Key(0, id)
<1>3. /\ \A g \in Handles : g # h => Object(g) # m /\ label[g].id # id
      /\ m \notin DOMAIN place /\ key \in ObjectKeys /\ m \in Meanings /\ m \notin TextMeanings
      /\ key \notin TextKeys /\ key \notin DOMAIN defs
  BY <1>1, <1>2, ObjectAlone, ObjectMeansObject, KeyFacts DEF AsmInv
<1>4. \A r \in undefs : r.key = key <=> refs[r.end].meaning = m
  BY <1>1, <1>2, WaitsForObject
<1>5. /\ RefInv' /\ defs' = With(defs, key, offset) /\ place' = With(place, m, offset)
      /\ undefs' = {r \in undefs : r.key # key}
      /\ \A e \in DOMAIN refs : refs'[e].meaning = refs[e].meaning
  <2>1. ~ Unreachable(key, offset) /\ Define(defs, key, offset, m)
        /\ \A r \in undefs : r.key = key /\ r.mode = "absolute" => offset = size
    BY <1>1, <1>2
  <2> HIDE DEF key
  <2> QED
    BY <1>3, <1>4, <2>1, DefineKeeps, SMTT(90) DEF AsmInv
<1> HIDE DEF key
<1>6. /\ DOMAIN defs' = DOMAIN defs \cup {key} /\ defs'[key] = offset
      /\ \A k \in DOMAIN defs : k # key => defs'[k] = defs[k]
      /\ DOMAIN place' = DOMAIN place \cup {m} /\ place'[m] = offset
      /\ \A x \in DOMAIN place : place'[x] = place[x]
      /\ DOMAIN refCount' = DOMAIN refCount \cup {id} /\ refCount'[id] = 1
      /\ \A n \in DOMAIN refCount : n # id => refCount'[n] = refCount[n]
  BY <1>1, <1>3, <1>5 DEF With
<1>7. NameInv'
  <2>1. \A k \in TextKeys : (k \in DOMAIN defs' <=> k \in DOMAIN defs) /\ (k \in DOMAIN defs => defs'[k] = defs[k])
    BY <1>3, <1>5, <1>6 DEF With
  <2>2. \A x \in TextMeanings : (x \in DOMAIN place' <=> x \in DOMAIN place) /\ (x \in DOMAIN place => place'[x] = place[x])
    BY <1>3, <1>5, <1>6 DEF With
  <2> QED
    BY <2>1, <2>2, NameFrame DEF AsmInv
<1>8. DefsInv'
  BY <1>3, <1>6 DEF AsmInv, DefsInv
<1>9. ASSUME NEW r \in undefs' PROVE WaitsFor(r)'
  <2>1. r \in undefs /\ r.key \in ObjectKeys \cup TextKeys /\ WaitsFor(r) /\ r.end \in DOMAIN refs
    BY <1>5 DEF AsmInv, RefInv, Agrees, Waits
  <2>2. refs'[r.end].meaning = refs[r.end].meaning
    BY <1>5, <2>1
  <2>3. \A g \in Handles : label[g].id # 0 => label'[g].id = label[g].id /\ thing'[g] = thing[g]
    BY DEF Id
  <2>4. \A k \in TextKeys : Plain(k) => Plain(k)' /\ Says(k)' = Says(k)
    BY DEF Plain, Open, Says
  <2>5. Forward \in DOMAIN defs' <=> Forward \in DOMAIN defs
    BY <1>3, <1>6, KeyFacts
  <2> QED
    BY <2>1, <2>2, <2>3, <2>4, <2>5, WaitFrame
<1>10. ObjectInv'
  <2>1. \A g \in Handles : Object(g)' = Object(g)
    BY DEF Object
  <2>2. ASSUME NEW g \in Handles
        PROVE  /\ label'[g].id < labelId'
               /\ label'[g].mgr => label'[g].id # 0
               /\ ~ label'[g].mgr => thing'[g] = g
               /\ label'[g].mgr <=> Object(g)' \in DOMAIN place'
               /\ label'[g].alive /\ label'[g].mgr => defs'[Key(0, label'[g].id)] = place'[Object(g)']
    <3>1. CASE g = h
      BY <1>1, <1>2, <1>6, <2>1, <3>1 DEF key
    <3>2. CASE g # h
      <4>1. label'[g] = label[g] /\ Object(g) # m /\ label[g].id # id /\ label[g].id \in Nat
        BY <1>3, <3>2 DEF AsmInv, ObjectInv, LabelObjects
      <4>2. label[g].id < labelId /\ labelId \in Nat
        BY DEF AsmInv, ObjectInv
      <4>3. label[g].alive /\ label[g].mgr =>
              /\ Object(g) \in DOMAIN place /\ Key(0, label[g].id) \in DOMAIN defs
              /\ defs[Key(0, label[g].id)] = place[Object(g)] /\ Key(0, label[g].id) # key
        <5>1. label[g].alive /\ label[g].mgr => g \in Users(label[g].id) /\ label[g].id # 0
          BY DEF Users, AsmInv, ObjectInv
        <5> QED
          BY <4>1, <5>1, KeyFacts DEF AsmInv, ObjectInv, key
      <4>4. label[g].mgr <=> Object(g) \in DOMAIN place'
        BY <1>6, <4>1 DEF AsmInv, ObjectInv
      <4> QED
        BY <1>6, <2>1, <4>1, <4>2, <4>3, <4>4 DEF AsmInv, ObjectInv
    <3> QED
      BY <3>1, <3>2
  <2>3. ASSUME NEW f \in Handles, NEW g \in Handles, f # g,
               (label'[f].id = label'[g].id /\ label'[f].id # 0) \/ thing'[f] = thing'[g]
        PROVE  Same(f, g)'
    <3>1. \A x \in Handles : x # h => thing[x] # thing[h] /\ label'[x].id # id /\ label'[x] = label[x]
      BY <1>1, <1>2, <1>3 DEF Object
    <3>2. f # h /\ g # h
      BY <1>1, <2>3, <3>1
    <3>3. Same(f, g)
      BY <2>3, <3>1, <3>2 DEF AsmInv, ObjectInv
    <3> QED
      BY <3>1, <3>2, <3>3 DEF Same
  <2>4. Users(id) = {} /\ Users(id)' = {h} /\ \A n : n # id => Users(n)' = Users(n)
    <3>1. Users(id) = {}
      BY <1>3 DEF AsmInv, ObjectInv, key
    <3>2. \A g \in Handles : g # h => label'[g].id # id
      BY <1>3
    <3>3. Users(id)' = {h}
      BY <1>1, <3>2 DEF Users
    <3>4. \A n : n # id => Users(n)' = Users(n)
      BY <1>1 DEF Users, AsmInv, ObjectInv
    <3> QED
      BY <3>1, <3>3, <3>4
  <2>5. ASSUME NEW n \in Nat \ {0}
        PROVE  /\ n \in DOMAIN refCount' <=> Users(n)' # {}
               /\ n \in DOMAIN refCount' => refCount'[n] = Cardinality(Users(n)')
               /\ n \in DOMAIN refCount' <=> Key(0, n) \in DOMAIN defs'
    <3>1. CASE n = id
      <4>1. Cardinality({h}) = 1
        BY FS_Singleton
      <4> QED
        BY <1>6, <2>4, <3>1, <4>1 DEF key
    <3>2. CASE n # id
      <4>1. Key(0, n) # key
        BY <3>2, KeyFacts DEF key
      <4> QED
        BY <1>6, <2>4, <3>2, <4>1 DEF AsmInv, ObjectInv
    <3> QED
      BY <3>1, <3>2
  <2>6. DOMAIN refCount' \subseteq Nat \ {0} /\ labelId' \in Nat \ {0} /\ thing' \in [Handles -> Handles]
    BY <1>6 DEF AsmInv, ObjectInv
  <2> HIDE DEF Users, Same, Object
  <2> QED
    BY <2>2, <2>3, <2>5, <2>6 DEF ObjectInv
<1> QED
  BY <1>5, <1>7, <1>8, <1>9, <1>10 DEF AsmInv

LEMMA AsmUnchanged == ASSUME AsmInv, UNCHANGED <<size, defs, undefs, depth, labelId, label, refCount, refs,
                                                place, thing, entered>> PROVE AsmInv'
PROOF
<1>1. RefInv'
  BY RefFrame, Widths DEF AsmInv, RefInv
<1>2. ObjectInv' /\ NameInv' /\ DefsInv'
  BY ObjectFrame, NameFrame DEF AsmInv, DefsInv
<1>3. ASSUME NEW r \in undefs PROVE WaitsFor(r)'
  BY DEF AsmInv, WaitsFor, Plain, Open, Says, Object
<1> QED
  BY <1>1, <1>2, <1>3 DEF AsmInv

LEMMA ThrowKeeps == ASSUME AsmInv, NEW e, Throw(e) PROVE AsmInv'
BY AsmUnchanged DEF Throw

LEMMA DefineLabelKeeps == ASSUME AsmInv, NEW h \in Handles, DefineLabel(h) PROVE AsmInv'
PROOF
<1>1. CASE \E e : Throw(e)
  BY <1>1, ThrowKeeps
<1>2. CASE ~ \E e : Throw(e)
  <2>1. /\ label[h].alive /\ ~ Redefined(defs, Key(0, Id(h))) /\ ~ Unreachable(Key(0, Id(h)), size)
        /\ Define(defs, Key(0, Id(h)), size, Object(h)) /\ Identify(h)
        /\ label' = [label EXCEPT ![h] = [@ EXCEPT !.id = Id(h), !.mgr = TRUE]]
        /\ refCount' = With(refCount, Id(h), 1)
        /\ UNCHANGED <<size, depth, error, thing, entered>>
    BY <1>2 DEF DefineLabel
  <2>2. Key(0, Id(h)) \notin DOMAIN defs /\ ~ label[h].mgr
    BY <2>1, AliveIsDefined DEF Redefined, AsmInv
  <2>3. label[h] \in LabelObjects /\ label \in [Handles -> LabelObjects] /\ labelId \in Nat \ {0}
        /\ label[h].id < labelId
    BY DEF AsmInv, ObjectInv
  <2>4. Id(h) \in Nat
    BY <2>2, ObjectAlone DEF AsmInv
  <2>5. /\ label' \in [Handles -> LabelObjects]
        /\ label'[h].id = Id(h) /\ label'[h].mgr /\ label'[h].alive
        /\ \A g \in Handles : g # h => label'[g] = label[g]
    <3>1. /\ [label[h] EXCEPT !.id = Id(h), !.mgr = TRUE] \in LabelObjects
          /\ [label[h] EXCEPT !.id = Id(h), !.mgr = TRUE].id = Id(h)
          /\ [label[h] EXCEPT !.id = Id(h), !.mgr = TRUE].mgr
          /\ [label[h] EXCEPT !.id = Id(h), !.mgr = TRUE].alive <=> label[h].alive
      BY <2>3, <2>4 DEF LabelObjects
    <3> QED
      BY <2>1, <2>3, <3>1
  <2>6. labelId' \in Nat /\ labelId' >= labelId /\ Id(h) < labelId'
    <3>1. label[h].id \in Nat
      BY <2>3 DEF LabelObjects
    <3> QED
      BY <2>1, <2>3, <3>1 DEF Identify, Id
  <2>7. size \in 0 .. size
    BY DEF AsmInv, RefInv
  <2> QED
    BY <2>1, <2>2, <2>5, <2>6, <2>7, PlaceObject
<1> QED
  BY <1>1, <1>2

LEMMA AssignLabelKeeps ==
  ASSUME AsmInv, NEW dst \in Handles, NEW src \in Handles, AssignLabel(dst, src)
  PROVE  AsmInv'
PROOF
<1>1. CASE \E e : Throw(e)
  BY <1>1, ThrowKeeps
<1>2. CASE ~ \E e : Throw(e)
  <2> DEFINE offset == defs[Key(0, label[src].id)]
  <2>1. /\ label[dst].alive /\ ~ label[dst].mgr /\ Awaited(dst) \in AssignTo
        /\ Key(0, label[src].id) \in DOMAIN defs
        /\ ~ Redefined(defs, Key(0, label[dst].id)) /\ ~ Unreachable(Key(0, label[dst].id), offset)
        /\ Define(defs, Key(0, label[dst].id), offset, Object(dst))
        /\ label' = [label EXCEPT ![dst].mgr = TRUE]
        /\ refCount' = With(refCount, label[dst].id, 1)
        /\ UNCHANGED <<size, depth, labelId, error, thing, entered>>
    BY <1>2 DEF AssignLabel
  <2>2. Awaited(dst) = "jumped to"
    BY <2>1, AssemblerAssumption
  <2>3. Id(dst) = label[dst].id
        /\ \A r \in Waiting(Key(0, label[dst].id)) : r.mode # "absolute"
    BY <2>2 DEF Awaited, Id
  <2>4. offset \in 0 .. size
    BY <2>1 DEF AsmInv, DefsInv
  <2>5. label[dst] \in LabelObjects /\ label \in [Handles -> LabelObjects] /\ labelId \in Nat
        /\ label[dst].id < labelId
    BY DEF AsmInv, ObjectInv
  <2>6. /\ label' \in [Handles -> LabelObjects]
        /\ label'[dst].id = Id(dst) /\ label'[dst].mgr /\ label'[dst].alive
        /\ \A g \in Handles : g # dst => label'[g] = label[g]
    <3>1. /\ [label[dst] EXCEPT !.mgr = TRUE] \in LabelObjects
          /\ [label[dst] EXCEPT !.mgr = TRUE].id = label[dst].id
          /\ [label[dst] EXCEPT !.mgr = TRUE].mgr
          /\ [label[dst] EXCEPT !.mgr = TRUE].alive <=> label[dst].alive
      BY <2>5 DEF LabelObjects
    <3> QED
      BY <2>1, <2>3, <2>5, <3>1
  <2>7. labelId' \in Nat /\ labelId' >= labelId /\ Id(dst) < labelId'
    BY <2>1, <2>3, <2>5
  <2>8. PICK n \in 0 .. size : n = offset
    BY <2>4
  <2> HIDE DEF offset
  <2>9. /\ Key(0, Id(dst)) \notin DOMAIN defs /\ ~ Unreachable(Key(0, Id(dst)), n)
        /\ Define(defs, Key(0, Id(dst)), n, Object(dst)) /\ refCount' = With(refCount, Id(dst), 1)
        /\ \A r \in undefs : r.key = Key(0, Id(dst)) /\ r.mode = "absolute" => n = size
    BY <2>1, <2>3, <2>8 DEF Redefined, Waiting
  <2> QED
    BY <2>1, <2>6, <2>7, <2>9, PlaceObject
<1> QED
  BY <1>1, <1>2

LEMMA CopyLabelKeeps ==
  ASSUME AsmInv, NEW h \in Handles, NEW from \in Handles, CopyLabel(h, from)
  PROVE  AsmInv'
PROOF
<1>1. /\ label[h] = Fresh /\ thing[h] = h /\ label[from].alive /\ h # from
      /\ label[from].mgr \/ label[from].id = 0
      /\ label' = [label EXCEPT ![h] = label[from]]
      /\ refCount' = (IF label[from].mgr THEN [refCount EXCEPT ![label[from].id] = @ + 1] ELSE refCount)
      /\ thing' = (IF label[from].mgr THEN [thing EXCEPT ![h] = thing[from]] ELSE thing)
      /\ UNCHANGED <<size, defs, undefs, depth, labelId, error, refs, place, entered>>
  BY DEF CopyLabel
<1>2. /\ label \in [Handles -> LabelObjects] /\ thing \in [Handles -> Handles]
      /\ label[h].id = 0 /\ ~ label[h].mgr /\ label[h].alive
  BY <1>1 DEF AsmInv, ObjectInv, Fresh
<1>3. RefInv' /\ NameInv' /\ DefsInv'
  BY <1>1, RefFrame, NameFrame, Widths DEF AsmInv, DefsInv, RefInv
<1>4. ASSUME NEW r \in undefs PROVE WaitsFor(r)'
  <2>1. \A g \in Handles : label[g].id # 0 => label'[g].id = label[g].id /\ thing'[g] = thing[g]
    BY <1>1, <1>2
  <2>2. \A k \in TextKeys : Plain(k) => Plain(k)' /\ Says(k)' = Says(k)
    BY <1>1 DEF Plain, Open, Says
  <2>3. r.key \in ObjectKeys \cup TextKeys /\ WaitsFor(r)
    BY DEF AsmInv, RefInv, Waits
  <2> QED
    BY <1>1, <2>1, <2>2, <2>3, WaitFrame
<1>5. CASE ~ label[from].mgr
  <2>1. label[from].id = 0 /\ label[from] \in LabelObjects /\ Fresh \in LabelObjects
    BY <1>1, <1>2, <1>5 DEF Fresh, LabelObjects
  <2>2. label[from].alive /\ ~ label[from].mgr /\ label[from].id = 0
    BY <1>1, <1>5, <2>1
  <2>3. \A g \in Handles : label'[g].id = label[g].id /\ (label'[g].mgr <=> label[g].mgr)
                           /\ (label'[g].alive <=> label[g].alive) /\ label'[g] \in LabelObjects
    BY <1>1, <1>2, <2>1, <2>2
  <2>4. thing' = thing /\ refCount' = refCount /\ label' \in [Handles -> LabelObjects]
    BY <1>1, <1>2, <1>5
  <2>5. \A id : Users(id)' = Users(id)
    BY <2>3 DEF Users
  <2>6. \A g \in Handles : Object(g)' = Object(g)
    BY <2>4 DEF Object
  <2>7. \A f, g \in Handles : Same(f, g)' <=> Same(f, g)
    BY <2>3, <2>4 DEF Same
  <2>8. ObjectInv'
    <3> HIDE DEF Users, Object, Same
    <3> QED
      BY <1>1, <2>3, <2>4, <2>5, <2>6, <2>7 DEF AsmInv, ObjectInv
  <2> QED
    BY <1>1, <1>3, <1>4, <2>8 DEF AsmInv
<1>6. CASE label[from].mgr
  <2>1. PICK id \in Nat \ {0} : id = label[from].id
    BY <1>2, <1>6 DEF AsmInv, ObjectInv, LabelObjects
  <2>2. from \in Users(id) /\ id \in DOMAIN refCount /\ h \notin Users(id)
    BY <1>1, <1>2, <1>6, <2>1 DEF AsmInv, ObjectInv, Users
  <2>3. /\ label' \in [Handles -> LabelObjects] /\ thing' \in [Handles -> Handles]
        /\ label'[h] = label[from] /\ thing'[h] = thing[from]
        /\ \A g \in Handles : g # h => label'[g] = label[g] /\ thing'[g] = thing[g]
        /\ DOMAIN refCount' = DOMAIN refCount /\ refCount'[id] = refCount[id] + 1
        /\ \A n \in DOMAIN refCount : n # id => refCount'[n] = refCount[n]
    BY <1>1, <1>2, <1>6, <2>1, <2>2
  <2>4. Users(id)' = Users(id) \cup {h} /\ \A n \in Nat : n # id => Users(n)' = Users(n)
    <3>1. \A g \in Handles : g \in Users(id)' <=> g \in Users(id) \/ g = h
      BY <1>1, <1>6, <2>1, <2>3 DEF Users
    <3>2. \A n \in Nat : n # id => \A g \in Handles : g \in Users(n)' <=> g \in Users(n)
      BY <1>2, <2>1, <2>3 DEF Users
    <3>3. \A n : Users(n) \subseteq Handles /\ Users(n)' \subseteq Handles
      BY DEF Users
    <3> HIDE DEF Users
    <3> QED
      BY <3>1, <3>2, <3>3
  <2>5. Cardinality(Users(id) \cup {h}) = Cardinality(Users(id)) + 1
    <3>1. IsFiniteSet(Users(id))
      BY AssemblerAssumption, FS_Subset DEF Users
    <3> QED
      BY <2>2, <3>1, FS_AddElement
  <2>6. /\ Object(h)' = Object(from)
        /\ \A g \in Handles : g # h => Object(g)' = Object(g)
    BY <2>3 DEF Object
  <2>7. ASSUME NEW g \in Handles
        PROVE  /\ label'[g].id < labelId'
               /\ label'[g].mgr => label'[g].id # 0
               /\ ~ label'[g].mgr => thing'[g] = g
               /\ label'[g].mgr <=> Object(g)' \in DOMAIN place'
               /\ label'[g].alive /\ label'[g].mgr => defs'[Key(0, label'[g].id)] = place'[Object(g)']
    <3>1. CASE g = h
      BY <1>1, <1>6, <2>3, <2>6, <3>1 DEF AsmInv, ObjectInv
    <3>2. CASE g # h
      BY <1>1, <2>3, <2>6, <3>2 DEF AsmInv, ObjectInv
    <3> QED
      BY <3>1, <3>2
  <2>8. ASSUME NEW f \in Handles, NEW g \in Handles, f # g,
               (label'[f].id = label'[g].id /\ label'[f].id # 0) \/ thing'[f] = thing'[g]
        PROVE  Same(f, g)'
    <3>1. \A x \in Handles : x # h /\ (x = from \/ Same(x, from)) => Same(x, h)' /\ Same(h, x)'
      BY <1>1, <1>6, <2>3 DEF Same
    <3>2. \A x \in Handles : x # h /\ (label[x].id = id \/ thing[x] = thing[from]) => x = from \/ Same(x, from)
      BY <2>1 DEF AsmInv, ObjectInv
    <3>3. CASE f # h /\ g # h
      <4>1. Same(f, g)
        BY <2>3, <2>8, <3>3 DEF AsmInv, ObjectInv
      <4> QED
        BY <2>3, <3>3, <4>1 DEF Same
    <3>4. CASE f = h
      BY <2>1, <2>3, <2>8, <3>1, <3>2, <3>4
    <3>5. CASE g = h
      BY <2>1, <2>3, <2>8, <3>1, <3>2, <3>5
    <3> QED
      BY <3>3, <3>4, <3>5
  <2>9. ASSUME NEW n \in Nat \ {0}
        PROVE  /\ n \in DOMAIN refCount' <=> Users(n)' # {}
               /\ n \in DOMAIN refCount' => refCount'[n] = Cardinality(Users(n)')
               /\ n \in DOMAIN refCount' <=> Key(0, n) \in DOMAIN defs'
    <3>1. CASE n = id
      BY <1>1, <2>2, <2>3, <2>4, <2>5, <3>1 DEF AsmInv, ObjectInv
    <3>2. CASE n # id
      BY <1>1, <2>3, <2>4, <3>2 DEF AsmInv, ObjectInv
    <3> QED
      BY <3>1, <3>2
  <2>10. ObjectInv'
    <3> HIDE DEF Users, Object, Same
    <3> QED
      BY <1>1, <2>3, <2>7, <2>8, <2>9 DEF AsmInv, ObjectInv
  <2> QED
    BY <1>1, <1>3, <1>4, <2>10 DEF AsmInv
<1> QED
  BY <1>5, <1>6

LEMMA DestroyLabelKeeps == ASSUME AsmInv, NEW h \in Handles, DestroyLabel(h) PROVE AsmInv'
PROOF
<1>1. /\ label[h].alive /\ label' = [label EXCEPT ![h].alive = FALSE]
      /\ UNCHANGED <<size, undefs, depth, labelId, error, refs, place, thing, entered>>
  BY DEF DestroyLabel
<1>2. label \in [Handles -> LabelObjects] /\ label[h] \in LabelObjects
  BY DEF AsmInv, ObjectInv
<1>3. /\ label' \in [Handles -> LabelObjects]
      /\ label'[h].id = label[h].id /\ (label'[h].mgr <=> label[h].mgr) /\ ~ label'[h].alive
      /\ \A g \in Handles : g # h => label'[g] = label[g]
  <2>1. /\ [label[h] EXCEPT !.alive = FALSE] \in LabelObjects
        /\ [label[h] EXCEPT !.alive = FALSE].id = label[h].id
        /\ [label[h] EXCEPT !.alive = FALSE].mgr <=> label[h].mgr
        /\ ~ [label[h] EXCEPT !.alive = FALSE].alive
    BY <1>2 DEF LabelObjects
  <2> QED
    BY <1>1, <1>2, <2>1
<1>4. PICK id \in Nat : id = label[h].id
  BY <1>2 DEF LabelObjects
<1>5. Users(id)' = Users(id) \ {h} /\ \A n : n # id => Users(n)' = Users(n)
  <2>1. \A g \in Handles : g \in Users(id)' <=> g \in Users(id) /\ g # h
    BY <1>3, <1>4 DEF Users
  <2>2. \A n : n # id => \A g \in Handles : g \in Users(n)' <=> g \in Users(n)
    BY <1>3, <1>4 DEF Users
  <2>3. \A n : Users(n) \subseteq Handles /\ Users(n)' \subseteq Handles
    BY DEF Users
  <2> HIDE DEF Users
  <2> QED
    BY <2>1, <2>2, <2>3
<1>6. /\ label[h].mgr => id # 0 /\ h \in Users(id) /\ id \in DOMAIN refCount
                         /\ refCount[id] = Cardinality(Users(id))
      /\ ~ label[h].mgr => Users(id)' = Users(id)
  <2>1. label[h].mgr => id # 0 /\ h \in Users(id)
    BY <1>1, <1>4 DEF AsmInv, ObjectInv, Users
  <2>2. ~ label[h].mgr => h \notin Users(id)
    BY DEF Users
  <2> QED
    BY <1>5, <2>1, <2>2 DEF AsmInv, ObjectInv
<1>7. IsFiniteSet(Users(id)) /\ Cardinality(Users(id)) \in Nat
      /\ (h \in Users(id) => Cardinality(Users(id) \ {h}) = Cardinality(Users(id)) - 1)
  <2>1. IsFiniteSet(Users(id))
    BY AssemblerAssumption, FS_Subset DEF Users
  <2> QED
    BY <2>1, FS_CardinalityType, FS_RemoveElement
<1> DEFINE gone == label[h].mgr /\ refCount[id] = 1
<1>8. /\ gone => /\ DOMAIN refCount' = DOMAIN refCount \ {id} /\ DOMAIN defs' = DOMAIN defs \ {Key(0, id)}
                 /\ Users(id)' = {}
      /\ ~ gone => DOMAIN refCount' = DOMAIN refCount /\ defs' = defs
                   /\ (label[h].mgr => refCount'[id] = refCount[id] - 1 /\ Users(id)' # {})
      /\ \A k \in DOMAIN defs' : defs'[k] = defs[k]
      /\ \A n \in DOMAIN refCount' : n # id \/ ~ label[h].mgr => refCount'[n] = refCount[n]
  <2>1. CASE gone
    <3>1. refCount' = Without(refCount, id) /\ defs' = Without(defs, Key(0, id))
      BY <1>4, <1>6, <2>1 DEF DestroyLabel
    <3>2. Cardinality(Users(id) \ {h}) = 0
      BY <1>6, <1>7, <2>1
    <3>3. Users(id) \ {h} = {}
      BY <1>7, <3>2, FS_EmptySet, FS_Subset
    <3> QED
      BY <1>5, <2>1, <3>1, <3>3 DEF Without
  <2>2. CASE label[h].mgr /\ refCount[id] # 1
    <3>1. refCount' = [refCount EXCEPT ![id] = @ - 1] /\ UNCHANGED defs
      BY <1>4, <1>6, <2>2 DEF DestroyLabel
    <3>2. Users(id) \ {h} # {}
      <4>1. Cardinality(Users(id) \ {h}) # 0
        BY <1>6, <1>7, <2>2
      <4> QED
        BY <4>1, FS_EmptySet
    <3> QED
      BY <1>5, <1>6, <2>2, <3>1, <3>2
  <2>3. CASE ~ label[h].mgr
    BY <2>3 DEF DestroyLabel
  <2> QED
    BY <2>1, <2>2, <2>3
<1>9. \A k \in TextKeys : (k \in DOMAIN defs' <=> k \in DOMAIN defs) /\ (k \in DOMAIN defs => defs'[k] = defs[k])
  <2>1. \A k \in TextKeys : k # Key(0, id)
    BY KeyFacts, Widths
  <2> QED
    BY <1>8, <2>1
<1>10. RefInv' /\ NameInv' /\ DefsInv'
  <2>1. RefInv' /\ NameInv'
    BY <1>1, <1>9, RefFrame, NameFrame, Widths DEF AsmInv, RefInv
  <2> QED
    BY <1>1, <1>8, <2>1 DEF AsmInv, DefsInv
<1>11. ASSUME NEW r \in undefs PROVE WaitsFor(r)'
  <2>1. \A g \in Handles : label[g].id # 0 => label'[g].id = label[g].id /\ thing'[g] = thing[g]
    BY <1>1, <1>3
  <2>2. \A k \in TextKeys : Plain(k) => Plain(k)' /\ Says(k)' = Says(k)
    BY <1>1 DEF Plain, Open, Says
  <2>3. r.key \in ObjectKeys \cup TextKeys /\ WaitsFor(r)
    BY DEF AsmInv, RefInv, Waits
  <2>4. Forward \in DOMAIN defs' <=> Forward \in DOMAIN defs
    BY <1>9, KeyFacts
  <2> QED
    BY <1>1, <2>1, <2>2, <2>3, <2>4, WaitFrame
<1>12. ObjectInv'
  <2>1. \A g \in Handles : Object(g)' = Object(g)
    BY <1>1 DEF Object
  <2>2. \A f, g \in Handles : Same(f, g)' <=> Same(f, g)
    BY <1>1, <1>3 DEF Same
  <2>3. ASSUME NEW g \in Handles
        PROVE  /\ label'[g].id < labelId'
               /\ label'[g].mgr => label'[g].id # 0
               /\ ~ label'[g].mgr => thing'[g] = g
               /\ label'[g].mgr <=> Object(g)' \in DOMAIN place'
    <3>1. label'[g].id = label[g].id /\ (label'[g].mgr <=> label[g].mgr)
      BY <1>3
    <3> QED
      BY <1>1, <2>1, <3>1 DEF AsmInv, ObjectInv
  <2>4. ASSUME NEW g \in Handles, label'[g].alive, label'[g].mgr
        PROVE  defs'[Key(0, label'[g].id)] = place'[Object(g)']
    <3>1. g # h /\ label'[g] = label[g]
      BY <1>3, <2>4
    <3>2. Key(0, label[g].id) \in DOMAIN defs /\ defs[Key(0, label[g].id)] = place[Object(g)]
      BY <2>4, <3>1, AliveIsDefined DEF AsmInv, ObjectInv, Id
    <3>3. label[g].id = id => ~ gone
      BY <1>8, <2>4, <3>1 DEF Users
    <3>4. Key(0, label[g].id) \in DOMAIN defs'
      BY <1>8, <3>2, <3>3, KeyFacts
    <3> QED
      BY <1>1, <1>8, <2>1, <3>1, <3>2, <3>4
  <2>5. ASSUME NEW f \in Handles, NEW g \in Handles, f # g,
               (label'[f].id = label'[g].id /\ label'[f].id # 0) \/ thing'[f] = thing'[g]
        PROVE  Same(f, g)'
    <3>1. label'[f].id = label[f].id /\ label'[g].id = label[g].id /\ thing' = thing
      BY <1>1, <1>3
    <3>2. Same(f, g)
      BY <2>5, <3>1 DEF AsmInv, ObjectInv
    <3> QED
      BY <2>2, <3>2
  <2>6. ASSUME NEW n \in Nat \ {0}
        PROVE  /\ n \in DOMAIN refCount' <=> Users(n)' # {}
               /\ n \in DOMAIN refCount' => refCount'[n] = Cardinality(Users(n)')
               /\ n \in DOMAIN refCount' <=> Key(0, n) \in DOMAIN defs'
    <3>1. CASE n # id
      <4>1. Key(0, n) # Key(0, id) /\ Users(n)' = Users(n)
        BY <1>5, <3>1, KeyFacts
      <4>2. n \in DOMAIN refCount' <=> n \in DOMAIN refCount
        BY <1>8, <3>1
      <4>3. Key(0, n) \in DOMAIN defs' <=> Key(0, n) \in DOMAIN defs
        BY <1>8, <4>1
      <4>4. n \in DOMAIN refCount' => refCount'[n] = refCount[n]
        BY <1>8, <3>1
      <4> HIDE DEF Users, gone
      <4> QED
        BY <4>1, <4>2, <4>3, <4>4 DEF AsmInv, ObjectInv
    <3>2. CASE n = id /\ label[h].mgr
      <4> HIDE DEF Users
      <4>1. CASE gone
        BY <1>8, <3>2, <4>1
      <4>2. CASE ~ gone
        <5>1. refCount'[n] = refCount[n] - 1 /\ Users(n)' # {} /\ n \in DOMAIN refCount'
          BY <1>6, <1>8, <3>2, <4>2
        <5>2. Cardinality(Users(n)') = Cardinality(Users(n)) - 1
          BY <1>5, <1>6, <1>7, <3>2
        <5>3. Key(0, n) \in DOMAIN defs'
          BY <1>6, <1>8, <3>2, <4>2 DEF AsmInv, ObjectInv
        <5> QED
          BY <1>6, <3>2, <5>1, <5>2, <5>3
      <4> QED
        BY <4>1, <4>2
    <3>3. CASE n = id /\ ~ label[h].mgr
      <4> HIDE DEF Users
      <4> QED
        BY <1>6, <1>8, <3>3 DEF AsmInv, ObjectInv
    <3> QED
      BY <3>1, <3>2, <3>3
  <2>7. DOMAIN refCount' \subseteq Nat \ {0} /\ labelId' \in Nat \ {0} /\ thing' \in [Handles -> Handles]
    BY <1>1, <1>8 DEF AsmInv, ObjectInv
  <2> HIDE DEF Users, Object, Same
  <2> QED
    BY <1>3, <2>3, <2>4, <2>5, <2>6, <2>7 DEF ObjectInv
<1> QED
  BY <1>1, <1>10, <1>11, <1>12 DEF AsmInv

LEMMA ReferToLabelKeeps == ASSUME AsmInv, NEW h \in Handles, ReferToLabel(h) PROVE AsmInv'
PROOF
<1>1. /\ label[h].alive /\ Refer(Key(0, Id(h)), Object(h)) /\ Identify(h)
      /\ label' = [label EXCEPT ![h].id = Id(h)]
      /\ UNCHANGED <<defs, depth, refCount, error, place, thing, entered>>
  BY DEF ReferToLabel
<1>2. label \in [Handles -> LabelObjects] /\ label[h] \in LabelObjects /\ labelId \in Nat \ {0}
      /\ label[h].id \in Nat /\ label[h].id < labelId
  BY DEF AsmInv, ObjectInv, LabelObjects
<1>3. /\ Id(h) \in Nat \ {0} /\ Key(0, Id(h)) \in ObjectKeys
      /\ (label[h].id # 0 => Id(h) = label[h].id) /\ (label[h].id = 0 => Id(h) = labelId)
  BY <1>2, KeyFacts DEF Id
<1>4. PICK id \in Nat \ {0} : id = Id(h)
  BY <1>3
<1>5. PICK m \in ObjectMeanings : m = Object(h) /\ m \in Meanings
  BY ObjectMeansObject DEF AsmInv
<1>6. PICK key \in ObjectKeys : key = Key(0, id)
  BY <1>3, <1>4
<1>7. IF key \in DOMAIN defs THEN m \in DOMAIN place /\ defs[key] = place[m] ELSE m \notin DOMAIN place
  BY <1>1, <1>4, <1>5, <1>6, AliveIsDefined DEF AsmInv, ObjectInv
<1>8. /\ RefInv' /\ size' >= size
      /\ \A e \in DOMAIN refs : e \in DOMAIN refs' /\ refs'[e] = refs[e]
      /\ \A r \in undefs' : r \in undefs \/ (r.key = key /\ refs'[r.end].meaning = m)
  <2>1. Refer(key, m) /\ UNCHANGED place
    BY <1>1, <1>4, <1>5, <1>6
  <2> QED
    BY <1>5, <1>6, <1>7, <2>1, ReferKeeps DEF AsmInv
<1>9. NameInv'
  BY <1>1, NameFrame DEF AsmInv
<1>10. DefsInv'
  <2>1. size \in Int /\ size' \in Int
    BY <1>8 DEF AsmInv, RefInv
  <2> QED
    BY <1>1, <1>8, <2>1 DEF AsmInv, DefsInv
<1>11. /\ label' \in [Handles -> LabelObjects]
       /\ label'[h].id = id /\ (label'[h].mgr <=> label[h].mgr) /\ (label'[h].alive <=> label[h].alive)
       /\ \A g \in Handles : g # h => label'[g] = label[g]
  <2>1. /\ [label[h] EXCEPT !.id = id] \in LabelObjects
        /\ [label[h] EXCEPT !.id = id].id = id
        /\ [label[h] EXCEPT !.id = id].mgr <=> label[h].mgr
        /\ [label[h] EXCEPT !.id = id].alive <=> label[h].alive
    BY <1>2 DEF LabelObjects
  <2> QED
    BY <1>1, <1>2, <1>4, <2>1
<1>12. ASSUME NEW r \in undefs' PROVE WaitsFor(r)'
  <2>1. CASE r \in undefs
    <3>1. \A g \in Handles : label[g].id # 0 => label'[g].id = label[g].id /\ thing'[g] = thing[g]
      BY <1>1, <1>3, <1>4, <1>11
    <3>2. \A k \in TextKeys : Plain(k) => Plain(k)' /\ Says(k)' = Says(k)
      BY <1>1 DEF Plain, Open, Says
    <3>3. r.key \in ObjectKeys \cup TextKeys /\ WaitsFor(r) /\ r.end \in DOMAIN refs
      BY <2>1 DEF AsmInv, RefInv, Waits, Agrees
    <3> QED
      BY <1>1, <1>8, <3>1, <3>2, <3>3, WaitFrame
  <2>2. CASE r.key = key /\ refs'[r.end].meaning = m
    <3>1. label'[h].id = r.key[2] /\ refs'[r.end].meaning = Object(h)'
      BY <1>1, <1>5, <1>6, <1>11, <2>2, KeyFacts DEF Object
    <3> QED
      BY <2>2, <3>1 DEF WaitsFor
  <2> QED
    BY <1>8, <2>1, <2>2
<1>13. ObjectInv'
  <2>1. \A g \in Handles : Object(g)' = Object(g)
    BY <1>1 DEF Object
  <2>2. \A g \in Handles : label[g].mgr => label'[g].id = label[g].id
    BY <1>3, <1>4, <1>11 DEF AsmInv, ObjectInv
  <2>3. \A f, g \in Handles : Same(f, g) => Same(f, g)'
    BY <1>1, <1>11, <2>2 DEF Same
  <2>4. \A n : Users(n)' = Users(n)
    <3>1. \A n : \A g \in Handles : g \in Users(n)' <=> g \in Users(n)
      BY <1>11, <2>2 DEF Users
    <3>2. \A n : Users(n) \subseteq Handles /\ Users(n)' \subseteq Handles
      BY DEF Users
    <3> HIDE DEF Users
    <3> QED
      BY <3>1, <3>2
  <2>5. labelId' \in Nat \ {0} /\ labelId' >= labelId /\ id < labelId'
    BY <1>1, <1>2, <1>3, <1>4 DEF Identify
  <2>6. ASSUME NEW g \in Handles
        PROVE  /\ label'[g].id < labelId'
               /\ label'[g].mgr => label'[g].id # 0
               /\ ~ label'[g].mgr => thing'[g] = g
               /\ label'[g].mgr <=> Object(g)' \in DOMAIN place'
               /\ label'[g].alive /\ label'[g].mgr => defs'[Key(0, label'[g].id)] = place'[Object(g)']
    <3>1. label[g].id \in Nat /\ label[g].id < labelId /\ (label'[g].id = label[g].id \/ label'[g].id = id)
          /\ (label'[g].mgr <=> label[g].mgr) /\ (label'[g].alive <=> label[g].alive)
      BY <1>11 DEF AsmInv, ObjectInv, LabelObjects
    <3>2. label'[g].id < labelId'
      BY <1>2, <2>5, <3>1
    <3> HIDE DEF Object
    <3> QED
      BY <1>1, <2>1, <2>2, <3>1, <3>2 DEF AsmInv, ObjectInv
  <2>7. ASSUME NEW f \in Handles, NEW g \in Handles, f # g,
               (label'[f].id = label'[g].id /\ label'[f].id # 0) \/ thing'[f] = thing'[g]
        PROVE  Same(f, g)'
    <3>1. CASE label[h].id # 0
      <4>1. \A x \in Handles : label'[x].id = label[x].id /\ thing'[x] = thing[x]
        BY <1>1, <1>3, <1>4, <1>11, <3>1
      <4>2. Same(f, g)
        BY <2>7, <4>1 DEF AsmInv, ObjectInv
      <4> QED
        BY <2>3, <4>2
    <3>2. CASE label[h].id = 0
      <4>1. ~ label[h].mgr /\ id = labelId
        BY <1>3, <1>4, <3>2 DEF AsmInv, ObjectInv
      <4>2. \A x \in Handles : x # h => label'[x].id = label[x].id /\ label[x].id # id
        BY <1>2, <1>11, <4>1 DEF AsmInv, ObjectInv, LabelObjects
      <4>3. Same(f, g)
        BY <1>1, <1>11, <2>7, <4>1, <4>2 DEF AsmInv, ObjectInv, Same
      <4> QED
        BY <2>3, <4>3
    <3> QED
      BY <3>1, <3>2
  <2> HIDE DEF Users, Object, Same
  <2> QED
    BY <1>1, <1>11, <2>4, <2>5, <2>6, <2>7 DEF AsmInv, ObjectInv
<1> QED
  BY <1>8, <1>9, <1>10, <1>12, <1>13 DEF AsmInv

-----------------------------------------------------------------------------
(* Strings.                                                                *)
LEMMA ObjectStays ==
  ASSUME AsmInv, UNCHANGED <<label, labelId, refCount, thing>>,
         NEW m \in TextMeanings, NEW offset,
         place' = With(place, m, offset),
         \A k \in ObjectKeys : (k \in DOMAIN defs' <=> k \in DOMAIN defs) /\ (k \in DOMAIN defs => defs'[k] = defs[k])
  PROVE  ObjectInv'
PROOF
<1>1. \A x \in ObjectMeanings : (x \in DOMAIN place' <=> x \in DOMAIN place) /\ (x \in DOMAIN place => place'[x] = place[x])
  BY MeaningFacts DEF With
<1> QED
  BY <1>1, ObjectFrame DEF AsmInv

LEMMA DefineNameKeeps ==
  ASSUME AsmInv, NEW name \in (Names \ {"@@"}) \cup LocalNames, DefineName(name)
  PROVE  AsmInv'
PROOF
<1>1. CASE \E e : Throw(e)
  BY <1>1, ThrowKeeps
<1>2. CASE ~ \E e : Throw(e)
  <2>1. PICK key : key = Key(Scope(name), name)
    OBVIOUS
  <2>2. /\ key \notin DOMAIN defs /\ ~ Unreachable(key, size) /\ Define(defs, key, size, Meaning(name))
        /\ UNCHANGED <<size, depth, labelId, error, thing, label, refCount, entered>>
    BY <1>2, <2>1 DEF DefineName, DefineInner, Redefined
  <2>3. key \in TextKeys /\ Plain(key) /\ Says(key) = Meaning(name)
    <3>1. Scope(name) \in 1 .. MaxDepth /\ name \in Texts /\ name \notin {"@b", "@f"}
      BY Spellings, Widths DEF Scope, Texts, AsmInv, NameInv, ScopesInv
    <3>2. key \in TextKeys /\ key[1] = Scope(name) /\ key[2] = name
      BY <2>1, <3>1, KeyFacts
    <3>3. Plain(key)
      BY <3>1, <3>2, Spellings, Widths DEF Plain, Open, Scope, AsmInv, NameInv, ScopesInv
    <3> QED
      BY <3>1, <3>2, <3>3 DEF Says, Meaning
  <2>4. PICK m \in TextMeanings : m = Says(key) /\ m \in Meanings /\ m \notin DOMAIN place
    BY <2>2, <2>3, PlainFacts DEF AsmInv, NameInv
  <2>5. \A r \in undefs : r.key = key <=> refs[r.end].meaning = m
    <3> SUFFICES ASSUME NEW r \in undefs PROVE r.key = key <=> refs[r.end].meaning = m
      OBVIOUS
    <3>1. WaitsFor(r) /\ ScopesInv
      BY DEF AsmInv, NameInv
    <3>2. CASE r.key \in ObjectKeys /\ \E h \in Handles : label[h].id = r.key[2] /\ refs[r.end].meaning = Object(h)
      BY <2>3, <3>2, KeyFacts, ObjectMeansObject DEF AsmInv
    <3>3. CASE r.key \in TextKeys /\ Plain(r.key) /\ refs[r.end].meaning = Says(r.key)
      BY <2>3, <2>4, <3>1, <3>3, PlainFacts
    <3>4. CASE r.key = (IF Forward \in DOMAIN defs THEN Backward ELSE Forward)
                 /\ refs[r.end].meaning = Number(entered.anonymous + 1)
      BY <2>3, <2>4, <3>1, <3>4, PlainFacts
    <3> QED
      BY <3>1, <3>2, <3>3, <3>4 DEF WaitsFor
  <2>6. size \in 0 .. size
    BY DEF AsmInv, RefInv
  <2>7. /\ RefInv' /\ defs' = With(defs, key, size) /\ place' = With(place, m, size)
        /\ undefs' = {r \in undefs : r.key # key}
        /\ \A e \in DOMAIN refs : refs'[e].meaning = refs[e].meaning
    BY <2>2, <2>3, <2>4, <2>5, <2>6, DefineKeeps DEF AsmInv
  <2>8. /\ DOMAIN defs' = DOMAIN defs \cup {key} /\ defs'[key] = size
        /\ \A k \in DOMAIN defs : defs'[k] = defs[k]
        /\ DOMAIN place' = DOMAIN place \cup {m} /\ place'[m] = size
        /\ \A x \in DOMAIN place : place'[x] = place[x]
    BY <2>2, <2>4, <2>7 DEF With
  <2>9. ObjectInv'
    BY <2>2, <2>3, <2>7, <2>8, KeyFacts, ObjectStays
  <2>10. DefsInv'
    BY <2>2, <2>3, <2>6, <2>8 DEF AsmInv, DefsInv
  <2>11. \A k : (Open(k)' <=> Open(k)) /\ (Plain(k)' <=> Plain(k)) /\ Says(k)' = Says(k)
    BY <2>2 DEF Open, Plain, Says
  <2>12. key # Forward /\ key # Backward /\ (Forward \in DOMAIN defs' <=> Forward \in DOMAIN defs)
         /\ (Backward \in DOMAIN defs' <=> Backward \in DOMAIN defs)
         /\ \A n : m # Number(n)
    BY <2>3, <2>4, <2>8, PlainFacts DEF AsmInv, NameInv
  <2>13. NameInv'
    <3>1. ScopesInv'
      BY <2>2 DEF AsmInv, NameInv, ScopesInv
    <3>2. \A k \in TextKeys : k \in DOMAIN defs' => Open(k)
      BY <2>3, <2>8 DEF AsmInv, NameInv, Plain
    <3>3. ASSUME NEW k \in TextKeys, Plain(k)
          PROVE  /\ k \in DOMAIN defs' <=> Says(k) \in DOMAIN place'
                 /\ k \in DOMAIN defs' => defs'[k] = place'[Says(k)]
      <4>1. CASE k = key
        BY <2>4, <2>8, <4>1
      <4>2. CASE k # key
        <5>1. Says(k) # m
          BY <2>3, <2>4, <3>3, <4>2, PlainFacts DEF AsmInv, NameInv
        <5>2. /\ k \in DOMAIN defs <=> Says(k) \in DOMAIN place
              /\ k \in DOMAIN defs => defs[k] = place[Says(k)]
          BY <3>3 DEF AsmInv, NameInv
        <5> QED
          BY <2>8, <4>2, <5>1, <5>2
      <4> QED
        BY <4>1, <4>2
    <3>4. ASSUME NEW x \in LocalNames, NEW n \in Nat, <<x, n>> \in DOMAIN place'
          PROVE  n <= entered.last
      <4>1. CASE <<x, n>> \in DOMAIN place
        BY <4>1 DEF AsmInv, NameInv
      <4>2. CASE <<x, n>> = m
        <5>1. key[2] \in LocalNames /\ n = entered.scopes[key[1]]
          BY <2>4, <4>2 DEF Says
        <5>2. key[1] \in 2 .. depth
          BY <2>3, <5>1, Spellings DEF Plain, Open
        <5> QED
          BY <5>1, <5>2 DEF AsmInv, NameInv, ScopesInv
      <4> QED
        BY <2>8, <3>4, <4>1, <4>2
    <3>5. \A n \in Nat : Number(n) \in DOMAIN place' <=> n \in 1 .. entered.anonymous
      BY <2>8, <2>12 DEF AsmInv, NameInv
    <3>6. \A k \in {Forward, Backward} \cap DOMAIN defs' : defs'[k] = place'[Number(entered.anonymous)]
      <4> SUFFICES ASSUME NEW k \in {Forward, Backward}, k \in DOMAIN defs'
                   PROVE  defs'[k] = place'[Number(entered.anonymous)]
        OBVIOUS
      <4>1. k \in DOMAIN defs /\ defs'[k] = defs[k] /\ defs[k] = place[Number(entered.anonymous)]
        BY <2>8, <2>12 DEF AsmInv, NameInv
      <4>2. Number(entered.anonymous) \in DOMAIN place
        <5>1. entered.anonymous \in Nat /\ entered.anonymous > 0
          BY <4>1 DEF AsmInv, NameInv, ScopesInv
        <5> QED
          BY <5>1 DEF AsmInv, NameInv
      <4> QED
        BY <2>8, <4>1, <4>2
    <3>7. Forward' = Forward /\ Backward' = Backward
      BY DEF Forward, Backward
    <3> HIDE DEF Forward, Backward, Number, Open, Plain, Says, ScopesInv
    <3> QED
      BY <2>2, <2>11, <2>12, <3>1, <3>2, <3>3, <3>4, <3>5, <3>6, <3>7 DEF AsmInv, NameInv
  <2>14. ASSUME NEW r \in undefs' PROVE WaitsFor(r)'
    <3>1. r \in undefs /\ r.key \in ObjectKeys \cup TextKeys /\ WaitsFor(r) /\ r.end \in DOMAIN refs
      BY <2>7 DEF AsmInv, RefInv, Waits, Agrees
    <3> QED
      BY <2>2, <2>7, <2>11, <2>12, <3>1, WaitFrame
  <2> QED
    BY <2>7, <2>9, <2>10, <2>13, <2>14 DEF AsmInv
<1> QED
  BY <1>1, <1>2

LEMMA DefineAnonymousKeeps == ASSUME AsmInv, DefineAnonymous PROVE AsmInv'
PROOF
<1> DEFINE n == entered.anonymous
           key == IF Forward \in DOMAIN defs THEN Backward ELSE Forward
           other == IF Forward \in DOMAIN defs THEN Forward ELSE Backward
<1>0. PICK list : list = Without(defs, other)
  OBVIOUS
<1>1. DefineInner(list, key, size, Number(n + 1))
  BY <1>0 DEF DefineAnonymous, Anonymous, Forward, Backward, Number, Key
<1>2. CASE \E e : Throw(e)
  BY <1>2, ThrowKeeps
<1>3. CASE ~ \E e : Throw(e)
  <2>1. /\ key \notin DOMAIN list /\ ~ Unreachable(key, size)
        /\ Define(list, key, size, Number(n + 1))
        /\ UNCHANGED <<size, depth, labelId, error, thing, label, refCount>>
    BY <1>1, <1>3 DEF DefineInner, Redefined, DefineAnonymous
  <2>2. entered' = [entered EXCEPT !.anonymous = @ + 1]
    BY <2>1 DEF DefineAnonymous
  <2>3. n \in Nat /\ ScopesInv
    BY DEF AsmInv, NameInv, ScopesInv
  <2>4. PICK m \in TextMeanings : m = Number(n + 1) /\ m \in Meanings /\ m \notin DOMAIN place
    BY <2>3, MeaningFacts DEF AsmInv, NameInv, Meanings
  <2>5. PICK k0 \in {Forward, Backward} : k0 = key
    OBVIOUS
  <2>6. PICK k1 \in {Forward, Backward} : k1 = other /\ k1 # k0
    BY <2>5, KeyFacts
  <2>7. k0 \notin DOMAIN defs /\ k0 \in TextKeys /\ k1 \in TextKeys /\ k0 \notin ObjectKeys /\ k1 \notin ObjectKeys
    BY <1>0, <2>1, <2>5, <2>6, KeyFacts DEF Without
  <2>8. \A r \in undefs : r.key = k0 <=> refs[r.end].meaning = m
    <3> SUFFICES ASSUME NEW r \in undefs PROVE r.key = k0 <=> refs[r.end].meaning = m
      OBVIOUS
    <3>1. WaitsFor(r)
      BY DEF AsmInv
    <3>2. CASE r.key \in ObjectKeys /\ \E h \in Handles : label[h].id = r.key[2] /\ refs[r.end].meaning = Object(h)
      BY <2>7, <3>2, ObjectMeansObject DEF AsmInv
    <3>3. CASE r.key \in TextKeys /\ Plain(r.key) /\ refs[r.end].meaning = Says(r.key)
      BY <2>3, <2>4, <3>3, PlainFacts
    <3>4. CASE r.key = key /\ refs[r.end].meaning = Number(n + 1)
      BY <2>4, <2>5, <3>4
    <3> QED
      BY <3>1, <3>2, <3>3, <3>4 DEF WaitsFor
  <2>9. size \in 0 .. size
    BY DEF AsmInv, RefInv
  <2>10. /\ RefInv' /\ defs' = With(list, k0, size) /\ place' = With(place, m, size)
         /\ undefs' = {r \in undefs : r.key # k0}
         /\ \A e \in DOMAIN refs : refs'[e].meaning = refs[e].meaning
    <3>1. ~ Unreachable(k0, size) /\ Define(list, k0, size, m)
      BY <2>1, <2>4, <2>5
    <3>2. RefInv /\ UNCHANGED size
      BY <2>1 DEF AsmInv
    <3>3. m \in Meanings /\ m \notin DOMAIN place
      BY <2>4
    <3>4. \A r \in undefs : r.key = k0 /\ r.mode = "absolute" => size = size
      OBVIOUS
    <3> QED
      BY <2>8, <2>9, <3>1, <3>2, <3>3, <3>4, DefineKeeps
  <2> HIDE DEF key, other
  <2>11. /\ DOMAIN defs' = (DOMAIN defs \ {k1}) \cup {k0} /\ defs'[k0] = size
         /\ \A k \in DOMAIN defs : k # k1 => defs'[k] = defs[k]
         /\ DOMAIN place' = DOMAIN place \cup {m} /\ place'[m] = size
         /\ \A x \in DOMAIN place : place'[x] = place[x]
    BY <1>0, <2>4, <2>6, <2>7, <2>10 DEF With, Without
  <2>12. ObjectInv'
    <3>1. \A k \in ObjectKeys : (k \in DOMAIN defs' <=> k \in DOMAIN defs) /\ (k \in DOMAIN defs => defs'[k] = defs[k])
      BY <2>7, <2>11
    <3> QED
      BY <2>1, <2>10, <3>1, ObjectStays
  <2>13. DefsInv'
    BY <2>1, <2>7, <2>9, <2>11 DEF AsmInv, DefsInv
  <2>14. /\ entered'.scopes = entered.scopes /\ entered'.last = entered.last
         /\ entered'.anonymous = n + 1 /\ ScopesInv'
    <3>1. /\ entered'.scopes = entered.scopes /\ entered'.last = entered.last
          /\ entered'.anonymous = n + 1
          /\ entered' \in [scopes : Seq(Nat), last : Nat, anonymous : Nat]
      BY <2>2, <2>3 DEF ScopesInv
    <3> QED
      BY <2>1, <2>3, <3>1 DEF ScopesInv
  <2>15. \A k : (Open(k)' <=> Open(k)) /\ (Plain(k)' <=> Plain(k)) /\ Says(k)' = Says(k)
    BY <2>1, <2>14 DEF Open, Plain, Says
  <2> HIDE DEF n
  <2>16. NameInv'
    <3>1. \A k \in TextKeys : k \in DOMAIN defs' => Open(k)
      BY <2>3, <2>7, <2>11, PlainFacts DEF AsmInv, NameInv
    <3>2. ASSUME NEW k \in TextKeys, Plain(k)
          PROVE  /\ k \in DOMAIN defs' <=> Says(k) \in DOMAIN place'
                 /\ k \in DOMAIN defs' => defs'[k] = place'[Says(k)]
      <4>1. k # k0 /\ k # k1 /\ Says(k) # m
        BY <2>3, <2>4, <3>2, PlainFacts
      <4>2. /\ k \in DOMAIN defs <=> Says(k) \in DOMAIN place
            /\ k \in DOMAIN defs => defs[k] = place[Says(k)]
        BY <3>2 DEF AsmInv, NameInv
      <4> QED
        BY <2>11, <4>1, <4>2
    <3>3. ASSUME NEW x \in LocalNames, NEW i \in Nat, <<x, i>> \in DOMAIN place'
          PROVE  i <= entered.last
      <4>1. <<x, i>> # m
        BY <2>4, Spellings DEF Number
      <4> QED
        BY <2>11, <3>3, <4>1 DEF AsmInv, NameInv
    <3>4. \A i \in Nat : Number(i) \in DOMAIN place' <=> i \in 1 .. n + 1
      <4> SUFFICES ASSUME NEW i \in Nat PROVE Number(i) \in DOMAIN place' <=> i \in 1 .. n + 1
        OBVIOUS
      <4>1. Number(i) \in DOMAIN place' <=> Number(i) \in DOMAIN place \/ i = n + 1
        BY <2>4, <2>11, MeaningFacts
      <4>2. Number(i) \in DOMAIN place <=> i \in 1 .. n
        BY DEF AsmInv, NameInv, n
      <4> QED
        BY <2>3, <4>1, <4>2
    <3>5. k0 \in DOMAIN defs' /\ k1 \notin DOMAIN defs' /\ defs'[k0] = place'[Number(n + 1)]
      BY <2>4, <2>6, <2>11
    <3>6. /\ ~ (Forward \in DOMAIN defs' /\ Backward \in DOMAIN defs')
          /\ n + 1 > 0 /\ (Forward \in DOMAIN defs' \/ Backward \in DOMAIN defs')
          /\ \A k \in {Forward, Backward} \cap DOMAIN defs' : defs'[k] = place'[Number(n + 1)]
      BY <2>3, <2>6, <3>5
    <3>7. Forward' = Forward /\ Backward' = Backward
      BY DEF Forward, Backward
    <3> HIDE DEF Forward, Backward, Number, Open, Plain, Says, ScopesInv
    <3> QED
      BY <2>14, <2>15, <3>1, <3>2, <3>3, <3>4, <3>6, <3>7 DEF NameInv
  <2>17. ASSUME NEW r \in undefs' PROVE WaitsFor(r)'
    <3>1. r \in undefs /\ r.key \in ObjectKeys \cup TextKeys /\ WaitsFor(r) /\ r.end \in DOMAIN refs /\ r.key # k0
      BY <2>10 DEF AsmInv, RefInv, Waits, Agrees
    <3>2. r.key # k1
      BY <2>3, <2>5, <2>6, <2>7, <3>1, PlainFacts DEF WaitsFor, key
    <3>3. r.key \notin {Forward, Backward}
      BY <2>6, <3>1, <3>2
    <3> QED
      BY <2>1, <2>10, <2>15, <3>1, <3>3, WaitFrame
  <2> QED
    BY <2>10, <2>12, <2>13, <2>16, <2>17 DEF AsmInv
<1> QED
  BY <1>2, <1>3

LEMMA EnterLocalKeeps == ASSUME AsmInv, EnterLocal PROVE AsmInv'
PROOF
<1>1. /\ depth < MaxDepth /\ depth' = depth + 1
      /\ entered' = [entered EXCEPT !.scopes = Append(@, entered.last + 1), !.last = @ + 1]
      /\ UNCHANGED <<size, defs, undefs, labelId, label, refCount, refs, place, thing>>
  BY DEF EnterLocal
<1>2. /\ depth \in 2 .. MaxDepth /\ depth \in Nat /\ MaxDepth \in Nat
      /\ entered \in [scopes : Seq(Nat), last : Nat, anonymous : Nat]
      /\ Len(entered.scopes) = depth /\ ScopesInv
  BY Widths, SMTT(30) DEF AsmInv, NameInv, ScopesInv
<1>3. /\ entered'.scopes = Append(entered.scopes, entered.last + 1)
      /\ entered'.last = entered.last + 1 /\ entered'.anonymous = entered.anonymous
      /\ entered' \in [scopes : Seq(Nat), last : Nat, anonymous : Nat]
  <2>1. /\ entered.scopes \in Seq(Nat) /\ entered.last \in Nat /\ entered.last + 1 \in Nat
        /\ Append(entered.scopes, entered.last + 1) \in Seq(Nat)
    BY <1>2, AppendProperties
  <2> QED
    BY <1>1, <1>2, <2>1
<1>4. /\ Len(entered'.scopes) = depth + 1 /\ entered'.scopes[depth + 1] = entered.last + 1
      /\ \A t \in 1 .. depth : entered'.scopes[t] = entered.scopes[t] /\ entered.scopes[t] \in Nat
  <2>1. PICK s \in Seq(Nat), x \in Nat : s = entered.scopes /\ x = entered.last + 1
    BY <1>2
  <2>2. /\ Len(Append(s, x)) = Len(s) + 1 /\ Append(s, x)[Len(s) + 1] = x
        /\ \A t \in 1 .. Len(s) : Append(s, x)[t] = s[t] /\ s[t] \in Nat
    BY AppendProperties
  <2> QED
    BY <1>2, <1>3, <2>1, <2>2
<1>5. ScopesInv'
  <2>1. depth' \in 2 .. MaxDepth /\ entered'.scopes[1] = 0
    BY <1>1, <1>2, <1>4 DEF ScopesInv
  <2>2. \A t \in 2 .. depth + 1 : t \in 2 .. depth \/ t = depth + 1
    BY <1>2
  <2>3. \A t \in 2 .. depth : entered'.scopes[t] = entered.scopes[t] /\ entered.scopes[t] <= entered.last
                              /\ entered.scopes[t] \in Nat
    BY <1>2, <1>4 DEF ScopesInv
  <2>4. \A t \in 2 .. depth + 1 : entered'.scopes[t] <= entered.last + 1
    <3>1. entered.last \in Nat /\ entered.last + 1 <= entered.last + 1
      BY <1>2
    <3> QED
      BY <1>4, <2>2, <2>3, <3>1
  <2>5. ASSUME NEW s \in 2 .. depth + 1, NEW t \in 2 .. depth + 1, s < t
        PROVE  entered'.scopes[s] < entered'.scopes[t]
    <3>1. s \in 2 .. depth
      BY <1>2, <2>5
    <3>2. CASE t \in 2 .. depth
      BY <1>2, <2>3, <2>5, <3>1, <3>2 DEF ScopesInv
    <3>3. CASE t = depth + 1
      BY <1>2, <1>4, <2>3, <3>1, <3>3, SMTT(60)
    <3> QED
      BY <2>2, <3>2, <3>3
  <2> QED
    BY <1>1, <1>3, <1>4, <2>1, <2>4, <2>5 DEF ScopesInv
<1>6. ASSUME NEW k \in TextKeys, Open(k)
      PROVE  k[1] \in 1 .. depth /\ Open(k)' /\ (Plain(k) => Plain(k)') /\ Says(k)' = Says(k)
  <2>1. k[1] \in 1 .. depth
    BY <1>2, <1>6 DEF Open
  <2>2. Open(k)'
    BY <1>1, <1>2, <1>6 DEF Open
  <2> QED
    BY <1>4, <2>1, <2>2 DEF Plain, Says
<1>7. ASSUME NEW k \in TextKeys, Open(k)', ~ Open(k)
      PROVE  k[1] = depth + 1 /\ k[2] \in LocalNames /\ Says(k)' = <<k[2], entered.last + 1>>
  <2>1. k[1] \in 2 .. depth + 1 /\ k[2] \in LocalNames /\ k[1] \notin 2 .. depth
    BY <1>1, <1>7 DEF Open
  <2>2. k[1] = depth + 1
    BY <1>2, <2>1
  <2> QED
    BY <1>4, <2>1, <2>2 DEF Says
<1>8. NameInv'
  <2>1. \A k \in TextKeys : k \in DOMAIN defs => Open(k)'
    BY <1>6 DEF AsmInv, NameInv
  <2>2. ASSUME NEW k \in TextKeys, Plain(k)'
        PROVE  /\ k \in DOMAIN defs <=> Says(k)' \in DOMAIN place
               /\ k \in DOMAIN defs => defs[k] = place[Says(k)']
    <3>1. CASE Open(k)
      <4>1. Plain(k)
        BY <2>2, <3>1 DEF Plain
      <4> QED
        BY <1>6, <3>1, <4>1 DEF AsmInv, NameInv
    <3>2. CASE ~ Open(k)
      <4>1. k \notin DOMAIN defs
        BY <3>2 DEF AsmInv, NameInv
      <4>2. k[2] \in LocalNames /\ Says(k)' = <<k[2], entered.last + 1>>
        BY <1>7, <2>2, <3>2 DEF Plain
      <4>3. entered.last \in Nat /\ entered.last + 1 \in Nat /\ ~ (entered.last + 1 <= entered.last)
        BY <1>2
      <4>4. <<k[2], entered.last + 1>> \notin DOMAIN place
        BY <4>2, <4>3 DEF AsmInv, NameInv
      <4> QED
        BY <4>1, <4>2, <4>4
    <3> QED
      BY <3>1, <3>2
  <2>3. ASSUME NEW x \in LocalNames, NEW n \in Nat, <<x, n>> \in DOMAIN place PROVE n <= entered.last + 1
    <3>1. n <= entered.last
      BY <2>3 DEF AsmInv, NameInv
    <3> QED
      BY <1>2, <3>1
  <2>4. Forward' = Forward /\ Backward' = Backward /\ \A i : Number(i)' = Number(i)
    BY DEF Forward, Backward, Number
  <2> HIDE DEF Forward, Backward, Number, Open, Plain, Says, ScopesInv
  <2> QED
    BY <1>1, <1>3, <1>5, <2>1, <2>2, <2>3, <2>4 DEF AsmInv, NameInv
<1>9. RefInv' /\ ObjectInv' /\ DefsInv'
  <2>1. RefInv'
    BY <1>1, RefFrame, Widths DEF AsmInv, RefInv
  <2> QED
    BY <1>1, <2>1, ObjectFrame DEF AsmInv, DefsInv
<1>10. ASSUME NEW r \in undefs PROVE WaitsFor(r)'
  <2>1. r.key \in ObjectKeys \cup TextKeys /\ WaitsFor(r)
    BY DEF AsmInv, RefInv, Waits
  <2>2. \A k \in TextKeys : Plain(k) => Plain(k)' /\ Says(k)' = Says(k)
    BY <1>6 DEF Plain
  <2> QED
    BY <1>1, <1>3, <2>1, <2>2, WaitFrame
<1> QED
  BY <1>1, <1>8, <1>9, <1>10 DEF AsmInv

LEMMA LeaveLocalKeeps == ASSUME AsmInv, LeaveLocal PROVE AsmInv'
PROOF
<1>1. CASE \E e : Throw(e)
  BY <1>1, ThrowKeeps
<1>2. CASE ~ \E e : Throw(e)
  <2>1. /\ ~ (depth <= 2) /\ ~ \E r \in undefs : r.key[1] = depth
        /\ depth' = depth - 1
        /\ defs' = [k \in {k \in DOMAIN defs : k[1] # depth} |-> defs[k]]
        /\ entered' = [entered EXCEPT !.scopes = SubSeq(@, 1, depth - 1)]
        /\ UNCHANGED <<size, undefs, labelId, label, refCount, error, refs, place, thing>>
    BY <1>2 DEF LeaveLocal
  <2>2. /\ depth \in 2 .. MaxDepth /\ depth \in Nat /\ MaxDepth \in Nat /\ depth > 2
        /\ entered \in [scopes : Seq(Nat), last : Nat, anonymous : Nat]
        /\ entered.scopes \in Seq(Nat) /\ Len(entered.scopes) = depth /\ ScopesInv
    BY <2>1, Widths DEF AsmInv, NameInv, ScopesInv
  <2>3. /\ SubSeq(entered.scopes, 1, depth - 1) \in Seq(Nat)
        /\ Len(SubSeq(entered.scopes, 1, depth - 1)) = depth - 1
        /\ \A t \in 1 .. depth - 1 : SubSeq(entered.scopes, 1, depth - 1)[t] = entered.scopes[t]
    BY <2>2, SubSeqProperties
  <2>4. /\ entered'.scopes = SubSeq(entered.scopes, 1, depth - 1)
        /\ entered'.last = entered.last /\ entered'.anonymous = entered.anonymous
        /\ entered' \in [scopes : Seq(Nat), last : Nat, anonymous : Nat]
    BY <2>1, <2>2, <2>3
  <2>5. ScopesInv'
    <3>1. \A t \in 1 .. depth - 1 : t \in 1 .. depth /\ entered'.scopes[t] = entered.scopes[t]
      BY <2>2, <2>3, <2>4
    <3>2. \A t \in 2 .. depth - 1 : t \in 2 .. depth /\ t \in 1 .. depth - 1
      BY <2>2
    <3>3. depth - 1 \in 2 .. MaxDepth /\ 1 \in 1 .. depth - 1
      BY <2>2
    <3> QED
      BY <2>1, <2>2, <2>3, <2>4, <3>1, <3>2, <3>3 DEF ScopesInv
  <2>6. DOMAIN defs' = {k \in DOMAIN defs : k[1] # depth} /\ \A k \in DOMAIN defs' : defs'[k] = defs[k]
    BY <2>1
  <2>7. ASSUME NEW k \in TextKeys
        PROVE  /\ Open(k)' <=> Open(k) /\ k[1] # depth
               /\ Plain(k)' <=> Plain(k) /\ k[1] # depth
               /\ Open(k)' => Says(k)' = Says(k)
    <3>1. \A t \in Int : t \in 2 .. depth - 1 <=> t \in 2 .. depth /\ t # depth
      BY <2>2
    <3>2. k[1] \in Int /\ 1 # depth
      BY <2>2, KeyFacts, Widths
    <3>3. Open(k)' <=> Open(k) /\ k[1] # depth
      BY <2>1, <3>1, <3>2 DEF Open
    <3>4. Plain(k)' <=> Plain(k) /\ k[1] # depth
      BY <3>3 DEF Plain
    <3>5. Open(k)' => k[1] \in 1 .. depth - 1
      BY <2>1, <2>2 DEF Open
    <3>6. Open(k)' => Says(k)' = Says(k)
      BY <2>3, <2>4, <3>5 DEF Says
    <3> HIDE DEF Open, Plain, Says
    <3> QED
      BY <3>3, <3>4, <3>6
  <2>8. /\ \A k \in ObjectKeys : k[1] # depth
        /\ Forward[1] # depth /\ Backward[1] # depth
    BY <2>2 DEF ObjectKeys, Forward, Backward, Key
  <2>9. NameInv'
    <3>1. \A k \in TextKeys : k \in DOMAIN defs' => Open(k)'
      BY <2>6, <2>7 DEF AsmInv, NameInv
    <3>2. ASSUME NEW k \in TextKeys, Plain(k)'
          PROVE  /\ k \in DOMAIN defs' <=> Says(k)' \in DOMAIN place
                 /\ k \in DOMAIN defs' => defs'[k] = place[Says(k)']
      <4>1. Plain(k) /\ k[1] # depth /\ Says(k)' = Says(k)
        BY <2>7, <3>2 DEF Plain
      <4>2. (k \in DOMAIN defs' <=> k \in DOMAIN defs) /\ (k \in DOMAIN defs' => defs'[k] = defs[k])
        BY <2>6, <4>1
      <4> HIDE DEF Plain, Says
      <4> QED
        BY <4>1, <4>2 DEF AsmInv, NameInv
    <3>3. /\ Forward' = Forward /\ Backward' = Backward /\ \A i : Number(i)' = Number(i)
          /\ \A k \in {Forward, Backward} : (k \in DOMAIN defs' <=> k \in DOMAIN defs)
                                            /\ (k \in DOMAIN defs' => defs'[k] = defs[k])
      BY <2>6, <2>8 DEF Forward, Backward, Number
    <3> HIDE DEF Forward, Backward, Number, Open, Plain, Says, ScopesInv
    <3> QED
      BY <2>1, <2>4, <2>5, <3>1, <3>2, <3>3 DEF AsmInv, NameInv
  <2>10. RefInv'
    BY <2>1, RefFrame, Widths DEF AsmInv, RefInv
  <2>11. ObjectInv'
    BY <2>1, <2>6, <2>8, ObjectFrame DEF AsmInv
  <2>12. DefsInv'
    BY <2>1, <2>6 DEF AsmInv, DefsInv
  <2>13. ASSUME NEW r \in undefs PROVE WaitsFor(r)'
    <3>1. r.key \in ObjectKeys \cup TextKeys /\ WaitsFor(r) /\ r.key[1] # depth
      BY <2>1 DEF AsmInv, RefInv, Waits
    <3>2. Forward \in DOMAIN defs' <=> Forward \in DOMAIN defs
      BY <2>6, <2>8
    <3>3. CASE r.key \in ObjectKeys /\ \E h \in Handles : label[h].id = r.key[2] /\ refs[r.end].meaning = Object(h)
      BY <2>1, <3>3 DEF WaitsFor, Object
    <3>4. CASE r.key \in TextKeys /\ Plain(r.key) /\ refs[r.end].meaning = Says(r.key)
      <4>1. Plain(r.key)' /\ Says(r.key)' = Says(r.key)
        BY <2>7, <3>1, <3>4 DEF Plain
      <4> QED
        BY <2>1, <3>4, <4>1 DEF WaitsFor
    <3>5. CASE r.key = (IF Forward \in DOMAIN defs THEN Backward ELSE Forward)
                 /\ refs[r.end].meaning = Number(entered.anonymous + 1)
      BY <2>1, <2>4, <3>2, <3>5 DEF WaitsFor, Forward, Backward
    <3> QED
      BY <3>1, <3>3, <3>4, <3>5 DEF WaitsFor
  <2> QED
    BY <2>1, <2>9, <2>10, <2>11, <2>12, <2>13 DEF AsmInv
<1> QED
  BY <1>1, <1>2

LEMMA ReferToNameKeeps ==
  ASSUME AsmInv, NEW name, ReferToName(name),
         \/ name \in (Names \ {"@@"}) \cup LocalNames
         \/ name \in {"@b", "@f"} /\ "@@" \in Names
  PROVE  AsmInv'
PROOF
<1>1. /\ Refer(NameKey(name), Meaning(name)) /\ (name = "@b" => entered.anonymous > 0)
      /\ UNCHANGED <<defs, depth, labelId, label, refCount, error, place, thing, entered>>
  BY DEF ReferToName
<1>2. PICK key : key = NameKey(name)
  OBVIOUS
<1>3. ScopesInv /\ entered.anonymous \in Nat
  BY DEF AsmInv, NameInv, ScopesInv
<1>4. PICK m : m = Meaning(name)
  OBVIOUS
<1> DEFINE Awaits == \/ key \in TextKeys /\ Plain(key) /\ m = Says(key)
                     \/ key = (IF Forward \in DOMAIN defs THEN Backward ELSE Forward)
                          /\ m = Number(entered.anonymous + 1)
<1>5. /\ key \in TextKeys /\ m \in Meanings
      /\ IF key \in DOMAIN defs THEN m \in DOMAIN place /\ defs[key] = place[m]
         ELSE m \notin DOMAIN place /\ Awaits
  <2>1. CASE name \in (Names \ {"@@"}) \cup LocalNames
    <3>1. Scope(name) \in 1 .. MaxDepth /\ name \in Texts /\ name \notin {"@b", "@f"}
      BY <1>3, <2>1, Spellings, Widths DEF Scope, Texts, ScopesInv
    <3>2. key = Key(Scope(name), name) /\ key \in TextKeys /\ key[1] = Scope(name) /\ key[2] = name
      BY <1>2, <3>1, KeyFacts DEF NameKey
    <3>3. Plain(key)
      BY <1>3, <2>1, <3>1, <3>2, Spellings, Widths DEF Plain, Open, Scope, ScopesInv
    <3>4. m = Says(key)
      BY <1>4, <3>1, <3>2 DEF Says, Meaning
    <3>5. m \in Meanings
      BY <1>3, <3>2, <3>3, <3>4, PlainFacts
    <3> HIDE DEF Plain, Says
    <3> QED
      BY <3>2, <3>3, <3>4, <3>5 DEF AsmInv, NameInv
  <2>2. CASE name = "@b"
    <3>1. key = (IF Forward \in DOMAIN defs THEN Forward ELSE Backward)
      BY <1>2, <2>2 DEF NameKey, Forward, Backward, Key
    <3>2. m = Number(entered.anonymous) /\ entered.anonymous > 0
      BY <1>1, <1>4, <2>2 DEF Meaning, Number
    <3>3. key \in DOMAIN defs /\ key \in {Forward, Backward} /\ defs[key] = place[m]
      BY <3>1, <3>2 DEF AsmInv, NameInv
    <3>4. m \in DOMAIN place
      BY <1>3, <3>2 DEF AsmInv, NameInv
    <3> QED
      BY <3>3, <3>4, KeyFacts DEF AsmInv, RefInv
  <2>3. CASE name = "@f"
    <3>1. key = (IF Forward \in DOMAIN defs THEN Backward ELSE Forward)
      BY <1>2, <2>3 DEF NameKey, Forward, Backward, Key
    <3>2. m = Number(entered.anonymous + 1)
      BY <1>4, <2>3 DEF Meaning, Number
    <3>3. key \notin DOMAIN defs /\ key \in TextKeys
      BY <3>1, KeyFacts DEF AsmInv, NameInv
    <3>4. m \notin DOMAIN place /\ m \in Meanings
      BY <1>3, <3>2, MeaningFacts DEF AsmInv, NameInv, Meanings
    <3> QED
      BY <3>1, <3>2, <3>3, <3>4
  <2> QED
    BY <2>1, <2>2, <2>3
<1>6. /\ RefInv' /\ size' >= size
      /\ \A e \in DOMAIN refs : e \in DOMAIN refs' /\ refs'[e] = refs[e]
      /\ \A r \in undefs' : r \in undefs \/ (r.key = key /\ refs'[r.end].meaning = m)
  <2>1. Refer(key, m) /\ UNCHANGED place
    BY <1>1, <1>2, <1>4
  <2> QED
    BY <1>5, <2>1, ReferKeeps DEF AsmInv
<1>7. key \in DOMAIN defs => \A r \in undefs' : r \in undefs
  <2> SUFFICES ASSUME key \in DOMAIN defs, NEW r \in undefs' PROVE r \in undefs
    OBVIOUS
  <2>1. CASE r.key = key /\ refs'[r.end].meaning = m
    <3>1. refs'[r.end].meaning \notin DOMAIN place
      BY <1>1, <1>6 DEF RefInv, Agrees
    <3> QED
      BY <1>5, <2>1, <3>1
  <2> QED
    BY <1>6, <2>1
<1>8. ObjectInv' /\ NameInv'
  BY <1>1, ObjectFrame, NameFrame DEF AsmInv
<1>9. DefsInv'
  <2>1. size \in Int /\ size' \in Int
    BY <1>6 DEF AsmInv, RefInv
  <2> QED
    BY <1>1, <1>6, <2>1 DEF AsmInv, DefsInv
<1>10. \A k : (Plain(k)' <=> Plain(k)) /\ Says(k)' = Says(k)
  BY <1>1 DEF Plain, Open, Says
<1>11. ASSUME NEW r \in undefs' PROVE WaitsFor(r)'
  <2>1. CASE r \in undefs
    <3>1. r.key \in ObjectKeys \cup TextKeys /\ WaitsFor(r) /\ r.end \in DOMAIN refs
      BY <2>1 DEF AsmInv, RefInv, Waits, Agrees
    <3> QED
      BY <1>1, <1>6, <1>10, <3>1, WaitFrame
  <2>2. CASE r.key = key /\ refs'[r.end].meaning = m /\ r \notin undefs
    <3>1. Awaits
      BY <1>5, <1>7, <2>2
    <3>2. CASE key \in TextKeys /\ Plain(key) /\ m = Says(key)
      BY <1>10, <2>2, <3>2 DEF WaitsFor
    <3>3. CASE key = (IF Forward \in DOMAIN defs THEN Backward ELSE Forward)
                 /\ m = Number(entered.anonymous + 1)
      BY <1>1, <2>2, <3>3 DEF WaitsFor, Forward, Backward
    <3> QED
      BY <3>1, <3>2, <3>3
  <2> QED
    BY <1>6, <2>1, <2>2
<1> QED
  BY <1>6, <1>8, <1>9, <1>11 DEF AsmInv

LEMMA EmitKeeps == ASSUME AsmInv, Emit PROVE AsmInv'
PROOF
<1>1. /\ size < MaxSize /\ size' = size + 1
      /\ UNCHANGED <<defs, undefs, depth, labelId, label, refCount, error, refs, place, thing, entered>>
  BY DEF Emit
<1>2. size \in Nat /\ size' \in size .. MaxSize
  BY <1>1, Widths DEF AsmInv, RefInv
<1>3. RefInv'
  BY <1>1, <1>2, RefFrame DEF AsmInv
<1>4. ObjectInv' /\ NameInv'
  BY <1>1, ObjectFrame, NameFrame DEF AsmInv
<1>5. DefsInv'
  BY <1>1, <1>2 DEF AsmInv, DefsInv
<1>6. ASSUME NEW r \in undefs PROVE WaitsFor(r)'
  BY <1>1 DEF AsmInv, WaitsFor, Plain, Open, Says, Object
<1> QED
  BY <1>1, <1>3, <1>4, <1>5, <1>6 DEF AsmInv

-----------------------------------------------------------------------------
LEMMA AsmStarts == AssemblerInit => AsmInv
PROOF
<1> SUFFICES ASSUME AssemblerInit PROVE AsmInv
  OBVIOUS
<1>1. /\ size = 0 /\ defs = <<>> /\ undefs = {} /\ depth = 2 /\ labelId = 1
      /\ label = [h \in Handles |-> Fresh]
      /\ refCount = <<>> /\ refs = <<>> /\ place = <<>>
      /\ thing = [h \in Handles |-> h]
      /\ entered = [scopes |-> <<0, 0>>, last |-> 0, anonymous |-> 0]
  BY DEF AssemblerInit
<1>2. DOMAIN defs = {} /\ DOMAIN refCount = {} /\ DOMAIN refs = {} /\ DOMAIN place = {}
  BY <1>1
<1>3. RefInv
  BY <1>1, <1>2, Widths DEF RefInv
<1>4. ObjectInv
  <2>1. Fresh \in LabelObjects /\ Fresh.id = 0 /\ ~ Fresh.mgr /\ Fresh.alive
    BY DEF Fresh, LabelObjects
  <2>2. \A id : Users(id) = {}
    BY <1>1, <2>1 DEF Users
  <2> HIDE DEF Fresh, Users
  <2> QED
    BY <1>1, <1>2, <2>1, <2>2 DEF ObjectInv
<1>5. NameInv
  <2>1. <<0, 0>> \in Seq(Nat) /\ Len(<<0, 0>>) = 2 /\ <<0, 0>>[1] = 0 /\ <<0, 0>>[2] = 0
    OBVIOUS
  <2>2. /\ entered.scopes = <<0, 0>> /\ entered.last = 0 /\ entered.anonymous = 0
        /\ entered \in [scopes : Seq(Nat), last : Nat, anonymous : Nat]
    BY <1>1, <2>1
  <2>3. \A t \in 2 .. depth : t = 2
    BY <1>1
  <2>4. ScopesInv
    BY <1>1, <2>1, <2>2, <2>3, Widths DEF ScopesInv
  <2> QED
    BY <1>2, <2>2, <2>4 DEF NameInv
<1>6. DefsInv
  BY <1>2 DEF DefsInv
<1> QED
  BY <1>1, <1>3, <1>4, <1>5, <1>6 DEF AsmInv

LEMMA AsmStep == AsmInv /\ [AssemblerNext]_codeVars => AsmInv'
PROOF
<1> SUFFICES ASSUME AsmInv, [AssemblerNext]_codeVars PROVE AsmInv'
  OBVIOUS
<1>1. ASSUME NEW h \in Handles, DefineLabel(h) \/ DestroyLabel(h) \/ ReferToLabel(h) PROVE AsmInv'
  BY <1>1, DefineLabelKeeps, DestroyLabelKeeps, ReferToLabelKeeps
<1>2. ASSUME NEW h \in Handles, NEW g \in Handles, CopyLabel(h, g) \/ AssignLabel(h, g) PROVE AsmInv'
  BY <1>2, CopyLabelKeeps, AssignLabelKeeps
<1>3. ASSUME NEW name \in (Names \ {"@@"}) \cup LocalNames, DefineName(name) \/ ReferToName(name)
      PROVE  AsmInv'
  BY <1>3, DefineNameKeeps, ReferToNameKeeps
<1>4. ASSUME NEW name \in {"@b", "@f"}, "@@" \in Names, ReferToName(name) PROVE AsmInv'
  BY <1>4, ReferToNameKeeps
<1>5. CASE DefineAnonymous
  BY <1>5, DefineAnonymousKeeps
<1>6. CASE EnterLocal
  BY <1>6, EnterLocalKeeps
<1>7. CASE LeaveLocal
  BY <1>7, LeaveLocalKeeps
<1>8. CASE Emit
  BY <1>8, EmitKeeps
<1>9. CASE Overflow \/ JumpTooFar
  BY <1>9, ThrowKeeps DEF Overflow, JumpTooFar
<1>10. CASE UNCHANGED codeVars
  BY <1>10, AsmUnchanged DEF codeVars
<1> HIDE DEF AsmInv
<1> QED
  BY <1>1, <1>2, <1>3, <1>4, <1>5, <1>6, <1>7, <1>8, <1>9, <1>10 DEF AssemblerNext

LEMMA AsmMeans == AsmInv => ReferencesAreResolved
PROOF
<1> SUFFICES ASSUME AsmInv PROVE ReferencesAreResolved
  OBVIOUS
<1>1. AssemblerTypeOK
  <2>1. size \in 0 .. MaxSize /\ depth \in 2 .. MaxDepth /\ Len(entered.scopes) = depth
    BY DEF AsmInv, RefInv, NameInv, ScopesInv
  <2>2. ASSUME NEW r \in undefs PROVE r.end \in DOMAIN refs /\ r.key[1] \in 0 .. depth
    <3>1. r.end \in DOMAIN refs /\ WaitsFor(r)
      BY DEF AsmInv, RefInv, Agrees
    <3>2. CASE r.key \in ObjectKeys
      BY <2>1, <3>1, <3>2 DEF ObjectKeys
    <3>3. CASE r.key \in TextKeys /\ Plain(r.key)
      BY <2>1, <3>1, <3>3 DEF Plain, Open
    <3>4. CASE r.key = (IF Forward \in DOMAIN defs THEN Backward ELSE Forward)
      BY <2>1, <3>1, <3>4, KeyFacts DEF Forward, Backward
    <3> QED
      BY <3>1, <3>2, <3>3, <3>4 DEF WaitsFor
  <2>3. \A key \in DOMAIN defs : defs[key] \in 0 .. size
    BY DEF AsmInv, DefsInv
  <2>4. {key[2] : key \in {k \in DOMAIN defs : k[1] = 0}} = DOMAIN refCount
    <3>1. ASSUME NEW k \in DOMAIN defs, k[1] = 0 PROVE k[2] \in DOMAIN refCount
      <4>1. k \in ObjectKeys
        BY <3>1, KeyFacts, Widths DEF AsmInv, DefsInv
      <4> QED
        BY <4>1, KeyFacts DEF AsmInv, ObjectInv
    <3>2. ASSUME NEW id \in DOMAIN refCount
          PROVE  \E k \in {k \in DOMAIN defs : k[1] = 0} : id = k[2]
      <4>1. Key(0, id) \in DOMAIN defs /\ Key(0, id)[1] = 0 /\ Key(0, id)[2] = id
        BY KeyFacts DEF AsmInv, ObjectInv
      <4> QED
        BY <4>1
    <3> QED
      BY <3>1, <3>2
  <2> QED
    BY <2>1, <2>2, <2>3, <2>4 DEF AssemblerTypeOK
<1>2. NothingWaitsForItsLabel
  BY DEF NothingWaitsForItsLabel, AsmInv, RefInv, Agrees
<1>3. ReferencesReach
  BY DEF ReferencesReach, AsmInv, RefInv, Reached
<1>4. UsersAreCounted
  <2> SUFFICES ASSUME NEW id \in 1 .. labelId - 1
               PROVE  IF id \in DOMAIN refCount THEN refCount[id] = Cardinality(Users(id)) ELSE Users(id) = {}
    BY DEF UsersAreCounted, Users
  <2>1. id \in Nat \ {0}
    BY DEF AsmInv, ObjectInv
  <2> HIDE DEF Users
  <2> QED
    BY <2>1 DEF AsmInv, ObjectInv
<1> QED
  BY <1>1, <1>2, <1>3, <1>4 DEF ReferencesAreResolved

(* Whatever labels a program uses, and however it nests their scopes, all  *)
(* that is said of references, of waiting ones and of users of definitions *)
(* holds (define_inner, the label managers, L, the jumps and putL), with   *)
(* assignL given labels that were only jumped to.                          *)
THEOREM ReferencesAreAlwaysResolved == AssemblerSpec => []ReferencesAreResolved
PROOF
<1>1. AssemblerSpec => []AsmInv
  BY AsmStarts, AsmStep, PTL DEF AssemblerSpec
<1> QED
  BY <1>1, AsmMeans, PTL

-----------------------------------------------------------------------------
(* A sound table: from the entry its hash names every item is reached, a   *)
(* link leads to an entry of the same home that has no other link and is   *)
(* not that home, and no item is there twice.                              *)
TableOf(n) ==
  [size : {n}, freeCount : 0..n, freeOffset : 0..n,
   item : [0..(n - 1) -> Keys \cup {NoItem}],
   next : [0..(n - 1) -> (0..(n - 1)) \cup {Free, Eol}]]

HomeOf(t, i) == Home(t, t.item[i])
Occupied(t, i) == i \in Slots(t) /\ ~IsFree(t, i)
Reaches(t, h, i) == \A S \in SUBSET Slots(t) : h \in S /\ Closed(t, S) => i \in S
HeldBy(t) == {t.item[i] : i \in {i \in Slots(t) : ~IsFree(t, i)}}

Homed(t) ==
  \A i \in Slots(t) : ~IsFree(t, i) =>
    LET h == HomeOf(t, i)
    IN t.item[i] \in Keys /\ Occupied(t, h) /\ HomeOf(t, h) = h /\ Reaches(t, h, i)

Linked(t) ==
  /\ \A i, j \in Slots(t) : t.next[i] = j => ~IsFree(t, j) /\ HomeOf(t, i) = HomeOf(t, j) /\ HomeOf(t, j) # j
  /\ \A i, j, l \in Slots(t) : t.next[i] = l /\ t.next[j] = l => i = j

Distinct(t) ==
  \A i, j \in Slots(t) : ~IsFree(t, i) /\ ~IsFree(t, j) /\ t.item[i] = t.item[j] => i = j

Sound(t) ==
  /\ t.size \in Nat /\ t \in TableOf(t.size)
  /\ Homed(t) /\ Linked(t) /\ Distinct(t)
  /\ t.freeCount = Cardinality(FreeEntries(t))

Hashed == hash \in [Keys -> Hashes]

(* What the operations on a table rest on: where hashes lead.              *)
LEMMA HashFacts ==
  /\ Hashes \subseteq Nat /\ InitialSize \in Nat \ {0}
  /\ NoItem \notin Keys /\ Free \notin Nat /\ Eol \notin Nat /\ Free # Eol
BY HashAssumption

LEMMA HomeIsSlot ==
  ASSUME Hashed, NEW t, t.size \in Nat \ {0}, NEW k \in Keys
  PROVE  Home(t, k) \in Slots(t) /\ Home(t, k) \in Nat
PROOF
<1>1. PICK n \in Nat \ {0}, x \in Nat : n = t.size /\ x = hash[k]
  BY HashFacts DEF Hashed
<1>2. x % n \in 0..(n - 1)
  OBVIOUS
<1> QED
  BY <1>1, <1>2 DEF Home, Slots

(* The parts of a table, and what a step that builds another one needs.    *)
LEMMA TableParts ==
  ASSUME NEW n \in Nat, NEW t \in TableOf(n)
  PROVE  /\ t.size = n /\ Slots(t) = 0..(n - 1) /\ Slots(t) \subseteq Nat
         /\ t.freeCount \in 0..n /\ t.freeOffset \in 0..n
         /\ t.item \in [0..(n - 1) -> Keys \cup {NoItem}]
         /\ t.next \in [0..(n - 1) -> (0..(n - 1)) \cup {Free, Eol}]
         /\ FreeEntries(t) \subseteq 0..(n - 1)
         /\ IsFiniteSet(FreeEntries(t))
PROOF
<1>1. /\ t.size = n /\ Slots(t) = 0..(n - 1) /\ Slots(t) \subseteq Nat
      /\ t.freeCount \in 0..n /\ t.freeOffset \in 0..n
      /\ t.item \in [0..(n - 1) -> Keys \cup {NoItem}]
      /\ t.next \in [0..(n - 1) -> (0..(n - 1)) \cup {Free, Eol}]
  BY DEF TableOf, Slots
<1>2. FreeEntries(t) \subseteq 0..(n - 1)
  BY <1>1 DEF FreeEntries
<1>3. IsFiniteSet(0..(n - 1))
  BY FS_Interval
<1> QED
  BY <1>1, <1>2, <1>3, FS_Subset

LEMMA HighestIsIn ==
  ASSUME NEW n \in Nat, NEW S \in SUBSET (0..(n - 1)), S # {}
  PROVE  Highest(S) \in S /\ \A j \in S : j <= Highest(S)
PROOF
<1> DEFINE T == {m \in Nat : \A j \in S : j <= m}
<1>1. n \in T
  OBVIOUS
<1>2. \E x \in T : \A y \in T : ~ (<<y, x>> \in OpToRel(<, Nat))
  BY <1>1, NatLessThanWellFounded, WFMin
<1>3. \A x, y \in T : y < x => <<y, x>> \in OpToRel(<, Nat)
  BY DEF OpToRel
<1>4. PICK x \in T : \A y \in T : ~ (y < x)
  BY <1>2, <1>3
<1>5. x \in S
  <2> SUFFICES ASSUME x \notin S PROVE FALSE
    OBVIOUS
  <2>1. \A j \in S : j \in Nat /\ j <= x /\ j # x
    BY <1>4
  <2>2. x # 0
    <3>1. PICK j \in S : TRUE
      OBVIOUS
    <3> QED
      BY <2>1, <3>1
  <2>3. x - 1 \in T
    BY <2>1, <2>2, <1>4
  <2> QED
    BY <1>4, <2>3
<1>6. \E i \in S : \A j \in S : j <= i
  BY <1>4, <1>5
<1> QED
  BY <1>6 DEF Highest

LEMMA NextFreeIsFree ==
  ASSUME NEW n \in Nat, NEW t \in TableOf(n), t.freeCount = Cardinality(FreeEntries(t)), t.freeCount # 0
  PROVE  NextFreeEntry(t) \in Slots(t) /\ IsFree(t, NextFreeEntry(t))
PROOF
<1> DEFINE before == {i \in FreeEntries(t) : i < t.freeOffset}
           S == IF before = {} THEN FreeEntries(t) ELSE before
<1>1. FreeEntries(t) \subseteq 0..(n - 1) /\ FreeEntries(t) # {}
  BY TableParts, FS_EmptySet
<1>2. S \in SUBSET (0..(n - 1)) /\ S # {} /\ S \subseteq FreeEntries(t)
  BY <1>1
<1>3. NextFreeEntry(t) = Highest(S)
  BY DEF NextFreeEntry
<1> HIDE DEF S
<1>4. NextFreeEntry(t) \in FreeEntries(t)
  BY <1>2, <1>3, HighestIsIn
<1> QED
  BY <1>4 DEF FreeEntries

LEMMA HeldIs ==
  ASSUME NEW t
  PROVE  \A x : x \in HeldBy(t) <=> \E i \in Slots(t) : ~IsFree(t, i) /\ t.item[i] = x
BY DEF HeldBy

LEMMA FreeCounts ==
  ASSUME NEW n \in Nat, NEW F \in SUBSET (0..(n - 1))
  PROVE  IsFiniteSet(F) /\ Cardinality(F) \in 0..n
PROOF
<1>1. IsFiniteSet(0..(n - 1)) /\ Cardinality(0..(n - 1)) = n
  BY FS_Interval
<1>2. IsFiniteSet(F) /\ Cardinality(F) <= n
  BY <1>1, FS_Subset
<1> QED
  BY <1>2, FS_CardinalityType

(* An entry that is not at its home has one before it in its chain, no     *)
(* entry follows itself, and nothing leads to a free one.                  *)
LEMMA Links ==
  ASSUME NEW n \in Nat, NEW t \in TableOf(n), Homed(t), Linked(t),
         NEW i \in 0..(n - 1), ~IsFree(t, i)
  PROVE  /\ t.next[i] # i
         /\ HomeOf(t, i) # i =>
              \E p \in 0..(n - 1) :
                t.next[p] = i /\ ~IsFree(t, p) /\ HomeOf(t, p) = HomeOf(t, i)
PROOF
<1> DEFINE S == (0..(n - 1)) \ {i}
<1>0. Slots(t) = 0..(n - 1) /\ \A j \in 0..(n - 1) : IsFree(t, j) => t.next[j] \notin Slots(t)
  BY TableParts, HashFacts DEF IsFree
<1>1. HomeOf(t, i) # i => HomeOf(t, i) \in S
  BY <1>0 DEF Homed, Occupied
<1>2. S \in SUBSET Slots(t) /\ i \notin S
  BY <1>0
<1>3. HomeOf(t, i) # i => ~Closed(t, S)
  BY <1>0, <1>1, <1>2 DEF Homed, Reaches
<1>4. HomeOf(t, i) # i => \E p \in S : t.next[p] = i
  BY <1>0, <1>3 DEF Closed
<1>5. t.next[i] # i
  BY <1>0, <1>4 DEF Linked
<1> QED
  BY <1>0, <1>4, <1>5 DEF Linked

(* An item that a table does not have is put there: into the free entry    *)
(* its hash names ...                                                      *)
LEMMA PuttingAtHome ==
  ASSUME Hashed, NEW n \in Nat \ {0}, NEW t, t.size = n, Sound(t),
         NEW k \in Keys \ HeldBy(t), IsFree(t, Home(t, k))
  PROVE  LET u == PutAtHome(t, k)
         IN Sound(u) /\ u.size = n /\ HeldBy(u) = HeldBy(t) \cup {k} /\ u.freeCount = t.freeCount - 1
PROOF
<1> DEFINE h == Home(t, k)
<1>1. t \in TableOf(n) /\ h \in 0..(n - 1)
  BY HomeIsSlot DEF Sound, Slots
<1>2. PICK u : u = PutAtHome(t, k)
  OBVIOUS
<1>3. /\ u.size = n /\ u.freeOffset = t.freeOffset /\ u.freeCount = t.freeCount - 1
      /\ u.item = [t.item EXCEPT ![h] = k] /\ u.next = [t.next EXCEPT ![h] = Eol]
      /\ u = [size |-> u.size, freeCount |-> u.freeCount, freeOffset |-> u.freeOffset,
              item |-> u.item, next |-> u.next]
  BY <1>1, <1>2 DEF PutAtHome, TableOf
<1>4. /\ Slots(t) = 0..(n - 1) /\ Slots(u) = 0..(n - 1) /\ Slots(t) \subseteq Nat
      /\ \A i \in 0..(n - 1) : i # h => u.item[i] = t.item[i] /\ u.next[i] = t.next[i]
      /\ u.item[h] = k /\ u.next[h] = Eol /\ t.next[h] = Free
  BY <1>1, <1>3, TableParts DEF Slots, IsFree
<1>5. /\ \A i \in 0..(n - 1) : i # h => HomeOf(u, i) = HomeOf(t, i) /\ (IsFree(u, i) <=> IsFree(t, i))
      /\ HomeOf(u, h) = h /\ ~IsFree(u, h) /\ IsFree(t, h)
  BY <1>3, <1>4, HashFacts DEF HomeOf, Home, IsFree
<1>6. FreeEntries(u) = FreeEntries(t) \ {h} /\ h \in FreeEntries(t)
  BY <1>1, <1>4, <1>5 DEF FreeEntries
<1>7. /\ IsFiniteSet(FreeEntries(t)) /\ Cardinality(FreeEntries(u)) = Cardinality(FreeEntries(t)) - 1
      /\ Cardinality(FreeEntries(u)) \in 0..n
  <2>1. FreeEntries(t) \subseteq 0..(n - 1) /\ FreeEntries(u) \subseteq 0..(n - 1)
    BY <1>4 DEF FreeEntries
  <2> QED
    BY <2>1, <1>6, FreeCounts, FS_RemoveElement
<1>8. u \in TableOf(n)
  <2>1. t.freeCount = Cardinality(FreeEntries(t))
    BY DEF Sound
  <2>2. /\ u.item \in [0..(n - 1) -> Keys \cup {NoItem}]
        /\ u.next \in [0..(n - 1) -> (0..(n - 1)) \cup {Free, Eol}]
    BY <1>1, <1>3, TableParts
  <2>3. u.freeCount \in 0..n /\ u.freeOffset \in 0..n
    BY <1>1, <1>3, <1>7, <2>1, TableParts
  <2> QED
    BY <1>3, <2>2, <2>3 DEF TableOf
<1>9. Homed(u)
  <2> SUFFICES ASSUME NEW i \in 0..(n - 1), ~IsFree(u, i)
               PROVE  /\ u.item[i] \in Keys /\ Occupied(u, HomeOf(u, i))
                      /\ HomeOf(u, HomeOf(u, i)) = HomeOf(u, i) /\ Reaches(u, HomeOf(u, i), i)
    BY <1>4 DEF Homed
  <2>1. CASE i = h
    BY <2>1, <1>1, <1>4, <1>5 DEF Occupied, Reaches
  <2>2. CASE i # h
    <3>1. /\ t.item[i] \in Keys /\ Occupied(t, HomeOf(t, i))
          /\ HomeOf(t, HomeOf(t, i)) = HomeOf(t, i) /\ Reaches(t, HomeOf(t, i), i)
      BY <2>2, <1>4, <1>5 DEF Homed, Sound
    <3>2. HomeOf(t, i) # h /\ HomeOf(t, i) \in 0..(n - 1)
      BY <3>1, <1>4, <1>5 DEF Occupied
    <3>3. \A S \in SUBSET (0..(n - 1)) : Closed(u, S) => Closed(t, S)
      BY <1>4, HashFacts DEF Closed
    <3>4. Reaches(u, HomeOf(t, i), i)
      BY <3>1, <3>3, <1>4 DEF Reaches
    <3> QED
      BY <2>2, <3>1, <3>2, <3>4, <1>4, <1>5 DEF Occupied
  <2> QED
    BY <2>1, <2>2
<1>10. Linked(u)
  <2>1. \A i \in 0..(n - 1) : t.next[i] # h
    BY <1>1, <1>4, <1>5 DEF Sound, Linked
  <2>2. \A i, j \in 0..(n - 1) : u.next[i] = j => i # h /\ j # h /\ t.next[i] = j
    BY <2>1, <1>4, HashFacts
  <2> QED
    BY <2>2, <1>4, <1>5 DEF Linked, Sound
<1>11. Distinct(u) /\ HeldBy(u) = HeldBy(t) \cup {k}
  <2>1. HeldBy(u) = HeldBy(t) \cup {k}
    BY <1>1, <1>4, <1>5 DEF HeldBy
  <2>2. \A i \in 0..(n - 1) : ~IsFree(t, i) => t.item[i] # k
    BY <1>4 DEF HeldBy
  <2> QED
    BY <2>1, <2>2, <1>4, <1>5 DEF Distinct, Sound
<1>12. Sound(u)
  BY <1>3, <1>7, <1>8, <1>9, <1>10, <1>11 DEF Sound
<1> QED
  BY <1>2, <1>3, <1>11, <1>12

(* ... behind the item that is at home there ...                           *)
LEMMA PuttingBehind ==
  ASSUME Hashed, NEW n \in Nat \ {0}, NEW t, t.size = n, Sound(t), t.freeCount # 0,
         NEW k \in Keys \ HeldBy(t), ~IsFree(t, Home(t, k)), HomeOf(t, Home(t, k)) = Home(t, k)
  PROVE  LET u == PutBehind(t, k)
         IN Sound(u) /\ u.size = n /\ HeldBy(u) = HeldBy(t) \cup {k} /\ u.freeCount = t.freeCount - 1
PROOF
<1> DEFINE h == Home(t, k)
           f == NextFreeEntry(t)
<1>1. /\ t \in TableOf(n) /\ h \in 0..(n - 1) /\ f \in 0..(n - 1) /\ IsFree(t, f) /\ f # h
  <2>1. t \in TableOf(n) /\ h \in 0..(n - 1) /\ t.freeCount = Cardinality(FreeEntries(t))
    BY HomeIsSlot DEF Sound, Slots
  <2>2. f \in 0..(n - 1) /\ IsFree(t, f)
    BY <2>1, NextFreeIsFree DEF Slots
  <2> QED
    BY <2>1, <2>2
<1>2. PICK u : u = PutBehind(t, k)
  OBVIOUS
<1>3. /\ u.size = n /\ u.freeOffset = f /\ u.freeCount = t.freeCount - 1
      /\ u.item = [t.item EXCEPT ![f] = k]
      /\ u.next = [t.next EXCEPT ![f] = t.next[h], ![h] = f]
      /\ u = [size |-> u.size, freeCount |-> u.freeCount, freeOffset |-> u.freeOffset,
              item |-> u.item, next |-> u.next]
  BY <1>1, <1>2 DEF PutBehind, Taken, TableOf
<1> HIDE DEF f
<1>4. /\ Slots(t) = 0..(n - 1) /\ Slots(u) = 0..(n - 1) /\ Slots(t) \subseteq Nat
      /\ \A i \in 0..(n - 1) : i # f => u.item[i] = t.item[i]
      /\ \A i \in 0..(n - 1) : i # f /\ i # h => u.next[i] = t.next[i]
      /\ u.item[f] = k /\ u.next[f] = t.next[h] /\ u.next[h] = f
      /\ t.next[f] = Free /\ t.next[h] \in (0..(n - 1)) \cup {Eol}
  BY <1>1, <1>3, TableParts DEF Slots, IsFree
<1>5. /\ \A i \in 0..(n - 1) : i # f => HomeOf(u, i) = HomeOf(t, i) /\ (IsFree(u, i) <=> IsFree(t, i))
      /\ HomeOf(u, f) = h /\ ~IsFree(u, f) /\ IsFree(t, f) /\ ~IsFree(u, h)
  BY <1>1, <1>3, <1>4, HashFacts DEF HomeOf, Home, IsFree
<1>6. FreeEntries(u) = FreeEntries(t) \ {f} /\ f \in FreeEntries(t)
  BY <1>1, <1>4, <1>5 DEF FreeEntries
<1>7. /\ IsFiniteSet(FreeEntries(t)) /\ Cardinality(FreeEntries(u)) = Cardinality(FreeEntries(t)) - 1
      /\ Cardinality(FreeEntries(u)) \in 0..n
  <2>1. FreeEntries(t) \subseteq 0..(n - 1) /\ FreeEntries(u) \subseteq 0..(n - 1)
    BY <1>4 DEF FreeEntries
  <2> QED
    BY <2>1, <1>6, FreeCounts, FS_RemoveElement
<1>8. u \in TableOf(n)
  <2>1. t.freeCount = Cardinality(FreeEntries(t))
    BY DEF Sound
  <2>2. /\ u.item \in [0..(n - 1) -> Keys \cup {NoItem}]
        /\ u.next \in [0..(n - 1) -> (0..(n - 1)) \cup {Free, Eol}]
    <3>1. /\ t.item \in [0..(n - 1) -> Keys \cup {NoItem}]
          /\ t.next \in [0..(n - 1) -> (0..(n - 1)) \cup {Free, Eol}]
      BY <1>1, TableParts
    <3>2. \A g, x, y : /\ g \in [0..(n - 1) -> (0..(n - 1)) \cup {Free, Eol}]
                       /\ x \in (0..(n - 1)) \cup {Free, Eol} /\ y \in (0..(n - 1)) \cup {Free, Eol}
                       => [g EXCEPT ![f] = x, ![h] = y] \in [0..(n - 1) -> (0..(n - 1)) \cup {Free, Eol}]
      OBVIOUS
    <3>3. u.next \in [0..(n - 1) -> (0..(n - 1)) \cup {Free, Eol}]
      <4>1. t.next[h] \in (0..(n - 1)) \cup {Free, Eol} /\ f \in (0..(n - 1)) \cup {Free, Eol}
        BY <1>1, <1>4
      <4>2. u.next = [t.next EXCEPT ![f] = t.next[h], ![h] = f]
        BY <1>3
      <4> QED
        BY <3>1, <3>2, <4>1, <4>2
    <3>4. u.item \in [0..(n - 1) -> Keys \cup {NoItem}]
      BY <3>1, <1>1, <1>3
    <3> QED
      BY <3>3, <3>4
  <2>3. u.freeCount \in 0..n /\ u.freeOffset \in 0..n
    BY <1>1, <1>3, <1>7, <2>1, TableParts
  <2> QED
    BY <1>3, <2>2, <2>3 DEF TableOf
<1>9. Homed(u)
  <2> SUFFICES ASSUME NEW i \in 0..(n - 1), ~IsFree(u, i)
               PROVE  /\ u.item[i] \in Keys /\ Occupied(u, HomeOf(u, i))
                      /\ HomeOf(u, HomeOf(u, i)) = HomeOf(u, i) /\ Reaches(u, HomeOf(u, i), i)
    BY <1>4 DEF Homed
  <2>0. \A S \in SUBSET (0..(n - 1)) : Closed(u, S) /\ h \in S => f \in S
    BY <1>1, <1>4 DEF Closed
  <2>1. CASE i = f
    <3>1. Reaches(u, h, f)
      BY <2>0, <1>4 DEF Reaches
    <3> QED
      BY <2>1, <3>1, <1>1, <1>4, <1>5 DEF Occupied
  <2>2. CASE i # f
    <3>1. /\ t.item[i] \in Keys /\ Occupied(t, HomeOf(t, i))
          /\ HomeOf(t, HomeOf(t, i)) = HomeOf(t, i) /\ Reaches(t, HomeOf(t, i), i)
      BY <2>2, <1>4, <1>5 DEF Homed, Sound
    <3>2. HomeOf(t, i) # f /\ HomeOf(t, i) \in 0..(n - 1)
      BY <3>1, <1>4, <1>5 DEF Occupied
    <3>3. ASSUME NEW S \in SUBSET (0..(n - 1)), Closed(u, S)
          PROVE  Closed(t, S \ {f})
      <4> SUFFICES ASSUME NEW j \in S, j # f, t.next[j] \in 0..(n - 1)
                   PROVE  t.next[j] \in S /\ t.next[j] # f
        BY <1>4 DEF Closed
      <4>1. t.next[j] # f
        BY <1>1, <1>4 DEF Linked, Sound
      <4>2. \A l \in S : u.next[l] \in 0..(n - 1) => u.next[l] \in S
        BY <3>3, <1>4 DEF Closed
      <4>3. j = h => f \in S
        BY <2>0, <3>3
      <4>4. j = h => t.next[j] \in S
        BY <4>2, <4>3, <1>4
      <4>5. j # h => t.next[j] \in S
        BY <4>2, <1>4
      <4> QED
        BY <4>1, <4>4, <4>5
    <3>4. Reaches(u, HomeOf(t, i), i)
      <4> SUFFICES ASSUME NEW S \in SUBSET (0..(n - 1)), Closed(u, S), HomeOf(t, i) \in S
                   PROVE  i \in S
        BY <1>4 DEF Reaches
      <4> QED
        BY <3>1, <3>2, <3>3, <1>4 DEF Reaches
    <3> QED
      BY <2>2, <3>1, <3>2, <3>4, <1>4, <1>5 DEF Occupied
  <2> QED
    BY <2>1, <2>2
<1>10. Linked(u)
  <2>1. \A i \in 0..(n - 1) : t.next[i] # f
    BY <1>1, <1>4 DEF Sound, Linked
  <2>2. \A i, j \in 0..(n - 1) : u.next[i] = j =>
          \/ i = h /\ j = f
          \/ i # h /\ j # f /\ t.next[IF i = f THEN h ELSE i] = j
    BY <2>1, <1>1, <1>4
  <2>3. \A i, j \in 0..(n - 1) : t.next[i] = j => ~IsFree(t, j) /\ HomeOf(t, i) = HomeOf(t, j) /\ HomeOf(t, j) # j
    BY <1>4 DEF Linked, Sound
  <2>4. \A i, j, l \in 0..(n - 1) : t.next[i] = l /\ t.next[j] = l => i = j
    BY <1>4 DEF Linked, Sound
  <2>5. \A i, j \in 0..(n - 1) : u.next[i] = j => ~IsFree(u, j) /\ HomeOf(u, i) = HomeOf(u, j) /\ HomeOf(u, j) # j
    BY <2>2, <2>3, <1>1, <1>5
  <2>6. \A i, j, l \in 0..(n - 1) : u.next[i] = l /\ u.next[j] = l => i = j
    BY <2>2, <2>4, <1>1
  <2> QED
    BY <2>5, <2>6, <1>4 DEF Linked
<1>11. Distinct(u) /\ HeldBy(u) = HeldBy(t) \cup {k}
  <2>1. HeldBy(u) = HeldBy(t) \cup {k}
    BY <1>1, <1>4, <1>5 DEF HeldBy
  <2>2. \A i \in 0..(n - 1) : ~IsFree(t, i) => t.item[i] # k
    BY <1>4 DEF HeldBy
  <2> QED
    BY <2>1, <2>2, <1>4, <1>5 DEF Distinct, Sound
<1>12. Sound(u)
  BY <1>3, <1>7, <1>8, <1>9, <1>10, <1>11 DEF Sound
<1> QED
  BY <1>2, <1>3, <1>11, <1>12

(* ... or in the place of a guest, who moves behind the one before him.    *)
LEMMA PuttingForGuest ==
  ASSUME Hashed, NEW n \in Nat \ {0}, NEW t, t.size = n, Sound(t), t.freeCount # 0,
         NEW k \in Keys \ HeldBy(t), ~IsFree(t, Home(t, k)), HomeOf(t, Home(t, k)) # Home(t, k)
  PROVE  LET u == PutForGuest(t, k)
         IN Sound(u) /\ u.size = n /\ HeldBy(u) = HeldBy(t) \cup {k} /\ u.freeCount = t.freeCount - 1
PROOF
<1> DEFINE h == Home(t, k)
           f == NextFreeEntry(t)
           p == Before(t, h)
           g == HomeOf(t, h)
<1>1. /\ t \in TableOf(n) /\ h \in 0..(n - 1) /\ f \in 0..(n - 1) /\ IsFree(t, f) /\ f # h
      /\ Slots(t) = 0..(n - 1) /\ Slots(t) \subseteq Nat
  <2>1. t \in TableOf(n) /\ h \in 0..(n - 1) /\ t.freeCount = Cardinality(FreeEntries(t))
    BY HomeIsSlot DEF Sound, Slots
  <2>2. f \in 0..(n - 1) /\ IsFree(t, f)
    BY <2>1, NextFreeIsFree DEF Slots
  <2> QED
    BY <2>1, <2>2, TableParts
<1>2. /\ p \in 0..(n - 1) /\ ~IsFree(t, p) /\ t.next[p] = h /\ HomeOf(t, p) = g
      /\ p # h /\ p # f /\ t.next[h] # h
  <2>1. PICK q \in 0..(n - 1) : t.next[q] = h /\ ~IsFree(t, q) /\ HomeOf(t, q) = g
    BY <1>1, Links DEF Sound
  <2>2. Reaches(t, g, q)
    BY <2>1, <1>1 DEF Sound, Homed
  <2>3. q \in Chain(t, g)
    BY <2>1, <2>2, <1>1 DEF Chain, Reaches
  <2>4. p \in Chain(t, g) /\ t.next[p] = h
    BY <2>1, <2>3 DEF Before, HomeOf
  <2>5. p \in 0..(n - 1) /\ ~IsFree(t, p)
    BY <2>4, <1>1 DEF Chain
  <2>6. p = q
    BY <2>1, <2>4, <2>5, <1>1 DEF Linked, Sound
  <2>7. t.next[h] # h
    BY <1>1, Links DEF Sound
  <2> QED
    BY <2>1, <2>4, <2>5, <2>6, <2>7, <1>1
<1>3. PICK u : u = PutForGuest(t, k)
  OBVIOUS
<1>4. /\ u.size = n /\ u.freeOffset = f /\ u.freeCount = t.freeCount - 1
      /\ u.item = [t.item EXCEPT ![f] = t.item[h], ![h] = k]
      /\ u.next = [t.next EXCEPT ![f] = t.next[h], ![p] = f, ![h] = Eol]
      /\ u = [size |-> u.size, freeCount |-> u.freeCount, freeOffset |-> u.freeOffset,
              item |-> u.item, next |-> u.next]
  BY <1>1, <1>3 DEF PutForGuest, Taken, TableOf
<1> HIDE DEF f, p
<1>5. /\ Slots(u) = 0..(n - 1)
      /\ \A i \in 0..(n - 1) : i # f /\ i # h => u.item[i] = t.item[i]
      /\ \A i \in 0..(n - 1) : i # f /\ i # h /\ i # p => u.next[i] = t.next[i]
      /\ u.item[f] = t.item[h] /\ u.item[h] = k
      /\ u.next[f] = t.next[h] /\ u.next[h] = Eol /\ u.next[p] = f
      /\ t.next[f] = Free /\ t.next[h] \in (0..(n - 1)) \cup {Eol}
      /\ t.item \in [0..(n - 1) -> Keys \cup {NoItem}]
      /\ t.next \in [0..(n - 1) -> (0..(n - 1)) \cup {Free, Eol}]
  <2>1. /\ t.item \in [0..(n - 1) -> Keys \cup {NoItem}]
        /\ t.next \in [0..(n - 1) -> (0..(n - 1)) \cup {Free, Eol}]
    BY <1>1, TableParts
  <2> QED
    BY <2>1, <1>1, <1>2, <1>4 DEF Slots, IsFree
<1>6. /\ \A i \in 0..(n - 1) : i # f /\ i # h => HomeOf(u, i) = HomeOf(t, i) /\ (IsFree(u, i) <=> IsFree(t, i))
      /\ HomeOf(u, f) = g /\ ~IsFree(u, f) /\ IsFree(t, f)
      /\ HomeOf(u, h) = h /\ ~IsFree(u, h) /\ ~IsFree(t, h)
  <2>1. \A i \in 0..(n - 1) : i # f /\ i # h => HomeOf(u, i) = HomeOf(t, i)
    BY <1>4, <1>5 DEF HomeOf, Home
  <2>2. HomeOf(u, f) = g /\ HomeOf(u, h) = h
    BY <1>4, <1>5 DEF HomeOf, Home
  <2>3. \A i \in 0..(n - 1) : i # f /\ i # h => (IsFree(u, i) <=> IsFree(t, i))
    BY <1>1, <1>2, <1>5, HashFacts DEF IsFree
  <2> QED
    BY <2>1, <2>2, <2>3, <1>1, <1>2, <1>5, HashFacts DEF IsFree
<1>7. FreeEntries(u) = FreeEntries(t) \ {f} /\ f \in FreeEntries(t)
  BY <1>1, <1>5, <1>6 DEF FreeEntries
<1>8. /\ IsFiniteSet(FreeEntries(t)) /\ Cardinality(FreeEntries(u)) = Cardinality(FreeEntries(t)) - 1
      /\ Cardinality(FreeEntries(u)) \in 0..n
  <2>1. FreeEntries(t) \subseteq 0..(n - 1) /\ FreeEntries(u) \subseteq 0..(n - 1)
    BY <1>1, <1>5 DEF FreeEntries
  <2> QED
    BY <2>1, <1>7, FreeCounts, FS_RemoveElement
<1>9. u \in TableOf(n)
  <2>1. t.freeCount = Cardinality(FreeEntries(t))
    BY DEF Sound
  <2>2. \A m, x, y : /\ m \in [0..(n - 1) -> (0..(n - 1)) \cup {Free, Eol}]
                     /\ x \in (0..(n - 1)) \cup {Free, Eol} /\ y \in (0..(n - 1)) \cup {Free, Eol}
                     => [m EXCEPT ![f] = x, ![p] = y, ![h] = Eol]
                          \in [0..(n - 1) -> (0..(n - 1)) \cup {Free, Eol}]
    OBVIOUS
  <2>3. u.next \in [0..(n - 1) -> (0..(n - 1)) \cup {Free, Eol}]
    <3>1. t.next[h] \in (0..(n - 1)) \cup {Free, Eol} /\ f \in (0..(n - 1)) \cup {Free, Eol}
      BY <1>1, <1>5
    <3>2. u.next = [t.next EXCEPT ![f] = t.next[h], ![p] = f, ![h] = Eol]
      BY <1>4
    <3>3. t.next \in [0..(n - 1) -> (0..(n - 1)) \cup {Free, Eol}]
      BY <1>5
    <3> QED
      BY <2>2, <3>1, <3>2, <3>3
  <2>4. u.item \in [0..(n - 1) -> Keys \cup {NoItem}]
    <3>1. \A m, x, y : /\ m \in [0..(n - 1) -> Keys \cup {NoItem}]
                       /\ x \in Keys \cup {NoItem} /\ y \in Keys \cup {NoItem}
                       => [m EXCEPT ![f] = x, ![h] = y] \in [0..(n - 1) -> Keys \cup {NoItem}]
      OBVIOUS
    <3>2. u.item = [t.item EXCEPT ![f] = t.item[h], ![h] = k]
      BY <1>4
    <3>3. t.item \in [0..(n - 1) -> Keys \cup {NoItem}] /\ t.item[h] \in Keys \cup {NoItem}
          /\ k \in Keys \cup {NoItem}
      BY <1>1, <1>5
    <3> QED
      BY <3>1, <3>2, <3>3
  <2>5. u.freeCount \in 0..n /\ u.freeOffset \in 0..n
    BY <1>1, <1>4, <1>8, <2>1
  <2> QED
    BY <1>4, <2>3, <2>4, <2>5 DEF TableOf
<1>10. Homed(u)
  <2> SUFFICES ASSUME NEW i \in 0..(n - 1), ~IsFree(u, i)
               PROVE  /\ u.item[i] \in Keys /\ Occupied(u, HomeOf(u, i))
                      /\ HomeOf(u, HomeOf(u, i)) = HomeOf(u, i) /\ Reaches(u, HomeOf(u, i), i)
    BY <1>5 DEF Homed
  <2>1. \A j \in 0..(n - 1) : ~IsFree(t, j) =>
          /\ t.item[j] \in Keys /\ HomeOf(t, j) \in 0..(n - 1) /\ ~IsFree(t, HomeOf(t, j))
          /\ HomeOf(t, HomeOf(t, j)) = HomeOf(t, j) /\ Reaches(t, HomeOf(t, j), j)
          /\ HomeOf(t, j) # f /\ HomeOf(t, j) # h
    BY <1>1 DEF Homed, Sound, Occupied
  <2>2. ASSUME NEW S \in SUBSET (0..(n - 1)), Closed(u, S),
               NEW j \in 0..(n - 1), ~IsFree(t, j), HomeOf(t, j) \in S
        PROVE  j \in IF f \in S THEN (S \ {f}) \cup {h} ELSE S \ {f, h}
    <3> DEFINE R == IF f \in S THEN (S \ {f}) \cup {h} ELSE S \ {f, h}
    <3>1. \A l \in S : u.next[l] \in 0..(n - 1) => u.next[l] \in S
      BY <2>2, <1>5 DEF Closed
    <3>2. \A l \in 0..(n - 1) : t.next[l] # f /\ (t.next[l] = h => l = p)
      BY <1>1, <1>2 DEF Linked, Sound
    <3>3. \A l \in R : t.next[l] \in 0..(n - 1) => t.next[l] \in R
      <4> SUFFICES ASSUME NEW l \in R, t.next[l] \in 0..(n - 1) PROVE t.next[l] \in R
        OBVIOUS
      <4>1. l = h => t.next[l] \in R
        BY <3>1, <3>2, <1>1, <1>2, <1>5
      <4>2. l = p => t.next[l] \in R
        BY <3>1, <1>1, <1>2, <1>5
      <4>3. l # h /\ l # p => t.next[l] \in R
        BY <3>1, <3>2, <1>1, <1>5
      <4> QED
        BY <4>1, <4>2, <4>3
    <3>4. R \in SUBSET (0..(n - 1)) /\ HomeOf(t, j) \in R
      BY <2>1, <2>2, <1>1
    <3>5. Closed(t, R)
      BY <3>3, <1>1 DEF Closed
    <3>6. Reaches(t, HomeOf(t, j), j)
      BY <2>1, <2>2
    <3> QED
      BY <3>4, <3>5, <3>6, <1>1 DEF Reaches
  <2>3. CASE i = h
    BY <2>3, <1>1, <1>5, <1>6 DEF Occupied, Reaches
  <2>4. CASE i = f
    <3>1. Reaches(u, g, f)
      <4> SUFFICES ASSUME NEW S \in SUBSET (0..(n - 1)), Closed(u, S), g \in S
                   PROVE  f \in S
        BY <1>5 DEF Reaches
      <4> QED
        BY <2>2, <1>1, <1>6
    <3> QED
      BY <2>4, <3>1, <2>1, <1>1, <1>5, <1>6 DEF Occupied
  <2>5. CASE i # h /\ i # f
    <3>1. ~IsFree(t, i)
      BY <2>5, <1>6
    <3>2. Reaches(u, HomeOf(t, i), i)
      <4> SUFFICES ASSUME NEW S \in SUBSET (0..(n - 1)), Closed(u, S), HomeOf(t, i) \in S
                   PROVE  i \in S
        BY <1>5 DEF Reaches
      <4> QED
        BY <2>2, <2>5, <3>1
    <3> QED
      BY <2>5, <3>1, <3>2, <2>1, <1>5, <1>6 DEF Occupied
  <2> QED
    BY <2>3, <2>4, <2>5
<1>11. Linked(u)
  <2>1. \A i, j \in 0..(n - 1) : t.next[i] = j => ~IsFree(t, j) /\ HomeOf(t, i) = HomeOf(t, j) /\ HomeOf(t, j) # j
    BY <1>1 DEF Linked, Sound
  <2>2. \A i, j, l \in 0..(n - 1) : t.next[i] = l /\ t.next[j] = l => i = j
    BY <1>1 DEF Linked, Sound
  <2>3. \A i, j \in 0..(n - 1) : u.next[i] = j =>
          \/ i = p /\ j = f
          \/ i # p /\ i # h /\ j # f /\ j # h /\ t.next[IF i = f THEN h ELSE i] = j
    BY <2>1, <2>2, <1>1, <1>2, <1>5, HashFacts, SMTT(40)
  <2>4. HomeOf(u, p) = g /\ HomeOf(u, f) = g /\ g # f
    <3>1. g # f
      BY <1>1 DEF Sound, Homed, Occupied
    <3> QED
      BY <3>1, <1>2, <1>6
  <2>5. \A i, j \in 0..(n - 1) : u.next[i] = j => ~IsFree(u, j) /\ HomeOf(u, i) = HomeOf(u, j) /\ HomeOf(u, j) # j
    BY <2>1, <2>3, <2>4, <1>1, <1>6
  <2>6. \A i, j, l \in 0..(n - 1) : u.next[i] = l /\ u.next[j] = l => i = j
    BY <2>2, <2>3, <1>1
  <2> QED
    BY <2>5, <2>6, <1>5 DEF Linked
<1>12. Distinct(u) /\ HeldBy(u) = HeldBy(t) \cup {k}
  <2>1. HeldBy(u) = HeldBy(t) \cup {k}
    <3>1. \A i \in 0..(n - 1) : ~IsFree(u, i) => u.item[i] \in HeldBy(t) \cup {k}
      BY <1>1, <1>5, <1>6 DEF HeldBy
    <3>2. \A i \in 0..(n - 1) : ~IsFree(t, i) => t.item[i] \in HeldBy(u)
      BY <1>1, <1>5, <1>6, SMTT(40) DEF HeldBy
    <3>3. k \in HeldBy(u)
      BY <1>1, <1>5, <1>6 DEF HeldBy
    <3> QED
      BY <3>1, <3>2, <3>3, <1>1, <1>5, HeldIs
  <2>2. \A i \in 0..(n - 1) : ~IsFree(t, i) => t.item[i] # k
    BY <1>1 DEF HeldBy
  <2>3. \A i, j \in 0..(n - 1) : ~IsFree(t, i) /\ ~IsFree(t, j) /\ t.item[i] = t.item[j] => i = j
    BY <1>1 DEF Distinct, Sound
  <2>4. \A i, j \in 0..(n - 1) : ~IsFree(u, i) /\ ~IsFree(u, j) /\ u.item[i] = u.item[j] => i = j
    BY <2>2, <2>3, <1>1, <1>5, <1>6
  <2> QED
    BY <2>1, <2>4, <1>5 DEF Distinct
<1>13. Sound(u)
  BY <1>4, <1>8, <1>9, <1>10, <1>11, <1>12 DEF Sound
<1> QED
  BY <1>3, <1>4, <1>12, <1>13

LEMMA Putting ==
  ASSUME Hashed, NEW n \in Nat \ {0}, NEW t, t.size = n, Sound(t),
         NEW k \in Keys \ HeldBy(t), ~IsFree(t, Home(t, k)) => t.freeCount # 0
  PROVE  LET u == Put(t, k)
         IN Sound(u) /\ u.size = n /\ HeldBy(u) = HeldBy(t) \cup {k} /\ u.freeCount = t.freeCount - 1
PROOF
<1>1. CASE IsFree(t, Home(t, k))
  BY <1>1, PuttingAtHome DEF Put
<1>2. CASE ~IsFree(t, Home(t, k)) /\ HomeOf(t, Home(t, k)) = Home(t, k)
  <2>1. Put(t, k) = PutBehind(t, k)
    BY <1>2 DEF Put, HomeOf
  <2> QED
    BY <1>2, <2>1, PuttingBehind
<1>3. CASE ~IsFree(t, Home(t, k)) /\ HomeOf(t, Home(t, k)) # Home(t, k)
  <2>1. Put(t, k) = PutForGuest(t, k)
    BY <1>3 DEF Put, HomeOf
  <2> QED
    BY <1>3, <2>1, PuttingForGuest
<1> QED
  BY <1>1, <1>2, <1>3

(* An item that is taken out: the last of its chain ...                    *)
LEMMA FreeingLast ==
  ASSUME Hashed, NEW n \in Nat, NEW t, t.size = n, Sound(t),
         NEW e \in 0..(n - 1), t.next[e] = Eol
  PROVE  LET u == FreedLast(t, e)
         IN Sound(u) /\ HeldBy(u) = HeldBy(t) \ {t.item[e]}
PROOF
<1>1. /\ t \in TableOf(n) /\ Slots(t) = 0..(n - 1) /\ Slots(t) \subseteq Nat
      /\ t.item \in [0..(n - 1) -> Keys \cup {NoItem}]
      /\ t.next \in [0..(n - 1) -> (0..(n - 1)) \cup {Free, Eol}]
  <2>1. t \in TableOf(n)
    BY DEF Sound
  <2> QED
    BY <2>1, TableParts
<1>2. PICK u : u = FreedLast(t, e)
  OBVIOUS
<1>3. /\ u.size = n /\ u.freeOffset = t.freeOffset /\ u.freeCount = t.freeCount + 1
      /\ u.item = [t.item EXCEPT ![e] = NoItem]
      /\ u.next = [j \in 0..(n - 1) |-> IF j = e THEN Free ELSE IF t.next[j] = e THEN Eol ELSE t.next[j]]
      /\ u = [size |-> u.size, freeCount |-> u.freeCount, freeOffset |-> u.freeOffset,
              item |-> u.item, next |-> u.next]
  BY <1>1, <1>2 DEF FreedLast, TableOf
<1>4. /\ Slots(u) = 0..(n - 1)
      /\ \A i \in 0..(n - 1) : i # e => u.item[i] = t.item[i]
      /\ \A i \in 0..(n - 1) : i # e => u.next[i] = IF t.next[i] = e THEN Eol ELSE t.next[i]
      /\ u.next[e] = Free
  BY <1>1, <1>3 DEF Slots
<1>5. /\ \A i \in 0..(n - 1) : i # e => HomeOf(u, i) = HomeOf(t, i) /\ (IsFree(u, i) <=> IsFree(t, i))
      /\ IsFree(u, e) /\ ~IsFree(t, e)
  <2>1. \A i \in 0..(n - 1) : i # e => HomeOf(u, i) = HomeOf(t, i)
    BY <1>3, <1>4 DEF HomeOf, Home
  <2>2. \A i \in 0..(n - 1) : i # e => (IsFree(u, i) <=> IsFree(t, i))
    BY <1>1, <1>4, HashFacts DEF IsFree
  <2> QED
    BY <2>1, <2>2, <1>4, HashFacts DEF IsFree
<1>6. FreeEntries(t) = FreeEntries(u) \ {e} /\ e \in FreeEntries(u)
  BY <1>1, <1>4, <1>5 DEF FreeEntries
<1>7. /\ IsFiniteSet(FreeEntries(u)) /\ Cardinality(FreeEntries(t)) = Cardinality(FreeEntries(u)) - 1
      /\ Cardinality(FreeEntries(u)) \in 0..n /\ Cardinality(FreeEntries(t)) \in 0..n
  <2>1. FreeEntries(t) \subseteq 0..(n - 1) /\ FreeEntries(u) \subseteq 0..(n - 1)
    BY <1>1, <1>4 DEF FreeEntries
  <2> QED
    BY <2>1, <1>6, FreeCounts, FS_RemoveElement
<1>8. u \in TableOf(n) /\ u.freeCount = Cardinality(FreeEntries(u))
  <2>1. t.freeCount = Cardinality(FreeEntries(t)) /\ t.freeOffset \in 0..n
    BY <1>1, TableParts DEF Sound
  <2>2. u.freeCount = Cardinality(FreeEntries(u))
    BY <1>3, <1>7, <2>1
  <2>3. u.item \in [0..(n - 1) -> Keys \cup {NoItem}]
    BY <1>1, <1>3
  <2>4. u.next \in [0..(n - 1) -> (0..(n - 1)) \cup {Free, Eol}]
    BY <1>1, <1>3
  <2> QED
    BY <1>3, <1>7, <2>1, <2>2, <2>3, <2>4 DEF TableOf
<1>9. Homed(u)
  <2> SUFFICES ASSUME NEW i \in 0..(n - 1), ~IsFree(u, i)
               PROVE  /\ u.item[i] \in Keys /\ Occupied(u, HomeOf(u, i))
                      /\ HomeOf(u, HomeOf(u, i)) = HomeOf(u, i) /\ Reaches(u, HomeOf(u, i), i)
    BY <1>4 DEF Homed
  <2>1. i # e /\ ~IsFree(t, i)
    BY <1>5
  <2>2. /\ t.item[i] \in Keys /\ HomeOf(t, i) \in 0..(n - 1) /\ ~IsFree(t, HomeOf(t, i))
        /\ HomeOf(t, HomeOf(t, i)) = HomeOf(t, i) /\ Reaches(t, HomeOf(t, i), i)
    BY <2>1, <1>1 DEF Homed, Sound, Occupied
  <2>3. HomeOf(t, i) # e
    <3>1. Closed(t, {e})
      BY <1>1, HashFacts DEF Closed
    <3> QED
      BY <3>1, <2>1, <2>2, <1>1 DEF Reaches
  <2>4. ASSUME NEW S \in SUBSET (0..(n - 1)), Closed(u, S)
        PROVE  Closed(t, S \cup {e})
    <3>1. \A l \in S : u.next[l] \in 0..(n - 1) => u.next[l] \in S
      BY <2>4, <1>4 DEF Closed
    <3>2. \A l \in S \cup {e} : t.next[l] \in 0..(n - 1) => t.next[l] \in S \cup {e}
      BY <3>1, <1>4, HashFacts
    <3> QED
      BY <3>2, <1>1 DEF Closed
  <2>5. Reaches(u, HomeOf(t, i), i)
    <3> SUFFICES ASSUME NEW S \in SUBSET (0..(n - 1)), Closed(u, S), HomeOf(t, i) \in S
                 PROVE  i \in S
      BY <1>4 DEF Reaches
    <3>1. S \cup {e} \in SUBSET (0..(n - 1)) /\ Closed(t, S \cup {e})
      BY <2>4
    <3> QED
      BY <3>1, <2>1, <2>2, <1>1 DEF Reaches
  <2> QED
    BY <2>1, <2>2, <2>3, <2>5, <1>4, <1>5 DEF Occupied
<1>10. Linked(u)
  <2>1. \A i, j \in 0..(n - 1) : u.next[i] = j => i # e /\ j # e /\ t.next[i] = j
    BY <1>4, HashFacts
  <2>2. \A i, j \in 0..(n - 1) : t.next[i] = j => ~IsFree(t, j) /\ HomeOf(t, i) = HomeOf(t, j) /\ HomeOf(t, j) # j
    BY <1>1 DEF Linked, Sound
  <2>3. \A i, j, l \in 0..(n - 1) : t.next[i] = l /\ t.next[j] = l => i = j
    BY <1>1 DEF Linked, Sound
  <2>4. \A i, j \in 0..(n - 1) : u.next[i] = j => ~IsFree(u, j) /\ HomeOf(u, i) = HomeOf(u, j) /\ HomeOf(u, j) # j
    BY <2>1, <2>2, <1>5
  <2>5. \A i, j, l \in 0..(n - 1) : u.next[i] = l /\ u.next[j] = l => i = j
    BY <2>1, <2>3
  <2> QED
    BY <2>4, <2>5, <1>4 DEF Linked
<1>11. Distinct(u) /\ HeldBy(u) = HeldBy(t) \ {t.item[e]}
  <2>1. \A i, j \in 0..(n - 1) : ~IsFree(t, i) /\ ~IsFree(t, j) /\ t.item[i] = t.item[j] => i = j
    BY <1>1 DEF Distinct, Sound
  <2>2. Distinct(u)
    BY <2>1, <1>4, <1>5 DEF Distinct
  <2>3. \A x : x \in HeldBy(u) <=> x \in HeldBy(t) /\ x # t.item[e]
    BY <2>1, <1>1, <1>4, <1>5, HeldIs
  <2> QED
    BY <2>2, <2>3
<1> QED
  BY <1>2, <1>3, <1>8, <1>9, <1>10, <1>11 DEF Sound

(* ... or one that the next of its chain replaces.                         *)
LEMMA FreeingNext ==
  ASSUME Hashed, NEW n \in Nat, NEW t, t.size = n, Sound(t),
         NEW e \in 0..(n - 1), t.next[e] \in 0..(n - 1)
  PROVE  LET u == FreedNext(t, e)
         IN Sound(u) /\ HeldBy(u) = HeldBy(t) \ {t.item[e]}
PROOF
<1> DEFINE m == t.next[e]
<1>1. /\ t \in TableOf(n) /\ Slots(t) = 0..(n - 1) /\ Slots(t) \subseteq Nat
      /\ t.item \in [0..(n - 1) -> Keys \cup {NoItem}]
      /\ t.next \in [0..(n - 1) -> (0..(n - 1)) \cup {Free, Eol}]
  <2>1. t \in TableOf(n)
    BY DEF Sound
  <2> QED
    BY <2>1, TableParts
<1>2. /\ m \in 0..(n - 1) /\ m # e /\ ~IsFree(t, e) /\ ~IsFree(t, m) /\ t.next[m] # m
      /\ HomeOf(t, m) = HomeOf(t, e) /\ HomeOf(t, m) # m
      /\ t.next[m] \in (0..(n - 1)) \cup {Eol}
  <2>1. ~IsFree(t, e)
    BY <1>1, HashFacts DEF IsFree
  <2>2. ~IsFree(t, m) /\ HomeOf(t, m) = HomeOf(t, e) /\ HomeOf(t, m) # m
    BY <1>1 DEF Sound, Linked
  <2>3. m # e /\ t.next[m] # m
    BY <2>1, <2>2, <1>1, Links DEF Sound
  <2> QED
    BY <2>1, <2>2, <2>3, <1>1 DEF IsFree
<1>3. PICK u : u = FreedNext(t, e)
  OBVIOUS
<1>4. /\ u.size = n /\ u.freeOffset = t.freeOffset /\ u.freeCount = t.freeCount + 1
      /\ u.item = [t.item EXCEPT ![e] = t.item[m], ![m] = NoItem]
      /\ u.next = [t.next EXCEPT ![e] = t.next[m], ![m] = Free]
      /\ u = [size |-> u.size, freeCount |-> u.freeCount, freeOffset |-> u.freeOffset,
              item |-> u.item, next |-> u.next]
  BY <1>1, <1>3 DEF FreedNext, TableOf
<1>5. /\ Slots(u) = 0..(n - 1)
      /\ \A i \in 0..(n - 1) : i # e /\ i # m => u.item[i] = t.item[i] /\ u.next[i] = t.next[i]
      /\ u.item[e] = t.item[m] /\ u.next[e] = t.next[m] /\ u.next[m] = Free
  BY <1>1, <1>2, <1>4 DEF Slots
<1>6. /\ \A i \in 0..(n - 1) : i # m => HomeOf(u, i) = HomeOf(t, i) /\ (IsFree(u, i) <=> IsFree(t, i))
      /\ IsFree(u, m) /\ ~IsFree(t, m)
  <2>1. \A i \in 0..(n - 1) : i # e /\ i # m => HomeOf(u, i) = HomeOf(t, i)
    BY <1>4, <1>5 DEF HomeOf, Home
  <2>2. HomeOf(u, e) = HomeOf(t, m)
    BY <1>4, <1>5 DEF HomeOf, Home
  <2>3. \A i \in 0..(n - 1) : i # m => (IsFree(u, i) <=> IsFree(t, i))
    BY <1>1, <1>2, <1>5, HashFacts DEF IsFree
  <2> QED
    BY <2>1, <2>2, <2>3, <1>2, <1>5 DEF IsFree
<1>7. FreeEntries(t) = FreeEntries(u) \ {m} /\ m \in FreeEntries(u)
  BY <1>1, <1>2, <1>5, <1>6 DEF FreeEntries
<1>8. /\ IsFiniteSet(FreeEntries(u)) /\ Cardinality(FreeEntries(t)) = Cardinality(FreeEntries(u)) - 1
      /\ Cardinality(FreeEntries(u)) \in 0..n /\ Cardinality(FreeEntries(t)) \in 0..n
  <2>1. FreeEntries(t) \subseteq 0..(n - 1) /\ FreeEntries(u) \subseteq 0..(n - 1)
    BY <1>1, <1>5 DEF FreeEntries
  <2> QED
    BY <2>1, <1>7, FreeCounts, FS_RemoveElement
<1>9. u \in TableOf(n) /\ u.freeCount = Cardinality(FreeEntries(u))
  <2>1. t.freeCount = Cardinality(FreeEntries(t)) /\ t.freeOffset \in 0..n
    BY <1>1, TableParts DEF Sound
  <2>2. u.freeCount = Cardinality(FreeEntries(u))
    BY <1>4, <1>8, <2>1
  <2>3. u.item \in [0..(n - 1) -> Keys \cup {NoItem}]
    BY <1>1, <1>2, <1>4, SMTT(30)
  <2>4. u.next \in [0..(n - 1) -> (0..(n - 1)) \cup {Free, Eol}]
    BY <1>1, <1>2, <1>4
  <2> QED
    BY <1>4, <1>8, <2>1, <2>2, <2>3, <2>4 DEF TableOf
<1>10. Homed(u)
  <2> SUFFICES ASSUME NEW i \in 0..(n - 1), ~IsFree(u, i)
               PROVE  /\ u.item[i] \in Keys /\ Occupied(u, HomeOf(u, i))
                      /\ HomeOf(u, HomeOf(u, i)) = HomeOf(u, i) /\ Reaches(u, HomeOf(u, i), i)
    BY <1>5 DEF Homed
  <2>1. i # m /\ ~IsFree(t, i)
    BY <1>6
  <2>2. \A j \in 0..(n - 1) : ~IsFree(t, j) =>
          /\ t.item[j] \in Keys /\ HomeOf(t, j) \in 0..(n - 1) /\ ~IsFree(t, HomeOf(t, j))
          /\ HomeOf(t, HomeOf(t, j)) = HomeOf(t, j) /\ Reaches(t, HomeOf(t, j), j)
          /\ HomeOf(t, j) # m
    BY <1>1, <1>2 DEF Homed, Sound, Occupied
  <2>3. Reaches(u, HomeOf(t, i), i)
    <3> SUFFICES ASSUME NEW S \in SUBSET (0..(n - 1)), Closed(u, S), HomeOf(t, i) \in S
                 PROVE  i \in S
      BY <1>5 DEF Reaches
    <3> DEFINE R == IF e \in S THEN S \cup {m} ELSE S \ {m}
    <3>1. \A l \in S : u.next[l] \in 0..(n - 1) => u.next[l] \in S
      BY <1>5 DEF Closed
    <3>2. \A l \in 0..(n - 1) : t.next[l] = m => l = e
      BY <1>1, <1>2 DEF Linked, Sound
    <3>3. \A l \in R : t.next[l] \in 0..(n - 1) => t.next[l] \in R
      <4> SUFFICES ASSUME NEW l \in R, t.next[l] \in 0..(n - 1) PROVE t.next[l] \in R
        OBVIOUS
      <4>1. l = m => t.next[l] \in R
        BY <3>1, <3>2, <1>2, <1>5
      <4>2. l = e => t.next[l] \in R
        BY <1>2
      <4>3. l # m /\ l # e => t.next[l] \in R
        BY <3>1, <3>2, <1>2, <1>5
      <4> QED
        BY <4>1, <4>2, <4>3
    <3>4. R \in SUBSET (0..(n - 1)) /\ HomeOf(t, i) \in R
      BY <2>1, <2>2, <1>2
    <3>5. Closed(t, R)
      BY <3>3, <1>1 DEF Closed
    <3>6. Reaches(t, HomeOf(t, i), i)
      BY <2>1, <2>2
    <3>7. i \in R
      BY <3>4, <3>5, <3>6, <1>1 DEF Reaches
    <3> QED
      BY <3>7, <2>1
  <2>4. u.item[i] \in Keys
    BY <2>1, <2>2, <1>2, <1>5
  <2> QED
    BY <2>1, <2>2, <2>3, <2>4, <1>5, <1>6 DEF Occupied
<1>11. Linked(u)
  <2>1. \A i, j \in 0..(n - 1) : t.next[i] = j => ~IsFree(t, j) /\ HomeOf(t, i) = HomeOf(t, j) /\ HomeOf(t, j) # j
    BY <1>1 DEF Linked, Sound
  <2>2. \A i, j, l \in 0..(n - 1) : t.next[i] = l /\ t.next[j] = l => i = j
    BY <1>1 DEF Linked, Sound
  <2>3. \A i, j \in 0..(n - 1) : u.next[i] = j =>
          i # m /\ j # m /\ t.next[IF i = e THEN m ELSE i] = j
    BY <2>2, <1>1, <1>2, <1>5, HashFacts
  <2>4. \A i, j \in 0..(n - 1) : u.next[i] = j => ~IsFree(u, j) /\ HomeOf(u, i) = HomeOf(u, j) /\ HomeOf(u, j) # j
    BY <2>1, <2>3, <1>2, <1>6
  <2>5. \A i, j, l \in 0..(n - 1) : u.next[i] = l /\ u.next[j] = l => i = j
    BY <2>2, <2>3, <1>2
  <2> QED
    BY <2>4, <2>5, <1>5 DEF Linked
<1>12. Distinct(u) /\ HeldBy(u) = HeldBy(t) \ {t.item[e]}
  <2>1. \A i, j \in 0..(n - 1) : ~IsFree(t, i) /\ ~IsFree(t, j) /\ t.item[i] = t.item[j] => i = j
    BY <1>1 DEF Distinct, Sound
  <2>2. \A i, j \in 0..(n - 1) : ~IsFree(u, i) /\ ~IsFree(u, j) /\ u.item[i] = u.item[j] => i = j
    BY <2>1, <1>2, <1>5, <1>6
  <2>3. Distinct(u)
    BY <2>2, <1>5 DEF Distinct
  <2>4. \A x : x \in HeldBy(u) => x \in HeldBy(t) /\ x # t.item[e]
    BY <2>1, <1>1, <1>2, <1>5, <1>6, HeldIs
  <2>5. \A x : x \in HeldBy(t) /\ x # t.item[e] => x \in HeldBy(u)
    BY <1>1, <1>2, <1>5, <1>6, HeldIs
  <2> QED
    BY <2>3, <2>4, <2>5
<1> QED
  BY <1>3, <1>4, <1>9, <1>10, <1>11, <1>12 DEF Sound

LEMMA EmptySound ==
  ASSUME NEW n \in Nat
  PROVE  Sound(Empty(n)) /\ Empty(n).size = n /\ Empty(n).freeCount = n /\ HeldBy(Empty(n)) = {}
PROOF
<1>1. PICK t : t = Empty(n)
  OBVIOUS
<1>2. /\ t.size = n /\ t.freeCount = n /\ t.freeOffset = n /\ Slots(t) = 0..(n - 1)
      /\ \A i \in 0..(n - 1) : t.next[i] = Free
  BY <1>1 DEF Empty, Slots
<1>3. t \in TableOf(n)
  BY <1>1 DEF Empty, TableOf
<1>4. FreeEntries(t) = 0..(n - 1) /\ HeldBy(t) = {}
  BY <1>2 DEF FreeEntries, IsFree, HeldBy
<1>5. Cardinality(FreeEntries(t)) = n
  BY <1>4, FS_Interval
<1>6. Homed(t) /\ Linked(t) /\ Distinct(t)
  BY <1>2, HashFacts DEF Homed, Linked, Distinct, IsFree
<1> QED
  BY <1>1, <1>2, <1>3, <1>4, <1>5, <1>6 DEF Sound

(* Find finds the items that are there.                                    *)
LEMMA Finding ==
  ASSUME NEW t, Sound(t), NEW k \in Keys
  PROVE  /\ IsFound(t, k) <=> k \in HeldBy(t)
         /\ \A i \in Holders(t, k) : i \in Slots(t) /\ ~IsFree(t, i) /\ t.item[i] = k
PROOF
<1>1. \A i \in Holders(t, k) : i \in Slots(t) /\ ~IsFree(t, i) /\ t.item[i] = k
  BY DEF Holders, Chain
<1>2. ASSUME NEW i \in Slots(t), ~IsFree(t, i), t.item[i] = k
      PROVE  i \in Holders(t, k)
  <2>1. Home(t, k) = HomeOf(t, i) /\ Reaches(t, HomeOf(t, i), i)
    BY <1>2 DEF HomeOf, Sound, Homed
  <2>2. i \in Chain(t, Home(t, k))
    BY <2>1, <1>2 DEF Chain, Reaches
  <2>3. t.size # 0
    BY <1>2 DEF Slots, Sound
  <2> QED
    BY <2>2, <2>3, <1>2 DEF Holders
<1> QED
  BY <1>1, <1>2, HeldIs DEF IsFound

LEMMA Freeing ==
  ASSUME Hashed, NEW t, Sound(t), NEW i \in Slots(t), ~IsFree(t, i)
  PROVE  Sound(Freed(t, i)) /\ HeldBy(Freed(t, i)) = HeldBy(t) \ {t.item[i]}
PROOF
<1>1. PICK n \in Nat : t.size = n /\ t \in TableOf(n)
  BY DEF Sound
<1>2. i \in 0..(n - 1) /\ t.next[i] \in (0..(n - 1)) \cup {Eol}
  <2>1. Slots(t) = 0..(n - 1) /\ t.next \in [0..(n - 1) -> (0..(n - 1)) \cup {Free, Eol}]
    BY <1>1, TableParts
  <2> QED
    BY <2>1 DEF IsFree
<1>3. CASE t.next[i] = Eol
  BY <1>1, <1>2, <1>3, FreeingLast DEF Freed
<1>4. CASE t.next[i] # Eol
  BY <1>1, <1>2, <1>4, FreeingNext DEF Freed
<1> QED
  BY <1>3, <1>4

(* The invariant of the hash set: the table is sound, holds the keys that  *)
(* were added, and while it grows those of the old table that were copied, *)
(* with room for the others.                                               *)
Copied(t, n) == {t.item[i] : i \in {i \in Slots(t) : i < n /\ ~IsFree(t, i)}}

GrowInv ==
  \/ growing = NotGrowing /\ HeldBy(table) = held
  \/ /\ growing = [from |-> growing.from, at |-> growing.at, key |-> growing.key]
     /\ growing.key \in Keys \ held /\ growing.at \in 0..growing.from.size
     /\ Sound(growing.from) /\ HeldBy(growing.from) = held
     /\ HeldBy(table) = Copied(growing.from, growing.at)
     /\ growing.from.size < table.size /\ table.size <= table.freeCount + growing.at

HashInv ==
  /\ Hashed /\ result \in BOOLEAN /\ held \subseteq Keys
  /\ Sound(table) /\ GrowInv

LEMMA Idle ==
  ASSUME GrowInv, growing = NotGrowing
  PROVE  HeldBy(table) = held
BY HashFacts DEF GrowInv, NotGrowing

LEMMA SameTable ==
  ASSUME NEW CONSTANT t, hash' = hash, table' = t
  PROVE  (Sound(table)' <=> Sound(t)) /\ HeldBy(table)' = HeldBy(t)
BY DEF Sound, TableOf, Homed, Linked, Distinct, HeldBy, HomeOf, Home, Occupied, Reaches, Closed, FreeEntries, IsFree, Slots

LEMMA SameFrom ==
  ASSUME NEW CONSTANT t, hash' = hash, growing'.from = t
  PROVE  /\ Sound(growing.from)' <=> Sound(t)
         /\ HeldBy(growing.from)' = HeldBy(t)
         /\ Copied(growing.from, growing.at)' = Copied(t, growing'.at)
BY DEF Sound, TableOf, Homed, Linked, Distinct, HeldBy, Copied, HomeOf, Home, Occupied, Reaches, Closed, FreeEntries, IsFree, Slots

LEMMA Inserting ==
  ASSUME Hashed, Sound(table), HeldBy(table) = held, held \subseteq Keys, result \in BOOLEAN,
         NEW k \in Keys, InsertKey(k), hash' = hash
  PROVE  HashInv'
PROOF
<1>1. IsFound(table, k) <=> k \in held
  BY Finding
<1>2. PICK t : t = table
  OBVIOUS
<1>3. PICK n \in Nat : t.size = n /\ t \in TableOf(n) /\ t.freeCount \in 0..n
  BY <1>2, TableParts DEF Sound
<1>4. CASE k \in held
  <2>1. result' = FALSE /\ growing' = NotGrowing /\ table' = t /\ held' = held
    BY <1>1, <1>2, <1>4 DEF InsertKey
  <2>2. Sound(table)' /\ HeldBy(table)' = held'
    BY <2>1, <1>2, SameTable
  <2>3. Hashed' /\ GrowInv'
    BY <2>1, <2>2 DEF Hashed, GrowInv, NotGrowing, Empty
  <2> QED
    BY <2>1, <2>2, <2>3 DEF HashInv
<1>5. CASE k \notin held /\ OutOfSpace(t, k)
  <2> DEFINE m == IF t.size = 0 THEN InitialSize ELSE 2 * t.size
  <2>1. m \in Nat /\ n < m
    BY <1>3, HashFacts
  <2>2. /\ growing' = [from |-> t, at |-> 0, key |-> k] /\ table' = Empty(m)
        /\ result' = result /\ held' = held
    BY <1>1, <1>2, <1>5 DEF InsertKey
  <2> HIDE DEF m
  <2>3. PICK u : u = Empty(m)
    OBVIOUS
  <2>4. Sound(u) /\ u.size = m /\ u.freeCount = m /\ HeldBy(u) = {}
    BY <2>1, <2>3, EmptySound
  <2>5. Sound(table)' /\ HeldBy(table)' = {} /\ table' = u
    BY <2>2, <2>3, <2>4, SameTable
  <2>6. growing'.from = t /\ growing'.at = 0 /\ growing'.key = k
    BY <2>2
  <2>7. Sound(growing.from)' /\ HeldBy(growing.from)' = held'
    BY <2>2, <2>6, <1>2, SameFrom
  <2>8. Copied(growing.from, growing.at)' = {}
    <3>1. Copied(t, 0) = {}
      BY <1>3, TableParts DEF Copied
    <3> QED
      BY <2>6, <3>1, SameFrom
  <2>9. GrowInv'
    <3>1. growing' = [from |-> growing'.from, at |-> growing'.at, key |-> growing'.key]
      BY <2>2
    <3>2. growing'.key \in Keys \ held' /\ growing'.at \in 0..growing'.from.size
      BY <2>2, <2>6, <1>3, <1>5
    <3>3. growing'.from.size < table'.size /\ table'.size <= table'.freeCount + growing'.at
      BY <2>1, <2>4, <2>5, <2>6, <1>3
    <3> QED
      BY <2>5, <2>7, <2>8, <3>1, <3>2, <3>3 DEF GrowInv
  <2> QED
    BY <2>2, <2>5, <2>9 DEF HashInv, Hashed
<1>6. CASE k \notin held /\ ~OutOfSpace(t, k)
  <2>1. /\ table' = Put(t, k) /\ held' = held \cup {k}
        /\ result' = TRUE /\ growing' = NotGrowing
    BY <1>1, <1>2, <1>6 DEF InsertKey
  <2>2. PICK u : u = Put(t, k)
    OBVIOUS
  <2>3. n \in Nat \ {0} /\ (~IsFree(t, Home(t, k)) => t.freeCount # 0)
    BY <1>3, <1>6 DEF OutOfSpace
  <2>4. Sound(u) /\ HeldBy(u) = held \cup {k}
    BY <2>2, <2>3, <1>2, <1>3, <1>6, Putting
  <2>5. Sound(table)' /\ HeldBy(table)' = held'
    BY <2>1, <2>2, <2>4, SameTable
  <2>6. Hashed' /\ GrowInv'
    BY <2>1, <2>5 DEF Hashed, GrowInv, NotGrowing, Empty
  <2> QED
    BY <2>1, <2>5, <2>6 DEF HashInv
<1> QED
  BY <1>4, <1>5, <1>6

LEMMA Copying ==
  ASSUME HashInv, CopyNext
  PROVE  HashInv'
PROOF
<1>1. /\ growing = [from |-> growing.from, at |-> growing.at, key |-> growing.key]
      /\ growing.key \in Keys \ held /\ growing.at \in 0..growing.from.size
      /\ Sound(growing.from) /\ HeldBy(growing.from) = held
      /\ HeldBy(table) = Copied(growing.from, growing.at)
      /\ growing.from.size < table.size /\ table.size <= table.freeCount + growing.at
  BY DEF CopyNext, HashInv, GrowInv
<1>2. PICK t, from, at, key : t = table /\ from = growing.from /\ at = growing.at /\ key = growing.key
  OBVIOUS
<1>3. /\ growing' = [from |-> from, at |-> at + 1, key |-> key]
      /\ table' = IF IsFree(from, at) THEN t ELSE Put(t, from.item[at])
      /\ hash' = hash /\ result' = result /\ held' = held /\ at < from.size
  BY <1>1, <1>2 DEF CopyNext
<1>4. PICK n, m \in Nat : /\ t.size = n /\ t \in TableOf(n) /\ t.freeCount \in 0..n /\ Sound(t)
                          /\ from.size = m /\ from \in TableOf(m) /\ Sound(from)
                          /\ at \in 0..(m - 1) /\ n <= t.freeCount + at /\ m < n
  <2>1. PICK n \in Nat : t.size = n /\ t \in TableOf(n) /\ t.freeCount \in 0..n /\ Sound(t)
    BY <1>2, TableParts DEF Sound, HashInv
  <2>2. PICK m \in Nat : from.size = m /\ from \in TableOf(m) /\ Sound(from)
    BY <1>1, <1>2 DEF Sound
  <2> QED
    BY <2>1, <2>2, <1>1, <1>2, <1>3
<1>5. HeldBy(t) = Copied(from, at) /\ Hashed /\ key \in Keys \ held /\ HeldBy(from) = held
  BY <1>1, <1>2 DEF HashInv
<1>6. /\ Slots(from) = 0..(m - 1) /\ Slots(from) \subseteq Nat
  BY <1>4, TableParts
<1>7. PICK u : u = IF IsFree(from, at) THEN t ELSE Put(t, from.item[at])
  OBVIOUS
<1>8. Sound(u) /\ u.size = n /\ HeldBy(u) = Copied(from, at + 1) /\ n <= u.freeCount + (at + 1)
  <2>1. CASE IsFree(from, at)
    <3>1. Copied(from, at + 1) = Copied(from, at)
      <4>1. \A i \in Slots(from) : ~IsFree(from, i) => (i < at + 1 <=> i < at)
        BY <2>1, <1>4, <1>6
      <4> QED
        BY <4>1 DEF Copied
    <3>2. u = t
      BY <2>1, <1>7
    <3> QED
      BY <3>1, <3>2, <1>4, <1>5
  <2>2. CASE ~IsFree(from, at)
    <3> DEFINE k == from.item[at]
    <3>1. Copied(from, at + 1) = Copied(from, at) \cup {k}
      <4>1. \A i \in Slots(from) : i < at + 1 <=> (i < at \/ i = at)
        BY <1>4, <1>6
      <4>2. \A x : x \in Copied(from, at + 1) <=> \E i \in Slots(from) : i < at + 1 /\ ~IsFree(from, i) /\ from.item[i] = x
        BY DEF Copied
      <4>3. \A x : x \in Copied(from, at) <=> \E i \in Slots(from) : i < at /\ ~IsFree(from, i) /\ from.item[i] = x
        BY DEF Copied
      <4>4. at \in Slots(from)
        BY <1>4, <1>6
      <4> QED
        BY <4>1, <4>2, <4>3, <4>4, <2>2
    <3>2. k \in Keys \ HeldBy(t)
      <4>1. k \in Keys
        BY <2>2, <1>4, <1>6 DEF Sound, Homed
      <4>2. \A i \in Slots(from) : i < at /\ ~IsFree(from, i) => from.item[i] # k
        BY <2>2, <1>4, <1>6 DEF Sound, Distinct
      <4>3. k \notin Copied(from, at)
        BY <4>2 DEF Copied
      <4> QED
        BY <4>1, <4>3, <1>5
    <3>3. t.freeCount # 0 /\ n \in Nat \ {0}
      BY <1>4
    <3>4. u = Put(t, k)
      BY <2>2, <1>7
    <3>5. Sound(u) /\ u.size = n /\ HeldBy(u) = HeldBy(t) \cup {k} /\ u.freeCount = t.freeCount - 1
      BY <3>2, <3>3, <3>4, <1>4, <1>5, Putting
    <3>6. n <= u.freeCount + (at + 1)
      BY <3>5, <1>4
    <3> QED
      BY <3>1, <3>5, <3>6, <1>5
  <2> QED
    BY <2>1, <2>2
<1>9. table' = u
  BY <1>3, <1>7
<1>10. Sound(table)' /\ HeldBy(table)' = Copied(from, at + 1)
  BY <1>3, <1>8, <1>9, SameTable
<1>11. growing'.from = from /\ growing'.at = at + 1 /\ growing'.key = key
  BY <1>3
<1>12. /\ Sound(growing.from)' /\ HeldBy(growing.from)' = held'
       /\ Copied(growing.from, growing.at)' = Copied(from, at + 1)
  BY <1>3, <1>4, <1>5, <1>11, SameFrom
<1>13. GrowInv'
  <2>1. growing' = [from |-> growing'.from, at |-> growing'.at, key |-> growing'.key]
    BY <1>3
  <2>2. growing'.key \in Keys \ held' /\ growing'.at \in 0..growing'.from.size
    BY <1>3, <1>4, <1>5, <1>11
  <2>3. growing'.from.size < table'.size /\ table'.size <= table'.freeCount + growing'.at
    BY <1>4, <1>8, <1>9, <1>11
  <2> QED
    BY <1>10, <1>12, <2>1, <2>2, <2>3 DEF GrowInv
<1> QED
  BY <1>3, <1>10, <1>13 DEF HashInv, Hashed

LEMMA HashInvHolds == HashSpec => []HashInv
PROOF
<1>1. HashInit => HashInv
  <2> SUFFICES ASSUME HashInit PROVE HashInv
    OBVIOUS
  <2>1. Sound(table) /\ HeldBy(table) = {}
    BY EmptySound DEF HashInit
  <2> QED
    BY <2>1 DEF HashInit, HashInv, Hashed, GrowInv
<1>2. HashInv /\ [HashNext]_hashVars => HashInv'
  <2> SUFFICES ASSUME HashInv, [HashNext]_hashVars PROVE HashInv'
    OBVIOUS
  <2>0. PICK t : t = table
    OBVIOUS
  <2>1. CASE ClearTable
    <3>1. PICK n \in Nat : t.size = n
      BY <2>0 DEF HashInv, Sound
    <3>2. table' = Empty(n) /\ held' = {} /\ hash' = hash /\ growing' = NotGrowing /\ result' = result
      BY <2>0, <2>1, <3>1 DEF ClearTable
    <3>3. PICK u : u = Empty(n)
      OBVIOUS
    <3>4. Sound(u) /\ HeldBy(u) = {}
      BY <3>3, EmptySound
    <3>5. Sound(table)' /\ HeldBy(table)' = {}
      BY <3>2, <3>3, <3>4, SameTable
    <3> QED
      BY <3>2, <3>5 DEF HashInv, Hashed, GrowInv, NotGrowing, Empty
  <2>2. CASE CopyNext
    BY <2>2, Copying
  <2>3. CASE AddAgain
    <3>1. /\ growing.key \in Keys /\ Sound(growing.from) /\ HeldBy(growing.from) = held
          /\ HeldBy(table) = Copied(growing.from, growing.from.size)
      BY <2>3 DEF AddAgain, HashInv, GrowInv
    <3>2. Copied(growing.from, growing.from.size) = HeldBy(growing.from)
      <4>1. PICK m \in Nat : growing.from.size = m /\ growing.from \in TableOf(m)
        BY <3>1 DEF Sound
      <4>2. \A i \in Slots(growing.from) : i < growing.from.size
        BY <4>1, TableParts
      <4> QED
        BY <4>2 DEF Copied, HeldBy
    <3>3. HeldBy(table) = held /\ InsertKey(growing.key) /\ hash' = hash
      BY <3>1, <3>2, <2>3 DEF AddAgain
    <3> QED
      BY <3>1, <3>3, Inserting DEF HashInv
  <2>4. ASSUME NEW k \in Keys, AddItem(k) PROVE HashInv'
    <3>1. HeldBy(table) = held /\ InsertKey(k) /\ hash' = hash
      BY <2>4, Idle DEF AddItem, HashInv
    <3> QED
      BY <3>1, Inserting DEF HashInv
  <2>5. ASSUME NEW k \in Keys, RemoveKey(k) PROVE HashInv'
    <3>0. PICK i : i = CHOOSE e \in Holders(t, k) : TRUE
      OBVIOUS
    <3>1. /\ HeldBy(t) = held /\ hash' = hash /\ growing' = NotGrowing /\ growing = NotGrowing /\ Sound(t)
          /\ held' = held \ {k} /\ (result' <=> IsFound(t, k))
          /\ table' = IF IsFound(t, k) THEN Freed(t, i) ELSE t
      <4>1. growing = NotGrowing /\ hash' = hash /\ growing' = growing
        BY <2>5 DEF RemoveKey
      <4>2. HeldBy(t) = held /\ Sound(t)
        BY <4>1, <2>0, Idle DEF HashInv
      <4> QED
        BY <3>0, <4>1, <4>2, <2>0, <2>5 DEF RemoveKey
    <3>2. PICK u : u = IF IsFound(t, k) THEN Freed(t, i) ELSE t
      OBVIOUS
    <3>3. Sound(u) /\ HeldBy(u) = held \ {k}
      <4>1. CASE IsFound(t, k)
        <5>2. i \in Holders(t, k)
          BY <4>1, <3>0 DEF IsFound
        <5>3. i \in Slots(t) /\ ~IsFree(t, i) /\ t.item[i] = k
          BY <5>2, <3>1, Finding
        <5>4. u = Freed(t, i)
          BY <4>1, <3>2
        <5> QED
          BY <5>3, <5>4, <3>1, Freeing DEF HashInv
      <4>2. CASE ~IsFound(t, k)
        <5>1. u = t /\ k \notin held
          BY <4>2, <3>1, <3>2, Finding
        <5> QED
          BY <5>1, <3>1
      <4> QED
        BY <4>1, <4>2
    <3>4. Sound(table)' /\ HeldBy(table)' = held'
      BY <3>1, <3>2, <3>3, SameTable
    <3>5. Hashed' /\ held' \subseteq Keys
      BY <3>1 DEF HashInv, Hashed
    <3>6. result' \in BOOLEAN
      BY <2>5 DEF RemoveKey, IsFound
    <3>7. GrowInv'
      BY <3>1, <3>4 DEF GrowInv, NotGrowing, Empty
    <3> QED
      BY <3>4, <3>5, <3>6, <3>7 DEF HashInv
  <2>6. CASE UNCHANGED hashVars
    <3>1. hash' = hash /\ table' = t /\ growing' = growing /\ result' = result /\ held' = held
      BY <2>0, <2>6 DEF hashVars
    <3>2. Sound(table)' /\ HeldBy(table)' = HeldBy(t)
      BY <3>1, <2>0, SameTable DEF HashInv
    <3>3. PICK from : from = growing.from
      OBVIOUS
    <3>4. /\ Sound(growing.from)' <=> Sound(growing.from)
          /\ HeldBy(growing.from)' = HeldBy(growing.from)
          /\ Copied(growing.from, growing.at)' = Copied(growing.from, growing.at)
      BY <3>1, <3>3, SameFrom
    <3>5. GrowInv'
      BY <3>1, <3>2, <3>4, <2>0 DEF HashInv, GrowInv, NotGrowing, Empty
    <3> QED
      BY <3>1, <3>2, <3>5 DEF HashInv, Hashed
  <2> QED
    BY <2>1, <2>2, <2>3, <2>4, <2>5, <2>6 DEF HashNext
<1> QED
  BY <1>1, <1>2, PTL DEF HashSpec

(* What a sound table gives: enumerating it visits the items it holds, and *)
(* a chain has one end.                                                    *)
LEMMA Enumerating ==
  ASSUME Sound(table)
  PROVE  /\ ForEach = {i \in Slots(table) : ~IsFree(table, i)}
         /\ \A x : x \in HeldBy(table) <=> \E i \in ForEach : table.item[i] = x
PROOF
<1>1. PICK n \in Nat : table.size = n /\ table \in TableOf(n)
  BY DEF Sound
<1>2. ForEach = {i \in Slots(table) : ~IsFree(table, i)}
  <2>1. CASE table.freeCount # table.size
    BY <2>1 DEF ForEach
  <2>2. CASE table.freeCount = table.size
    <3>1. IsFiniteSet(0..(n - 1)) /\ Cardinality(0..(n - 1)) = n
      BY FS_Interval
    <3>2. FreeEntries(table) \subseteq 0..(n - 1) /\ Slots(table) = 0..(n - 1)
      BY <1>1, TableParts
    <3>3. Cardinality(FreeEntries(table)) = n
      BY <2>2, <1>1 DEF Sound
    <3>4. FreeEntries(table) = 0..(n - 1)
      BY <3>1, <3>2, <3>3, FS_Subset
    <3> QED
      BY <3>2, <3>4, <2>2 DEF ForEach, FreeEntries
  <2> QED
    BY <2>1, <2>2
<1> QED
  BY <1>2, HeldIs

LEMMA ChainFacts ==
  ASSUME Hashed, NEW t, Sound(t), NEW h \in Slots(t), ~IsFree(t, h), HomeOf(t, h) = h
  PROVE  /\ \A j \in Slots(t) : j \in Chain(t, h) <=> ~IsFree(t, j) /\ HomeOf(t, j) = h
         /\ IsFiniteSet(Chain(t, h)) /\ Cardinality({j \in Chain(t, h) : t.next[j] = Eol}) = 1
PROOF
<1>1. PICK n \in Nat : /\ t.size = n /\ t \in TableOf(n) /\ Slots(t) = 0..(n - 1) /\ Slots(t) \subseteq Nat
                       /\ t.next \in [0..(n - 1) -> (0..(n - 1)) \cup {Free, Eol}]
  <2>1. PICK n \in Nat : t.size = n /\ t \in TableOf(n)
    BY DEF Sound
  <2> QED
    BY <2>1, TableParts
<1> DEFINE C == {j \in Slots(t) : ~IsFree(t, j) /\ HomeOf(t, j) = h}
           E == {j \in C : t.next[j] = Eol}
           next == [j \in C \ E |-> t.next[j]]
<1>2. \A i, j \in Slots(t) : t.next[i] = j => ~IsFree(t, j) /\ HomeOf(t, i) = HomeOf(t, j) /\ HomeOf(t, j) # j
  BY DEF Sound, Linked
<1>3. Chain(t, h) = C
  <2>1. C \in SUBSET Slots(t) /\ h \in C
    OBVIOUS
  <2>2. Closed(t, C)
    BY <1>2 DEF Closed
  <2>3. \A j \in Chain(t, h) : j \in C
    BY <2>1, <2>2 DEF Chain
  <2>4. \A j \in C : j \in Chain(t, h)
    <3>1. \A j \in C : Reaches(t, h, j)
      BY DEF Sound, Homed
    <3> QED
      BY <3>1 DEF Chain, Reaches
  <2> QED
    BY <2>3, <2>4
<1>4. IsFiniteSet(C) /\ Cardinality(C) \in Nat
  <2>1. C \subseteq 0..(n - 1)
    BY <1>1
  <2> QED
    BY <2>1, FreeCounts
<1>5. next \in [C \ E -> C \ {h}]
  <2> SUFFICES ASSUME NEW j \in C \ E PROVE t.next[j] \in C \ {h}
    OBVIOUS
  <2>1. t.next[j] \in Slots(t)
    BY <1>1 DEF IsFree
  <2> QED
    BY <2>1, <1>2
<1>6. next \in Injection(C \ E, C \ {h})
  <2>1. \A i, j \in C \ E : t.next[i] = t.next[j] => i = j
    <3>1. \A i \in C \ E : t.next[i] \in Slots(t)
      BY <1>1 DEF IsFree
    <3> QED
      BY <3>1 DEF Sound, Linked
  <2>2. \A i, j \in C \ E : next[i] = next[j] => i = j
    BY <2>1
  <2>3. \A i, j \in DOMAIN next : next[i] = next[j] => i = j
    BY <2>2
  <2> HIDE DEF next, E, C
  <2> QED
    BY <1>5, <2>3 DEF Injection, IsInjective
<1>7. next \in Surjection(C \ E, C \ {h})
  <2>1. ASSUME NEW j \in C \ {h} PROVE \E i \in C \ E : next[i] = j
    <3>1. HomeOf(t, j) # j
      OBVIOUS
    <3>2. PICK p \in 0..(n - 1) : t.next[p] = j /\ ~IsFree(t, p) /\ HomeOf(t, p) = HomeOf(t, j)
      BY <3>1, <1>1, Links DEF Sound
    <3>3. p \in C \ E
      BY <3>2, <1>1, HashFacts
    <3> QED
      BY <3>2, <3>3
  <2> HIDE DEF next, E, C
  <2> QED
    BY <1>5, <2>1 DEF Surjection
<1>8. Cardinality(C \ E) = Cardinality(C) - 1
  <2>1. IsFiniteSet(C \ {h}) /\ Cardinality(C \ {h}) = Cardinality(C) - 1
    <3>1. h \in C
      OBVIOUS
    <3> HIDE DEF C
    <3> QED
      BY <3>1, <1>4, FS_RemoveElement
  <2> HIDE DEF next, E, C
  <2> QED
    BY <2>1, <1>6, <1>7, FS_Injection
<1>9. Cardinality(E) = 1
  <2>1. E \subseteq C
    OBVIOUS
  <2> HIDE DEF next, E, C
  <2>2. IsFiniteSet(E) /\ IsFiniteSet(C \ E) /\ (C \ E) \cap E = {} /\ (C \ E) \cup E = C
    BY <2>1, <1>4, FS_Subset
  <2>3. Cardinality(C) = Cardinality(C \ E) + Cardinality(E) - 0
    BY <2>2, FS_Union, FS_EmptySet
  <2>4. Cardinality(E) \in Nat /\ Cardinality(C \ E) \in Nat
    BY <2>2, FS_CardinalityType
  <2> QED
    BY <2>3, <2>4, <1>4, <1>8
<1> QED
  BY <1>3, <1>4, <1>9

(* A hash set finds and enumerates what was added and not removed, each    *)
(* key once, every item lies on the one chain that its hash names, which   *)
(* ends, and the free entries are counted, whatever the hashes and the     *)
(* size of the first table.                                                *)
THEOREM TablesAreAlwaysSound == HashSpec => []TableIsSound
PROOF
<1>1. HashInv => TableIsSound
  <2> SUFFICES ASSUME HashInv PROVE TableIsSound
    OBVIOUS
  <2>1. Sound(table) /\ Hashed
    BY DEF HashInv
  <2>2. PICK n \in Nat : table.size = n /\ table \in TableOf(n) /\ table.freeCount = Cardinality(FreeEntries(table))
    BY <2>1 DEF Sound
  <2>3. HashTypeOK
    <3>1. /\ table.size \in Nat /\ table.freeCount \in 0..table.size /\ table.freeOffset \in 0..table.size
          /\ table.item \in [Slots(table) -> Keys \cup {NoItem}]
          /\ table.next \in [Slots(table) -> Slots(table) \cup {Free, Eol}]
      BY <2>2, TableParts
    <3>2. growing.at \in 0..growing.from.size /\ growing.key \in Keys \cup {NoItem}
      <4>1. CASE growing = NotGrowing
        BY <4>1 DEF NotGrowing, Empty
      <4>2. CASE growing # NotGrowing
        BY <4>2 DEF HashInv, GrowInv
      <4> QED
        BY <4>1, <4>2
    <3> QED
      BY <3>1, <3>2 DEF HashTypeOK, HashInv
  <2>4. ListedAreFound
    <3> SUFFICES ASSUME growing = NotGrowing
                 PROVE  /\ \A k \in Keys : /\ IsFound(table, k) <=> k \in held
                                           /\ (\E i \in ForEach : table.item[i] = k) <=> k \in held
                        /\ \A i, j \in ForEach : i # j => table.item[i] # table.item[j]
      BY DEF ListedAreFound
    <3>1. HeldBy(table) = held
      BY Idle DEF HashInv
    <3>2. \A i, j \in ForEach : i # j => table.item[i] # table.item[j]
      BY <2>1, Enumerating DEF Sound, Distinct
    <3> QED
      BY <3>1, <3>2, <2>1, Finding, Enumerating
  <2>5. ChainsAreHomed
    <3> SUFFICES ASSUME NEW i \in Slots(table), ~IsFree(table, i)
                 PROVE  LET home == HomeOf(table, i)
                            chain == Chain(table, home)
                        IN /\ i \in chain /\ \A j \in chain : HomeOf(table, j) = home
                           /\ Cardinality({j \in chain : table.next[j] = Eol}) = 1
      BY DEF ChainsAreHomed, HomeOf
    <3>1. /\ HomeOf(table, i) \in Slots(table) /\ ~IsFree(table, HomeOf(table, i))
          /\ HomeOf(table, HomeOf(table, i)) = HomeOf(table, i)
      BY <2>1 DEF Sound, Homed, Occupied
    <3>2. \A j \in Chain(table, HomeOf(table, i)) : j \in Slots(table)
      BY DEF Chain
    <3> QED
      BY <3>1, <3>2, <2>1, ChainFacts
  <2> QED
    BY <2>2, <2>3, <2>4, <2>5 DEF TableIsSound, FreeCountIsExact
<1> QED
  BY <1>1, HashInvHolds, PTL

-----------------------------------------------------------------------------
(* The k-th of a set of numbers: there is one for every k up to the size   *)
(* of the set, and the first is the least.                                 *)
LEMMA NthFacts ==
  ASSUME NEW n \in Nat, NEW S \in SUBSET (0..n)
  PROVE  /\ IsFiniteSet(S) /\ Cardinality(S) \in Nat
         /\ \A k \in 1..Cardinality(S) : Nth(S, k) \in S /\ Cardinality({j \in S : j <= Nth(S, k)}) = k
         /\ S # {} => 1 \in 1..Cardinality(S) /\ \A i \in S : Nth(S, 1) <= i
PROOF
<1> DEFINE UpTo(i) == {j \in S : j <= i}
           rank == [i \in S |-> Cardinality(UpTo(i))]
<1>1. IsFiniteSet(S) /\ Cardinality(S) \in Nat
  <2>1. IsFiniteSet(0..n)
    BY FS_Interval
  <2> QED
    BY <2>1, FS_Subset, FS_CardinalityType
<1>2. \A i \in S : IsFiniteSet(UpTo(i)) /\ Cardinality(UpTo(i)) \in 1..Cardinality(S)
  <2> SUFFICES ASSUME NEW i \in S PROVE IsFiniteSet(UpTo(i)) /\ Cardinality(UpTo(i)) \in 1..Cardinality(S)
    OBVIOUS
  <2>1. UpTo(i) \subseteq S /\ i \in UpTo(i)
    OBVIOUS
  <2> HIDE DEF UpTo
  <2>2. IsFiniteSet(UpTo(i)) /\ Cardinality(UpTo(i)) <= Cardinality(S) /\ Cardinality(UpTo(i)) # 0
    BY <2>1, <1>1, FS_Subset, FS_EmptySet
  <2> QED
    BY <2>2, <1>1, FS_CardinalityType
<1>3. \A i, j \in S : i < j => Cardinality(UpTo(i)) < Cardinality(UpTo(j))
  <2> SUFFICES ASSUME NEW i \in S, NEW j \in S, i < j
               PROVE  Cardinality(UpTo(i)) < Cardinality(UpTo(j))
    OBVIOUS
  <2>1. UpTo(i) \subseteq UpTo(j) /\ UpTo(i) # UpTo(j)
    <3>1. j \in UpTo(j) /\ j \notin UpTo(i)
      OBVIOUS
    <3>2. \A l \in S : l <= i => l <= j
      OBVIOUS
    <3> QED
      BY <3>1, <3>2
  <2>2. IsFiniteSet(UpTo(j)) /\ Cardinality(UpTo(i)) \in Nat /\ Cardinality(UpTo(j)) \in Nat
    BY <1>1, <1>2
  <2> HIDE DEF UpTo
  <2>3. Cardinality(UpTo(i)) <= Cardinality(UpTo(j)) /\ Cardinality(UpTo(i)) # Cardinality(UpTo(j))
    BY <2>1, <2>2, FS_Subset
  <2> QED
    BY <2>2, <2>3
<1>4. \A i, j \in S : rank[i] = rank[j] => i = j
  <2> SUFFICES ASSUME NEW i \in S, NEW j \in S, Cardinality(UpTo(i)) = Cardinality(UpTo(j)), i # j PROVE FALSE
    OBVIOUS
  <2>1. i < j \/ j < i
    OBVIOUS
  <2>2. Cardinality(UpTo(i)) \in Nat /\ Cardinality(UpTo(j)) \in Nat
    BY <1>1, <1>2
  <2> HIDE DEF UpTo
  <2> QED
    BY <2>1, <2>2, <1>3
<1>5. rank \in Injection(S, 1..Cardinality(S))
  <2>1. rank \in [S -> 1..Cardinality(S)]
    BY <1>2
  <2>2. \A i, j \in DOMAIN rank : rank[i] = rank[j] => i = j
    BY <1>4
  <2> HIDE DEF rank
  <2> QED
    BY <2>1, <2>2 DEF Injection, IsInjective
<1>6. rank \in Surjection(S, 1..Cardinality(S))
  <2>1. IsFiniteSet(1..Cardinality(S)) /\ Cardinality(1..Cardinality(S)) = Cardinality(S)
    BY <1>1, FS_Interval
  <2> HIDE DEF rank
  <2> QED
    BY <2>1, <1>5, FS_Injection
<1>7. \A k \in 1..Cardinality(S) : \E i \in S : Cardinality(UpTo(i)) = k
  <2>1. \A k \in 1..Cardinality(S) : \E i \in S : rank[i] = k
    <3> HIDE DEF rank
    <3> QED
      BY <1>6 DEF Surjection
  <2> QED
    BY <2>1
<1>8. \A k \in 1..Cardinality(S) : Nth(S, k) \in S /\ Cardinality(UpTo(Nth(S, k))) = k
  BY <1>7 DEF Nth
<1>9. ASSUME S # {} PROVE 1 \in 1..Cardinality(S) /\ \A i \in S : Nth(S, 1) <= i
  <2>1. 1 \in 1..Cardinality(S)
    BY <1>1, <1>9, FS_EmptySet
  <2>2. PICK m \in S : m = Nth(S, 1) /\ Cardinality(UpTo(m)) = 1
    BY <2>1, <1>8
  <2>3. ASSUME NEW i \in S PROVE m <= i
    <3>1. i < m \/ m <= i
      OBVIOUS
    <3>2. i < m => Cardinality(UpTo(i)) < 1
      BY <2>2, <1>3
    <3>3. Cardinality(UpTo(i)) \in 1..Cardinality(S)
      BY <1>2
    <3> HIDE DEF UpTo
    <3> QED
      BY <3>1, <3>2, <3>3, <1>1
  <2> QED
    BY <2>1, <2>2, <2>3
<1> QED
  BY <1>1, <1>8, <1>9

(* What a text is read as: the signature that it is written for.           *)
LEMMA AppendedPrefix ==
  ASSUME NEW sig \in Seq(Int), NEW n \in Nat, n + 1 <= Len(sig)
  PROVE  Append([j \in 1..n |-> sig[j]], sig[n + 1]) = [j \in 1..(n + 1) |-> sig[j]]
PROOF
<1> DEFINE p == [j \in 1..n |-> sig[j]]
<1>1. Len(sig) \in Nat /\ \A j \in 1..Len(sig) : sig[j] \in Int
  OBVIOUS
<1>2. p \in Seq(Int) /\ Len(p) = n
  <2>1. p \in [1..n -> Int]
    BY <1>1
  <2> HIDE DEF p
  <2> QED
    BY <2>1
<1>3. \A j \in 1..n : p[j] = sig[j]
  OBVIOUS
<1> HIDE DEF p
<1>4. /\ Append(p, sig[n + 1]) \in Seq(Int) /\ Len(Append(p, sig[n + 1])) = n + 1
      /\ \A j \in 1..n : Append(p, sig[n + 1])[j] = p[j]
      /\ Append(p, sig[n + 1])[n + 1] = sig[n + 1]
  BY <1>1, <1>2
<1>5. \A j \in 1..(n + 1) : j \in 1..n \/ j = n + 1
  OBVIOUS
<1>6. DOMAIN Append(p, sig[n + 1]) = 1..(n + 1)
  BY <1>4
<1>7. Append(p, sig[n + 1]) = [j \in 1..(n + 1) |-> Append(p, sig[n + 1])[j]]
  BY <1>4
<1>8. \A j \in 1..(n + 1) : Append(p, sig[n + 1])[j] = sig[j]
  BY <1>3, <1>4, <1>5
<1>9. Append(p, sig[n + 1]) = [j \in 1..(n + 1) |-> sig[j]]
  BY <1>7, <1>8
<1> QED
  BY <1>9 DEF p

LEMMA TextIsRead == ASSUME NEW s \in Signatures PROVE Transform(s.text) = s.bytes
PROOF
<1>1. PICK text, sig : text = s.text /\ sig = s.bytes
  OBVIOUS
<1>2. text \in Seq(STRING) /\ sig \in Seq(Int) /\ IsTextOf(text, sig)
  BY <1>1, SignatureAssumption
<1>3. PICK L : L = Len(text) /\ L \in Nat
  BY <1>2
<1>4. PICK read \in [0..L -> 0..Len(sig)], first \in SUBSET (1..L) :
        /\ read[0] = 0 /\ read[L] = Len(sig) /\ L \notin first
        /\ \A i \in 1..L :
             \/ /\ text[i] = AnyByte /\ i - 1 \notin first /\ i \notin first
                /\ read[i] = read[i - 1] + 1 /\ sig[read[i]] = Wild
             \/ /\ text[i] \in DOMAIN DigitValue /\ i - 1 \notin first /\ i \in first
                /\ read[i] = read[i - 1]
             \/ /\ text[i] \in DOMAIN DigitValue /\ i - 1 \in first /\ i \notin first
                /\ read[i] = read[i - 1] + 1
                /\ sig[read[i]] = Base * DigitValue[text[i - 1]] + DigitValue[text[i]]
             \/ /\ text[i] \notin DOMAIN DigitValue \cup {AnyByte} /\ i - 1 \notin first /\ i \notin first
                /\ read[i] = read[i - 1]
  BY <1>2, <1>3, ZenonT(60) DEF IsTextOf
<1> DEFINE Prefix(n) == [j \in 1..n |-> sig[j]]
           High(i) == IF i \in first THEN <<DigitValue[text[i]]>> ELSE << >>
           w == [i \in 0..L |-> [out |-> Prefix(read[i]), high |-> High(i)]]
           Step(g) == [i \in 0..L |-> IF i = 0 THEN [out |-> << >>, high |-> << >>]
                                      ELSE TakeChar(g[i - 1], text[i])]
           after == CHOOSE g : g = Step(g)
<1>5. Len(sig) \in Nat /\ \A i \in 0..L : read[i] \in 0..Len(sig)
  BY <1>2, <1>4
<1>6. \A i \in 0..L : w[i].out = Prefix(read[i]) /\ w[i].high = High(i)
  OBVIOUS
<1>7. \A i \in 0..L : w[i] = [out |-> Prefix(read[i]), high |-> High(i)]
  OBVIOUS
<1>8. w[0] = [out |-> << >>, high |-> << >>]
  <2>1. 0 \in 0..L /\ 0 \notin first
    BY <1>3, <1>4
  <2>2. Prefix(0) = << >>
    OBVIOUS
  <2>3. High(0) = << >>
    BY <2>1
  <2> HIDE DEF Prefix, High, w
  <2> QED
    BY <2>1, <2>2, <2>3, <1>4, <1>7
<1>9. ASSUME NEW i \in 1..L
      PROVE  w[i] = TakeChar(w[i - 1], text[i])
  <2>1. i \in 0..L /\ i - 1 \in 0..L
    BY <1>3
  <2>2. w[i] = [out |-> Prefix(read[i]), high |-> High(i)]
    BY <2>1, <1>7
  <2>3. w[i - 1].out = Prefix(read[i - 1]) /\ w[i - 1].high = High(i - 1)
        /\ w[i - 1] = [out |-> Prefix(read[i - 1]), high |-> High(i - 1)]
    BY <2>1, <1>6, <1>7
  <2>4. ASSUME read[i] = read[i - 1] + 1
        PROVE  Append(Prefix(read[i - 1]), sig[read[i]]) = Prefix(read[i])
    <3>1. read[i - 1] \in Nat /\ read[i - 1] + 1 <= Len(sig)
      BY <2>1, <2>4, <1>5
    <3> QED
      BY <3>1, <2>4, <1>2, AppendedPrefix
  <2>5. AnyByte \notin DOMAIN DigitValue
    BY SignatureAssumption
  <2>6. i \in first => High(i) = <<DigitValue[text[i]]>>
    OBVIOUS
  <2>7. i \notin first => High(i) = << >>
    OBVIOUS
  <2>8. i - 1 \in first => High(i - 1) = <<DigitValue[text[i - 1]]>>
    OBVIOUS
  <2>9. i - 1 \notin first => High(i - 1) = << >>
    OBVIOUS
  <2>10. PICK c : c = text[i]
    OBVIOUS
  <2>11. PICK d : d = text[i - 1]
    OBVIOUS
  <2> HIDE DEF Prefix, High, w
  <2>12. CASE /\ c = AnyByte /\ i - 1 \notin first /\ i \notin first
              /\ read[i] = read[i - 1] + 1 /\ sig[read[i]] = Wild
    <3>1. Append(w[i - 1].out, Wild) = Prefix(read[i])
      BY <2>3, <2>4, <2>12
    <3>2. TakeChar(w[i - 1], c) = [out |-> Append(w[i - 1].out, Wild), high |-> w[i - 1].high]
      BY <2>5, <2>12 DEF TakeChar
    <3>3. w[i - 1].high = High(i)
      BY <2>3, <2>7, <2>9, <2>12
    <3> QED
      BY <3>1, <3>2, <3>3, <2>2, <2>10
  <2>13. CASE /\ c \in DOMAIN DigitValue /\ i - 1 \notin first /\ i \in first
              /\ read[i] = read[i - 1]
    BY <2>2, <2>3, <2>5, <2>6, <2>9, <2>10, <2>13 DEF TakeChar
  <2>14. CASE /\ c \in DOMAIN DigitValue /\ i - 1 \in first /\ i \notin first
              /\ read[i] = read[i - 1] + 1
              /\ sig[read[i]] = Base * DigitValue[d] + DigitValue[c]
    <3>1. PICK h, b : h = w[i - 1].high /\ b = Base * DigitValue[d] + DigitValue[c]
      OBVIOUS
    <3>2. h = <<DigitValue[d]>>
      BY <3>1, <2>3, <2>8, <2>11, <2>14
    <3>3. h # << >> /\ h[1] = DigitValue[d]
      BY <3>2
    <3>4. Append(w[i - 1].out, b) = Prefix(read[i])
      BY <3>1, <2>3, <2>4, <2>14
    <3>5. TakeChar(w[i - 1], c) = [out |-> Append(w[i - 1].out, b), high |-> << >>]
      BY <3>1, <3>3, <2>5, <2>14 DEF TakeChar
    <3> QED
      BY <3>4, <3>5, <2>2, <2>7, <2>10, <2>14
  <2>15. CASE /\ c \notin DOMAIN DigitValue \cup {AnyByte} /\ i - 1 \notin first /\ i \notin first
              /\ read[i] = read[i - 1]
    BY <2>2, <2>3, <2>7, <2>9, <2>10, <2>15 DEF TakeChar
  <2> QED
    BY <1>4, <2>10, <2>11, <2>12, <2>13, <2>14, <2>15
<1>10. w = Step(w)
  <2>1. \A i \in 0..L : w[i] = Step(w)[i]
    <3> SUFFICES ASSUME NEW i \in 0..L PROVE w[i] = Step(w)[i]
      OBVIOUS
    <3>1. CASE i = 0
      <4> HIDE DEF w
      <4> QED
        BY <3>1, <1>8
    <3>2. CASE i # 0
      <4>1. i \in 1..L
        BY <3>2, <1>3
      <4>2. w[i] = TakeChar(w[i - 1], text[i])
        BY <4>1, <1>9
      <4> HIDE DEF w
      <4> QED
        BY <3>2, <4>2
    <3> QED
      BY <3>1, <3>2
  <2>2. DOMAIN w = 0..L /\ w = [i \in 0..L |-> w[i]]
    OBVIOUS
  <2> HIDE DEF w
  <2> QED
    BY <2>1, <2>2
<1>11. after = Step(after)
  <2> HIDE DEF w, Step
  <2> QED
    BY <1>10
<1>12. \A i \in 0..L : after[i] = w[i]
  <2> HIDE DEF w, Step, after
  <2> DEFINE Bad == {i \in Nat : i \in 0..L /\ after[i] # w[i]}
  <2> SUFFICES ASSUME Bad # {} PROVE FALSE
    BY <1>3
  <2>1. \E k \in Bad : \A j \in Bad : ~ (<<j, k>> \in OpToRel(<, Nat))
    BY NatLessThanWellFounded, WFMin
  <2>2. \A j, k \in Bad : j < k => <<j, k>> \in OpToRel(<, Nat)
    BY DEF OpToRel
  <2>3. PICK k \in Bad : \A j \in Bad : ~ (j < k)
    BY <2>1, <2>2
  <2>4. CASE k = 0
    <3>1. after[0] = [out |-> << >>, high |-> << >>]
      BY <1>3, <1>11 DEF Step
    <3> QED
      BY <2>3, <2>4, <3>1, <1>8
  <2>5. CASE k # 0
    <3>1. k \in 1..L /\ k - 1 \in 0..L /\ k - 1 \in Nat /\ k - 1 < k
      BY <2>3, <2>5, <1>3
    <3>2. after[k - 1] = w[k - 1]
      BY <2>3, <3>1
    <3>3. after[k] = TakeChar(after[k - 1], text[k])
      BY <3>1, <2>5, <1>11 DEF Step
    <3>4. w[k] = TakeChar(w[k - 1], text[k])
      BY <3>1, <1>9
    <3> QED
      BY <2>3, <3>2, <3>3, <3>4
  <2> QED
    BY <2>4, <2>5
<1>13. Transform(text) = after[L].out
  BY <1>3 DEF Transform
<1>14. w[L].out = sig
  <2>1. L \in 0..L /\ w[L].out = Prefix(Len(sig))
    <3>1. L \in 0..L /\ read[L] = Len(sig)
      BY <1>3, <1>4
    <3> HIDE DEF w, Prefix
    <3> QED
      BY <3>1, <1>6
  <2>2. Prefix(Len(sig)) = sig
    BY <1>2
  <2> QED
    BY <2>1, <2>2
<1> HIDE DEF w, after
<1> QED
  BY <1>1, <1>3, <1>12, <1>13, <1>14


-----------------------------------------------------------------------------
(* The invariant of the search: what was answered is a match, the first    *)
(* one while nothing was patched, and then the first hint of a text is the *)
(* first match of it.                                                      *)
HintSet == {s.text : s \in Signatures} \X (Begin..End)

HintInv ==
  /\ hints \in Seq(HintSet)
  /\ patches = 0 =>
       \A k \in 1..Len(hints) :
         (\A j \in 1..Len(hints) : j < k => hints[j][1] # hints[k][1])
           => IsFirstMatch(Transform(hints[k][1]), hints[k][2])

AnswerInv == (\A a \in found : \E s \in Signatures : a.bytes = s.bytes) /\ FirstIsMatch

CountInv ==
  /\ memory \in [0..SizeOfImage - 1 -> Bytes] /\ feature \in BOOLEAN
  /\ patches \in 0..MaxPatches /\ finds \in 0..MaxFinds

ScanInv == HintInv /\ AnswerInv /\ CountInv

(* Both comparisons say what the signature says.                           *)
LEMMA ComparisonsAgree ==
  ASSUME NEW s \in Signatures, Len(s.bytes) <= Width, NEW i
  PROVE  MatchesAt(s.bytes, i) <=> VectorMatchesAt(s.bytes, i)
PROOF
<1>1. PICK sig : sig = s.bytes /\ sig \in Seq(Int)
  BY SignatureAssumption
<1>2. DOMAIN sig \subseteq 1..Width
  BY <1>1, ImageAssumption
<1>3. VectorMatchesAt(sig, i) <=> \A j \in DOMAIN sig : sig[j] # Wild => j \in CmpEStrM(sig, i)
  BY DEF VectorMatchesAt, Mask
<1>4. \A j \in DOMAIN sig : j \in CmpEStrM(sig, i) <=> sig[j] = ByteAt(i + j - 1)
  BY <1>2 DEF CmpEStrM
<1> QED
  BY <1>1, <1>3, <1>4 DEF MatchesAt

LEMMA PlacesAreMatches ==
  ASSUME NEW s \in Signatures
  PROVE  PlacesOf(s.bytes) = {i \in Begin..End : MatchesAt(s.bytes, i)}
BY ComparisonsAgree DEF PlacesOf, SSE42

LEMMA ScanFacts ==
  ASSUME NEW s \in Signatures, NEW most \in Counts, NEW m, m = ScanMatches(s.bytes, most)
  PROVE  /\ m \in Seq(Begin..End)
         /\ m = << >> => \A i \in Begin..End : ~MatchesAt(s.bytes, i)
         /\ m # << >> => 1 <= Len(m) /\ IsFirstMatch(s.bytes, m[1])
PROOF
<1>1. PICK S, c : S = PlacesOf(s.bytes) /\ c = Cardinality(S)
  OBVIOUS
<1>2. S = {i \in Begin..End : MatchesAt(s.bytes, i)}
  BY <1>1, PlacesAreMatches
<1>3. End \in Nat /\ Begin..End = 0..End /\ S \in SUBSET (0..End)
  BY <1>2, ImageAssumption DEF Begin, End
<1>4. /\ c \in Nat
      /\ \A k \in 1..c : Nth(S, k) \in S
      /\ S # {} => 1 \in 1..c /\ \A i \in S : Nth(S, 1) <= i
  <2>1. PICK e \in Nat : e = End
    BY <1>3
  <2>2. S \in SUBSET (0..e)
    BY <2>1, <1>3
  <2>3. /\ IsFiniteSet(S) /\ Cardinality(S) \in Nat
        /\ \A k \in 1..Cardinality(S) : Nth(S, k) \in S /\ Cardinality({j \in S : j <= Nth(S, k)}) = k
        /\ S # {} => 1 \in 1..Cardinality(S) /\ \A i \in S : Nth(S, 1) <= i
    BY <2>2, NthFacts, Zenon
  <2>4. c = Cardinality(S)
    BY <1>1
  <2> QED
    BY <2>3, <2>4
<1>5. c = 0 => S = {}
  BY <1>4
<1>6. PICK n : n = IF c < most THEN c ELSE most
  OBVIOUS
<1>7. n \in Nat /\ n <= c /\ (n = 0 <=> c = 0)
  BY <1>4, <1>6, ImageAssumption
<1>8. m = [k \in 1..n |-> Nth(S, k)]
  BY <1>1, <1>6 DEF ScanMatches
<1>9. m \in Seq(Begin..End) /\ Len(m) = n
  <2>1. PICK R : R = Begin..End
    OBVIOUS
  <2>2. \A k \in 1..n : k \in 1..c
    BY <1>4, <1>7
  <2>3. \A k \in 1..n : Nth(S, k) \in R
    BY <2>1, <2>2, <1>3, <1>4
  <2>4. m \in [1..n -> R]
    BY <2>3, <1>8
  <2>5. m \in Seq(R) /\ Len(m) = n
    BY <2>4, <1>7
  <2> QED
    BY <2>1, <2>5
<1>10. m = << >> => \A i \in Begin..End : ~MatchesAt(s.bytes, i)
  <2>1. m = << >> => n = 0
    BY <1>9
  <2> QED
    BY <2>1, <1>2, <1>5, <1>7
<1>11. ASSUME m # << >> PROVE 1 <= Len(m) /\ IsFirstMatch(s.bytes, m[1])
  <2>1. n # 0
    BY <1>7, <1>9, <1>11
  <2>2. S # {} /\ 1 \in 1..n /\ 1 \in 1..c
    <3>1. 1 \in 1..c /\ 1 \in 1..n
      BY <2>1, <1>4, <1>7
    <3> QED
      BY <3>1, <1>4
  <2>3. m[1] = Nth(S, 1) /\ Nth(S, 1) \in S /\ \A i \in S : Nth(S, 1) <= i
    BY <2>2, <1>4, <1>8
  <2> QED
    BY <2>2, <2>3, <1>2, <1>9 DEF IsFirstMatch
<1> QED
  BY <1>9, <1>10, <1>11

LEMMA HintFacts ==
  ASSUME HintInv, NEW s \in Signatures, NEW m, m = HintMatches(s.text)
  PROVE  /\ m = << >> => \A k \in 1..Len(hints) : hints[k][1] = s.text => ~MatchesAt(s.bytes, hints[k][2])
         /\ m # << >> => \E k \in 1..Len(hints) :
                           /\ hints[k][1] = s.text /\ MatchesAt(s.bytes, hints[k][2]) /\ m[1] = hints[k][2]
                           /\ \A j \in 1..Len(hints) :
                                j < k => hints[j][1] # s.text \/ ~MatchesAt(s.bytes, hints[j][2])
PROOF
<1>1. hints \in Seq(HintSet) /\ Len(hints) \in Nat /\ DOMAIN hints = 1..Len(hints)
  BY DEF HintInv
<1>2. PICK S, c : S = HintsOf(s.text) /\ c = Cardinality(S)
  OBVIOUS
<1>3. S = {k \in 1..Len(hints) : hints[k][1] = s.text /\ MatchesAt(s.bytes, hints[k][2])}
  BY <1>1, <1>2, TextIsRead DEF HintsOf
<1>4. S \in SUBSET (0..Len(hints))
  BY <1>1, <1>3
<1>5. /\ c \in Nat
      /\ \A k \in 1..c : Nth(S, k) \in S
      /\ S # {} => 1 \in 1..c /\ \A i \in S : Nth(S, 1) <= i
  BY <1>1, <1>2, <1>4, NthFacts
<1>6. m = [k \in 1..c |-> hints[Nth(S, k)][2]]
  BY <1>2 DEF HintMatches
<1>7. ASSUME m = << >> PROVE S = {}
  <2>1. DOMAIN m = 1..c /\ DOMAIN m = {}
    BY <1>6, <1>7
  <2> QED
    BY <2>1, <1>5
<1>8. ASSUME m # << >> PROVE S # {}
  <2>1. c = 0 => m = << >>
    BY <1>6
  <2> QED
    BY <2>1, <1>5, <1>8
<1>9. ASSUME m # << >>
      PROVE  \E k \in 1..Len(hints) :
               /\ hints[k][1] = s.text /\ MatchesAt(s.bytes, hints[k][2]) /\ m[1] = hints[k][2]
               /\ \A j \in 1..Len(hints) :
                    j < k => hints[j][1] # s.text \/ ~MatchesAt(s.bytes, hints[j][2])
  <2>1. PICK k : k = Nth(S, 1)
    OBVIOUS
  <2>2. 1 \in 1..c /\ k \in S /\ \A i \in S : k <= i
    BY <2>1, <1>5, <1>8, <1>9
  <2>3. m[1] = hints[k][2]
    BY <2>1, <2>2, <1>6
  <2>4. \A j \in 1..Len(hints) : j < k => j \notin S
    BY <2>2, <1>1, <1>4
  <2>5. k \in 1..Len(hints) /\ hints[k][1] = s.text /\ MatchesAt(s.bytes, hints[k][2])
    BY <2>2, <1>3
  <2>6. \A j \in 1..Len(hints) : j < k => hints[j][1] # s.text \/ ~MatchesAt(s.bytes, hints[j][2])
    BY <2>4, <1>3
  <2> QED
    BY <2>3, <2>5, <2>6
<1> QED
  BY <1>3, <1>7, <1>9

LEMMA ScanInit1 == ScanInit => ScanInv
PROOF
<1> SUFFICES ASSUME ScanInit PROVE ScanInv
  OBVIOUS
<1>1. hints \in Seq(HintSet) /\ Len(hints) = 0 /\ found = {}
  BY DEF ScanInit
<1>2. HintInv
  BY <1>1 DEF HintInv
<1>3. AnswerInv
  BY <1>1 DEF AnswerInv, FirstIsMatch
<1>4. CountInv
  BY ImageAssumption DEF ScanInit, CountInv
<1> QED
  BY <1>2, <1>3, <1>4 DEF ScanInv

LEMMA FindKeeps ==
  ASSUME ScanInv, NEW s \in Signatures, NEW most \in Counts, Find(s, most)
  PROVE  ScanInv'
PROOF
<1>1. memory' = memory /\ patches' = patches /\ feature' = feature /\ finds' = finds + 1 /\ finds < MaxFinds
  BY DEF Find
<1>2. \A bytes, i : /\ MatchesAt(bytes, i)' <=> MatchesAt(bytes, i)
                    /\ IsFirstMatch(bytes, i)' <=> IsFirstMatch(bytes, i)
  BY <1>1 DEF MatchesAt, IsFirstMatch, ByteAt, Begin, End
<1>3. Transform(s.text) = s.bytes
  BY TextIsRead
<1>4. CountInv'
  BY <1>1, ImageAssumption DEF ScanInv, CountInv
<1>5. hints \in Seq(HintSet) /\ Len(hints) \in Nat /\ DOMAIN hints = 1..Len(hints)
  BY DEF ScanInv, HintInv
<1>6. ASSUME NEW at, found' = {[bytes |-> s.bytes, at |-> at]},
             at = << >> => \A i \in Begin..End : ~MatchesAt(s.bytes, i),
             at # << >> => MatchesAt(s.bytes, at[1]) /\ (patches = 0 => IsFirstMatch(s.bytes, at[1]))
      PROVE  AnswerInv'
  <2>1. \A a \in found' : a.bytes = s.bytes /\ a.at = at
    BY <1>6
  <2>2. FirstIsMatch'
    BY <2>1, <1>1, <1>2, <1>6 DEF FirstIsMatch, Begin, End
  <2> QED
    BY <2>1, <2>2 DEF AnswerInv
<1>7. PICK m : m = HintMatches(s.text)
  OBVIOUS
<1>8. CASE m # << >>
  <2>1. found' = {[bytes |-> s.bytes, at |-> m]} /\ hints' = hints
    BY <1>7, <1>8 DEF Find
  <2>2. PICK k \in 1..Len(hints) :
          /\ hints[k][1] = s.text /\ MatchesAt(s.bytes, hints[k][2]) /\ m[1] = hints[k][2]
          /\ \A j \in 1..Len(hints) : j < k => hints[j][1] # s.text \/ ~MatchesAt(s.bytes, hints[j][2])
    BY <1>7, <1>8, HintFacts DEF ScanInv
  <2>3. ASSUME patches = 0 PROVE IsFirstMatch(s.bytes, m[1])
    <3>1. PICK S : S = {j \in Nat : j \in 1..Len(hints) /\ hints[j][1] = s.text}
      OBVIOUS
    <3>2. k \in S
      BY <3>1, <2>2, <1>5
    <3>3. PICK j \in S : \A l \in S : ~ (l < j)
      <4>1. S \subseteq Nat /\ S # {}
        BY <3>1, <3>2
      <4>2. \E j \in S : \A l \in S : ~ (<<l, j>> \in OpToRel(<, Nat))
        BY <4>1, NatLessThanWellFounded, WFMin
      <4>3. \A j, l \in S : l < j => <<l, j>> \in OpToRel(<, Nat)
        BY <4>1 DEF OpToRel
      <4> QED
        BY <4>2, <4>3
    <3>4. j \in 1..Len(hints) /\ hints[j][1] = s.text /\ \A l \in 1..Len(hints) : l < j => hints[l][1] # s.text
      BY <3>1, <3>3
    <3>5. IsFirstMatch(Transform(hints[j][1]), hints[j][2])
      BY <2>3, <3>4 DEF ScanInv, HintInv
    <3>6. IsFirstMatch(s.bytes, hints[j][2]) /\ MatchesAt(s.bytes, hints[j][2])
      BY <3>4, <3>5, <1>3 DEF IsFirstMatch
    <3>7. ~ (j < k)
      BY <2>2, <3>4, <3>6
    <3>8. ~ (k < j)
      BY <2>2, <3>4
    <3>9. j = k
      BY <3>4, <3>7, <3>8, <1>5
    <3> QED
      BY <3>6, <3>9, <2>2
  <2>4. AnswerInv'
    BY <2>1, <2>2, <2>3, <1>6, <1>8
  <2>5. HintInv'
    BY <2>1, <1>1, <1>2 DEF ScanInv, HintInv, HintSet, Begin, End
  <2> QED
    BY <2>4, <2>5, <1>4 DEF ScanInv
<1>9. CASE m = << >>
  <2>1. PICK r : r = ScanMatches(s.bytes, most)
    OBVIOUS
  <2>2. /\ found' = {[bytes |-> s.bytes, at |-> r]}
        /\ hints' = hints \o [k \in DOMAIN r |-> <<s.text, r[k]>>]
    BY <2>1, <1>3, <1>7, <1>9 DEF Find
  <2>3. /\ r \in Seq(Begin..End)
        /\ r = << >> => \A i \in Begin..End : ~MatchesAt(s.bytes, i)
        /\ r # << >> => 1 <= Len(r) /\ IsFirstMatch(s.bytes, r[1])
    BY <2>1, ScanFacts
  <2>4. AnswerInv'
    BY <2>2, <2>3, <1>6 DEF IsFirstMatch
  <2>5. PICK new : new = [k \in DOMAIN r |-> <<s.text, r[k]>>]
    OBVIOUS
  <2>6. /\ Len(r) \in Nat /\ DOMAIN r = 1..Len(r) /\ \A k \in 1..Len(r) : r[k] \in Begin..End
    <3>1. PICK R : R = Begin..End
      OBVIOUS
    <3>2. r \in Seq(R)
      BY <2>3, <3>1
    <3>3. Len(r) \in Nat /\ DOMAIN r = 1..Len(r) /\ \A k \in 1..Len(r) : r[k] \in R
      BY <3>2
    <3> QED
      BY <3>1, <3>3
  <2>7. \A k \in 1..Len(r) : new[k] = <<s.text, r[k]>> /\ new[k] \in HintSet /\ new[k][1] = s.text /\ new[k][2] = r[k]
    BY <2>5, <2>6 DEF HintSet
  <2>8. new \in Seq(HintSet) /\ Len(new) = Len(r)
    <3>1. new \in [1..Len(r) -> HintSet]
      BY <2>5, <2>6, <2>7
    <3> QED
      BY <3>1, <2>6
  <2>9. /\ hints' \in Seq(HintSet) /\ Len(hints)' = Len(hints) + Len(r)
        /\ \A k \in 1..Len(hints) : hints'[k] = hints[k]
        /\ \A k \in 1..Len(r) : hints'[Len(hints) + k] = new[k]
    BY <2>2, <2>5, <2>6, <2>8, <1>5
  <2>10. ASSUME patches = 0, NEW k \in 1..Len(hints)',
                \A j \in 1..Len(hints)' : j < k => hints'[j][1] # hints'[k][1]
         PROVE  IsFirstMatch(Transform(hints'[k][1]), hints'[k][2])
    <3>1. CASE k \in 1..Len(hints)
      <4>1. hints'[k] = hints[k] /\ \A j \in 1..Len(hints) : j < k => hints[j][1] # hints[k][1]
        BY <3>1, <2>6, <2>9, <2>10, <1>5
      <4> QED
        BY <3>1, <4>1, <2>10 DEF ScanInv, HintInv
    <3>2. CASE k \notin 1..Len(hints)
      <4>1. PICK l \in 1..Len(r) : k = Len(hints) + l
        <5>1. k - Len(hints) \in 1..Len(r) /\ k = Len(hints) + (k - Len(hints))
          BY <3>2, <2>6, <2>9, <1>5
        <5> QED
          BY <5>1
      <4>2. hints'[k][1] = s.text /\ hints'[k][2] = r[l]
        BY <4>1, <2>7, <2>9
      <4>3. 1 \in 1..Len(r) /\ Len(hints) + 1 \in 1..Len(hints)' /\ hints'[Len(hints) + 1][1] = s.text
        <5>1. 1 \in 1..Len(r)
          BY <4>1, <2>6
        <5>2. Len(hints) + 1 \in 1..Len(hints)'
          BY <5>1, <2>6, <2>9, <1>5
        <5>3. hints'[Len(hints) + 1] = new[1] /\ new[1][1] = s.text
          BY <5>1, <2>7, <2>9
        <5> QED
          BY <5>1, <5>2, <5>3
      <4>4. ~ (Len(hints) + 1 < k)
        BY <4>2, <4>3, <2>10
      <4>5. l = 1
        BY <4>1, <4>4, <2>6, <1>5
      <4>6. r # << >>
        BY <4>3, <2>6
      <4> QED
        BY <4>2, <4>5, <4>6, <2>3, <1>3
    <3> QED
      BY <3>1, <3>2
  <2>11. HintInv'
    BY <2>9, <2>10, <1>1, <1>2 DEF HintInv, HintSet, Begin, End
  <2> QED
    BY <2>4, <2>11, <1>4 DEF ScanInv
<1> QED
  BY <1>8, <1>9

LEMMA PatchKeeps ==
  ASSUME ScanInv, NEW i \in HeaderSize..HeaderSize + SizeOfCode - 1, NEW b \in Bytes, Patch(i, b)
  PROVE  ScanInv'
PROOF
<1>1. /\ hints' = hints /\ finds' = finds /\ feature' = feature /\ found' = {}
      /\ patches' = patches + 1 /\ patches < MaxPatches /\ memory' = [memory EXCEPT ![i] = b]
  BY DEF Patch
<1>2. i \in 0..SizeOfImage - 1
  BY ImageAssumption
<1>3. patches \in Nat /\ patches' # 0 /\ patches' \in 0..MaxPatches
  BY <1>1, ImageAssumption DEF ScanInv, CountInv
<1>4. memory' \in [0..SizeOfImage - 1 -> Bytes]
  BY <1>1, <1>2 DEF ScanInv, CountInv
<1>5. HintInv'
  BY <1>1, <1>3 DEF ScanInv, HintInv, HintSet, Begin, End
<1>6. AnswerInv'
  BY <1>1 DEF AnswerInv, FirstIsMatch
<1>7. CountInv'
  BY <1>1, <1>3, <1>4 DEF ScanInv, CountInv
<1> QED
  BY <1>5, <1>6, <1>7 DEF ScanInv

LEMMA ScanInvMeans == ScanInv => AnswersAreMatches
PROOF
<1> SUFFICES ASSUME ScanInv PROVE AnswersAreMatches
  OBVIOUS
<1>1. \A k \in DOMAIN hints : hints[k][2] \in Begin..End
  <2>1. hints \in Seq(HintSet) /\ DOMAIN hints = 1..Len(hints)
    BY DEF ScanInv, HintInv
  <2>2. \A k \in DOMAIN hints : hints[k] \in HintSet
    BY <2>1
  <2> QED
    BY <2>2 DEF HintSet
<1>2. ScanTypeOK
  BY <1>1 DEF ScanInv, AnswerInv, CountInv, ScanTypeOK
<1>3. ScansAgree
  BY ComparisonsAgree DEF ScansAgree
<1> QED
  BY <1>2, <1>3 DEF ScanInv, AnswerInv, AnswersAreMatches

(* A place that is handed out for a signature is a match of it in the code *)
(* as it is now, whatever hints there are and whatever was patched since   *)
(* they were noted; it is the first unless code was patched, and by either *)
(* comparison.  For every alphabet of digits and every image, signature    *)
(* and width of the registers.                                             *)
THEOREM AnswersAreAlwaysMatches == ScanSpec => []AnswersAreMatches
PROOF
<1>1. ScanInv /\ [ScanNext]_scanVars => ScanInv'
  <2> SUFFICES ASSUME ScanInv, [ScanNext]_scanVars PROVE ScanInv'
    OBVIOUS
  <2>1. ASSUME NEW s \in Signatures, NEW most \in Counts, Find(s, most) PROVE ScanInv'
    BY <2>1, FindKeeps
  <2>2. ASSUME NEW i \in HeaderSize..HeaderSize + SizeOfCode - 1, NEW b \in Bytes, Patch(i, b) PROVE ScanInv'
    BY <2>2, PatchKeeps
  <2>3. CASE UNCHANGED scanVars
    BY <2>3 DEF scanVars, ScanInv, HintInv, HintSet, AnswerInv, CountInv, FirstIsMatch, IsFirstMatch,
                MatchesAt, ByteAt, Begin, End
  <2> QED
    BY <2>1, <2>2, <2>3 DEF ScanNext
<1> QED
  BY <1>1, ScanInit1, ScanInvMeans, PTL DEF ScanSpec
=============================================================================
