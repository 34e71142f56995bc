--------------------------- MODULE BranchTrampoline ---------------------------
(***************************************************************************)
(* The memory below a module that F4SE allocates for the code its hooks    *)
(* jump to (f4se_common/BranchTrampoline.cpp).  A hook is a jump with a    *)
(* displacement of 32 signed bits in the module; Create therefore looks    *)
(* for free memory from the module downwards, to an address from which the *)
(* module can still be reached.                                            *)
(*                                                                         *)
(* Addresses are in units of TLC's choosing; Reach stands for 2^31 and     *)
(* Scratch for the 128 MB that Create takes off.  The block that           *)
(* VirtualQuery describes contains the address and extends to the end of   *)
(* the free or used stretch; where it begins is left open.                 *)
(***************************************************************************)
EXTENDS Integers, Sequences

CONSTANTS
  ModuleBase, ImageSize, \* the module the hooks are in
  Reach,                 \* distance a displacement can express
  Scratch,               \* what Create keeps off that distance
  Granularity,           \* VirtualAlloc rounds addresses down to it
  MaxLen,                \* largest trampoline
  Hooks,                 \* kinds of hooks: bytes in the module, bytes in the trampoline
  MaxCode,               \* most bytes of code between StartAlloc and EndAlloc
  None                   \* no address

ASSUME MemoryAssumption ==
  /\ ModuleBase \in Nat /\ ImageSize \in Nat \ {0} /\ Reach \in Nat /\ Scratch \in Nat
  /\ Granularity \in Nat \ {0} /\ MaxLen \in Nat \ {0} /\ MaxCode \in Nat \ {0}
  /\ Scratch < Reach /\ Reach - Scratch < ModuleBase
  /\ Hooks \subseteq [instr : Nat, code : Nat \ {0}]
  /\ None \notin Int

(* What the scratch space has to make room for.                            *)
ASSUME ScratchAssumption == ImageSize + MaxLen + Granularity <= Scratch

LowestOKAddress == ModuleBase - Reach + Scratch

VARIABLES
  vacant,   \* addresses below the module that are free
  addr,     \* where Create looks
  len,      \* how much it wants
  base,     \* m_base
  refused,  \* Create logged that it could not allocate a trampoline
  phase,    \* "search", "ready", "failed" or, after an assertion, "aborted"
  allocated,\* m_allocated
  current,  \* m_curAlloc
  blocks,   \* what was handed out: start and size
  jumps     \* the hooks written: the instruction after the jump, and its target

trampolineVars == <<vacant, addr, len, base, refused, phase, allocated, current, blocks, jumps>>

(* Where the instruction of a hook may be.                                 *)
Places(hook) == ModuleBase..(ModuleBase + ImageSize - hook.instr)
Displacement(j) == j.target - j.next

TrampolineInit ==
  /\ vacant \in SUBSET (0..(ModuleBase - 1)) /\ len \in 1..MaxLen
  /\ addr = ModuleBase - 1 /\ base = None /\ refused = FALSE /\ phase = "search"
  /\ allocated = 0 /\ current = None /\ blocks = <<>> /\ jumps = {}

-----------------------------------------------------------------------------
(* VirtualQuery: whether the address is free, and a block of it.           *)
SameState(a, b) == \A x \in a..b : (x \in vacant) = (addr \in vacant)
IsBlock(from, to) ==
  /\ from \in 0..addr /\ to \in addr..(ModuleBase - 1) /\ SameState(from, to)
  /\ to = ModuleBase - 1 \/ (to + 1 \in vacant) # (addr \in vacant)

(* VirtualAlloc, which rounds down and may fail for reasons of its own.    *)
Allocated(a) == {s \in (a - Granularity + 1)..a : s..(a + len - 1) \subseteq vacant}

(* A search that starts the allocation where the block starts.             *)
LowEnd(from, to) == from

HighEnd(from, to) == to + 1 - len

(* One turn of the loop in Create.  The last check is made whether or not  *)
(* there is a trampoline.                                                  *)
Search(from, to) ==
  /\ phase = "search" /\ addr >= 0 /\ IsBlock(from, to)
  /\ \/ /\ addr \in vacant /\ to + 1 - from >= len
        /\ base' \in Allocated(HighEnd(from, to)) /\ addr' = HighEnd(from, to)
     \/ base' = None /\ addr' = from - 1
  /\ refused' = (addr' \in 0..(LowestOKAddress - 1))
  /\ phase' = IF base' # None THEN "ready" ELSE IF refused' THEN "failed" ELSE "search"
  /\ UNCHANGED <<vacant, len, allocated, current, blocks, jumps>>

(* The address has wrapped around and VirtualQuery fails.                  *)
QueryFails ==
  /\ phase = "search" /\ addr < 0 /\ phase' = "failed"
  /\ UNCHANGED <<vacant, addr, len, base, refused, allocated, current, blocks, jumps>>

-----------------------------------------------------------------------------
Remain == len - allocated

Fits(size) == size <= Remain

Allocate(size) ==
  /\ allocated' = allocated + size
  /\ blocks' = Append(blocks, [start |-> base + allocated, size |-> size])

(* Write5Branch_Internal and Write6Branch_Internal, of an instruction in   *)
(* the module; without room, or out of reach, they assert.  Every caller    *)
(* (Hooks_*.cpp) calls EndAlloc before it writes the branch to the code.   *)
WriteBranch(hook, src) ==
  /\ phase = "ready" /\ current = None
  /\ LET jump == [next |-> src + hook.instr, target |-> base + allocated]
     IN IF Fits(hook.code) /\ Displacement(jump) \in -Reach..(Reach - 1)
          THEN Allocate(hook.code) /\ jumps' = jumps \cup {jump} /\ UNCHANGED phase
          ELSE phase' = "aborted" /\ UNCHANGED <<allocated, blocks, jumps>>
  /\ UNCHANGED <<vacant, addr, len, base, refused, current>>

StartAlloc ==
  /\ phase = "ready" /\ current = None
  /\ current' = base + allocated
  /\ UNCHANGED <<vacant, addr, len, base, refused, phase, allocated, blocks, jumps>>

(* EndAlloc, after code has been assembled: the size is known only now.    *)
EndAlloc(size) ==
  /\ phase = "ready" /\ current # None /\ current' = None
  /\ IF Fits(size) THEN Allocate(size) /\ UNCHANGED phase
     ELSE phase' = "aborted" /\ UNCHANGED <<allocated, blocks>>
  /\ UNCHANGED <<vacant, addr, len, base, refused, jumps>>

TrampolineNext ==
  \/ \E from, to \in 0..(ModuleBase - 1) : Search(from, to)
  \/ QueryFails
  \/ \E hook \in Hooks : \E src \in Places(hook) : WriteBranch(hook, src)
  \/ StartAlloc
  \/ \E size \in 1..MaxCode : EndAlloc(size)

TrampolineSpec == TrampolineInit /\ [][TrampolineNext]_trampolineVars

-----------------------------------------------------------------------------
(* Every jump reaches the trampoline wherever Create found memory for it,  *)
(* with the allocation rounded down below what was asked for and the last  *)
(* block straddling the lowest address: the displacement to any place that *)
(* is or can be handed out, from any instruction of the module, fits.      *)
TrampolineIsReachable ==
  base # None =>
    \A hook \in Hooks : \A src \in Places(hook), at \in 0..(len - 1) :
      base + at - (src + hook.instr) \in -Reach..(Reach - 1)

(* The blocks handed out lie inside the trampoline and do not overlap, in  *)
(* whatever order hooks and code take them.                                *)
BlocksAreDisjoint ==
  /\ \A i \in DOMAIN blocks : blocks[i].start >= base /\ blocks[i].start + blocks[i].size <= base + len
  /\ \A i, j \in DOMAIN blocks : i < j => blocks[i].start + blocks[i].size <= blocks[j].start

(* What is handed out of the trampoline is reachable and handed out once.  *)
TrampolineHolds == TrampolineIsReachable /\ BlocksAreDisjoint
=============================================================================
