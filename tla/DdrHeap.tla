------------------------------ MODULE DdrHeap -------------------------------
(***************************************************************************)
(* The DDR heap (mdw/memory/kmdw_memory.c): memory is reserved from the    *)
(* top of the DDR towards the models at its bottom and never given back.   *)
(* `tail' is the lowest reserved address, `boundary' how far down          *)
(* reservations may go; the host moves the boundary when it loads models.  *)
(* Addresses are counted from the base of the DDR, in units of 64 / Align  *)
(* bytes.  Requests are smaller than the base address of the DDR, so       *)
(* tail - numbyte does not wrap.                                           *)
(***************************************************************************)
EXTENDS Integers

CONSTANTS
  HeapBegin,     (* DDR_HEAP_BEGIN, the top of the heap                    *)
  HeapEnd,       (* DDR_HEAP_END, the first boundary                       *)
  Align          (* 64 bytes                                               *)

ASSUME HeapAssumption ==
  /\ Align \in Nat \ {0}
  /\ HeapBegin \in Nat /\ HeapEnd \in Nat
  /\ HeapEnd < HeapBegin

VARIABLES
  tail,       \* s_ddr_addr_tail
  boundary,   \* s_ddr_addr_boundary
  blocks      \* history: the blocks reserved, as [from, size, owner]

heapVars == <<tail, boundary, blocks>>

(* kmdw_ddr_init.                                                          *)
HeapInit ==
  /\ tail = HeapBegin
  /\ boundary = HeapEnd
  /\ blocks = {}

AlignUp(n)    == ((n + Align - 1) \div Align) * Align
AlignFloor(n) == (n \div Align) * Align

(* kmdw_ddr_reserve: the address of a block of n bytes, or 0.              *)
NewTail_unaligned(n) == tail - n   \* mutant: the size is not rounded up

NewTail(n)  == AlignFloor(tail - AlignUp(n))
Refused(n)  == n = 0 \/ boundary = 0 \/ NewTail(n) <= boundary
Reserved(n) == IF Refused(n) THEN 0 ELSE NewTail(n)

(* The second half of kmdw_ddr_reserve, with the address computed before.  *)
Take(from, n, owner) ==
  /\ tail' = from
  /\ blocks' = blocks \cup {[from |-> from, size |-> n, owner |-> owner]}
  /\ UNCHANGED boundary

kmdw_ddr_reserve(n, owner) ==
  IF Refused(n) THEN UNCHANGED heapVars ELSE Take(NewTail(n), n, owner)

(* kmdw_ddr_set_ddr_boundary: refused at or above the tail.                *)
kmdw_ddr_set_ddr_boundary_unchecked(b) ==   \* mutant: no check
  boundary' = b /\ UNCHANGED <<tail, blocks>>

kmdw_ddr_set_ddr_boundary(b) ==
  /\ boundary' = IF b >= tail THEN boundary ELSE b
  /\ UNCHANGED <<tail, blocks>>

-----------------------------------------------------------------------------
(* Properties.                                                             *)

Apart(x, y) == x.from + x.size <= y.from \/ y.from + y.size <= x.from

(* No two blocks overlap, none reaches out of the heap, and each is        *)
(* aligned, whichever sizes are asked for and wherever the host puts the   *)
(* boundary in between.                                                    *)
BlocksApart ==
  /\ \A x, y \in blocks : x = y \/ Apart(x, y)
  /\ \A x \in blocks : x.from % Align = 0 /\ x.from + x.size <= HeapBegin

=============================================================================
