---------------------------- MODULE BumpAllocator ---------------------------
(* The kernel's global allocator: allocator/bump.rs behind the spin lock of   *)
(* allocator/mod.rs, which makes every call one step.  `live` and `pointer`   *)
(* are ghosts on the callers' side: the blocks in use and the last pointer.   *)
(* Deallocation does nothing; the region comes back only through reset.       *)
EXTENDS HeapBlocks

CONSTANTS HeapStart, HeapSize,  \* what init_heap is given
          Layouts               \* layouts callers ask for: [size, align]

(* Layout guarantees a non-zero power-of-two alignment, and the alloc crate   *)
(* never asks for zero bytes.  The heap lies low enough in the address space  *)
(* for `addr + align - 1` not to overflow.                                    *)
ASSUME HeapAssumption ==
  /\ HeapStart \in Nat \ {0} /\ HeapSize \in Nat
  /\ Layouts \subseteq [size : Nat \ {0}, align : Nat \ {0}]
  /\ Null \notin Nat

VARIABLES heap_start, heap_end, next, allocations,   \* BumpAllocator
          live, pointer                              \* ghosts

bump == <<heap_start, heap_end, next, allocations>>
bumpVars == <<bump, live, pointer>>

BytesOf(b) == b.at .. b.at + b.size - 1

(* BumpAllocator::new: until init the region is empty.                        *)
BumpInit ==
  /\ heap_start = 0 /\ heap_end = 0 /\ next = 0 /\ allocations = 0
  /\ live = {} /\ pointer = Null

Initialized == heap_start # 0

InitHeap ==
  /\ ~Initialized
  /\ heap_start' = HeapStart
  /\ heap_end' = HeapStart + HeapSize
  /\ next' = HeapStart
  /\ allocations' = 0
  /\ UNCHANGED <<live, pointer>>

Alloc(l) ==
  LET start == align_up(next, l.align) IN
  IF start + l.size > heap_end
    THEN pointer' = Null /\ UNCHANGED <<bump, live>>
    ELSE /\ next' = start + l.size
         /\ allocations' = allocations + 1
         /\ pointer' = start
         /\ live' = live \cup {Block(start, l)}
         /\ UNCHANGED <<heap_start, heap_end>>

Dealloc(b) ==
  /\ live' = live \ {b}
  /\ UNCHANGED <<bump, pointer>>

(* reset frees all memory at once; it is unsafe, and sound only when nothing  *)
(* is in use.                                                                 *)
Reset ==
  /\ live = {} /\ allocations > 0
  /\ next' = heap_start
  /\ allocations' = 0
  /\ UNCHANGED <<heap_start, heap_end, live, pointer>>

BumpNext ==
  \/ InitHeap
  \/ \E l \in Layouts : Alloc(l)
  \/ \E b \in live : Dealloc(b)
  \/ Reset

BumpSpec == BumpInit /\ [][BumpNext]_bumpVars

---------------------------------------------------------------------------
BumpTypeOK ==
  /\ heap_start \in Nat /\ heap_end \in Nat /\ next \in Nat /\ allocations \in Nat
  /\ live \subseteq [at : Nat, size : Nat, align : Nat]
  /\ pointer \in Nat \cup {Null}

(* Every block in use lies below the bump pointer, so that the next           *)
(* allocation cannot touch it, and the pointer never leaves the region.       *)
LiveBelowNext ==
  /\ heap_start <= next /\ next <= heap_end
  /\ \A b \in live : heap_start <= b.at /\ b.at + b.size <= next

(* The bump allocator is a heap.                                              *)
TheHeap == INSTANCE Heap WITH Arena <- HeapStart .. HeapStart + HeapSize - 1
HeapSpec == TheHeap!HeapSpec
=============================================================================
