------------------------------ MODULE HeapBlocks -----------------------------
(* What both allocators share: a block a caller holds, and the rounding of    *)
(* addresses, which bump.rs and linked_list.rs define alike for alignments    *)
(* that are powers of two.                                                    *)
EXTENDS Integers

CONSTANT Null    \* the null pointer

Block(at, l) == [at |-> at, size |-> l.size, align |-> l.align]

align_up_Down(addr, align) == addr - (addr % align)   \* fault: rounds the wrong way
align_up(addr, align) == ((addr + align - 1) \div align) * align
=============================================================================
