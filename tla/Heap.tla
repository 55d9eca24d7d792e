-------------------------------- MODULE Heap --------------------------------
(* What a heap allocator promises through GlobalAlloc: an allocation is an    *)
(* aligned block inside the heap that overlaps no block still in use, or the  *)
(* null pointer; a block stays its owner's until it is deallocated.           *)
EXTENDS Integers

CONSTANTS Arena,     \* the addresses of the heap region
          Layouts,   \* the layouts callers ask for: [size, align]
          Null

VARIABLES live,      \* blocks handed out and not yet deallocated
          pointer    \* what the last allocation returned

heapVars == <<live, pointer>>

Block(at, l) == [at |-> at, size |-> l.size, align |-> l.align]
Bytes(b)     == b.at .. b.at + b.size - 1

HeapInit == live = {} /\ pointer = Null

Allocated(l) ==
  \E at \in Arena :
    /\ pointer' = at
    /\ at % l.align = 0
    /\ Bytes(Block(at, l)) \subseteq Arena
    /\ \A b \in live : Bytes(b) \cap Bytes(Block(at, l)) = {}
    /\ live' = live \cup {Block(at, l)}

Failed == pointer' = Null /\ UNCHANGED live

Deallocated(b) == live' = live \ {b} /\ UNCHANGED pointer

HeapNext == \/ \E l \in Layouts : Allocated(l)
            \/ Failed
            \/ \E b \in live : Deallocated(b)

HeapSpec == HeapInit /\ [][HeapNext]_heapVars
=============================================================================
