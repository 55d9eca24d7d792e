------------------------ MODULE LinkedListAllocator -------------------------
(* The free-list allocator, allocator/linked_list.rs.  The list is a sequence *)
(* of regions in list order: nodes live inside the free memory, and the head  *)
(* is where regions are pushed.  `listLive` and `listPointer` are ghosts, as  *)
(* in BumpAllocator.  An assertion that fails panics the kernel.              *)
EXTENDS HeapBlocks, SequencesExt

CONSTANTS ListStart, ListSize,  \* what init is given
          ListLayouts           \* layouts callers ask for: [size, align]

NodeAlign      == 8     \* align_of::<ListNode>()
MIN_BLOCK_SIZE == 16    \* size_of::<ListNode>()

(* init asserts as much of the region it is given.  Layout guarantees an      *)
(* alignment that is a power of two: it divides that of a node, or is divided *)
(* by it.                                                                     *)
ASSUME ListAssumption ==
  /\ ListStart \in Nat \ {0} /\ ListStart % NodeAlign = 0
  /\ ListSize \in Nat /\ ListSize >= MIN_BLOCK_SIZE
  /\ ListLayouts \subseteq [size : Nat \ {0}, align : Nat \ {0}]
  /\ \A l \in ListLayouts : NodeAlign % l.align = 0 \/ l.align % NodeAlign = 0
  /\ Null \notin Nat

VARIABLES free,       \* the free list, first region first
          asserted,   \* an assertion failed
          listLive, listPointer

listVars == <<free, asserted, listLive, listPointer>>

Region(addr, size) == [addr |-> addr, size |-> size]
EndOf(r) == r.addr + r.size
ListArena == ListStart .. ListStart + ListSize - 1

BlockSize(l) ==
  align_up(IF l.size > MIN_BLOCK_SIZE THEN l.size ELSE MIN_BLOCK_SIZE, NodeAlign)

(* alloc_from_region                                                          *)
RegionFits_AnyExcess(r, size, align) ==   \* fault: any remainder is accepted
  align_up(r.addr, align) + size <= EndOf(r)

RegionFits(r, size, align) ==
  LET end    == align_up(r.addr, align) + size
      excess == EndOf(r) - end
  IN end <= EndOf(r) /\ (excess = 0 \/ excess >= MIN_BLOCK_SIZE)

(* find_region: the first region of the list that fits, or 0                  *)
FirstFit(size, align) ==
  LET fitting == {i \in DOMAIN free : RegionFits(free[i], size, align)}
  IN IF fitting = {} THEN 0 ELSE CHOOSE i \in fitting : \A j \in fitting : i <= j

(* add_free_region onto list s                                                *)
NodeCanStandAt(addr, size) == size >= MIN_BLOCK_SIZE /\ addr % NodeAlign = 0
AddFreeRegion(s, addr, size) ==
  IF NodeCanStandAt(addr, size)
    THEN free' = <<Region(addr, size)>> \o s /\ UNCHANGED asserted
    ELSE asserted' = TRUE /\ UNCHANGED free

ListInit ==
  /\ free = <<Region(ListStart, ListSize)>>
  /\ asserted = FALSE
  /\ listLive = {} /\ listPointer = Null

ListAlloc_KeepsRegion(l) ==          \* fault: the region used stays in the list
  LET size == BlockSize(l)
      i    == FirstFit(size, l.align)
  IN IF i = 0
       THEN listPointer' = Null /\ UNCHANGED <<free, asserted, listLive>>
       ELSE LET start == align_up(free[i].addr, l.align)
                end   == start + size
            IN /\ IF EndOf(free[i]) > end
                    THEN AddFreeRegion(free, end, EndOf(free[i]) - end)
                    ELSE UNCHANGED <<free, asserted>>
               /\ listPointer' = start
               /\ listLive' = listLive \cup {Block(start, l)}

ListAlloc(l) ==
  LET size == BlockSize(l)
      i    == FirstFit(size, l.align)
  IN IF i = 0
       THEN listPointer' = Null /\ UNCHANGED <<free, asserted, listLive>>
       ELSE LET start == align_up(free[i].addr, l.align)
                end   == start + size
                rest  == RemoveAt(free, i)
            IN /\ IF EndOf(free[i]) > end
                    THEN AddFreeRegion(rest, end, EndOf(free[i]) - end)
                    ELSE free' = rest /\ UNCHANGED asserted
               /\ listPointer' = start
               /\ listLive' = listLive \cup {Block(start, l)}

ListDealloc_AtTheBack(b) ==          \* fault: the region goes to the end of the list
  /\ free' = Append(free, Region(b.at, BlockSize(b)))
  /\ listLive' = listLive \ {b}
  /\ UNCHANGED <<asserted, listPointer>>

ListDealloc(b) ==
  /\ AddFreeRegion(free, b.at, BlockSize(b))
  /\ listLive' = listLive \ {b}
  /\ UNCHANGED listPointer

ListNext ==
  /\ ~asserted
  /\ \/ \E l \in ListLayouts : ListAlloc(l)
     \/ \E b \in listLive : ListDealloc(b)

ListSpec == ListInit /\ [][ListNext]_listVars

---------------------------------------------------------------------------
ListTypeOK ==
  /\ free \in Seq([addr : Nat, size : Nat])
  /\ listLive \subseteq [at : Nat, size : Nat, align : Nat]
  /\ listPointer \in ListArena \cup {Null}
  /\ asserted \in BOOLEAN

(* The assertions of add_free_region, and the subtraction end_addr -          *)
(* alloc_end, never fail: whatever is split off or given back can hold a      *)
(* node, and what alloc returns is an address in the region or null.          *)
NoAssertionFails ==
  /\ ListTypeOK /\ ~asserted
  /\ \A i \in DOMAIN free : NodeCanStandAt(free[i].addr, free[i].size)

(* The memory a block really occupies, rounded, and a free region             *)
Extent(b)  == b.at .. b.at + BlockSize(b) - 1
Span(r)    == r.addr .. EndOf(r) - 1

(* Free regions and blocks in use never overlap, nor two of either: a node of *)
(* the list, written into free memory, never lies in a caller's block.        *)
NothingOverlaps ==
  /\ \A i, j \in DOMAIN free : i # j => Span(free[i]) \cap Span(free[j]) = {}
  /\ \A i \in DOMAIN free, b \in listLive : Span(free[i]) \cap Extent(b) = {}
  /\ \A i \in DOMAIN free : Span(free[i]) \subseteq ListArena
  /\ \A b, c \in listLive : b # c => Extent(b) \cap Extent(c) = {}

(* The free-list allocator is a heap.                                         *)
ListHeap == INSTANCE Heap WITH
              Arena <- ListArena, Layouts <- ListLayouts,
              live <- listLive, pointer <- listPointer
ListHeapSpec == ListHeap!HeapSpec

(* "Allocate again (should reuse freed block)": a block that was just freed   *)
(* fits a request of the same layout, at once and without searching.          *)
FreedBlockIsReusable ==
  [][\A b \in listLive \ listLive' :
       RegionFits(Head(free'), BlockSize(b), b.align)]_listVars
=============================================================================
