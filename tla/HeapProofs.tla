------------------------------ MODULE HeapProofs -----------------------------
(* For every heap, layout set and history of calls: both allocators are heaps *)
(* in the sense of the module Heap.  Of the bump allocator the blocks in use  *)
(* lie below the bump pointer; of the free list the regions and the blocks in *)
(* use are pairwise disjoint pieces of the arena, each able to hold a node.   *)
EXTENDS BumpAllocator, LinkedListAllocator, LeastNumber, TLAPS

(* The region is the one init_heap was given, or still empty.                 *)
GivenRegion ==
  \/ heap_start = 0 /\ heap_end = 0 /\ next = 0 /\ live = {}
  \/ heap_start = HeapStart /\ heap_end = HeapStart + HeapSize

BumpIInv == BumpTypeOK /\ LiveBelowNext /\ GivenRegion

(* align_up never moves down, and what it returns is aligned.                 *)
LEMMA AlignUpFact ==
  ASSUME NEW a \in Nat, NEW d \in Nat, d > 0
  PROVE  align_up(a, d) \in Nat /\ align_up(a, d) >= a /\ align_up(a, d) % d = 0
  BY DEF align_up

LEMMA LayoutFact ==
  ASSUME NEW l \in Layouts
  PROVE  l.size \in Nat /\ l.size > 0 /\ l.align \in Nat /\ l.align > 0
  BY HeapAssumption

(* An allocation that succeeds stays inside the heap and above all blocks in  *)
(* use.                                                                       *)
LEMMA BumpAllocFact ==
  ASSUME BumpIInv, NEW l \in Layouts, ~ (align_up(next, l.align) + l.size > heap_end)
  PROVE  LET start == align_up(next, l.align) IN
           /\ start \in Nat /\ start % l.align = 0
           /\ heap_start = HeapStart /\ heap_end = HeapStart + HeapSize
           /\ heap_start <= start /\ start + l.size <= heap_end
           /\ \A b \in live : b.at + b.size <= start
<1>1. /\ heap_start \in Nat /\ heap_end \in Nat /\ next \in Nat
      /\ heap_start <= next
      /\ \A b \in live : b.at \in Nat /\ b.size \in Nat /\ b.at + b.size <= next
  BY DEF BumpIInv, BumpTypeOK, LiveBelowNext
<1>2. /\ l.size \in Nat /\ l.size > 0 /\ l.align \in Nat /\ l.align > 0
  BY LayoutFact
<1>3. /\ align_up(next, l.align) \in Nat /\ align_up(next, l.align) >= next
      /\ align_up(next, l.align) % l.align = 0
  BY <1>1, <1>2, AlignUpFact
<1>4. heap_start = HeapStart /\ heap_end = HeapStart + HeapSize
  BY <1>1, <1>2, <1>3 DEF BumpIInv, GivenRegion
<1> QED
  BY <1>1, <1>2, <1>3, <1>4

LEMMA BumpAllocStep ==
  ASSUME BumpIInv, NEW l \in Layouts, Alloc(l)
  PROVE  BumpIInv'
<1> DEFINE start == align_up(next, l.align)
<1>1. CASE start + l.size > heap_end
  BY <1>1 DEF Alloc, BumpIInv, BumpTypeOK, LiveBelowNext, GivenRegion, bump
<1>2. CASE ~ (start + l.size > heap_end)
  <2>1. /\ start \in Nat /\ l.size \in Nat /\ l.size > 0 /\ l.align \in Nat
        /\ heap_start = HeapStart /\ heap_end = HeapStart + HeapSize
        /\ heap_start <= start /\ start + l.size <= heap_end
        /\ \A b \in live : b.at + b.size <= start
    BY <1>2, BumpAllocFact, LayoutFact
  <2>2. /\ next' = start + l.size /\ allocations' = allocations + 1
        /\ pointer' = start /\ live' = live \cup {Block(start, l)}
        /\ UNCHANGED <<heap_start, heap_end>>
    BY <1>2 DEF Alloc
  <2> HIDE DEF start
  <2>3. BumpTypeOK'
    BY <2>1, <2>2 DEF BumpIInv, BumpTypeOK, Block
  <2>4. LiveBelowNext'
    <3>1. ASSUME NEW b \in live' PROVE heap_start <= b.at /\ b.at + b.size <= next'
      <4>1. CASE b \in live
        <5>1. /\ heap_start <= b.at /\ b.at + b.size <= start
              /\ b.at \in Nat /\ b.size \in Nat
          BY <2>1, <4>1 DEF BumpIInv, BumpTypeOK, LiveBelowNext
        <5> QED
          BY <2>1, <2>2, <5>1
      <4>2. CASE b = Block(start, l)
        BY <2>1, <2>2, <4>2 DEF Block
      <4> QED
        BY <2>2, <4>1, <4>2
    <3>2. heap_start <= next' /\ next' <= heap_end
      BY <2>1, <2>2 DEF BumpIInv, BumpTypeOK
    <3> QED
      BY <2>2, <3>1, <3>2 DEF LiveBelowNext
  <2>5. GivenRegion'
    BY <2>1, <2>2 DEF GivenRegion
  <2> QED
    BY <2>3, <2>4, <2>5 DEF BumpIInv
<1> QED
  BY <1>1, <1>2

(* The invariant of the bump allocator.                                       *)
THEOREM BumpInvariant == BumpSpec => []BumpIInv
<1>1. BumpInit => BumpIInv
  <2> SUFFICES ASSUME BumpInit PROVE BumpIInv
    OBVIOUS
  <2>1. live = {} /\ heap_start = 0 /\ heap_end = 0 /\ next = 0
    BY DEF BumpInit
  <2>2. BumpTypeOK
    BY <2>1 DEF BumpInit, BumpTypeOK
  <2>3. LiveBelowNext /\ GivenRegion
    BY <2>1 DEF LiveBelowNext, GivenRegion
  <2> QED
    BY <2>2, <2>3 DEF BumpIInv
<1>2. BumpIInv /\ [BumpNext]_bumpVars => BumpIInv'
  <2> SUFFICES ASSUME BumpIInv, [BumpNext]_bumpVars PROVE BumpIInv'
    OBVIOUS
  <2>1. CASE InitHeap
    BY <2>1, HeapAssumption
       DEF InitHeap, Initialized, BumpIInv, BumpTypeOK, LiveBelowNext, GivenRegion
  <2>2. CASE \E l \in Layouts : Alloc(l)
    BY <2>2, BumpAllocStep
  <2>3. CASE \E b \in live : Dealloc(b)
    BY <2>3 DEF Dealloc, bump, BumpIInv, BumpTypeOK, LiveBelowNext, GivenRegion
  <2>4. CASE Reset
    BY <2>4 DEF Reset, BumpIInv, BumpTypeOK, LiveBelowNext, GivenRegion
  <2>5. CASE UNCHANGED bumpVars
    BY <2>5 DEF bumpVars, bump, BumpIInv, BumpTypeOK, LiveBelowNext, GivenRegion
  <2> QED
    BY <2>1, <2>2, <2>3, <2>4, <2>5 DEF BumpNext
<1> QED
  BY <1>1, <1>2, PTL DEF BumpSpec

(* The blocks in use lie between the start of the heap and the bump pointer.  *)
THEOREM BlocksStayBelowNext == BumpSpec => []LiveBelowNext
<1>1. BumpIInv => LiveBelowNext
  BY DEF BumpIInv
<1> QED
  BY <1>1, BumpInvariant, PTL

(* The global allocator keeps the promise of GlobalAlloc: aligned blocks,     *)
(* inside the heap, that overlap no block in use.                             *)
THEOREM BumpImplementsHeap == BumpSpec => HeapSpec
<1>1. BumpInit => TheHeap!HeapInit
  BY DEF BumpInit, TheHeap!HeapInit
<1>2. BumpIInv /\ [BumpNext]_bumpVars => [TheHeap!HeapNext]_(TheHeap!heapVars)
  <2> SUFFICES ASSUME BumpIInv, [BumpNext]_bumpVars
               PROVE  TheHeap!HeapNext \/ UNCHANGED TheHeap!heapVars
    OBVIOUS
  <2>1. ASSUME NEW l \in Layouts, Alloc(l)
        PROVE  TheHeap!HeapNext
    <3> DEFINE start == align_up(next, l.align)
    <3>1. CASE start + l.size > heap_end
      BY <2>1, <3>1 DEF Alloc, TheHeap!HeapNext, TheHeap!Failed
    <3>2. CASE ~ (start + l.size > heap_end)
      <4>1. /\ start \in Nat /\ start % l.align = 0
            /\ heap_start = HeapStart /\ heap_end = HeapStart + HeapSize
            /\ heap_start <= start /\ start + l.size <= heap_end
            /\ \A b \in live : b.at + b.size <= start
        BY <3>2, BumpAllocFact
      <4>2. l.size \in Nat /\ l.size > 0 /\ HeapStart \in Nat /\ HeapSize \in Nat
        BY LayoutFact, HeapAssumption
      <4>3. pointer' = start /\ live' = live \cup {TheHeap!Block(start, l)}
        BY <2>1, <3>2 DEF Alloc, Block, TheHeap!Block
      <4> HIDE DEF start
      <4>4. start \in HeapStart .. HeapStart + HeapSize - 1
        BY <4>1, <4>2
      <4>5. TheHeap!Bytes(TheHeap!Block(start, l)) = start .. start + l.size - 1
        BY DEF TheHeap!Bytes, TheHeap!Block
      <4>6. start .. start + l.size - 1 \subseteq HeapStart .. HeapStart + HeapSize - 1
        BY <4>1, <4>2
      <4>7. ASSUME NEW b \in live
            PROVE  TheHeap!Bytes(b) \cap (start .. start + l.size - 1) = {}
        <5>1. b.at \in Nat /\ b.size \in Nat /\ b.at + b.size <= start
          BY <4>1 DEF BumpIInv, BumpTypeOK
        <5> QED
          BY <4>1, <5>1 DEF TheHeap!Bytes
      <4>8. TheHeap!Allocated(l)
        BY <4>1, <4>3, <4>4, <4>5, <4>6, <4>7 DEF TheHeap!Allocated
      <4> QED
        BY <4>8 DEF TheHeap!HeapNext
    <3> QED
      BY <3>1, <3>2
  <2>2. CASE \E b \in live : Dealloc(b)
    BY <2>2 DEF Dealloc, TheHeap!HeapNext, TheHeap!Deallocated
  <2>3. CASE InitHeap \/ Reset \/ UNCHANGED bumpVars
    BY <2>3 DEF InitHeap, Reset, bumpVars, TheHeap!heapVars
  <2> QED
    BY <2>1, <2>2, <2>3 DEF BumpNext
<1> QED
  BY <1>1, <1>2, BumpInvariant, PTL DEF BumpSpec, HeapSpec, TheHeap!HeapSpec

---------------------------------------------------------------------------
(* The free list.                                                             *)
Regions == [addr : Nat, size : Nat]

(* A list whose regions hold nodes, lie apart inside the arena, and touch no  *)
(* block of L.                                                                *)
GoodList(s, L) ==
  /\ s \in Seq(Regions)
  /\ \A i \in DOMAIN s : /\ NodeCanStandAt(s[i].addr, s[i].size)
                         /\ Span(s[i]) \subseteq ListArena
  /\ \A i, j \in DOMAIN s : i # j => Span(s[i]) \cap Span(s[j]) = {}
  /\ \A i \in DOMAIN s, b \in L : Span(s[i]) \cap Extent(b) = {}

(* A block as alloc hands it out.                                             *)
GoodBlock(b) ==
  /\ b \in [at : Nat, size : Nat, align : Nat]
  /\ b.size > 0 /\ b.align > 0
  /\ b.at % NodeAlign = 0 /\ b.at % b.align = 0
  /\ b.at \in ListArena /\ Extent(b) \subseteq ListArena

ListIInv ==
  /\ GoodList(free, listLive) /\ asserted = FALSE
  /\ listPointer \in ListArena \cup {Null}
  /\ \A b \in listLive : GoodBlock(b)
  /\ \A b, c \in listLive : b # c => Extent(b) \cap Extent(c) = {}

(* The size of a block: a multiple of the alignment of a node, and enough.    *)
LEMMA BlockSizeFact ==
  ASSUME NEW l, l.size \in Nat, l.size > 0
  PROVE  /\ BlockSize(l) \in Nat /\ BlockSize(l) >= MIN_BLOCK_SIZE
         /\ BlockSize(l) >= l.size /\ BlockSize(l) % NodeAlign = 0
<1> DEFINE n == IF l.size > MIN_BLOCK_SIZE THEN l.size ELSE MIN_BLOCK_SIZE
<1>1. n \in Nat /\ n >= l.size /\ n >= MIN_BLOCK_SIZE
  BY DEF MIN_BLOCK_SIZE
<1>2. BlockSize(l) = align_up(n, NodeAlign)
  BY DEF BlockSize
<1> HIDE DEF n
<1>3. NodeAlign \in Nat /\ NodeAlign > 0
  BY DEF NodeAlign
<1>4. /\ align_up(n, NodeAlign) \in Nat /\ align_up(n, NodeAlign) >= n
      /\ align_up(n, NodeAlign) % NodeAlign = 0
  BY <1>1, <1>3, AlignUpFact
<1> QED
  BY <1>1, <1>2, <1>4 DEF MIN_BLOCK_SIZE

(* An aligned address stays where it is.                                      *)
LEMMA AlignedStays ==
  ASSUME NEW a \in Nat, NEW d \in Nat, d > 0, a % d = 0
  PROVE  align_up(a, d) = a
<1>1. PICK k \in Nat : a = k * d
  <2>1. a = (a \div d) * d + (a % d) /\ a \div d \in Nat
    OBVIOUS
  <2> QED
    BY <2>1
<1>2. (a + d - 1) \div d = k
  BY <1>1
<1> QED
  BY <1>1, <1>2 DEF align_up

(* Aligning the address of a node leaves it one where a node can stand.       *)
LEMMA AlignedForNode ==
  ASSUME NEW a \in Nat, a % NodeAlign = 0, NEW d \in Nat, d > 0,
         NodeAlign % d = 0 \/ d % NodeAlign = 0
  PROVE  align_up(a, d) % NodeAlign = 0
<1>1. CASE NodeAlign % d = 0
  <2>1. d <= 8
    BY <1>1 DEF NodeAlign
  <2>2. d = 1 \/ d = 2 \/ d = 4 \/ d = 8
    BY <1>1, <2>1 DEF NodeAlign
  <2>3. a % d = 0
    BY <2>2 DEF NodeAlign
  <2> QED
    BY <2>3, AlignedStays
<1>2. CASE d % NodeAlign = 0
  <2>1. PICK m \in Nat : d = m * 8
    <3>1. d = (d \div 8) * 8 + (d % 8) /\ d \div 8 \in Nat
      OBVIOUS
    <3> QED
      BY <1>2, <3>1 DEF NodeAlign
  <2> DEFINE k == (a + d - 1) \div d
  <2>2. k \in Nat /\ align_up(a, d) = k * d
    BY DEF align_up
  <2> HIDE DEF k
  <2>3. k * d = (k * m) * 8 /\ k * m \in Nat
    BY <2>1, <2>2
  <2>4. \A x \in Nat : (x * 8) % 8 = 0
    OBVIOUS
  <2> QED
    BY <2>2, <2>3, <2>4 DEF NodeAlign
<1> QED
  BY <1>1, <1>2

(* What alloc cuts out of a region that fits, and what is left of it.         *)
LEMMA CutFact ==
  ASSUME NEW r \in Regions, NodeCanStandAt(r.addr, r.size), NEW l \in ListLayouts,
         RegionFits(r, BlockSize(l), l.align),
         NEW start, start = align_up(r.addr, l.align),
         NEW end, end = start + BlockSize(l)
  PROVE  /\ start \in Nat /\ end \in Nat /\ EndOf(r) \in Nat
         /\ r.addr <= start /\ start < end /\ end <= EndOf(r)
         /\ start % NodeAlign = 0 /\ start % l.align = 0
         /\ EndOf(r) > end => NodeCanStandAt(end, EndOf(r) - end)
<1>1. /\ l.size \in Nat /\ l.size > 0 /\ l.align \in Nat /\ l.align > 0
      /\ NodeAlign % l.align = 0 \/ l.align % NodeAlign = 0
  BY ListAssumption
<1>2. /\ BlockSize(l) \in Nat /\ BlockSize(l) >= MIN_BLOCK_SIZE
      /\ BlockSize(l) % NodeAlign = 0
  BY <1>1, BlockSizeFact
<1>3. r.addr \in Nat /\ r.size \in Nat /\ r.addr % NodeAlign = 0
  BY DEF Regions, NodeCanStandAt
<1>4. start \in Nat /\ start >= r.addr /\ start % l.align = 0
  BY <1>1, <1>3, AlignUpFact
<1>5. start % NodeAlign = 0
  BY <1>1, <1>3, AlignedForNode
<1>6. /\ end <= EndOf(r)
      /\ EndOf(r) - end = 0 \/ EndOf(r) - end >= MIN_BLOCK_SIZE
  BY DEF RegionFits
<1>7. end % NodeAlign = 0
  BY <1>2, <1>4, <1>5 DEF NodeAlign
<1>8. EndOf(r) \in Nat /\ end \in Nat /\ start < end
  BY <1>2, <1>3, <1>4 DEF EndOf, MIN_BLOCK_SIZE
<1> QED
  BY <1>3, <1>4, <1>5, <1>6, <1>7, <1>8 DEF NodeCanStandAt, MIN_BLOCK_SIZE

(* find_region answers with a region that fits.                               *)
LEMMA FirstFitFact ==
  ASSUME NEW size, NEW align, FirstFit(size, align) # 0, free \in Seq(Regions)
  PROVE  /\ FirstFit(size, align) \in DOMAIN free
         /\ RegionFits(free[FirstFit(size, align)], size, align)
<1> DEFINE fitting == {i \in DOMAIN free : RegionFits(free[i], size, align)}
<1>1. FirstFit(size, align) =
        IF fitting = {} THEN 0 ELSE CHOOSE i \in fitting : \A j \in fitting : i <= j
  BY DEF FirstFit
<1>2. fitting \in SUBSET Nat
  OBVIOUS
<1>3. \A i \in fitting : i \in DOMAIN free /\ RegionFits(free[i], size, align)
  OBVIOUS
<1> HIDE DEF fitting
<1>4. fitting # {} => \E i \in fitting : \A j \in fitting : i <= j
  BY <1>2, LeastNat
<1> QED
  BY <1>1, <1>3, <1>4

(* A list without one of its elements.                                        *)
LEMMA RemoveFact ==
  ASSUME NEW S, NEW s \in Seq(S), NEW i \in DOMAIN s
  PROVE  /\ RemoveAt(s, i) \in Seq(S)
         /\ DOMAIN RemoveAt(s, i) = 1 .. Len(s) - 1
         /\ \A j \in 1 .. Len(s) - 1 :
              RemoveAt(s, i)[j] = s[IF j < i THEN j ELSE j + 1]
<1>1. i \in 1 .. Len(s) /\ Len(s) \in Nat
  OBVIOUS
<1> DEFINE p == SubSeq(s, 1, i - 1)
           q == SubSeq(s, i + 1, Len(s))
<1>2. /\ p \in Seq(S) /\ Len(p) = i - 1
      /\ \A j \in 1 .. i - 1 : p[j] = s[j]
  BY <1>1
<1>3. /\ q \in Seq(S) /\ Len(q) = Len(s) - i
      /\ \A j \in 1 .. Len(s) - i : q[j] = s[j + i]
  BY <1>1
<1>4. RemoveAt(s, i) = p \o q
  BY DEF RemoveAt
<1> HIDE DEF p, q
<1>5. /\ p \o q \in Seq(S) /\ Len(p \o q) = Len(p) + Len(q)
      /\ \A j \in 1 .. Len(p) + Len(q) :
           (p \o q)[j] = IF j <= Len(p) THEN p[j] ELSE q[j - Len(p)]
  BY <1>2, <1>3
<1>6. Len(p) + Len(q) = Len(s) - 1
  BY <1>1, <1>2, <1>3
<1>7. ASSUME NEW j \in 1 .. Len(s) - 1
      PROVE  (p \o q)[j] = s[IF j < i THEN j ELSE j + 1]
  <2>1. CASE j < i
    BY <1>1, <1>2, <1>5, <1>6, <2>1
  <2>2. CASE ~(j < i)
    <3>1. j - (i - 1) \in 1 .. Len(s) - i
      BY <1>1, <2>2
    <3>2. q[j - (i - 1)] = s[(j - (i - 1)) + i]
      BY <1>3, <3>1
    <3>3. (j - (i - 1)) + i = j + 1
      BY <1>1
    <3> QED
      BY <1>1, <1>2, <1>5, <1>6, <2>2, <3>2, <3>3
  <2> QED
    BY <2>1, <2>2
<1> QED
  BY <1>4, <1>5, <1>6, <1>7

(* A list with an element in front.                                           *)
LEMMA PushFact ==
  ASSUME NEW S, NEW s \in Seq(S), NEW r \in S
  PROVE  /\ <<r>> \o s \in Seq(S)
         /\ DOMAIN (<<r>> \o s) = 1 .. Len(s) + 1
         /\ (<<r>> \o s)[1] = r /\ Head(<<r>> \o s) = r
         /\ \A j \in 2 .. Len(s) + 1 : j - 1 \in DOMAIN s /\ (<<r>> \o s)[j] = s[j - 1]
  OBVIOUS

(* A region goes onto the list.                                               *)
LEMMA GoodPush ==
  ASSUME NEW s, NEW L, GoodList(s, L), NEW r \in Regions,
         NodeCanStandAt(r.addr, r.size), Span(r) \subseteq ListArena,
         \A i \in DOMAIN s : Span(s[i]) \cap Span(r) = {},
         \A b \in L : Span(r) \cap Extent(b) = {}
  PROVE  GoodList(<<r>> \o s, L)
<1> DEFINE t == <<r>> \o s
<1>1. s \in Seq(Regions) /\ Len(s) \in Nat /\ DOMAIN s = 1 .. Len(s)
  BY DEF GoodList
<1>2. /\ t \in Seq(Regions) /\ DOMAIN t = 1 .. Len(s) + 1 /\ t[1] = r
      /\ \A j \in 2 .. Len(s) + 1 : j - 1 \in DOMAIN s /\ t[j] = s[j - 1]
  BY <1>1, PushFact
<1> HIDE DEF t
<1>3. \A j \in DOMAIN t : j = 1 \/ j \in 2 .. Len(s) + 1
  BY <1>1, <1>2
<1>4. \A i \in DOMAIN t : /\ NodeCanStandAt(t[i].addr, t[i].size)
                          /\ Span(t[i]) \subseteq ListArena
  BY <1>2, <1>3 DEF GoodList
<1>5. \A i \in DOMAIN t, b \in L : Span(t[i]) \cap Extent(b) = {}
  BY <1>2, <1>3 DEF GoodList
<1>6. ASSUME NEW i \in DOMAIN t, NEW j \in DOMAIN t, i # j
      PROVE  Span(t[i]) \cap Span(t[j]) = {}
  <2>1. CASE i = 1
    <3>1. j \in 2 .. Len(s) + 1
      BY <1>3, <1>6, <2>1
    <3> QED
      BY <1>2, <2>1, <3>1
  <2>2. CASE j = 1
    <3>1. i \in 2 .. Len(s) + 1
      BY <1>3, <1>6, <2>2
    <3> QED
      BY <1>2, <2>2, <3>1
  <2>3. CASE i # 1 /\ j # 1
    <3>1. i \in 2 .. Len(s) + 1 /\ j \in 2 .. Len(s) + 1
      BY <1>3, <2>3
    <3>2. i - 1 # j - 1
      BY <1>1, <1>6, <3>1
    <3> QED
      BY <1>2, <3>1, <3>2 DEF GoodList
  <2> QED
    BY <2>1, <2>2, <2>3
<1> QED
  BY <1>2, <1>4, <1>5, <1>6 DEF GoodList, t

(* A region leaves the list.                                                  *)
LEMMA GoodRemove ==
  ASSUME NEW s, NEW L, GoodList(s, L), NEW i \in DOMAIN s
  PROVE  /\ GoodList(RemoveAt(s, i), L)
         /\ \A j \in DOMAIN RemoveAt(s, i) :
              Span(RemoveAt(s, i)[j]) \cap Span(s[i]) = {}
<1> DEFINE t == RemoveAt(s, i)
           At(j) == IF j < i THEN j ELSE j + 1
<1>1. s \in Seq(Regions) /\ Len(s) \in Nat /\ DOMAIN s = 1 .. Len(s) /\ i \in 1 .. Len(s)
  BY DEF GoodList
<1>2. /\ t \in Seq(Regions) /\ DOMAIN t = 1 .. Len(s) - 1
      /\ \A j \in DOMAIN t : t[j] = s[At(j)]
  BY <1>1, RemoveFact
<1>3. \A j \in DOMAIN t : At(j) \in DOMAIN s /\ At(j) # i
  BY <1>1, <1>2
<1>4. \A j, k \in DOMAIN t : j # k => At(j) # At(k)
  BY <1>1, <1>2
<1> HIDE DEF t, At
<1>5. \A j \in DOMAIN t : Span(t[j]) \cap Span(s[i]) = {}
  BY <1>2, <1>3 DEF GoodList
<1>6. GoodList(t, L)
  <2>1. \A j \in DOMAIN t : /\ NodeCanStandAt(t[j].addr, t[j].size)
                            /\ Span(t[j]) \subseteq ListArena
    BY <1>2, <1>3 DEF GoodList
  <2>2. \A j, k \in DOMAIN t : j # k => Span(t[j]) \cap Span(t[k]) = {}
    BY <1>2, <1>3, <1>4 DEF GoodList
  <2>3. \A j \in DOMAIN t, b \in L : Span(t[j]) \cap Extent(b) = {}
    BY <1>2, <1>3 DEF GoodList
  <2> QED
    BY <1>2, <2>1, <2>2, <2>3 DEF GoodList
<1> QED
  BY <1>5, <1>6 DEF t

(* alloc that succeeds: the block lies in one region, what is left of it goes *)
(* back, and they do not overlap.                                             *)
LEMMA ListAllocFact ==
  ASSUME ListIInv, NEW l \in ListLayouts, ListAlloc(l),
         FirstFit(BlockSize(l), l.align) # 0
  PROVE  \E start \in Nat :
           /\ listPointer' = start /\ listLive' = listLive \cup {Block(start, l)}
           /\ GoodBlock(Block(start, l))
           /\ \A b \in listLive : Extent(b) \cap Extent(Block(start, l)) = {}
           /\ GoodList(free', listLive \cup {Block(start, l)}) /\ asserted' = FALSE
<1> DEFINE i == FirstFit(BlockSize(l), l.align)
           r == free[i]
           start == align_up(r.addr, l.align)
           end == start + BlockSize(l)
           rest == RemoveAt(free, i)
           c == Block(start, l)
           left == Region(end, EndOf(r) - end)
<1>1. /\ free \in Seq(Regions) /\ GoodList(free, listLive)
      /\ i \in DOMAIN free /\ RegionFits(r, BlockSize(l), l.align)
  BY FirstFitFact DEF ListIInv, GoodList
<1>2. r \in Regions /\ NodeCanStandAt(r.addr, r.size) /\ Span(r) \subseteq ListArena
  BY <1>1 DEF GoodList
<1>3. /\ listPointer' = start /\ listLive' = listLive \cup {c}
      /\ IF EndOf(r) > end THEN AddFreeRegion(rest, end, EndOf(r) - end)
                           ELSE free' = rest /\ UNCHANGED asserted
  BY DEF ListAlloc
<1> HIDE DEF i, r
<1>4. /\ start \in Nat /\ end \in Nat /\ EndOf(r) \in Nat
      /\ r.addr <= start /\ start < end /\ end <= EndOf(r)
      /\ start % NodeAlign = 0 /\ start % l.align = 0
      /\ EndOf(r) > end => NodeCanStandAt(end, EndOf(r) - end)
  BY <1>1, <1>2, CutFact
<1> HIDE DEF start
<1>5. /\ GoodList(rest, listLive)
      /\ \A j \in DOMAIN rest : Span(rest[j]) \cap Span(r) = {}
  BY <1>1, GoodRemove DEF r
<1>6. l.size \in Nat /\ l.size > 0 /\ l.align \in Nat /\ l.align > 0
  BY ListAssumption
<1>7. /\ Extent(c) = start .. end - 1 /\ Extent(c) \subseteq Span(r)
      /\ c.at = start /\ c.size = l.size /\ c.align = l.align
      /\ c \in [at : Nat, size : Nat, align : Nat]
  <2>1. /\ c.at = start /\ c.size = l.size /\ c.align = l.align
        /\ c \in [at : Nat, size : Nat, align : Nat]
    BY <1>4, <1>6 DEF Block
  <2>2. BlockSize(c) = BlockSize(l)
    BY <2>1 DEF BlockSize
  <2>3. Extent(c) = start .. end - 1
    <3>1. BlockSize(l) \in Nat
      BY <1>6, BlockSizeFact
    <3>2. Extent(c) = start .. start + BlockSize(l) - 1
      BY <2>1, <2>2 DEF Extent
    <3> QED
      BY <1>4, <3>1, <3>2
  <2>4. start .. end - 1 \subseteq Span(r)
    BY <1>2, <1>4 DEF Span, Regions
  <2> QED
    BY <2>1, <2>3, <2>4
<1>8. /\ Span(left) = end .. EndOf(r) - 1 /\ Span(left) \subseteq Span(r)
      /\ left.addr = end /\ left.size = EndOf(r) - end
      /\ EndOf(r) > end => left \in Regions
  BY <1>2, <1>4 DEF Region, Span, EndOf, Regions
<1>9. Span(left) \cap Extent(c) = {}
  BY <1>4, <1>7, <1>8
<1> HIDE DEF c, rest, left
<1>10. GoodBlock(c)
  <2>1. start \in Extent(c)
    BY <1>4, <1>7
  <2> QED
    BY <1>2, <1>4, <1>6, <1>7, <2>1 DEF GoodBlock
<1>11. \A b \in listLive : Extent(b) \cap Span(r) = {}
  BY <1>1 DEF GoodList, r
<1>12. \A b \in listLive : Extent(b) \cap Extent(c) = {}
  BY <1>7, <1>11
<1>13. GoodList(rest, listLive \cup {c})
  BY <1>5, <1>7 DEF GoodList
<1>14. GoodList(free', listLive \cup {c}) /\ asserted' = FALSE
  <2>1. CASE EndOf(r) > end
    <3>1. free' = <<left>> \o rest /\ asserted' = asserted
      BY <1>3, <1>4, <2>1 DEF AddFreeRegion, left
    <3>2. NodeCanStandAt(left.addr, left.size) /\ left \in Regions
      BY <1>4, <1>8, <2>1
    <3>3. Span(left) \subseteq ListArena
      BY <1>2, <1>8
    <3>4. \A j \in DOMAIN rest : Span(rest[j]) \cap Span(left) = {}
      BY <1>5, <1>8
    <3>5. \A b \in listLive \cup {c} : Span(left) \cap Extent(b) = {}
      BY <1>8, <1>9, <1>11
    <3>6. GoodList(<<left>> \o rest, listLive \cup {c})
      BY <1>13, <3>2, <3>3, <3>4, <3>5, GoodPush
    <3> QED
      BY <3>1, <3>6 DEF ListIInv
  <2>2. CASE ~(EndOf(r) > end)
    BY <1>3, <1>13, <2>2 DEF ListIInv
  <2> QED
    BY <2>1, <2>2
<1> QED
  BY <1>3, <1>4, <1>10, <1>12, <1>14 DEF c

LEMMA ListAllocStep ==
  ASSUME ListIInv, NEW l \in ListLayouts, ListAlloc(l)
  PROVE  ListIInv'
<1>1. CASE FirstFit(BlockSize(l), l.align) = 0
  BY <1>1 DEF ListAlloc, ListIInv
<1>2. CASE FirstFit(BlockSize(l), l.align) # 0
  <2>1. PICK start \in Nat :
          /\ listPointer' = start /\ listLive' = listLive \cup {Block(start, l)}
          /\ GoodBlock(Block(start, l))
          /\ \A b \in listLive : Extent(b) \cap Extent(Block(start, l)) = {}
          /\ GoodList(free', listLive \cup {Block(start, l)}) /\ asserted' = FALSE
    BY <1>2, ListAllocFact
  <2>2. start \in ListArena
    BY <2>1 DEF GoodBlock, Block
  <2> DEFINE c == Block(start, l)
  <2>3. /\ listLive' = listLive \cup {c} /\ GoodBlock(c)
        /\ \A b \in listLive : Extent(b) \cap Extent(c) = {}
        /\ GoodList(free', listLive')
    BY <2>1
  <2> HIDE DEF c
  <2>4. \A b \in listLive' : GoodBlock(b)
    BY <2>3 DEF ListIInv
  <2>5. \A b, d \in listLive' : b # d => Extent(b) \cap Extent(d) = {}
    BY <2>3 DEF ListIInv
  <2> QED
    BY <2>1, <2>2, <2>3, <2>4, <2>5 DEF ListIInv
<1> QED
  BY <1>1, <1>2

(* dealloc puts the block on the list as it was cut out.                      *)
LEMMA ListDeallocStep ==
  ASSUME ListIInv, NEW b \in listLive, ListDealloc(b)
  PROVE  /\ ListIInv'
         /\ free' = <<Region(b.at, BlockSize(b))>> \o free
<1> DEFINE r == Region(b.at, BlockSize(b))
<1>1. /\ b.at \in Nat /\ b.size \in Nat /\ b.size > 0 /\ b.at % NodeAlign = 0
      /\ Extent(b) \subseteq ListArena
  BY DEF ListIInv, GoodBlock
<1>2. BlockSize(b) \in Nat /\ BlockSize(b) >= MIN_BLOCK_SIZE
  BY <1>1, BlockSizeFact
<1>3. NodeCanStandAt(b.at, BlockSize(b))
  BY <1>1, <1>2 DEF NodeCanStandAt
<1>4. /\ free' = <<r>> \o free /\ asserted' = asserted
      /\ listLive' = listLive \ {b} /\ listPointer' = listPointer
  BY <1>3 DEF ListDealloc, AddFreeRegion
<1>5. r \in Regions /\ r.addr = b.at /\ r.size = BlockSize(b) /\ Span(r) = Extent(b)
  BY <1>1, <1>2 DEF Region, Regions, Span, EndOf, Extent
<1> HIDE DEF r
<1>6. GoodList(free, listLive \ {b}) /\ \A i \in DOMAIN free : Span(free[i]) \cap Span(r) = {}
  BY <1>5 DEF ListIInv, GoodList
<1>7. \A c \in listLive \ {b} : Span(r) \cap Extent(c) = {}
  BY <1>5 DEF ListIInv
<1>8. GoodList(<<r>> \o free, listLive \ {b})
  BY <1>1, <1>3, <1>5, <1>6, <1>7, GoodPush
<1> QED
  BY <1>4, <1>8 DEF ListIInv, r

(* The invariant of the free list.                                            *)
THEOREM ListInvariant == ListSpec => []ListIInv
<1>1. ListInit => ListIInv
  <2> SUFFICES ASSUME ListInit PROVE ListIInv
    OBVIOUS
  <2> DEFINE r == Region(ListStart, ListSize)
  <2>1. /\ r \in Regions /\ NodeCanStandAt(r.addr, r.size) /\ Span(r) = ListArena
    BY ListAssumption DEF Region, Regions, NodeCanStandAt, Span, EndOf, ListArena
  <2>2. free = <<r>> /\ listLive = {}
    BY DEF ListInit
  <2> HIDE DEF r
  <2>3. free \in Seq(Regions) /\ DOMAIN free = {1} /\ free[1] = r
    BY <2>1, <2>2
  <2>4. GoodList(free, listLive)
    BY <2>1, <2>2, <2>3 DEF GoodList
  <2> QED
    BY <2>2, <2>4 DEF ListInit, ListIInv
<1>2. ListIInv /\ [ListNext]_listVars => ListIInv'
  <2>1. ListIInv /\ UNCHANGED listVars => ListIInv'
    BY DEF listVars, ListIInv
  <2>2. ListIInv /\ ListNext => ListIInv'
    BY ListAllocStep, ListDeallocStep DEF ListNext
  <2> QED
    BY <2>1, <2>2
<1> QED
  BY <1>1, <1>2, PTL DEF ListSpec

(* The assertions of linked_list.rs hold, whatever is asked for and given     *)
(* back in whatever order: alloc_from_region leaves no remainder too small    *)
(* for a node.                                                                *)
THEOREM AssertionsHold == ListSpec => []NoAssertionFails
<1>1. ListIInv => NoAssertionFails
  <2> SUFFICES ASSUME ListIInv PROVE NoAssertionFails
    OBVIOUS
  <2>1. free \in Seq([addr : Nat, size : Nat])
    BY DEF ListIInv, GoodList, Regions
  <2>2. listLive \subseteq [at : Nat, size : Nat, align : Nat]
    BY DEF ListIInv, GoodBlock
  <2>3. ListTypeOK /\ ~ asserted
    BY <2>1, <2>2 DEF ListIInv, ListTypeOK
  <2> QED
    BY <2>3 DEF ListIInv, GoodList, NoAssertionFails
<1> QED
  BY <1>1, ListInvariant, PTL

(* No node, free region or block in use ever overlaps another.                *)
THEOREM PiecesStayApart == ListSpec => []NothingOverlaps
<1>1. ListIInv => NothingOverlaps
  BY DEF ListIInv, GoodList, NothingOverlaps
<1> QED
  BY <1>1, ListInvariant, PTL

(* A block that was just freed heads the list and serves the same request.    *)
THEOREM FreedBlocksAreReusable == ListSpec => FreedBlockIsReusable
<1>1. ListIInv /\ [ListNext]_listVars =>
        [\A b \in listLive \ listLive' :
           RegionFits(Head(free'), BlockSize(b), b.align)]_listVars
  <2> SUFFICES ASSUME ListIInv, ListNext, NEW b \in listLive \ listLive'
               PROVE  RegionFits(Head(free'), BlockSize(b), b.align)
    OBVIOUS
  <2>1. ListDealloc(b)
    <3>1. ASSUME NEW l \in ListLayouts, ListAlloc(l) PROVE FALSE
      BY <3>1 DEF ListAlloc
    <3> QED
      BY <3>1 DEF ListNext, ListDealloc
  <2> DEFINE r == Region(b.at, BlockSize(b))
  <2>2. /\ b.at \in Nat /\ b.size \in Nat /\ b.size > 0
        /\ b.align \in Nat /\ b.align > 0 /\ b.at % b.align = 0
    BY DEF ListIInv, GoodBlock
  <2>3. BlockSize(b) \in Nat
    BY <2>2, BlockSizeFact
  <2>4. free' = <<r>> \o free /\ r \in Regions /\ free \in Seq(Regions)
    BY <2>1, <2>2, <2>3, ListDeallocStep DEF ListIInv, GoodList, Region, Regions
  <2>5. r.addr = b.at /\ EndOf(r) = b.at + BlockSize(b)
    BY DEF Region, EndOf
  <2> HIDE DEF r
  <2>6. Head(free') = r
    BY <2>4, PushFact
  <2>7. align_up(r.addr, b.align) = b.at
    BY <2>2, <2>5, AlignedStays
  <2> QED
    BY <2>2, <2>3, <2>5, <2>6, <2>7 DEF RegionFits
<1> QED
  BY <1>1, ListInvariant, PTL DEF ListSpec, FreedBlockIsReusable

(* The free list keeps the promise of GlobalAlloc as well.                    *)
THEOREM ListImplementsHeap == ListSpec => ListHeapSpec
<1>1. ListInit => ListHeap!HeapInit
  BY DEF ListInit, ListHeap!HeapInit
<1>2. ListIInv /\ [ListNext]_listVars => [ListHeap!HeapNext]_(ListHeap!heapVars)
  <2> SUFFICES ASSUME ListIInv, [ListNext]_listVars
               PROVE  ListHeap!HeapNext \/ UNCHANGED ListHeap!heapVars
    OBVIOUS
  <2>1. ASSUME NEW l \in ListLayouts, ListAlloc(l)
        PROVE  ListHeap!HeapNext
    <3>1. CASE FirstFit(BlockSize(l), l.align) = 0
      BY <2>1, <3>1 DEF ListAlloc, ListHeap!HeapNext, ListHeap!Failed
    <3>2. CASE FirstFit(BlockSize(l), l.align) # 0
      <4>1. PICK start \in Nat :
              /\ listPointer' = start /\ listLive' = listLive \cup {Block(start, l)}
              /\ GoodBlock(Block(start, l))
              /\ \A b \in listLive : Extent(b) \cap Extent(Block(start, l)) = {}
        BY <2>1, <3>2, ListAllocFact
      <4> DEFINE c == Block(start, l)
      <4>2. c = ListHeap!Block(start, l) /\ c.at = start /\ c.align = l.align
        BY DEF Block, ListHeap!Block
      <4>3. \A b : GoodBlock(b) => ListHeap!Bytes(b) \subseteq Extent(b)
        <5> TAKE b
        <5> SUFFICES ASSUME GoodBlock(b) PROVE ListHeap!Bytes(b) \subseteq Extent(b)
          OBVIOUS
        <5>1. b.at \in Nat /\ b.size \in Nat /\ b.size > 0
          BY DEF GoodBlock
        <5>2. BlockSize(b) \in Nat /\ BlockSize(b) >= b.size
          BY <5>1, BlockSizeFact
        <5> QED
          BY <5>1, <5>2 DEF ListHeap!Bytes, Extent
      <4>4. /\ GoodBlock(c) /\ listPointer' = start /\ listLive' = listLive \cup {c}
            /\ \A b \in listLive : GoodBlock(b) /\ Extent(b) \cap Extent(c) = {}
        BY <4>1 DEF ListIInv
      <4> HIDE DEF c
      <4>5. /\ start \in ListArena /\ start % l.align = 0
            /\ ListHeap!Bytes(c) \subseteq ListArena
        BY <4>2, <4>3, <4>4 DEF GoodBlock
      <4>6. \A b \in listLive : ListHeap!Bytes(b) \cap ListHeap!Bytes(c) = {}
        BY <4>3, <4>4
      <4>7. ListHeap!Allocated(l)
        BY <4>2, <4>4, <4>5, <4>6 DEF ListHeap!Allocated
      <4> QED
        BY <4>7 DEF ListHeap!HeapNext
    <3> QED
      BY <3>1, <3>2
  <2>2. ASSUME NEW b \in listLive, ListDealloc(b)
        PROVE  ListHeap!HeapNext
    BY <2>2 DEF ListDealloc, ListHeap!HeapNext, ListHeap!Deallocated
  <2>3. CASE UNCHANGED listVars
    BY <2>3 DEF listVars, ListHeap!heapVars
  <2> QED
    BY <2>1, <2>2, <2>3 DEF ListNext
<1> QED
  BY <1>1, <1>2, ListInvariant, PTL DEF ListSpec, ListHeapSpec, ListHeap!HeapSpec
=============================================================================
