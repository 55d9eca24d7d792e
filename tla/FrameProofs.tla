---------------------------- MODULE FrameProofs ----------------------------
(* The proofs about the physical frames, for every region, word size, build   *)
(* profile and set of callers' inputs.  Part 1: what the two searches of the  *)
(* bitmap return.  Part 2: the loops of find_first_clear and                  *)
(* find_consecutive_clear return just that.  Part 3: the counter of the frame *)
(* allocator is the number of bits set, the frames its callers hold are       *)
(* exactly the ones marked, so none is granted twice, and the allocator       *)
(* implements a pool of frames.                                               *)
EXTENDS FrameAllocator, BitmapScan, LeastNumber, FiniteSetTheorems, TLAPS

-----------------------------------------------------------------------------
(* Part 1: the searches.                                                      *)

(* find_first_clear returns the lowest clear index, or None when all are set. *)
LEMMA FindFirstClearFact ==
  ASSUME NEW b
  PROVE  \/ FindFirstClear(b) = None /\ Indices \subseteq b
         \/ FindFirstClear(b) \in Indices /\ IsFirstClear(b, FindFirstClear(b))
<1>1. CASE Indices \subseteq b
  BY <1>1 DEF FindFirstClear
<1>2. CASE ~ (Indices \subseteq b)
  <2>1. Indices \ b \in SUBSET Nat /\ Indices \ b # {}
    BY <1>2, BitmapAssumption DEF Indices
  <2>2. PICK i \in Indices \ b : \A j \in Indices \ b : i <= j
    BY <2>1, LeastNat
  <2>3. IsFirstClear(b, i)
    BY <2>2, BitmapAssumption DEF IsFirstClear, Indices
  <2> QED
    BY <1>2, <2>2, <2>3 DEF FindFirstClear
<1> QED
  BY <1>1, <1>2

(* find_consecutive_clear returns the lowest start of a free run of n frames, *)
(* or None when n is 0 or no such run exists.                                 *)
LEMMA FindConsecutiveClearFact ==
  ASSUME NEW b, NEW n \in Nat
  PROVE  \/ /\ FindConsecutiveClear(b, n) = None
            /\ n = 0 \/ \A s \in Indices : ~ IsFreeRun(b, s, n)
         \/ /\ n > 0
            /\ FindConsecutiveClear(b, n) \in Indices
            /\ IsFirstFreeRun(b, FindConsecutiveClear(b, n), n)
<1> DEFINE T == {s \in Indices : IsFreeRun(b, s, n)}
<1>1. CASE n > 0 /\ T # {}
  <2>1. T \in SUBSET Nat
    BY BitmapAssumption DEF Indices
  <2>2. PICK s \in T : \A t \in T : s <= t
    BY <1>1, <2>1, LeastNat
  <2>3. \A t \in Indices : t < s => ~ IsFreeRun(b, t, n)
    BY <2>2, BitmapAssumption DEF Indices
  <2>4. s \in Indices /\ IsFirstFreeRun(b, s, n)
    BY <2>2, <2>3 DEF IsFirstFreeRun
  <2> QED
    BY <1>1, <2>4 DEF FindConsecutiveClear
<1>2. CASE ~ (n > 0 /\ T # {})
  BY <1>2 DEF FindConsecutiveClear
<1> QED
  BY <1>1, <1>2

(* There is only one lowest clear index and one lowest free run: what meets   *)
(* the description is what the search returns.                                *)
LEMMA FirstClearUnique ==
  ASSUME NEW b, NEW i \in Indices, IsFirstClear(b, i)
  PROVE  FindFirstClear(b) = i
<1>1. ~ (Indices \subseteq b)
  BY DEF IsFirstClear
<1>2. FindFirstClear(b) \in Indices /\ IsFirstClear(b, FindFirstClear(b))
  BY <1>1, FindFirstClearFact
<1>3. ~ (FindFirstClear(b) < i) /\ ~ (i < FindFirstClear(b))
  BY <1>2 DEF IsFirstClear
<1> QED
  BY <1>2, <1>3, BitmapAssumption DEF Indices

LEMMA FirstFreeRunUnique ==
  ASSUME NEW b, NEW n \in Nat, n > 0, NEW s \in Indices, IsFirstFreeRun(b, s, n)
  PROVE  FindConsecutiveClear(b, n) = s
<1>1. IsFreeRun(b, s, n)
  BY DEF IsFirstFreeRun
<1>3. /\ FindConsecutiveClear(b, n) \in Indices
      /\ IsFirstFreeRun(b, FindConsecutiveClear(b, n), n)
  BY <1>1, FindConsecutiveClearFact
<1>4. ~ (FindConsecutiveClear(b, n) < s) /\ ~ (s < FindConsecutiveClear(b, n))
  BY <1>3 DEF IsFirstFreeRun
<1> QED
  BY <1>3, <1>4, BitmapAssumption DEF Indices

-----------------------------------------------------------------------------
(* Part 2: the loops.                                                         *)

(* The answer described without a choice.                                     *)
Answered ==
  pc = "done" =>
    IF want = 0
      THEN \/ result = None /\ Indices \subseteq data
           \/ result \in Indices /\ IsFirstClear(data, result)
      ELSE \/ result = None /\ \A s \in Indices : ~ IsFreeRun(data, s, want)
           \/ result \in Indices /\ IsFirstFreeRun(data, result, want)

ScanIInv == ScanInv /\ Answered

LEMMA ScanInitEstablishes == ScanInit => ScanIInv
<1> SUFFICES ASSUME ScanInit PROVE ScanIInv
  OBVIOUS
<1>1. \A s \in Indices : s + want <= 0 => ~ IsFreeRun(data, s, want) \/ want = 0
  BY MaxCountAssumption, BitmapAssumption DEF ScanInit, Indices
<1>2. ScanInv
  BY <1>1, MaxCountAssumption, BitmapAssumption
     DEF ScanInit, ScanInv, Indices, ByteAtCursor, IsSet, ByteBits
<1> QED
  BY <1>2 DEF ScanIInv, Answered, ScanInit

LEMMA ScanBytesStep ==
  ScanIInv /\ (BufferExhausted \/ SkipFullByte \/ EnterByte) => ScanIInv'
<1> SUFFICES ASSUME ScanIInv, BufferExhausted \/ SkipFullByte \/ EnterByte PROVE ScanIInv'
  OBVIOUS
<1> USE BitmapAssumption DEF ScanIInv, Indices
<1>1. CASE BufferExhausted
  <2>1. want = 0 /\ Indices \subseteq data
    BY <1>1 DEF BufferExhausted, ScanInv, ByteBits
  <2> QED
    BY <1>1, <2>1 DEF BufferExhausted, Return, ScanInv, Answered
<1>2. CASE SkipFullByte
  BY <1>2 DEF SkipFullByte, ByteAtCursor, IsSet, ByteBits, ScanInv, Answered
<1>3. CASE EnterByte
  BY <1>3 DEF EnterByte, ByteAtCursor, IsSet, ByteBits, ScanInv, Answered
<1> QED
  BY <1>1, <1>2, <1>3

LEMMA ScanBitsStep ==
  ScanIInv /\ (BitOutOfRange \/ BitClear \/ BitTaken) => ScanIInv'
<1> SUFFICES ASSUME ScanIInv, BitOutOfRange \/ BitClear \/ BitTaken PROVE ScanIInv'
  OBVIOUS
<1> USE BitmapAssumption DEF ScanIInv, Indices
<1>1. CASE BitOutOfRange
  BY <1>1 DEF BitOutOfRange, Return, ScanInv, Answered
<1>2. CASE BitClear
  BY <1>2 DEF BitClear, Return, IsSet, IsFirstClear, ScanInv, Answered
<1>3. CASE BitTaken
  BY <1>3 DEF BitTaken, ByteAtCursor, IsSet, ByteBits, ScanInv, Answered
<1> QED
  BY <1>1, <1>2, <1>3

(* No run of the wanted length ends at or before a taken bit that the cursor  *)
(* has just met, nor at the cursor while the current run is too short.        *)
LEMMA ScanRunStep ==
  ScanIInv /\ (RunExhausted \/ RunFound \/ RunGrows \/ RunBroken) => ScanIInv'
<1> SUFFICES ASSUME ScanIInv, RunExhausted \/ RunFound \/ RunGrows \/ RunBroken
             PROVE  ScanIInv'
  OBVIOUS
<1>0. /\ pc = "run" /\ want \in Nat /\ want > 0 /\ run \in Nat /\ start \in Nat
      /\ cursor \in Nat /\ run < want /\ run <= cursor /\ cursor <= Size
      /\ result \in Nat \cup {None}
      /\ data \subseteq Indices
      /\ run > 0 => start + run = cursor
      /\ cursor - run .. cursor - 1 \subseteq Indices \ data
      /\ cursor - run > 0 => cursor - run - 1 \in data
      /\ \A s \in Indices : s + want <= cursor => ~ IsFreeRun(data, s, want)
  BY DEF ScanIInv, ScanInv, RunExhausted, RunFound, RunGrows, RunBroken
<1>size. Size \in Nat /\ \A j : j \in Indices <=> j \in Nat /\ j < Size
  BY BitmapAssumption DEF Indices
<1>1. CASE RunExhausted
  <2>1. ASSUME NEW s \in Indices
        PROVE  ~ IsFreeRun(data, s, want)
    <3>1. CASE s + want <= cursor
      BY <1>0, <3>1
    <3>2. CASE s + want > cursor
      <4>1. s + want - 1 \in Run(s, want) /\ s + want - 1 \notin Indices
        BY <1>0, <1>size, <1>1, <3>2 DEF RunExhausted, Run
      <4> QED
        BY <4>1 DEF IsFreeRun
    <3> QED
      BY <1>0, <1>size, <3>1, <3>2
  <2> QED
    BY <1>0, <1>1, <2>1 DEF RunExhausted, Return, ScanIInv, ScanInv, Answered
<1>2. CASE RunFound
  <2> DEFINE first == cursor - run
  <2>1. cursor < Size /\ cursor \notin data /\ run + 1 = want
    BY <1>2 DEF RunFound, IsSet
  <2>2. first \in Nat /\ first \in Indices
    BY <1>0, <1>size, <2>1
  <2>3. result' = first /\ data' = data /\ want' = want /\ pc' = "done"
    BY <1>0, <1>2 DEF RunFound, Return
  <2>4. IsFreeRun(data, first, want)
    <3>1. Run(first, want) = first .. cursor
      BY <1>0, <2>1 DEF Run
    <3>2. ASSUME NEW j \in first .. cursor PROVE j \in Indices \ data
      <4>1. CASE j = cursor
        BY <1>0, <1>size, <2>1, <4>1
      <4>2. CASE j # cursor
        BY <1>0, <4>2
      <4> QED
        BY <4>1, <4>2
    <3> QED
      BY <3>1, <3>2 DEF IsFreeRun
  <2>5. ASSUME NEW t \in Indices, t < first
        PROVE  ~ IsFreeRun(data, t, want)
    <3>1. CASE t + want <= cursor
      BY <1>0, <3>1
    <3>2. CASE t + want > cursor
      <4>1. first > 0 /\ first - 1 \in data
        BY <1>0, <1>size, <2>2, <2>5
      <4>2. first - 1 \in Run(t, want)
        BY <1>0, <1>size, <2>1, <2>2, <2>5, <3>2 DEF Run
      <4> QED
        BY <4>1, <4>2 DEF IsFreeRun
    <3> QED
      BY <1>0, <1>size, <3>1, <3>2
  <2>6. IsFirstFreeRun(data, first, want)
    BY <2>2, <2>4, <2>5 DEF IsFirstFreeRun
  <2>7. UNCHANGED <<cursor, run, start>>
    BY <1>2 DEF RunFound, Return
  <2> HIDE DEF first
  <2> QED
    BY <1>0, <2>2, <2>3, <2>6, <2>7 DEF ScanIInv, ScanInv, Answered
<1>3. CASE RunGrows
  <2>1. /\ cursor < Size /\ cursor \notin data /\ run + 1 # want
        /\ start' = (IF run = 0 THEN cursor ELSE start)
        /\ run' = run + 1 /\ cursor' = cursor + 1
        /\ UNCHANGED <<data, want, pc, result>>
    BY <1>3 DEF RunGrows, IsSet
  <2>2. cursor' - run' .. cursor' - 1 \subseteq Indices \ data
    <3>1. ASSUME NEW j \in cursor' - run' .. cursor' - 1
          PROVE  j \in Indices \ data
      <4>1. CASE j = cursor
        BY <1>0, <1>size, <2>1, <4>1
      <4>2. CASE j # cursor
        BY <1>0, <2>1, <4>2
      <4> QED
        BY <4>1, <4>2
    <3> QED
      BY <3>1
  <2>3. ASSUME NEW s \in Indices, s + want <= cursor'
        PROVE  ~ IsFreeRun(data, s, want)
    <3>1. CASE s + want <= cursor
      BY <1>0, <3>1
    <3>2. CASE s + want = cursor + 1
      <4>1. cursor - run > 0 /\ cursor - run - 1 \in data
        BY <1>0, <1>size, <2>1, <3>2
      <4>2. cursor - run - 1 \in Run(s, want)
        BY <1>0, <1>size, <2>1, <3>2 DEF Run
      <4> QED
        BY <4>1, <4>2 DEF IsFreeRun
    <3> QED
      BY <1>0, <1>size, <2>1, <2>3, <3>1, <3>2
  <2>4. cursor' - run' > 0 => cursor' - run' - 1 \in data
    BY <1>0, <2>1
  <2> QED
    BY <1>0, <1>size, <2>1, <2>2, <2>3, <2>4 DEF ScanIInv, ScanInv, Answered
<1>4. CASE RunBroken
  <2>1. /\ cursor < Size /\ cursor \in data
        /\ run' = 0 /\ cursor' = cursor + 1
        /\ UNCHANGED <<data, want, pc, start, result>>
    BY <1>4 DEF RunBroken, IsSet
  <2>2. ASSUME NEW s \in Indices, s + want <= cursor'
        PROVE  ~ IsFreeRun(data, s, want)
    <3>1. CASE s + want <= cursor
      BY <1>0, <3>1
    <3>2. CASE s + want = cursor + 1
      <4>1. cursor \in Run(s, want)
        BY <1>0, <1>size, <3>2 DEF Run
      <4> QED
        BY <2>1, <4>1 DEF IsFreeRun
    <3> QED
      BY <1>0, <1>size, <2>1, <2>2, <3>1, <3>2
  <2>3. cursor' - run' .. cursor' - 1 = {}
    BY <1>0, <2>1
  <2> QED
    BY <1>0, <1>size, <2>1, <2>2, <2>3 DEF ScanIInv, ScanInv, Answered
<1> QED
  BY <1>1, <1>2, <1>3, <1>4

(* The invariant of the two loops.                                            *)
THEOREM ScanInvariant == ScanSpec => []ScanIInv
<1>1. ScanInit => ScanIInv
  BY ScanInitEstablishes
<1>2. ScanIInv /\ [ScanNext]_scanVars => ScanIInv'
  <2>1. ScanIInv /\ UNCHANGED scanVars => ScanIInv'
    BY DEF ScanIInv, ScanInv, Answered, scanVars, ByteAtCursor
  <2> QED
    BY <2>1, ScanBytesStep, ScanBitsStep, ScanRunStep DEF ScanNext, Step, Finished
<1> QED
  BY <1>1, <1>2, PTL DEF ScanSpec

(* A search that has returned has returned the lowest free frame or run.      *)
THEOREM ScanReturnsTheFirst == ScanSpec => []ScanIsCorrect
<1>1. ScanIInv => ScanIsCorrect
  <2> SUFFICES ASSUME ScanIInv, pc = "done"
               PROVE  result = IF want = 0 THEN FindFirstClear(data)
                                          ELSE FindConsecutiveClear(data, want)
    BY DEF ScanIsCorrect
  <2>1. CASE want = 0
    <3>1. CASE result = None /\ Indices \subseteq data
      BY <2>1, <3>1 DEF FindFirstClear
    <3>2. CASE result \in Indices /\ IsFirstClear(data, result)
      BY <2>1, <3>2, FirstClearUnique
    <3> QED
      BY <2>1, <3>1, <3>2 DEF ScanIInv, Answered
  <2>2. CASE want # 0
    <3>0. want \in Nat /\ want > 0
      BY <2>2 DEF ScanIInv, ScanInv
    <3>1. CASE result = None /\ \A s \in Indices : ~ IsFreeRun(data, s, want)
      BY <2>2, <3>1 DEF FindConsecutiveClear
    <3>2. CASE result \in Indices /\ IsFirstFreeRun(data, result, want)
      BY <2>2, <3>0, <3>2, FirstFreeRunUnique
    <3> QED
      BY <2>2, <3>1, <3>2 DEF ScanIInv, Answered
  <2> QED
    BY <2>1, <2>2
<1> QED
  BY <1>1, ScanInvariant, PTL

-----------------------------------------------------------------------------
(* Part 3: the allocator.                                                     *)

IInv == TypeOK /\ CounterMatchesBitmap /\ HeldFramesAreMarked

LEMMA BitsFinite ==
  ASSUME NEW b \in SUBSET Indices
  PROVE  IsFiniteSet(b) /\ Cardinality(b) \in Nat
<1>1. IsFiniteSet(Indices)
  BY FS_Interval, BitmapAssumption DEF Indices
<1> QED
  BY <1>1, FS_Subset, FS_CardinalityType

LEMMA BitsAreIndices ==
  ASSUME TypeOK
  PROVE  \A i \in bits : i \in Nat /\ i < Size /\ i \in Indices
  BY BitmapAssumption DEF TypeOK, Indices

(* A free run of n frames adds exactly n to the number of marked frames.      *)
LEMMA RunCardinality ==
  ASSUME NEW b \in SUBSET Indices, NEW s \in Indices, NEW n \in Nat,
         IsFreeRun(b, s, n)
  PROVE  /\ b \cup Run(s, n) \in SUBSET Indices
         /\ Cardinality(b \cup Run(s, n)) = Cardinality(b) + n
<1>1. IsFiniteSet(b) /\ Cardinality(b) \in Nat
  BY BitsFinite
<1>2. IsFiniteSet(Run(s, n)) /\ Cardinality(Run(s, n)) = n
  <2>1. s \in Int /\ s + n - 1 \in Int
    BY BitmapAssumption DEF Indices
  <2>2. /\ IsFiniteSet(s .. s + n - 1)
        /\ Cardinality(s .. s + n - 1) =
             IF s > s + n - 1 THEN 0 ELSE s + n - 1 - s + 1
    BY <2>1, FS_Interval
  <2> QED
    BY <2>1, <2>2 DEF Run
<1>3. b \cap Run(s, n) = {}
  BY DEF IsFreeRun
<1>4. Cardinality(b \cup Run(s, n)) = Cardinality(b) + Cardinality(Run(s, n)) - 0
  BY <1>1, <1>2, <1>3, FS_Union, FS_EmptySet
<1> QED
  BY <1>1, <1>2, <1>4 DEF IsFreeRun

(* Different frames have different addresses, and the address of a frame     *)
(* converts back to its index.                                                *)
LEMMA FrameAddressFact ==
  ASSUME NEW i \in Nat
  PROVE  /\ FrameAddress(i) \in Nat
         /\ AlignDown(FrameAddress(i)) = FrameAddress(i)
         /\ (FrameAddress(i) - StartAddress) \div FRAME_SIZE = i
         /\ FrameAddress(i) # None
  BY FrameAllocatorAssumption, BitmapAssumption
     DEF FrameAddress, AlignDown, FRAME_SIZE

(* An address that does not lie below the region is in the frame its index    *)
(* names.                                                                     *)
LEMMA FrameIndexFact ==
  ASSUME NEW a \in 0 .. WordSize - 1, ~ Underflows(a)
  PROVE  /\ FrameIndex(a) \in Nat
         /\ AlignDown(a) = FrameAddress(FrameIndex(a))
  BY FrameAllocatorAssumption
     DEF Underflows, FrameIndex, AlignDown, FrameAddress, FRAME_SIZE

(* An address below the region wraps to an index beyond every frame.          *)
LEMMA UnderflowFact ==
  ASSUME NEW a \in 0 .. WordSize - 1, Underflows(a)
  PROVE  FrameIndex(a) \in Nat /\ FrameIndex(a) >= Size
  BY FrameAllocatorAssumption, BitmapAssumption
     DEF Underflows, FrameIndex, AlignDown, FRAME_SIZE, total_frames

LEMMA SetRunFact ==
  ASSUME NEW b \in SUBSET Indices, NEW s \in Indices, NEW n \in Nat, IsFreeRun(b, s, n)
  PROVE  SetBits(b, Run(s, n)) = b \cup Run(s, n)
<1>1. \A i \in Run(s, n) : i < Size
  BY BitmapAssumption DEF IsFreeRun, Indices
<1> QED
  BY <1>1 DEF SetBits

LEMMA TakeStep ==
  ASSUME IInv, NEW s \in Indices, NEW n \in Nat, IsFreeRun(bits, s, n), Take(s, n)
  PROVE  IInv'
<1> USE DEF IInv
<1>1. s \in Nat /\ bits \in SUBSET Indices
  BY BitmapAssumption DEF Indices, TypeOK
<1>2. /\ bits' \in SUBSET Indices
      /\ Cardinality(bits') = Cardinality(bits) + n
  BY <1>1, RunCardinality, SetRunFact DEF Take
<1>3. \A h : h \in FramesAt(FrameAddress(s), n)
               <=> \E i \in Run(s, n) : h = FrameAddress(i)
  <2>1. ASSUME NEW k \in 0 .. n - 1
        PROVE  /\ s + k \in Run(s, n)
               /\ FrameAddress(s) + k * FRAME_SIZE = FrameAddress(s + k)
    BY <1>1, FrameAllocatorAssumption DEF Run, FrameAddress, FRAME_SIZE
  <2>2. ASSUME NEW i \in Run(s, n)
        PROVE  /\ i - s \in 0 .. n - 1
               /\ FrameAddress(i) = FrameAddress(s) + (i - s) * FRAME_SIZE
    BY <1>1, FrameAllocatorAssumption DEF Run, FrameAddress, FRAME_SIZE
  <2> QED
    BY <2>1, <2>2 DEF FramesAt
<1>4. held' = {FrameAddress(i) : i \in bits'}
  BY <1>1, <1>3, SetRunFact DEF Take, HeldFramesAreMarked
<1>5. reply' \in Nat /\ asked' \in Nat /\ panicked' \in BOOLEAN /\ allocated_frames' \in Nat
  BY <1>1, FrameAddressFact DEF Take, TypeOK
<1>6. allocated_frames' = Cardinality(bits')
  BY <1>2 DEF Take, CounterMatchesBitmap
<1> QED
  BY <1>2, <1>4, <1>5, <1>6 DEF TypeOK, CounterMatchesBitmap, HeldFramesAreMarked

LEMMA RefuseStep == \A n \in Nat : IInv /\ Refuse(n) => IInv'
  BY DEF IInv, TypeOK, CounterMatchesBitmap, HeldFramesAreMarked, Refuse

LEMMA PanicStep == IInv /\ Panic => IInv'
  BY DEF IInv, TypeOK, CounterMatchesBitmap, HeldFramesAreMarked, Panic

LEMMA AllocateFrameStep == IInv /\ AllocateFrame => IInv'
<1> SUFFICES ASSUME IInv, AllocateFrame PROVE IInv'
  OBVIOUS
<1>1. CASE Refuse(1)
  BY <1>1, RefuseStep
<1>2. ASSUME NEW i, i = FindFirstClear(bits), i # None, Take(i, 1)
      PROVE  IInv'
  <2>1. i \in Indices /\ i \notin bits
    BY <1>2, FindFirstClearFact DEF IsFirstClear
  <2>2. IsFreeRun(bits, i, 1)
    BY <2>1, BitmapAssumption DEF IsFreeRun, Run, Indices
  <2> QED
    BY <1>2, <2>1, <2>2, TakeStep
<1> QED
  BY <1>1, <1>2 DEF AllocateFrame

LEMMA AllocateFramesStep ==
  ASSUME IInv, NEW n \in Counts, AllocateFrames(n)
  PROVE  IInv'
<1>1. CASE Refuse(n)
  BY <1>1, RefuseStep, FrameAllocatorAssumption
<1>2. ASSUME NEW s, s = FindConsecutiveClear(bits, n), s # None, Take(s, n)
      PROVE  IInv'
  <2>1. n \in Nat
    BY FrameAllocatorAssumption
  <2>2. s \in Indices /\ IsFreeRun(bits, s, n)
    BY <1>2, <2>1, FindConsecutiveClearFact DEF IsFirstFreeRun
  <2> QED
    BY <1>2, <2>1, <2>2, TakeStep
<1> QED
  BY <1>1, <1>2 DEF AllocateFrames

(* The core of both deallocators: what happens to the map, the counter and    *)
(* the callers' frames when the marked frames first .. first + n - 1 go.      *)
LEMMA ReleaseStep ==
  ASSUME IInv, NEW a \in Addresses, NEW n \in Nat, GaveBack(a, n),
         bits' = bits \ {i \in bits : FrameIndex(a) <= i /\ i - FrameIndex(a) < n},
         allocated_frames' = allocated_frames
           - Cardinality({i \in bits : FrameIndex(a) <= i /\ i - FrameIndex(a) < n})
  PROVE  IInv'
<1> DEFINE gone == {i \in bits : FrameIndex(a) <= i /\ i - FrameIndex(a) < n}
<1>0. bits \in SUBSET Indices /\ a \in 0 .. WordSize - 1
  BY FrameAllocatorAssumption DEF IInv, TypeOK
<1>1. allocated_frames' = Cardinality(bits') /\ allocated_frames' \in Nat
  <2>1. IsFiniteSet(bits) /\ bits' \in SUBSET Indices
    BY <1>0, BitsFinite
  <2>2. Cardinality(bits \ gone) = Cardinality(bits) - Cardinality(bits \cap gone)
    BY <2>1, FS_Difference
  <2>3. bits \cap gone = gone
    OBVIOUS
  <2>4. allocated_frames' = Cardinality(bits')
    BY <2>2, <2>3 DEF IInv, CounterMatchesBitmap
  <2> QED
    BY <2>1, <2>4, BitsFinite
<1>2. held' = {FrameAddress(i) : i \in bits'}
  <2>1. CASE Underflows(a)
    <3>1. gone = {}
      <4>1. FrameIndex(a) \in Nat /\ FrameIndex(a) >= Size
        BY <1>0, <2>1, UnderflowFact
      <4>2. \A i \in bits : ~ (FrameIndex(a) <= i)
        BY <4>1, BitsAreIndices, BitmapAssumption DEF IInv
      <4> QED
        BY <4>2
    <3> QED
      BY <2>1, <3>1 DEF GaveBack, IInv, HeldFramesAreMarked
  <2>2. CASE ~ Underflows(a)
    <3>1. FrameIndex(a) \in Nat /\ AlignDown(a) = FrameAddress(FrameIndex(a))
      BY <1>0, <2>2, FrameIndexFact
    <3>2. ASSUME NEW i \in bits
          PROVE  i \in gone <=>
                   /\ FrameAddress(i) >= AlignDown(a)
                   /\ (FrameAddress(i) - AlignDown(a)) \div FRAME_SIZE < n
      <4>1. i \in Nat
        BY <1>0, BitmapAssumption DEF Indices
      <4> QED
        BY <3>1, <4>1, FrameAllocatorAssumption DEF FrameAddress, FRAME_SIZE
    <3>3. held' = {h \in held : ~ (/\ h >= AlignDown(a)
                                   /\ (h - AlignDown(a)) \div FRAME_SIZE < n)}
      BY <2>2 DEF GaveBack
    <3>4. held = {FrameAddress(i) : i \in bits}
      BY DEF IInv, HeldFramesAreMarked
    <3>5. bits' = bits \ gone
      OBVIOUS
    <3> HIDE DEF gone
    <3>6. \A h : h \in held' <=> \E i \in bits' : h = FrameAddress(i)
      BY <3>2, <3>3, <3>4, <3>5
    <3>7. \A h : h \in held' <=> h \in {FrameAddress(i) : i \in bits'}
      BY <3>6
    <3> QED
      BY <3>3, <3>7
  <2> QED
    BY <2>1, <2>2
<1>3. /\ bits' \subseteq Indices /\ reply' \in Nat \cup {None}
      /\ asked' \in Nat /\ panicked' \in BOOLEAN
  BY <1>0 DEF GaveBack, IInv, TypeOK
<1>4. held' \subseteq {FrameAddress(i) : i \in Indices}
  BY <1>2, <1>3
<1> QED
  BY <1>1, <1>2, <1>3, <1>4 DEF IInv, TypeOK, CounterMatchesBitmap, HeldFramesAreMarked

LEMMA DeallocateFrameStep ==
  ASSUME IInv, NEW a \in Addresses, DeallocateFrame(a)
  PROVE  IInv'
<1>0. bits \in SUBSET Indices /\ a \in 0 .. WordSize - 1
  BY FrameAllocatorAssumption DEF IInv, TypeOK
<1>1. CASE Panic
  BY <1>1, PanicStep
<1>2. CASE ~ Panic
  <2> DEFINE idx  == FrameIndex(a)
             gone == {i \in bits : idx <= i /\ i - idx < 1}
  <2>1. idx \in Nat
    BY <1>0, FrameIndexFact, UnderflowFact
  <2>2. gone = IF idx \in bits THEN {idx} ELSE {}
    <3>1. \A i \in bits : (idx <= i /\ i - idx < 1) <=> i = idx
      BY <2>1, BitsAreIndices DEF IInv
    <3> QED
      BY <3>1
  <2>3. Cardinality(gone) = IF idx \in bits THEN 1 ELSE 0
    BY <2>2, FS_Singleton, FS_EmptySet
  <2>4. idx < total_frames /\ IsSet(bits, idx) <=> idx \in bits
    BY BitsAreIndices DEF IsSet, total_frames, IInv
  <2>5. /\ GaveBack(a, 1)
        /\ bits' = bits \ gone
        /\ allocated_frames' = allocated_frames - Cardinality(gone)
    <3>1. IF idx \in bits
            THEN /\ bits' = ClearBit(bits, idx)
                 /\ allocated_frames' = allocated_frames - 1
            ELSE UNCHANGED <<bits, allocated_frames>>
      BY <1>2, <2>4 DEF DeallocateFrame
    <3>2. idx \in bits => ClearBit(bits, idx) = bits \ {idx}
      BY BitsAreIndices DEF ClearBit, IInv
    <3>3. allocated_frames \in Nat
      BY DEF IInv, TypeOK
    <3>4. GaveBack(a, 1)
      BY <1>2 DEF DeallocateFrame
    <3> QED
      BY <2>2, <2>3, <3>1, <3>2, <3>3, <3>4
  <2> QED
    BY <2>5, ReleaseStep
<1> QED
  BY <1>1, <1>2

LEMMA DeallocateFramesStep ==
  ASSUME IInv, NEW a \in Addresses, NEW n \in Counts, DeallocateFrames(a, n)
  PROVE  IInv'
<1>0. n \in Nat /\ a \in 0 .. WordSize - 1
  BY FrameAllocatorAssumption
<1>1. CASE Panic
  BY <1>1, PanicStep
<1>2. CASE ~ Panic /\ FrameIndex(a) + n < WordSize
  <2>1. FrameIndex(a) \in Nat
    BY <1>0, FrameIndexFact, UnderflowFact
  <2>2. ~ (FrameIndex(a) + n >= WordSize)
    BY <1>0, <1>2, <2>1, FrameAllocatorAssumption
  <2>3. {i \in bits : ~ (FrameIndex(a) + n >= WordSize) /\ FrameIndex(a) <= i
                        /\ i - FrameIndex(a) < n}
          = {i \in bits : FrameIndex(a) <= i /\ i - FrameIndex(a) < n}
    BY <2>2
  <2>4. /\ GaveBack(a, n)
        /\ bits' = bits \ {i \in bits : FrameIndex(a) <= i /\ i - FrameIndex(a) < n}
        /\ allocated_frames' = allocated_frames
              - Cardinality({i \in bits : FrameIndex(a) <= i /\ i - FrameIndex(a) < n})
    BY <1>2, <2>2, <2>3 DEF DeallocateFrames
  <2> QED
    BY <1>0, <2>4, ReleaseStep
<1>3. CASE ~ Panic /\ FrameIndex(a) + n >= WordSize
  <2>1. GaveBack(a, 0) /\ bits' = bits \ {} /\ allocated_frames' = allocated_frames - Cardinality({})
    <3>1. {i \in bits : ~ (FrameIndex(a) + n >= WordSize) /\ FrameIndex(a) <= i
                          /\ i - FrameIndex(a) < n} = {}
      BY <1>3
    <3> QED
      BY <1>3, <3>1 DEF DeallocateFrames
  <2>2. {i \in bits : FrameIndex(a) <= i /\ i - FrameIndex(a) < 0} = {}
    <3>1. FrameIndex(a) \in Nat
      BY <1>0, FrameIndexFact, UnderflowFact
    <3>2. \A i \in bits : ~ (FrameIndex(a) <= i /\ i - FrameIndex(a) < 0)
      BY <3>1, BitsAreIndices DEF IInv
    <3> QED
      BY <3>2
  <2> QED
    BY <2>1, <2>2, ReleaseStep
<1>4. FrameIndex(a) + n < WordSize \/ FrameIndex(a) + n >= WordSize
  <2>1. FrameIndex(a) \in Nat
    BY <1>0, FrameIndexFact, UnderflowFact
  <2> QED
    BY <1>0, <2>1, FrameAllocatorAssumption
<1> QED
  BY <1>1, <1>2, <1>3, <1>4

(* The invariant of the frame allocator: types, the counter, and the frames   *)
(* its callers hold, in every reachable state of memory/frame_allocator.rs.   *)
THEOREM FrameAllocatorInvariant == Spec => []IInv
<1>1. Init => IInv
  <2> SUFFICES ASSUME Init PROVE IInv
    OBVIOUS
  <2>1. TypeOK
    BY DEF Init, TypeOK
  <2>2. CounterMatchesBitmap
    BY FS_EmptySet DEF Init, CounterMatchesBitmap
  <2>3. HeldFramesAreMarked
    BY DEF Init, HeldFramesAreMarked
  <2> QED
    BY <2>1, <2>2, <2>3 DEF IInv
<1>2. IInv /\ [Next]_vars => IInv'
  <2> SUFFICES ASSUME IInv, [Next]_vars PROVE IInv'
    OBVIOUS
  <2>1. CASE AllocateFrame
    BY <2>1, AllocateFrameStep
  <2>2. CASE \E n \in Counts : AllocateFrames(n)
    BY <2>2, AllocateFramesStep
  <2>3. CASE \E a \in Addresses : DeallocateFrame(a)
    BY <2>3, DeallocateFrameStep
  <2>4. CASE \E a \in Addresses, n \in Counts : DeallocateFrames(a, n)
    BY <2>4, DeallocateFramesStep
  <2>5. CASE UNCHANGED vars
    BY <2>5 DEF vars, IInv, TypeOK, CounterMatchesBitmap, HeldFramesAreMarked
  <2> QED
    BY <2>1, <2>2, <2>3, <2>4, <2>5 DEF Next
<1> QED
  BY <1>1, <1>2, PTL DEF Spec

(* The types, with a counter that never leaves the naturals.                  *)
THEOREM TypesAreKept == Spec => []TypeOK
<1>1. IInv => TypeOK
  BY DEF IInv
<1> QED
  BY <1>1, FrameAllocatorInvariant, PTL

(* A quotient of at most a whole is at most a hundred per cent.               *)
LEMMA PercentFact ==
  ASSUME NEW part \in Nat, NEW whole \in Nat, part <= whole, whole # 0
  PROVE  (part * 100) \div whole \in 0 .. 100
<1> DEFINE q == (part * 100) \div whole
           r == (part * 100) % whole
<1>1. q \in Int /\ r \in 0 .. whole - 1 /\ part * 100 = whole * q + r
  OBVIOUS
<1> HIDE DEF q, r
<1>2. whole * q <= whole * 100 /\ whole * q > whole * (-1)
  BY <1>1
<1>3. q <= 100 /\ q > -1
  BY <1>1, <1>2
<1>4. q \in 0 .. 100
  BY <1>1, <1>3
<1> QED
  BY <1>4 DEF q

(* The counter never drifts from the bitmap, whatever the callers free, and   *)
(* the statistics and is_allocated answer what the frames held would.         *)
THEOREM AnswersAreRight == Spec => []AnswersAreExact
<1>1. IInv => AnswersAreExact
  <2> SUFFICES ASSUME IInv PROVE AnswersAreExact
    OBVIOUS
  <2>1. bits \in SUBSET Indices /\ allocated_frames = Cardinality(bits)
    BY DEF IInv, TypeOK, CounterMatchesBitmap
  <2>2. {i \in Indices : ~IsSet(bits, i)} = Indices \ bits
    BY <2>1, BitmapAssumption DEF IsSet, Indices
  <2>3. IsFiniteSet(Indices) /\ Cardinality(Indices) = Size
    <3>1. 0 \in Int /\ Size - 1 \in Int
      BY BitmapAssumption
    <3>2. /\ IsFiniteSet(0 .. Size - 1)
          /\ Cardinality(0 .. Size - 1) = IF 0 > Size - 1 THEN 0 ELSE Size - 1 - 0 + 1
      BY <3>1, FS_Interval
    <3> QED
      BY <3>2, BitmapAssumption DEF Indices
  <2>4. Cardinality(Indices \ bits) = Size - Cardinality(bits)
    <3>1. Cardinality(Indices \ bits) = Cardinality(Indices) - Cardinality(Indices \cap bits)
      BY <2>3, FS_Difference
    <3>2. Indices \cap bits = bits
      BY <2>1
    <3> QED
      BY <2>3, <3>1, <3>2
  <2>5. Cardinality(bits) \in Nat /\ Cardinality(bits) <= Size
    BY <2>1, <2>3, BitsFinite, FS_Subset
  <2>6. allocated_frames = CountAllocated(bits) /\ free_frames = CountFree(bits)
    BY <2>1, <2>2, <2>4, <2>5, BitmapAssumption
       DEF CountAllocated, CountFree, free_frames, total_frames
  <2>7. usage_percent \in 0 .. 100
    <3>1. CASE Size = 0
      BY <3>1 DEF usage_percent, total_frames
    <3>2. CASE Size # 0
      BY <2>1, <2>5, <3>2, PercentFact, BitmapAssumption DEF usage_percent, total_frames
    <3> QED
      BY <3>1, <3>2
  <2>8. ASSUME NEW a \in Addresses
        PROVE  IsAllocated(a) <=> AlignDown(a) \in held
    <3>0. a \in 0 .. WordSize - 1
      BY FrameAllocatorAssumption
    <3>1. CASE Underflows(a)
      <4>1. ~ IsAllocated(a)
        BY <3>0, <3>1, UnderflowFact, BitmapAssumption DEF IsAllocated, total_frames
      <4>2. \A i \in bits : FrameAddress(i) # AlignDown(a)
        BY <2>1, <3>0, <3>1, FrameAllocatorAssumption, BitmapAssumption
           DEF Underflows, FrameAddress, AlignDown, Indices, FRAME_SIZE
      <4> QED
        BY <4>1, <4>2 DEF IInv, HeldFramesAreMarked
    <3>2. CASE ~ Underflows(a)
      <4>1. FrameIndex(a) \in Nat /\ AlignDown(a) = FrameAddress(FrameIndex(a))
        BY <3>0, <3>2, FrameIndexFact
      <4>2. \A i \in bits : i \in Nat /\ i < Size
        BY BitsAreIndices DEF IInv
      <4>3. \A i \in bits : FrameAddress(i) = FrameAddress(FrameIndex(a)) => i = FrameIndex(a)
        BY <4>1, <4>2, FrameAddressFact
      <4>4. AlignDown(a) \in held <=> FrameIndex(a) \in bits
        BY <4>1, <4>3 DEF IInv, HeldFramesAreMarked
      <4>5. IsAllocated(a) <=> FrameIndex(a) \in bits
        BY <4>2 DEF IsAllocated, IsSet, total_frames
      <4> QED
        BY <4>4, <4>5
    <3> QED
      BY <3>1, <3>2
  <2> QED
    BY <2>6, <2>7, <2>8 DEF AnswersAreExact
<1> QED
  BY <1>1, FrameAllocatorInvariant, PTL

(* The callers hold exactly the frames that are marked.                       *)
THEOREM NoFrameLost == Spec => []HeldFramesAreMarked
<1>1. IInv => HeldFramesAreMarked
  BY DEF IInv
<1> QED
  BY <1>1, FrameAllocatorInvariant, PTL

---------------------------------------------------------------------------
(* Under the invariant, the frames in use of the pool are the marked ones.    *)
PoolUse    == {AddressToFrame(a) : a \in held}
PoolAnswer == AddressToFrame(reply)

LEMMA FramesOfAddresses ==
  ASSUME NEW b \in SUBSET Indices, NEW h, h = {FrameAddress(i) : i \in b}
  PROVE  {AddressToFrame(a) : a \in h} = b
<1>1. \A i \in b : AddressToFrame(FrameAddress(i)) = i
  BY BitmapAssumption, FrameAddressFact DEF AddressToFrame, Indices
<1>2. \A i : i \in {AddressToFrame(a) : a \in h} <=> i \in b
  BY <1>1
<1> QED
  BY <1>2

LEMMA PoolUseIsBits == IInv => PoolUse = bits
  BY FramesOfAddresses DEF PoolUse, IInv, TypeOK, HeldFramesAreMarked

LEMMA TakeIsGrant ==
  ASSUME IInv, IInv', NEW s \in Indices, NEW n \in Nat, n > 0,
         IsFreeRun(bits, s, n), Take(s, n)
  PROVE  Pool!Grant(n)
<1>1. PoolUse = bits /\ PoolUse' = bits'
  <2>1. PoolUse = bits
    BY PoolUseIsBits
  <2>2. PoolUse' = bits'
    BY FramesOfAddresses DEF PoolUse, IInv, TypeOK, HeldFramesAreMarked
  <2> QED
    BY <2>1, <2>2
<1>2. Pool!FreeRunAt(s, n)
  BY <1>1 DEF IsFreeRun, Run, Pool!FreeRunAt, PoolUse
<1>3. PoolUse' = PoolUse \cup (s .. s + n - 1)
  BY <1>1, SetRunFact DEF Take, Run, IInv, TypeOK
<1>4. s \in Nat
  BY BitmapAssumption DEF Indices
<1>5. PoolAnswer' = s /\ asked' = n
  BY <1>4, FrameAddressFact DEF Take, PoolAnswer, AddressToFrame
<1> QED
  BY <1>2, <1>3, <1>5 DEF Pool!Grant, PoolUse, PoolAnswer

LEMMA RefuseIsRefuse ==
  ASSUME IInv, NEW n \in Nat, Refuse(n),
         n = 0 \/ \A s \in Indices : ~ IsFreeRun(bits, s, n)
  PROVE  Pool!Refuse(n)
<1>1. PoolUse = bits
  BY PoolUseIsBits
<1>2. n > 0 => \A s \in Indices : ~ Pool!FreeRunAt(s, n)
  BY <1>1 DEF IsFreeRun, Run, Pool!FreeRunAt, PoolUse
<1>3. PoolAnswer' = None /\ asked' = n /\ PoolUse' = PoolUse
  BY DEF Refuse, PoolAnswer, PoolUse, AddressToFrame
<1> QED
  BY <1>2, <1>3 DEF Pool!Refuse, PoolUse, PoolAnswer

(* A release, as the callers' frames show it: some frames leave the pool.     *)
LEMMA ReleaseIsGiveBack ==
  ASSUME IInv, held' \subseteq held, UNCHANGED <<asked, reply>>
  PROVE  \E S \in SUBSET Indices : Pool!GiveBack(S)
<1> DEFINE S == PoolUse \ PoolUse'
<1>1. PoolUse \subseteq Indices /\ PoolUse' \subseteq PoolUse
  BY PoolUseIsBits, BitsAreIndices DEF IInv, PoolUse
<1>2. S \in SUBSET Indices /\ PoolUse' = PoolUse \ S
  BY <1>1
<1>3. PoolAnswer' = PoolAnswer /\ asked' = asked
  BY DEF PoolAnswer, AddressToFrame
<1> QED
  BY <1>2, <1>3 DEF Pool!GiveBack, PoolUse, PoolAnswer

(* The frame allocator, seen through the addresses it returns and takes back, *)
(* is a pool that grants only free frames and refuses only when it must.      *)
THEOREM FrameAllocatorImplementsPool == Spec => PoolSpec
<1>1. Init => Pool!PoolInit
  BY DEF Init, Pool!PoolInit, AddressToFrame
<1>2. IInv /\ IInv' /\ [Next]_vars => [Pool!PoolNext]_(Pool!poolVars)
  <2> SUFFICES ASSUME IInv, IInv', [Next]_vars
               PROVE  Pool!PoolNext \/ UNCHANGED Pool!poolVars
    OBVIOUS
  <2>1. CASE AllocateFrame
    <3>1. ASSUME NEW i, i = FindFirstClear(bits), i = None, Refuse(1)
          PROVE  Pool!Refuse(1)
      <4>1. \A s \in Indices : ~ IsFreeRun(bits, s, 1)
        <5>0. None \notin Indices
          BY BitmapAssumption DEF Indices
        <5>1. Indices \subseteq bits
          BY <3>1, <5>0, FindFirstClearFact
        <5>2. \A s \in Indices : s \in Run(s, 1)
          BY BitmapAssumption DEF Run, Indices
        <5> QED
          BY <5>1, <5>2 DEF IsFreeRun
      <4> QED
        BY <3>1, <4>1, RefuseIsRefuse
    <3>2. ASSUME NEW i, i = FindFirstClear(bits), i # None, Take(i, 1)
          PROVE  Pool!Grant(1)
      <4>1. i \in Indices /\ i \notin bits
        BY <3>2, FindFirstClearFact DEF IsFirstClear
      <4>2. IsFreeRun(bits, i, 1)
        BY <4>1, BitmapAssumption DEF IsFreeRun, Run, Indices
      <4> QED
        BY <3>2, <4>1, <4>2, TakeIsGrant
    <3>3. Pool!Refuse(1) \/ Pool!Grant(1)
      BY <2>1, <3>1, <3>2 DEF AllocateFrame
    <3> QED
      BY <3>3 DEF Pool!PoolNext
  <2>2. ASSUME NEW n \in Counts, AllocateFrames(n)
        PROVE  Pool!PoolNext
    <3>0. n \in Nat
      BY FrameAllocatorAssumption
    <3>1. ASSUME NEW s, s = FindConsecutiveClear(bits, n), s = None, Refuse(n)
          PROVE  Pool!Refuse(n)
      <4>1. n = 0 \/ \A t \in Indices : ~ IsFreeRun(bits, t, n)
        <5>1. None \notin Indices
          BY BitmapAssumption DEF Indices
        <5> QED
          BY <3>0, <3>1, <5>1, FindConsecutiveClearFact
      <4> QED
        BY <3>0, <3>1, <4>1, RefuseIsRefuse
    <3>2. ASSUME NEW s, s = FindConsecutiveClear(bits, n), s # None, Take(s, n)
          PROVE  Pool!Grant(n)
      <4>1. n > 0 /\ s \in Indices /\ IsFreeRun(bits, s, n)
        BY <3>0, <3>2, FindConsecutiveClearFact DEF IsFirstFreeRun
      <4> QED
        BY <3>0, <3>2, <4>1, TakeIsGrant
    <3>3. Pool!Refuse(n) \/ Pool!Grant(n)
      BY <2>2, <3>1, <3>2 DEF AllocateFrames
    <3> QED
      BY <3>3 DEF Pool!PoolNext
  <2>3. ASSUME NEW a \in Addresses, DeallocateFrame(a)
        PROVE  Pool!PoolNext
    <3>1. held' \subseteq held /\ UNCHANGED <<asked, reply>>
      BY <2>3 DEF DeallocateFrame, Panic, GaveBack
    <3> QED
      BY <3>1, ReleaseIsGiveBack DEF Pool!PoolNext
  <2>4. ASSUME NEW a \in Addresses, NEW n \in Counts, DeallocateFrames(a, n)
        PROVE  Pool!PoolNext
    <3>1. held' \subseteq held /\ UNCHANGED <<asked, reply>>
      BY <2>4 DEF DeallocateFrames, Panic, GaveBack
    <3> QED
      BY <3>1, ReleaseIsGiveBack DEF Pool!PoolNext
  <2>5. CASE UNCHANGED vars
    BY <2>5 DEF vars, Pool!poolVars, AddressToFrame
  <2> QED
    BY <2>1, <2>2, <2>3, <2>4, <2>5 DEF Next
<1> QED
  BY <1>1, <1>2, FrameAllocatorInvariant, PTL DEF Spec, PoolSpec, Pool!PoolSpec

=============================================================================
