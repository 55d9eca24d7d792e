--------------------------- MODULE FrameAllocator ---------------------------
(* The physical frame allocator, memory/frame_allocator.rs, over the bitmap.  *)
(* The allocator itself is `bits`, the counter `allocated_frames` and the     *)
(* panic of an arithmetic overflow.  `held` is a ghost: the base addresses    *)
(* the callers were given and have not given back, kept on the callers' side, *)
(* from the addresses that travel through the interface.                      *)
EXTENDS Bitmap

CONSTANTS StartAddress,    \* first byte of the managed region
          WordSize,        \* 2^w: addresses and counts are usize
          OverflowChecks,  \* TRUE in the dev profile, FALSE in the release one
          Addresses,       \* byte addresses callers pass to the deallocators
          Counts           \* frame counts callers pass

FRAME_SIZE   == 4096
total_frames == Size

ASSUME FrameAllocatorAssumption ==
  /\ StartAddress \in Nat /\ StartAddress % FRAME_SIZE = 0
  /\ WordSize \in Nat /\ WordSize % FRAME_SIZE = 0
  /\ StartAddress + total_frames * FRAME_SIZE <= WordSize
  /\ OverflowChecks \in BOOLEAN
  /\ Addresses \subseteq 0 .. WordSize - 1
  /\ Counts \subseteq 0 .. WordSize - 1

VARIABLES bits,              \* the bitmap
          allocated_frames,  \* the counter kept beside it
          reply,             \* what the last allocation returned
          panicked,          \* the kernel stopped in its panic handler
          asked,             \* ghost: how many frames that allocation asked for
          held               \* ghost: base addresses of the frames callers hold

vars == <<bits, allocated_frames, reply, panicked, asked, held>>

FrameAddress(i) == StartAddress + i * FRAME_SIZE
AlignDown(a)    == a - (a % FRAME_SIZE)
FramesAt(a, n)  == {a + k * FRAME_SIZE : k \in 0 .. n - 1}

(* `aligned - start_address`, divided by the frame size: below the managed    *)
(* region the subtraction overflows, and wraps when it is not checked.        *)
Underflows(a) == AlignDown(a) < StartAddress
FrameIndex(a) ==
  IF Underflows(a) THEN (AlignDown(a) - StartAddress + WordSize) \div FRAME_SIZE
                   ELSE (AlignDown(a) - StartAddress) \div FRAME_SIZE

IsAllocated(a) == FrameIndex(a) < total_frames /\ IsSet(bits, FrameIndex(a))

(* The statistics are computed from the counter, never from the bitmap.       *)
free_frames   == total_frames - allocated_frames
usage_percent == IF total_frames = 0 THEN 0
                 ELSE (allocated_frames * 100) \div total_frames

Init ==
  /\ bits = {}
  /\ allocated_frames = 0
  /\ reply = None /\ asked = 0
  /\ panicked = FALSE
  /\ held = {}

Take(i, n) ==
  /\ bits' = SetBits(bits, Run(i, n))
  /\ allocated_frames' = allocated_frames + n
  /\ reply' = FrameAddress(i) /\ asked' = n
  /\ held' = held \cup FramesAt(reply', n)
  /\ UNCHANGED panicked

Refuse(n) ==
  /\ reply' = None /\ asked' = n
  /\ UNCHANGED <<bits, allocated_frames, panicked, held>>

AllocateFrame_Unmarked ==            \* fault: the bit is not set
  LET i == FindFirstClear(bits) IN
  \/ i = None /\ Refuse(1)
  \/ /\ i # None
     /\ allocated_frames' = allocated_frames + 1
     /\ reply' = FrameAddress(i) /\ asked' = 1
     /\ held' = held \cup {reply'}
     /\ UNCHANGED <<bits, panicked>>

AllocateFrame ==
  LET i == FindFirstClear(bits) IN
  \/ i = None /\ Refuse(1)
  \/ i # None /\ Take(i, 1)

AllocateFrames_Short(n) ==           \* fault: the last frame of the run is left clear
  LET i == FindConsecutiveClear(bits, n) IN
  \/ i = None /\ Refuse(n)
  \/ /\ i # None
     /\ bits' = SetBits(bits, Run(i, n - 1))
     /\ allocated_frames' = allocated_frames + n
     /\ reply' = FrameAddress(i) /\ asked' = n
     /\ held' = held \cup FramesAt(reply', n)
     /\ UNCHANGED panicked

AllocateFrames(n) ==
  LET i == FindConsecutiveClear(bits, n) IN
  \/ i = None /\ Refuse(n)
  \/ i # None /\ Take(i, n)

(* Both deallocators panic on a checked overflow before they touch the map.   *)
Panic ==
  /\ panicked' = TRUE
  /\ UNCHANGED <<bits, allocated_frames, reply, asked, held>>

(* The callers' side of a release: the n frames from a on are no longer       *)
(* theirs.  A range that begins below the region is ignored as a whole.       *)
GaveBack(a, n) ==
  /\ held' = IF Underflows(a) THEN held
             ELSE {h \in held : ~(/\ h >= AlignDown(a)
                                  /\ (h - AlignDown(a)) \div FRAME_SIZE < n)}
  /\ UNCHANGED <<reply, asked, panicked>>

DeallocateFrame_Unchecked(a) ==      \* fault: the is_set test is dropped
  \/ OverflowChecks /\ Underflows(a) /\ Panic
  \/ /\ ~(OverflowChecks /\ Underflows(a))
     /\ LET idx == FrameIndex(a) IN
          /\ bits' = ClearBit(bits, idx)
          /\ allocated_frames' =
               IF idx < total_frames THEN allocated_frames - 1 ELSE allocated_frames
     /\ GaveBack(a, 1)

DeallocateFrame(a) ==
  \/ OverflowChecks /\ Underflows(a) /\ Panic
  \/ /\ ~(OverflowChecks /\ Underflows(a))
     /\ LET idx == FrameIndex(a) IN
          IF idx < total_frames /\ IsSet(bits, idx)
            THEN /\ bits' = ClearBit(bits, idx)
                 /\ allocated_frames' = allocated_frames - 1
            ELSE UNCHANGED <<bits, allocated_frames>>
     /\ GaveBack(a, 1)

(* `start_idx .. start_idx + count`: the sum may overflow too; when it wraps  *)
(* below start_idx the range is empty and nothing is released.                *)
DeallocateFrames(a, n) ==
  LET first    == FrameIndex(a)
      overflow == first + n >= WordSize
      released == {i \in bits : ~overflow /\ first <= i /\ i - first < n}
  IN
  \/ OverflowChecks /\ (Underflows(a) \/ overflow) /\ Panic
  \/ /\ ~(OverflowChecks /\ (Underflows(a) \/ overflow))
     /\ bits' = bits \ released
     /\ allocated_frames' = allocated_frames - Cardinality(released)
     /\ GaveBack(a, IF overflow THEN 0 ELSE n)

(* The callers obey "Caller must ensure frame is not in use" only in the      *)
(* sense that what they name they give up; they may name a frame twice, name  *)
(* an address inside a frame, or one outside the managed region.              *)
Next ==
  /\ ~panicked
  /\ \/ AllocateFrame
     \/ \E n \in Counts : AllocateFrames(n)
     \/ \E a \in Addresses : DeallocateFrame(a)
     \/ \E a \in Addresses, n \in Counts : DeallocateFrames(a, n)

Spec == Init /\ [][Next]_vars

---------------------------------------------------------------------------
TypeOK ==
  /\ bits \subseteq Indices
  /\ allocated_frames \in Nat
  /\ reply \in Nat \cup {None} /\ asked \in Nat
  /\ panicked \in BOOLEAN
  /\ held \subseteq {FrameAddress(i) : i \in Indices}

(* The heart of the invariant: the counter is the number of bits set.         *)
CounterMatchesBitmap == allocated_frames = Cardinality(bits)

(* The statistics, which are read from the counter alone, are those that      *)
(* counting the bits would give: a double free, a free outside the region or  *)
(* one that overlaps free frames never makes the two drift apart, nor lets    *)
(* the counter underflow and the usage leave its 100 per cent.  And           *)
(* is_allocated is TRUE of every address inside a frame a caller holds, and   *)
(* of no other, even where its subtraction wraps (if not checked).            *)
AnswersAreExact ==
  /\ allocated_frames = CountAllocated(bits)
  /\ free_frames = CountFree(bits)
  /\ usage_percent \in 0 .. 100
  /\ \A a \in Addresses : IsAllocated(a) <=> AlignDown(a) \in held

(* The addresses handed out and not given back are exactly the frames whose   *)
(* bit is set: the conversion between addresses and indices, with offsets     *)
(* inside a frame, underflow and overlapping ranges, loses and leaks nothing. *)
HeldFramesAreMarked == held = {FrameAddress(i) : i \in bits}

(* What the callers see is a pool of frames: no frame is granted twice, and   *)
(* a request is refused only when no free run of that length exists.          *)
AddressToFrame(a) == IF a = None THEN None ELSE (a - StartAddress) \div FRAME_SIZE
Pool == INSTANCE FramePool WITH
          Frames  <- Indices,
          Lengths <- Counts \cup {1},
          Refused <- None,
          inUse   <- {AddressToFrame(a) : a \in held},
          answer  <- AddressToFrame(reply)
PoolSpec == Pool!PoolSpec
=============================================================================
