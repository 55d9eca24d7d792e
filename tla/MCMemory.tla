------------------------------ MODULE MCMemory ------------------------------
(* The memory of the kernel below its page tables.  The parts share nothing,  *)
(* so a behaviour runs one of them and the others stand still.                *)
(*   frames    nine frames from 0x100000 (main.rs manages 8192 from the same  *)
(*             address), a word of 24 bits, requests of 0 to 3 frames and a   *)
(*             count so large that start_idx + count overflows; in the dev    *)
(*             profile an overflow panics, in the release one it wraps        *)
(*   search    the loops of both bitmap searches, over every bitmap of nine   *)
(*             frames, the last of them alone in its byte, in a buffer with   *)
(*             two bytes more (main.rs also gives the bitmap more than it     *)
(*             needs), for requests of up to four frames                      *)
(*   routines  memcpy and its like, for every pair of regions of four bytes   *)
(*             with two values, overlapping, equal and empty ones included    *)
(*   bump      a heap of 16 bytes from an odd address, layouts of two to      *)
(*             eight bytes with alignments 1, 4 and 8: gaps, an exact fit,    *)
(*             exhaustion, an allocation before init_heap                     *)
(*   list      96 bytes with the size and alignment of a real node: a layout  *)
(*             below the minimum block, one that rounds up, and one aligned   *)
(*             to 32 bytes that leaves a gap in front of the block            *)
EXTENDS FrameAllocator, BitmapScan, MemoryRoutines, BumpAllocator, LinkedListAllocator

VARIABLES part,
          profile           \* of the frame allocator

Checked == INSTANCE FrameAllocator WITH OverflowChecks <- TRUE

MCStart == 1048576
MCWord  == 16777216
MCCounts == {0, 1, 2, 3, MCWord - 2}

(* Below the region, at and inside every frame, and just past the end.        *)
MCAddresses ==
  {0, MCStart - 1} \cup {MCStart + 4096 * k : k \in 0 .. Size}
    \cup {MCStart + 4095, MCStart + 3 * 4096 + 1}

MCBytes == {0, 1}

MCLayouts == {[size |-> 2, align |-> 1], [size |-> 4, align |-> 4],
              [size |-> 3, align |-> 8], [size |-> 8, align |-> 8]}
MCListLayouts == {[size |-> 5, align |-> 1], [size |-> 20, align |-> 8],
                  [size |-> 16, align |-> 32]}

frameVars == <<profile, vars>>

(* What stands still does so in one of its initial states.                    *)
MCInit ==
  /\ part \in {"frames", "search", "routines", "bump", "list"}
  /\ profile \in IF part = "frames" THEN {"release", "dev"} ELSE {"release"}
  /\ IF part = "search" THEN TRUE ELSE data = {} /\ want = 0
  /\ IF part = "routines" THEN TRUE
     ELSE /\ memory = [c \in Cells |-> 0]
          /\ call = [routine |-> "memcpy", dest |-> 0, src |-> 0, n |-> 0, byte |-> 0]
  /\ Init /\ ScanInit /\ MemoryInit /\ BumpInit /\ ListInit

FramesNext == \/ profile = "release" /\ Next
              \/ profile = "dev" /\ Checked!Next
              \/ panicked /\ UNCHANGED vars

MCNext ==
  /\ UNCHANGED <<part, profile>>
  /\ \/ part = "frames" /\ FramesNext
        /\ UNCHANGED <<scanVars, memoryVars, bumpVars, listVars>>
     \/ part = "search" /\ ScanNext
        /\ UNCHANGED <<vars, memoryVars, bumpVars, listVars>>
     \/ part = "routines" /\ MemoryNext
        /\ UNCHANGED <<vars, scanVars, bumpVars, listVars>>
     \/ part = "bump" /\ BumpNext
        /\ UNCHANGED <<vars, scanVars, memoryVars, listVars>>
     \/ part = "list" /\ ListNext
        /\ UNCHANGED <<vars, scanVars, memoryVars, bumpVars>>

MCSpec == MCInit /\ [][MCNext]_<<part, frameVars, scanVars, memoryVars, bumpVars, listVars>>

=============================================================================
