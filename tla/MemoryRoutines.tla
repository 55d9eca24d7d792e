--------------------------- MODULE MemoryRoutines ---------------------------
(* memcpy, memset, memcmp and memmove of main.rs, which the compiler calls    *)
(* for every copy and comparison of the kernel, one byte per step.  memmove   *)
(* chooses its direction by comparing the two addresses, so that it reads     *)
(* every byte before it writes over it; memcpy always goes upwards.           *)
EXTENDS Integers

CONSTANTS MemorySize,   \* bytes of memory
          ByteValues         \* the values of a byte

ASSUME MemoryAssumption == MemorySize \in Nat /\ ByteValues \subseteq Int

Cells    == 0 .. MemorySize - 1
Routines == {"memcpy", "memset", "memcmp", "memmove"}

VARIABLES memory,    \* address -> byte
          before,    \* ghost: the memory when the routine was called
          call,      \* the routine and its arguments
          i,         \* bytes dealt with, counted in the direction of the loop
          difference,    \* what memcmp returns
          done

memoryVars == <<memory, before, call, i, difference, done>>

Fits(at, n) == at + n <= MemorySize
Disjoint(a, b, n) == a + n <= b \/ b + n <= a

(* The callers keep to C's contract: both regions are theirs, and memcpy is   *)
(* called for regions that do not overlap.                                    *)
Call == [routine : Routines, dest : 0 .. MemorySize, src : 0 .. MemorySize,
         n : 0 .. MemorySize, byte : ByteValues]

Legal(c) ==
  /\ Fits(c.dest, c.n) /\ Fits(c.src, c.n)
  /\ c.routine = "memcpy" => Disjoint(c.dest, c.src, c.n)

MemoryInit ==
  /\ memory \in [Cells -> ByteValues]
  /\ before = memory
  /\ call \in Call
  /\ Legal(call)
  /\ i = 0 /\ difference = 0 /\ done = FALSE

(* memmove: `dest < src` goes upwards, everything else downwards.             *)
Upwards_Always(c) == TRUE            \* fault: overlapping regions are ignored
Upwards(c) == c.routine = "memcpy" \/ c.dest < c.src

Offset(c) == IF Upwards(c) THEN i ELSE c.n - 1 - i

CopyByte ==
  /\ call.routine \in {"memcpy", "memmove"}
  /\ ~done /\ i < call.n
  /\ memory' = [memory EXCEPT ![call.dest + Offset(call)] = memory[call.src + Offset(call)]]
  /\ i' = i + 1
  /\ UNCHANGED <<before, call, difference, done>>

SetByte ==
  /\ call.routine = "memset"
  /\ ~done /\ i < call.n
  /\ memory' = [memory EXCEPT ![call.dest + i] = call.byte]
  /\ i' = i + 1
  /\ UNCHANGED <<before, call, difference, done>>

(* memcmp returns the difference of the first two bytes that differ.          *)
CompareByte ==
  /\ call.routine = "memcmp"
  /\ ~done /\ i < call.n
  /\ LET a == memory[call.dest + i]
         b == memory[call.src + i]
     IN difference' = a - b /\ done' = (a # b)
  /\ i' = i + 1
  /\ UNCHANGED <<memory, before, call>>

RoutineReturns ==
  /\ ~done /\ i >= call.n
  /\ done' = TRUE
  /\ UNCHANGED <<memory, before, call, i, difference>>

Returned == done /\ UNCHANGED memoryVars

MemoryNext == CopyByte \/ SetByte \/ CompareByte \/ RoutineReturns \/ Returned

MemorySpec == MemoryInit /\ [][MemoryNext]_memoryVars

---------------------------------------------------------------------------
MemoryTypeOK ==
  /\ memory \in [Cells -> ByteValues] /\ before \in [Cells -> ByteValues]
  /\ call \in Call /\ Legal(call)
  /\ i \in 0 .. call.n
  /\ difference \in Int /\ done \in BOOLEAN

(* The bytes a routine is to write, and what it is to write there.            *)
Destination ==
  IF call.routine = "memcmp" THEN {} ELSE call.dest .. call.dest + call.n - 1
Wanted(a) ==
  IF call.routine = "memset" THEN call.byte ELSE before[call.src + (a - call.dest)]

(* When a routine returns, the destination of a copy holds the bytes the      *)
(* source held when it was called, however the two regions overlap, that of   *)
(* memset the byte it was given, and no other byte of the memory has changed. *)
WritesAreExact ==
  done => memory = [a \in Cells |-> IF a \in Destination THEN Wanted(a) ELSE before[a]]

(* memcmp has the sign of the first difference, in the order of addresses,    *)
(* and is zero only for equal regions.                                        *)
ComparisonIsLexicographic ==
  (done /\ call.routine = "memcmp") =>
    LET differ == {k \in 0 .. call.n - 1 : before[call.dest + k] # before[call.src + k]} IN
    IF differ = {} THEN difference = 0
    ELSE \E k \in differ :
           /\ \A m \in differ : k <= m
           /\ difference = before[call.dest + k] - before[call.src + k]

RoutinesAreExact == WritesAreExact /\ ComparisonIsLexicographic
=============================================================================
