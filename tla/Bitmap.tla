------------------------------- MODULE Bitmap -------------------------------
(* The bit-level frame map of memory/bitmap.rs.  A bitmap is the set of the   *)
(* indices whose bit is 1; `set`, `clear` and `is_set` are set operations     *)
(* restricted to the tracked range.  The two searches are given here by what  *)
(* they return; BitmapScan runs their loops bit by bit and shows that the     *)
(* loops return exactly this.                                                 *)
EXTENDS Integers, FiniteSets

CONSTANTS Size,         \* Bitmap::size, the number of frames tracked
          BufferBytes,  \* length of the byte slice behind it
          None          \* Option::None

ByteBits == 8
Indices  == 0 .. Size - 1

(* Bitmap::new takes the slice and the size separately.  A slice too small    *)
(* for the size would make `set` index out of bounds; every caller passes at  *)
(* least Size bits (main.rs passes four times as many).                       *)
ASSUME BitmapAssumption ==
  /\ Size \in Nat
  /\ BufferBytes \in Nat
  /\ Size <= ByteBits * BufferBytes
  /\ None \notin Nat

SetBits(b, S)  == b \cup {i \in S : i < Size}   \* `set`, for each index of S
ClearBit(b, i) == IF i < Size THEN b \ {i} ELSE b
IsSet(b, i)    == i < Size /\ i \in b

CountFree(b)      == Cardinality({i \in Indices : ~IsSet(b, i)})
CountAllocated(b) == Size - CountFree(b)

Run(s, n)      == s .. s + n - 1
IsFreeRun(b, s, n) == Run(s, n) \subseteq Indices \ b

IsFirstClear(b, i) ==
  /\ i \in Indices \ b
  /\ \A j \in Indices : j < i => j \in b

IsFirstFreeRun(b, s, n) ==
  /\ s \in Indices
  /\ IsFreeRun(b, s, n)
  /\ \A t \in Indices : t < s => ~IsFreeRun(b, t, n)

FindFirstClear(b) ==
  IF Indices \subseteq b THEN None ELSE CHOOSE i \in Indices : IsFirstClear(b, i)

FindConsecutiveClear(b, n) ==
  IF n > 0 /\ \E s \in Indices : IsFreeRun(b, s, n)
    THEN CHOOSE s \in Indices : IsFirstFreeRun(b, s, n)
    ELSE None
=============================================================================
