----------------------------- MODULE BitmapScan -----------------------------
(* The two search loops of memory/bitmap.rs, one iteration per step.          *)
(* find_first_clear walks the bytes of the buffer, skips a byte that is 0xFF  *)
(* and looks at the bits of any other one; it gives up at the first index     *)
(* beyond the tracked size, also when the buffer goes on.                     *)
(* find_consecutive_clear walks the tracked bits and keeps the length and the *)
(* start of the current run.                                                  *)
EXTENDS Bitmap

CONSTANT MaxCount   \* largest `count` asked for

ASSUME MaxCountAssumption == MaxCount \in Nat

VARIABLES data,     \* the bitmap searched: fixed during a search
          want,     \* `count`; the single-bit search is marked by 0
          pc,       \* "bytes", "bits", "run" or "done"
          cursor,   \* byte_idx * 8 + bit_idx, or idx
          run,      \* `consecutive`
          start,    \* `start_idx`
          result

scanVars == <<data, want, pc, cursor, run, start, result>>

ByteAtCursor == cursor .. cursor + ByteBits - 1

ScanInit ==
  /\ data \in SUBSET Indices
  /\ want \in 0 .. MaxCount
  /\ pc = IF want = 0 THEN "bytes" ELSE "run"
  /\ cursor = 0 /\ run = 0 /\ start = 0
  /\ result = None

Return(v) ==
  /\ pc' = "done"
  /\ result' = v
  /\ UNCHANGED <<data, want, cursor, run, start>>

---------------------------------------------------------------------------
(* find_first_clear                                                          *)

BufferExhausted ==
  /\ pc = "bytes"
  /\ cursor >= ByteBits * BufferBytes
  /\ Return(None)

SkipFullByte ==
  /\ pc = "bytes"
  /\ cursor < ByteBits * BufferBytes
  /\ \A i \in ByteAtCursor : IsSet(data, i)
  /\ cursor' = cursor + ByteBits
  /\ UNCHANGED <<data, want, pc, run, start, result>>

EnterByte ==
  /\ pc = "bytes"
  /\ cursor < ByteBits * BufferBytes
  /\ \E i \in ByteAtCursor : ~IsSet(data, i)
  /\ pc' = "bits"
  /\ UNCHANGED <<data, want, cursor, run, start, result>>

BitOutOfRange ==
  /\ pc = "bits"
  /\ cursor >= Size
  /\ Return(None)

BitClear ==
  /\ pc = "bits"
  /\ cursor < Size /\ ~IsSet(data, cursor)
  /\ Return(cursor)

BitTaken ==
  /\ pc = "bits"
  /\ cursor < Size /\ IsSet(data, cursor)
  /\ cursor' = cursor + 1
  /\ pc' = IF (cursor + 1) % ByteBits = 0 THEN "bytes" ELSE "bits"
  /\ UNCHANGED <<data, want, run, start, result>>

---------------------------------------------------------------------------
(* find_consecutive_clear                                                    *)

RunExhausted ==
  /\ pc = "run"
  /\ cursor >= Size
  /\ Return(None)

RunFound ==
  /\ pc = "run"
  /\ cursor < Size /\ ~IsSet(data, cursor)
  /\ run + 1 = want
  /\ Return(IF run = 0 THEN cursor ELSE start)

RunGrows ==
  /\ pc = "run"
  /\ cursor < Size /\ ~IsSet(data, cursor)
  /\ run + 1 # want
  /\ start' = IF run = 0 THEN cursor ELSE start
  /\ run' = run + 1
  /\ cursor' = cursor + 1
  /\ UNCHANGED <<data, want, pc, result>>

RunBroken_NoReset ==              \* fault: `consecutive = 0` forgotten
  /\ pc = "run"
  /\ cursor < Size /\ IsSet(data, cursor)
  /\ cursor' = cursor + 1
  /\ UNCHANGED <<data, want, pc, run, start, result>>

RunBroken ==
  /\ pc = "run"
  /\ cursor < Size /\ IsSet(data, cursor)
  /\ run' = 0
  /\ cursor' = cursor + 1
  /\ UNCHANGED <<data, want, pc, start, result>>

---------------------------------------------------------------------------
Step == \/ BufferExhausted \/ SkipFullByte \/ EnterByte
        \/ BitOutOfRange \/ BitClear \/ BitTaken
        \/ RunExhausted \/ RunFound \/ RunGrows \/ RunBroken

Finished == pc = "done" /\ UNCHANGED scanVars

ScanNext == Step \/ Finished
ScanSpec == ScanInit /\ [][ScanNext]_scanVars

(* The scan's own bookkeeping: everything before the cursor has been seen to  *)
(* be taken (single-bit search), or holds no run of the wanted length and     *)
(* ends in `run` clear bits that begin at `start` (run search).               *)
ScanInv ==
  /\ data \subseteq Indices
  /\ want \in Nat
  /\ run \in Nat /\ start \in Nat /\ cursor \in Nat
  /\ result \in Nat \cup {None}
  /\ pc \in {"bytes", "bits", "run", "done"}
  /\ pc \in {"bytes", "bits"} =>
       /\ want = 0
       /\ \A j \in Indices : j < cursor => j \in data
  /\ pc = "bytes" => cursor % ByteBits = 0
  /\ pc = "bits" => \E i \in ByteAtCursor : ~IsSet(data, i)
  /\ pc = "run" =>
       /\ want > 0 /\ run < want /\ run <= cursor /\ cursor <= Size
       /\ run > 0 => start + run = cursor
       /\ cursor - run .. cursor - 1 \subseteq Indices \ data
       /\ cursor - run > 0 => cursor - run - 1 \in data
       /\ \A s \in Indices : s + want <= cursor => ~IsFreeRun(data, s, want)

(* What the loop of either search returns is what the declarative operator    *)
(* names: the lowest free frame, or the lowest free run, and None only when   *)
(* there is none, whatever the length of the buffer behind the bitmap.        *)
ScanIsCorrect ==
  pc = "done" =>
    result = IF want = 0 THEN FindFirstClear(data)
                         ELSE FindConsecutiveClear(data, want)
=============================================================================
