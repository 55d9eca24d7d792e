----------------------------- MODULE Decimator ------------------------------
(* The decimator of the radio driver, drivers/sdr/demodulator.rs: samples go  *)
(* through the ring buffer of a low-pass filter, and every Factor-th output   *)
(* is kept, counting across the slices the samples arrive in.  A sample is    *)
(* its number in the stream, 0 before the first; what the filter makes of the *)
(* buffer is the sequence of samples the coefficients are multiplied with,    *)
(* the first coefficient first.                                               *)
EXTENDS Integers, SequencesExt

CONSTANTS Taps,       \* coefficients of the filter: 51
          Factor,     \* one output for so many samples
          MaxSlice,   \* bound: samples of one call
          MaxInput    \* bound: samples in all

DecimatorAssumption ==
  /\ Taps \in Nat \ {0}      \* `% self.buffer.len()`
  /\ Factor \in Nat \ {0}    \* `% self.factor`
  /\ MaxSlice \in Nat /\ MaxInput \in Nat

VARIABLES buffer, index,   \* LowPassFilter
          counter,         \* Decimator
          left,            \* samples of the slice in hand still to come
          consumed,        \* ghost: samples seen so far
          output           \* ghost: all outputs so far

vars == <<buffer, index, counter, left, consumed, output>>

Init ==
  /\ buffer = [k \in 0 .. Taps - 1 |-> 0]
  /\ index = 0 /\ counter = 0 /\ left = 0
  /\ consumed = 0 /\ output = <<>>

(* LowPassFilter::filter: the sample goes in at index, the index moves on,    *)
(* and the coefficients run over the ring from there.                         *)
Windowed(buf, at) == [k \in 1 .. Taps |-> buf[(at + k - 1) % Taps]]

Filter_OldIndex(sample) ==           \* fault: runs from where the sample went in
  /\ buffer' = [buffer EXCEPT ![index] = sample]
  /\ index' = (index + 1) % Taps
  /\ IF counter = 0 THEN output' = Append(output, Windowed(buffer', index))
                    ELSE UNCHANGED output

Filter(sample) ==
  /\ buffer' = [buffer EXCEPT ![index] = sample]
  /\ index' = (index + 1) % Taps
  /\ IF counter = 0 THEN output' = Append(output, Windowed(buffer', index'))
                    ELSE UNCHANGED output

(* Decimator::decimate, one call and one turn of its loop.                    *)
Decimate(n) ==
  /\ left = 0 /\ consumed + n <= MaxInput
  /\ left' = n
  /\ UNCHANGED <<buffer, index, counter, consumed, output>>

DecimateSample ==
  /\ left > 0
  /\ Filter(consumed + 1)
  /\ counter' = (counter + 1) % Factor
  /\ left' = left - 1
  /\ consumed' = consumed + 1

(* Where the bound ends the stream.                                           *)
StreamEnds == left = 0 /\ consumed = MaxInput /\ UNCHANGED vars

Next == (\E n \in 1 .. MaxSlice : Decimate(n)) \/ DecimateSample \/ StreamEnds

Spec == Init /\ [][Next]_vars

---------------------------------------------------------------------------
TypeOK ==
  /\ buffer \in [0 .. Taps - 1 -> 0 .. MaxInput]
  /\ index \in 0 .. Taps - 1 /\ counter \in 0 .. Factor - 1
  /\ left \in 0 .. MaxSlice /\ consumed \in 0 .. MaxInput

(* What the filter sees after sample s: the last Taps samples, oldest first,  *)
(* and silence before the stream began.                                       *)
WindowAt(s) == [k \in 1 .. Taps |-> IF s - Taps + k > 0 THEN s - Taps + k ELSE 0]

(* The stream of outputs is that of one endless call: the first sample and    *)
(* every Factor-th after it, each filtered with the samples right before it,  *)
(* wherever the slices were cut and however often the ring has wrapped.       *)
SlicesDoNotMatter ==
  output = [k \in 1 .. (consumed + Factor - 1) \div Factor |-> WindowAt(1 + (k - 1) * Factor)]
=============================================================================
