-------------------------------- MODULE Tuner -------------------------------
(* The RTL-SDR receiver, RtlSdr of drivers/sdr/rtlsdr.rs.  A receiver exists  *)
(* before a device is attached to it, and may be tuned before that; init then *)
(* hands the settings it finds to the setters, so that it succeeds only if    *)
(* nothing they would refuse has ever been stored.  The setters compute with  *)
(* what they are given: a sum that must fit 32 bits, a division.  Transfers   *)
(* to the device are a stub that succeeds.                                    *)
(*                                                                            *)
(* Frequencies and rates are counted in units of 5 kHz.                       *)
EXTENDS Integers

CONSTANTS Vendors,        \* vendor ids of the devices that are offered
          Frequencies,    \* what callers tune to
          Rates           \* and the sample rates they ask for

Realtek     == 3034                \* 0x0bda
MinFreq     == 4800                \* 24 MHz
MaxFreq     == 353200              \* 1766 MHz
MinRate     == 45                  \* 225 kHz
MaxRate     == 640                 \* 3.2 MHz
FreqRange   == MinFreq .. MaxFreq
RateRange   == MinRate .. MaxRate
IfFreq      == 714                 \* the intermediate frequency, 3.57 MHz
Xtal        == 5760                \* 28.8 MHz
NoDevice    == -1
MaxU32      == 858993              \* 2^32 - 1 Hz, rounded down

TunerAssumption ==
  Vendors \subseteq Nat /\ Frequencies \cup Rates \subseteq 0 .. MaxU32

VARIABLES device,       \* the vendor id of the attached device, or NoDevice
          frequency, sample_rate,
          call, answer, \* the last call, and what it returned
          panicked      \* ghost: a sum has overflowed or a division is by zero

tunerVars == <<device, frequency, sample_rate, call, answer, panicked>>

Init ==
  /\ device = NoDevice
  /\ frequency = 20000 /\ sample_rate = 409   \* 100 MHz, 2.048 MHz rounded down
  /\ call = "new" /\ answer = "ok" /\ panicked = FALSE

Returns(name, ok) == call' = name /\ answer' = IF ok THEN "ok" ELSE "error"

(* The vendor is all attach looks at.                                         *)
Attach(vendor) ==
  /\ Returns("attach", vendor = Realtek)
  /\ device' = IF vendor = Realtek THEN vendor ELSE device
  /\ UNCHANGED <<frequency, sample_rate, panicked>>

(* freq_to_regs and the resampling ratio.                                     *)
Overflows(freq)    == freq + IfFreq > MaxU32
DividesByZero(rate) == rate = 0

Tune_StoresFirst(freq) ==            \* fault: the setting is stored before it is checked
  /\ Returns("tune", freq \in FreqRange)
  /\ frequency' = freq
  /\ panicked' = (freq \in FreqRange /\ Overflows(freq))
  /\ UNCHANGED <<device, sample_rate>>

Tune(freq) ==
  /\ Returns("tune", freq \in FreqRange)
  /\ frequency' = IF freq \in FreqRange THEN freq ELSE frequency
  /\ panicked' = (freq \in FreqRange /\ Overflows(freq))
  /\ UNCHANGED <<device, sample_rate>>

SetSampleRate(rate) ==
  /\ Returns("set_sample_rate", rate \in RateRange)
  /\ sample_rate' = IF rate \in RateRange THEN rate ELSE sample_rate
  /\ panicked' = (rate \in RateRange /\ DividesByZero(rate))
  /\ UNCHANGED <<device, frequency>>

(* init stops at the first setter that refuses; those that accept store what  *)
(* is stored already.                                                         *)
InitDevice ==
  /\ Returns("init", device # NoDevice /\ sample_rate \in RateRange /\ frequency \in FreqRange)
  /\ panicked' = (device # NoDevice /\ sample_rate \in RateRange
                  /\ (DividesByZero(sample_rate)
                      \/ (frequency \in FreqRange /\ Overflows(frequency))))
  /\ UNCHANGED <<device, frequency, sample_rate>>

(* read_samples reads nothing.                                                *)
ReadSamples ==
  /\ Returns("read_samples", device # NoDevice)
  /\ UNCHANGED <<device, frequency, sample_rate, panicked>>

Next ==
  /\ ~panicked
  /\ \/ \E v \in Vendors : Attach(v)
     \/ \E f \in Frequencies : Tune(f)
     \/ \E r \in Rates : SetSampleRate(r)
     \/ InitDevice \/ ReadSamples

Spec == Init /\ [][Next]_tunerVars

---------------------------------------------------------------------------
TypeOK ==
  /\ device \in {NoDevice} \cup Vendors
  /\ frequency \in 0 .. MaxU32 /\ sample_rate \in 0 .. MaxU32
  /\ answer \in {"ok", "error"} /\ panicked \in BOOLEAN

(* Once a receiver is attached init succeeds, whatever was asked of it before *)
(* and however often it was refused; until then init and read_samples are     *)
(* refused; and no setter overflows or divides by zero on the way.            *)
InitSucceedsOnceAttached ==
  /\ call \in {"init", "read_samples"} => (answer = "ok" <=> device = Realtek)
  /\ ~panicked
=============================================================================
