---------------------------- MODULE DriverProofs ----------------------------
(* What holds of the drivers and of the AI module for every size of their     *)
(* buffers, bus, filter and windows, and for every number of ports and polls: *)
(* component by component, then of all of them side by side.                  *)
EXTENDS Drivers, SequenceTheorems, LeastNumber

---------------------------------------------------------------------------
(* The tuner.                                                                 *)

(* Only a receiver that was attached is one of the vendor's, and what is      *)
(* stored is what the setters accept, from the defaults on.                   *)
TunerInv ==
  /\ receiver \in {Tun!NoDevice, Tun!Realtek} /\ receiver \in {Tun!NoDevice} \cup Vendors
  /\ frequency \in Tun!FreqRange /\ sample_rate \in Tun!RateRange
  /\ answer \in {"ok", "error"} /\ failed \in BOOLEAN
  /\ Tun!InitSucceedsOnceAttached

(* What the setters accept fits 32 bits with the intermediate frequency       *)
(* added, and is no zero.                                                     *)
LEMMA SettingsFit ==
  /\ \A f \in Tun!FreqRange : ~ Tun!Overflows(f) /\ f \in 0 .. Tun!MaxU32
  /\ \A r \in Tun!RateRange : ~ Tun!DividesByZero(r) /\ r \in 0 .. Tun!MaxU32
  /\ 20000 \in Tun!FreqRange /\ 409 \in Tun!RateRange   \* the defaults
  /\ Tun!NoDevice # Tun!Realtek
<1>1. /\ Tun!MinFreq \in Nat /\ Tun!MaxFreq \in Nat /\ Tun!MinRate \in Nat
      /\ Tun!MaxRate \in Nat /\ Tun!MaxU32 \in Nat /\ Tun!IfFreq \in Nat
      /\ Tun!MinFreq <= 20000 /\ 20000 <= Tun!MaxFreq
      /\ Tun!MinRate <= 409 /\ 409 <= Tun!MaxRate
      /\ Tun!MaxFreq + Tun!IfFreq <= Tun!MaxU32
      /\ 0 < Tun!MinRate /\ Tun!MaxRate <= Tun!MaxU32
  BY DEF Tun!MinFreq, Tun!MaxFreq, Tun!MinRate, Tun!MaxRate, Tun!MaxU32, Tun!IfFreq
<1>2. Tun!NoDevice # Tun!Realtek
  BY DEF Tun!NoDevice, Tun!Realtek
<1> QED
  BY <1>1, <1>2 DEF Tun!FreqRange, Tun!RateRange, Tun!Overflows, Tun!DividesByZero

(* Hence no setter panics, nor does init, which hands them what is stored.    *)
LEMMA SettersDoNotPanic ==
  ASSUME NEW f, Tun!Tune(f) \/ Tun!SetSampleRate(f)
  PROVE  failed' \in BOOLEAN /\ ~ failed'
<1> DEFINE high == f \in Tun!FreqRange /\ Tun!Overflows(f)
           none == f \in Tun!RateRange /\ Tun!DividesByZero(f)
<1>1. ~ high /\ ~ none
  BY SettingsFit
<1>2. high \in BOOLEAN /\ none \in BOOLEAN
  BY Zenon
<1>3. failed' = high \/ failed' = none
  BY DEF Tun!Tune, Tun!SetSampleRate
<1> HIDE DEF high, none
<1>4. failed' \in BOOLEAN
  BY Zenon, <1>2, <1>3
<1>5. ~ failed'
  BY Zenon, <1>1, <1>3
<1> QED
  BY <1>4, <1>5

(* init hands the setters what is stored.                                     *)
LEMMA InitDoesNotPanic ==
  ASSUME Tun!InitDevice PROVE failed' \in BOOLEAN /\ ~ failed'
<1> DEFINE bad == receiver # Tun!NoDevice /\ sample_rate \in Tun!RateRange
                  /\ (Tun!DividesByZero(sample_rate)
                      \/ (frequency \in Tun!FreqRange /\ Tun!Overflows(frequency)))
<1>1. ~ bad
  BY SettingsFit
<1>2. failed' = bad
  BY DEF Tun!InitDevice
<1>3. bad \in BOOLEAN
  BY Zenon
<1> HIDE DEF bad
<1>4. failed' \in BOOLEAN
  BY Zenon, <1>2, <1>3
<1>5. ~ failed'
  BY Zenon, <1>1, <1>2
<1> QED
  BY <1>4, <1>5

(* What new stores is what the setters accept.                                *)
LEMMA TunerInit == Tun!Init => TunerInv
<1> SUFFICES ASSUME Tun!Init PROVE TunerInv
  OBVIOUS
<1>1. failed = FALSE
  BY DEF Tun!Init
<1>2. failed \in BOOLEAN /\ ~ failed
  BY Zenon, <1>1
<1> QED
  BY <1>2, SettingsFit DEF Tun!Init, TunerInv, Tun!InitSucceedsOnceAttached

(* Whatever the setters refuse leaves what is stored alone.                   *)
LEMMA TunerStep == TunerInv /\ [Tun!Next]_tunerVars => TunerInv'
<1> SUFFICES ASSUME TunerInv, [Tun!Next]_tunerVars PROVE TunerInv'
  OBVIOUS
<1> USE DEF TunerInv, Tun!InitSucceedsOnceAttached, Tun!Returns
<1>1. ASSUME NEW v \in Vendors, Tun!Attach(v) PROVE TunerInv'
  BY <1>1 DEF Tun!Attach
<1>2. ASSUME NEW f \in Frequencies, Tun!Tune(f) PROVE TunerInv'
  BY <1>2, SettersDoNotPanic DEF Tun!Tune
<1>3. ASSUME NEW r \in Rates, Tun!SetSampleRate(r) PROVE TunerInv'
  BY <1>3, SettersDoNotPanic DEF Tun!SetSampleRate
<1>4. CASE Tun!InitDevice
  BY <1>4, InitDoesNotPanic, SettingsFit DEF Tun!InitDevice
<1>5. CASE Tun!ReadSamples
  BY <1>5, SettingsFit DEF Tun!ReadSamples
<1>6. CASE UNCHANGED tunerVars
  BY <1>6 DEF tunerVars
<1> QED
  BY <1>1, <1>2, <1>3, <1>4, <1>5, <1>6 DEF Tun!Next

(* The types are among that.                                                  *)
LEMMA TunerTypes == TunerInv => Tun!TypeOK
<1>1. TunerInv => failed \in BOOLEAN
  BY Zenon DEF TunerInv
<1> QED
  BY <1>1, SettingsFit DEF TunerInv, Tun!TypeOK

---------------------------------------------------------------------------
(* The scan of the PCI bus.                                                   *)

(* The types of the scan.                                                     *)
BusType ==
  /\ config \in [0 .. Devices - 1 ->
                   [answers : SUBSET (0 .. Functions - 1), multi : BOOLEAN]]
  /\ cursor \in 0 .. Bus!End
  /\ functions \in Seq(Nat)

(* The cursor passes the first function of a device only if that answers and  *)
(* says there are more; until then its device is not reported at all.         *)
BusInv ==
  /\ BusType
  /\ cursor < Bus!End /\ Bus!FunctionOf(cursor) # 0 =>
       /\ 0 \in config[Bus!DeviceOf(cursor)].answers
       /\ config[Bus!DeviceOf(cursor)].multi
  /\ \A i \in 1 .. Len(functions) : functions[i] < cursor
  /\ Bus!ScanIsExact

(* What the assumptions say of the bus.                                       *)
LEMMA BusFact ==
  Devices \in Nat /\ Functions \in Nat /\ Functions > 0 /\ Bus!End \in Nat
  BY DriversAssumption DEF Bus!PciAssumption, Bus!End

(* What the numbers of functions say: the next one is on the same device or   *)
(* the first of its own; all up to the next device are on this one.           *)
LEMMA FunctionFact ==
  ASSUME NEW n \in Nat, NEW f \in Nat, f > 0, NEW d \in Nat, n < d * f
  PROVE  /\ n \div f \in 0 .. d - 1
         /\ (n + 1) % f # 0 => (n + 1) \div f = n \div f
         /\ n + 1 <= d * f
         /\ n < ((n \div f) + 1) * f
         /\ ((n \div f) + 1) * f \in 0 .. d * f
         /\ (((n \div f) + 1) * f) % f = 0
<1> DEFINE q == n \div f
<1>1. q \in Nat /\ q * f <= n /\ n < (q + 1) * f /\ (q + 1) * f \in Nat /\ d * f \in Nat
  OBVIOUS
<1>2. (n + 1) % f # 0 => (n + 1) \div f = q
  OBVIOUS
<1>3. ((q + 1) * f) % f = 0
  OBVIOUS
<1> HIDE DEF q
<1>4. q < d
  <2> SUFFICES ASSUME q >= d PROVE FALSE
    BY <1>1
  <2>1. PICK k \in Nat : q = d + k
    BY <1>1
  <2>2. q * f = d * f + k * f /\ k * f \in Nat /\ q * f \in Nat
    BY <1>1, <2>1
  <2> QED
    BY <1>1, <2>2
<1>5. (q + 1) * f <= d * f
  <2>1. PICK k \in Nat : d = q + 1 + k
    BY <1>1, <1>4
  <2>2. d * f = (q + 1) * f + k * f /\ k * f \in Nat
    BY <1>1, <2>1
  <2> QED
    BY <1>1, <2>2
<1> QED
  BY <1>1, <1>2, <1>3, <1>4, <1>5 DEF q

(* Between a first function and the next device there are only functions of   *)
(* the same device, none of them the first.                                   *)
LEMMA SameDevice ==
  ASSUME NEW n \in Nat, NEW f \in Nat, f > 0, n % f = 0,
         NEW m \in Nat, n < m, m < ((n \div f) + 1) * f
  PROVE  m % f # 0 /\ m \div f = n \div f
<1>1. PICK q \in Nat : q = n \div f /\ n = q * f
  BY SMTT(30)
<1>2. m < q * f + f
  BY <1>1
<1>3. PICK r \in Nat : m = q * f + r /\ 0 < r /\ r < f
  BY <1>1, <1>2
<1>4. (q * f + r) % f = r /\ (q * f + r) \div f = q
  BY <1>3
<1> QED
  BY <1>1, <1>3, <1>4

(* What a step of the scan passes besides the function it looked at is not    *)
(* there.                                                                     *)
LEMMA PassedOver ==
  ASSUME BusInv, cursor < Bus!End
  PROVE  /\ Bus!After(cursor) \in cursor + 1 .. Bus!End
         /\ Bus!IsThere(cursor) <=> Bus!Answers(cursor)
         /\ \A n \in cursor + 1 .. Bus!After(cursor) - 1 : ~ Bus!IsThere(n)
<1> DEFINE f == Functions
           d == cursor \div f
           c == cursor
<1>1. /\ Devices \in Nat /\ f \in Nat /\ f > 0 /\ c \in Nat /\ c < Devices * f
      /\ Bus!End = Devices * f
  BY BusFact DEF BusInv, BusType, Bus!End
<1>2. /\ c + 1 <= Devices * f /\ c < (d + 1) * f
      /\ (d + 1) * f \in 0 .. Devices * f
  BY <1>1, FunctionFact
<1>3. Bus!IsThere(cursor) <=> Bus!Answers(cursor)
  BY <1>1 DEF BusInv, Bus!IsThere, Bus!Answers
<1>4. CASE c % f = 0 /\ ~ (Bus!Answers(cursor) /\ config[d].multi)
  <2>1. Bus!After(cursor) = (d + 1) * f
    BY <1>4 DEF Bus!After, Bus!FunctionOf, Bus!DeviceOf, Bus!NextDevice
  <2>2. ASSUME NEW n \in c + 1 .. (d + 1) * f - 1 PROVE ~ Bus!IsThere(n)
    <3>1. n \in Nat /\ c < n /\ n < (d + 1) * f
      BY <1>1, <1>2
    <3>2. n % f # 0 /\ n \div f = d
      BY <1>1, <1>4, <3>1, SameDevice
    <3> QED
      BY <1>4, <3>2 DEF Bus!IsThere, Bus!Answers, Bus!FunctionOf, Bus!DeviceOf
  <2> QED
    BY <1>1, <1>2, <1>3, <2>1, <2>2
<1>5. CASE ~ (c % f = 0 /\ ~ (Bus!Answers(cursor) /\ config[d].multi))
  <2>1. Bus!After(cursor) = c + 1
    BY <1>5 DEF Bus!After, Bus!FunctionOf, Bus!DeviceOf
  <2> QED
    BY <1>1, <1>2, <1>3, <2>1
<1> QED
  BY <1>4, <1>5

(* Where the next function is not the first of a device, there is one to go   *)
(* on with.                                                                   *)
LEMMA OnDevice ==
  ASSUME BusInv, cursor < Bus!End, NEW n, n = Bus!After(cursor), Bus!FunctionOf(n) # 0
  PROVE  /\ 0 \in config[Bus!DeviceOf(n)].answers
         /\ config[Bus!DeviceOf(n)].multi
<1> DEFINE f == Functions
           d == cursor \div f
<1>1. /\ Devices \in Nat /\ f \in Nat /\ f > 0 /\ cursor \in Nat /\ cursor < Devices * f
  BY BusFact DEF BusInv, BusType, Bus!End
<1>2. /\ (cursor + 1) % f # 0 => (cursor + 1) \div f = d
      /\ ((d + 1) * f) % f = 0
  BY <1>1, FunctionFact
<1>3. ~ (cursor % f = 0 /\ ~ (Bus!Answers(cursor) /\ config[d].multi)) /\ n = cursor + 1
  BY <1>2 DEF Bus!After, Bus!FunctionOf, Bus!DeviceOf, Bus!NextDevice
<1>4. n \div f = d
  BY <1>2, <1>3 DEF Bus!FunctionOf
<1>5. 0 \in config[d].answers /\ config[d].multi
  BY <1>1, <1>3 DEF BusInv, Bus!Answers, Bus!FunctionOf, Bus!DeviceOf
<1> QED
  BY <1>4, <1>5 DEF Bus!DeviceOf

(* Before the scan nothing is reported.                                       *)
LEMMA BusInit == Bus!PciInit => BusInv
<1> SUFFICES ASSUME Bus!PciInit PROVE BusInv
  OBVIOUS
<1>1. cursor = 0 /\ functions = <<>> /\ 0 % Functions = 0
  BY BusFact DEF Bus!PciInit
<1>2. BusType
  BY <1>1, BusFact DEF Bus!PciInit, BusType
<1>3. Bus!ScanIsExact
  BY <1>1 DEF Bus!ScanIsExact
<1> QED
  BY <1>1, <1>2, <1>3 DEF BusInv, Bus!FunctionOf

(* A probe reports the function that answers, or passes over the rest of a    *)
(* device that has one.                                                       *)
LEMMA BusStep == BusInv /\ [Bus!Probe \/ Bus!Scanned]_busVars => BusInv'
<1> SUFFICES ASSUME BusInv, [Bus!Probe \/ Bus!Scanned]_busVars PROVE BusInv'
  OBVIOUS
<1>1. CASE UNCHANGED busVars \/ Bus!Scanned
  <2>1. config' = config /\ cursor' = cursor /\ functions' = functions
    BY <1>1 DEF busVars, Bus!Scanned, Bus!pciVars
  <2>2. BusType'
    BY <2>1 DEF BusInv, BusType, Bus!End
  <2>3. Bus!ScanIsExact'
    BY <2>1 DEF BusInv, Bus!ScanIsExact, Bus!IsThere, Bus!Answers
  <2> QED
    BY <2>1, <2>2, <2>3 DEF BusInv, Bus!End
<1>2. CASE Bus!Probe
  <2>1. /\ cursor \in Nat /\ cursor < Bus!End /\ Bus!End \in Nat /\ config' = config
        /\ cursor' = Bus!After(cursor)
        /\ functions' = IF Bus!Answers(cursor) THEN Append(functions, cursor) ELSE functions
    BY <1>2, BusFact DEF Bus!Probe, Bus!ProbeFound, Bus!ProbeNothing, BusInv, BusType
  <2>2. /\ cursor' \in cursor + 1 .. Bus!End
        /\ Bus!IsThere(cursor) <=> Bus!Answers(cursor)
        /\ \A n \in cursor + 1 .. cursor' - 1 : ~ Bus!IsThere(n)
    BY <2>1, PassedOver
  <2>3. BusType'
    BY <2>1, <2>2 DEF BusInv, BusType, Bus!End
  <2>4. cursor' < Bus!End' /\ Bus!FunctionOf(cursor') # 0 =>
          /\ 0 \in config'[Bus!DeviceOf(cursor')].answers
          /\ config'[Bus!DeviceOf(cursor')].multi
    BY <2>1, OnDevice
  <2>5. /\ functions \in Seq(Nat)
        /\ \A i \in 1 .. Len(functions) : functions[i] < cursor
        /\ \A i \in 1 .. Len(functions) - 1 : functions[i] < functions[i + 1]
        /\ {functions[i] : i \in 1 .. Len(functions)} = {n \in 0 .. cursor - 1 : Bus!IsThere(n)}
    BY DEF BusInv, BusType, Bus!ScanIsExact
  <2>6. \A n : Bus!IsThere(n)' <=> Bus!IsThere(n)
    BY <2>1 DEF Bus!IsThere, Bus!Answers
  <2>7. {n \in 0 .. cursor' - 1 : Bus!IsThere(n)}
          = {n \in 0 .. cursor - 1 : Bus!IsThere(n)}
              \cup (IF Bus!Answers(cursor) THEN {cursor} ELSE {})
    BY <2>1, <2>2
  <2>8. CASE Bus!Answers(cursor)
    <3>1. /\ Len(functions') = Len(functions) + 1 /\ Len(functions) \in Nat
          /\ functions'[Len(functions) + 1] = cursor
          /\ \A i \in 1 .. Len(functions) : functions'[i] = functions[i]
      BY <2>1, <2>5, <2>8
    <3>2. {functions'[i] : i \in 1 .. Len(functions')}
            = {functions[i] : i \in 1 .. Len(functions)} \cup {cursor}
      BY <3>1
    <3>3. \A i \in 1 .. Len(functions') : functions'[i] < cursor'
      BY <2>1, <2>2, <2>5, <3>1
    <3>4. \A i \in 1 .. Len(functions') - 1 : functions'[i] < functions'[i + 1]
      BY <2>5, <3>1
    <3>5. {functions'[i] : i \in 1 .. Len(functions')}
            = {n \in 0 .. cursor' - 1 : Bus!IsThere(n)'}
      BY <2>5, <2>6, <2>7, <2>8, <3>2
    <3> QED
      BY <2>3, <2>4, <3>3, <3>4, <3>5 DEF BusInv, Bus!ScanIsExact
  <2>9. CASE ~ Bus!Answers(cursor)
    <3>1. functions' = functions
      BY <2>1, <2>9
    <3>2. \A i \in 1 .. Len(functions) : functions[i] < cursor'
      <4>1. \A i \in 1 .. Len(functions) : functions[i] \in Nat
        BY <2>5
      <4> QED
        BY <2>1, <2>2, <2>5, <4>1
    <3>3. {functions[i] : i \in 1 .. Len(functions)}
            = {n \in 0 .. cursor' - 1 : Bus!IsThere(n)'}
      BY <2>5, <2>6, <2>7, <2>9
    <3> QED
      BY <2>3, <2>4, <2>5, <3>1, <3>2, <3>3 DEF BusInv, Bus!ScanIsExact
  <2> QED
    BY <2>8, <2>9
<1> QED
  BY <1>1, <1>2

---------------------------------------------------------------------------
(* The remainder of less than two rounds.                                     *)
LEMMA ModTwice ==
  ASSUME NEW n \in Nat, n > 0, NEW a \in 0 .. 2 * n - 1
  PROVE  a % n = IF a < n THEN a ELSE a - n
<1>1. CASE a < n
  BY <1>1
<1>2. CASE a >= n
  BY <1>2
<1> QED
  BY <1>1, <1>2

---------------------------------------------------------------------------
(* The key buffer.                                                            *)

(* The types are all it takes.                                                *)
KeysInv == Kbd!TypeOK

(* What the assumptions say of the ring.                                      *)
LEMMA RingFact == Size \in Nat /\ Size > 0 /\ 0 \in Keys /\ None \notin Keys
  BY DriversAssumption DEF Kbd!KeyboardAssumption

(* How many keys are unread, and where in the ring they are: from the read    *)
(* position up to the write position.                                         *)
Length == (write_pos - read_pos + Size) % Size
UnreadIs ==
  /\ Length \in 0 .. Size - 1 /\ (Length = 0 <=> read_pos = write_pos)
  /\ Len(Kbd!Unread) = Length /\ Kbd!Unread \in Seq(Keys)
  /\ Kbd!Unread = [i \in 1 .. Length |-> ring[(read_pos + i - 1) % Size]]
  /\ \A i \in 1 .. Length : /\ (read_pos + i - 1) % Size \in Kbd!Positions
                            /\ (read_pos + i - 1) % Size # write_pos
                            /\ Kbd!Unread[i] = ring[(read_pos + i - 1) % Size]
  /\ (read_pos + Length) % Size = write_pos

(* So it is, wherever the two positions are.                                  *)
LEMMA UnreadKeys == KeysInv => UnreadIs
<1> SUFFICES ASSUME KeysInv PROVE UnreadIs
  OBVIOUS
<1>1. /\ read_pos \in 0 .. Size - 1 /\ write_pos \in 0 .. Size - 1
      /\ Size \in Nat /\ Size > 0 /\ ring \in [0 .. Size - 1 -> Keys]
  BY RingFact DEF KeysInv, Kbd!TypeOK, Kbd!Positions
<1>2. Length = IF read_pos <= write_pos THEN write_pos - read_pos
                                        ELSE write_pos - read_pos + Size
  BY <1>1, ModTwice DEF Length
<1>3. \A i \in 1 .. Length + 1 :
        (read_pos + i - 1) % Size = IF read_pos + i - 1 < Size THEN read_pos + i - 1
                                                               ELSE read_pos + i - 1 - Size
  BY <1>1, <1>2, ModTwice
<1>4. Kbd!Unread = [i \in 1 .. Length |-> ring[(read_pos + i - 1) % Size]]
  BY DEF Kbd!Unread, Length
<1>5. \A i \in 1 .. Length : /\ (read_pos + i - 1) % Size \in 0 .. Size - 1
                             /\ (read_pos + i - 1) % Size # write_pos
  BY <1>1, <1>2, <1>3
<1>6. (read_pos + Length) % Size = write_pos
  BY <1>1, <1>2, <1>3
<1>7. /\ Length \in 0 .. Size - 1 /\ (Length = 0 <=> read_pos = write_pos)
  BY <1>1, <1>2
<1>8. Kbd!Unread \in Seq(Keys) /\ Len(Kbd!Unread) = Length
  <2>1. \A i \in 1 .. Length : ring[(read_pos + i - 1) % Size] \in Keys
    BY <1>1, <1>5
  <2>2. Length \in Nat
    BY <1>1, <1>7
  <2> HIDE DEF Length
  <2>3. Kbd!Unread \in [1 .. Length -> Keys]
    BY <1>4, <2>1
  <2> QED
    BY <2>2, <2>3
<1> QED
  BY <1>4, <1>5, <1>6, <1>7, <1>8 DEF UnreadIs, Kbd!Positions

(* Reading from the next position is reading one further.                     *)
LEMMA ModNext ==
  ASSUME NEW n \in Nat, n > 0, NEW a \in 0 .. n - 1, NEW b, b = (a + 1) % n
  PROVE  \A i \in 1 .. n - 1 : (b + i - 1) % n = (a + (i + 1) - 1) % n
<1> SUFFICES ASSUME NEW i \in 1 .. n - 1
             PROVE  (b + i - 1) % n = (a + (i + 1) - 1) % n
  OBVIOUS
<1>1. b = IF a + 1 < n THEN a + 1 ELSE 0
  BY ModTwice
<1>2. (a + (i + 1) - 1) % n = IF a + i < n THEN a + i ELSE a + i - n
  BY ModTwice
<1>3. (b + i - 1) % n = IF b + i - 1 < n THEN b + i - 1 ELSE b + i - 1 - n
  BY <1>1, ModTwice
<1> QED
  BY <1>1, <1>2, <1>3

(* A key goes in at the write position.                                       *)
LEMMA PushUnread ==
  ASSUME KeysInv, NEW k \in Keys, Kbd!push(k)
  PROVE  Kbd!Ring!Push(<<k>>)
<1> DEFINE u == Kbd!Unread
<1>1. /\ read_pos \in 0 .. Size - 1 /\ write_pos \in 0 .. Size - 1
      /\ Size \in Nat /\ Size > 0 /\ ring \in [0 .. Size - 1 -> Keys]
  BY RingFact DEF KeysInv, Kbd!TypeOK, Kbd!Positions
<1>2. /\ ring' = [ring EXCEPT ![write_pos] = k] /\ read_pos' = read_pos
      /\ write_pos' = (write_pos + 1) % Size /\ key' = key /\ typed' = <<k>>
  BY DEF Kbd!push, Kbd!After
<1>3. /\ KeysInv' /\ Size' = Size
  BY <1>1, <1>2 DEF KeysInv, Kbd!TypeOK, Kbd!Positions
<1>4. Length' = IF Length + 1 < Size THEN Length + 1 ELSE 0
  <2>1. write_pos' = IF write_pos + 1 < Size THEN write_pos + 1 ELSE 0
    BY <1>1, <1>2, ModTwice
  <2> QED
    BY <1>1, <1>2, <2>1, ModTwice DEF Length
<1>5. Len(u \o <<k>>) = Length + 1 /\ u \in Seq(Keys) /\ Length \in Nat
  BY UnreadKeys DEF UnreadIs
<1>6. CASE Length + 1 < Size
  <2>0. UnreadIs'
    BY <1>3, UnreadKeys, PTL
  <2>1. /\ u' \in Seq(Keys) /\ Len(u') = Length + 1
        /\ \A i \in 1 .. Length + 1 : u'[i] = ring'[(read_pos + i - 1) % Size]
    BY <1>2, <1>4, <1>6, <2>0 DEF UnreadIs
  <2>2. \A i \in 1 .. Length : u'[i] = u[i]
    BY <1>1, <1>2, <2>1, UnreadKeys DEF UnreadIs
  <2>3. u'[Length + 1] = k
    BY <1>1, <1>2, <1>5, <2>1, UnreadKeys DEF UnreadIs
  <2>4. u' = u \o <<k>>
    <3>1. /\ u \o <<k>> \in Seq(Keys) /\ Len(u \o <<k>>) = Length + 1
          /\ \A i \in 1 .. Length + 1 :
               (u \o <<k>>)[i] = IF i <= Length THEN u[i] ELSE k
      BY <1>5
    <3>2. \A i \in 1 .. Length + 1 : u'[i] = (u \o <<k>>)[i]
      BY <1>5, <2>2, <2>3, <3>1
    <3> HIDE DEF u
    <3> QED
      BY <2>1, <3>1, <3>2, SeqEqual
  <2> QED
    BY <1>1, <1>2, <1>5, <1>6, <2>4 DEF Kbd!Ring!Push
<1>7. CASE ~ (Length + 1 < Size)
  <2>0. UnreadIs'
    BY <1>3, UnreadKeys, PTL
  <2>1. u' = <<>>
    BY <1>4, <1>7, <2>0 DEF UnreadIs
  <2> QED
    BY <1>1, <1>2, <1>5, <1>7, <2>1 DEF Kbd!Ring!Push
<1> QED
  BY <1>6, <1>7

(* A pop takes the oldest key, if there is one.                               *)
LEMMA PopUnread ==
  ASSUME KeysInv, Kbd!pop
  PROVE  Kbd!Ring!Pop \/ Kbd!Ring!PopEmpty
<1> DEFINE u == Kbd!Unread
<1>1. /\ read_pos \in 0 .. Size - 1 /\ write_pos \in 0 .. Size - 1
      /\ Size \in Nat /\ Size > 0 /\ ring \in [0 .. Size - 1 -> Keys]
  BY RingFact DEF KeysInv, Kbd!TypeOK, Kbd!Positions
<1>2. /\ ring' = ring /\ write_pos' = write_pos /\ typed' = typed
  BY DEF Kbd!pop
<1>3. u \in Seq(Keys) /\ Len(u) = Length /\ Length \in Nat
  BY UnreadKeys DEF UnreadIs
<1>4. CASE read_pos = write_pos
  <2>1. u = <<>> /\ u' = u /\ key' = None
    BY <1>2, <1>3, <1>4, UnreadKeys DEF UnreadIs, Kbd!pop, Kbd!Unread
  <2> QED
    BY <1>2, <2>1 DEF Kbd!Ring!PopEmpty
<1>5. CASE read_pos # write_pos
  <2>1. key' = ring[read_pos] /\ read_pos' = (read_pos + 1) % Size
    BY <1>5 DEF Kbd!pop, Kbd!After
  <2>2. KeysInv'
    BY <1>1, <1>2, <2>1 DEF KeysInv, Kbd!TypeOK, Kbd!Positions
  <2>3. Length > 0 /\ u # <<>>
    BY <1>3, <1>5, UnreadKeys DEF UnreadIs
  <2>4. read_pos' = IF read_pos + 1 < Size THEN read_pos + 1 ELSE 0
    BY <1>1, <2>1, ModTwice
  <2>5. Length' = Length - 1
    BY <1>1, <1>2, <1>5, <2>4, ModTwice DEF Length
  <2>0. UnreadIs'
    BY <2>2, UnreadKeys, PTL
  <2>6. /\ u' \in Seq(Keys) /\ Len(u') = Length - 1
        /\ \A i \in 1 .. Length - 1 : u'[i] = ring[(read_pos' + i - 1) % Size]
    BY <1>2, <2>5, <2>0 DEF UnreadIs
  <2>7. \A i \in 1 .. Length - 1 : (read_pos' + i - 1) % Size = (read_pos + (i + 1) - 1) % Size
    <3>1. Length - 1 <= Size - 1
      BY <1>1, UnreadKeys DEF UnreadIs
    <3> QED
      BY <1>1, <1>3, <2>1, <3>1, ModNext
  <2>8. \A i \in 1 .. Length - 1 : u'[i] = u[i + 1]
    <3> SUFFICES ASSUME NEW i \in 1 .. Length - 1 PROVE u'[i] = u[i + 1]
      OBVIOUS
    <3>1. i + 1 \in 1 .. Length /\ i \in 1 .. Length - 1
      BY <1>3
    <3>2. u[i + 1] = ring[(read_pos + (i + 1) - 1) % Size]
      BY <3>1, UnreadKeys DEF UnreadIs
    <3>3. (read_pos' + i - 1) % Size = (read_pos + (i + 1) - 1) % Size
      BY <2>7
    <3>4. u'[i] = ring[(read_pos' + i - 1) % Size]
      BY <2>6
    <3> HIDE DEF u
    <3> QED
      BY <3>2, <3>3, <3>4
  <2>9. u' = Tail(u)
    BY <1>3, <2>3, <2>6, <2>8, HeadTailProperties, SeqEqual
  <2>10. key' = Head(u)
    BY <1>1, <1>3, <2>1, <2>3, UnreadKeys, ModTwice DEF UnreadIs
  <2> QED
    BY <1>2, <2>3, <2>9, <2>10 DEF Kbd!Ring!Pop
<1> QED
  BY <1>4, <1>5

(* The ring starts as an empty queue.                                         *)
LEMMA KeysInit == Kbd!Init => KeysInv /\ Kbd!Ring!QueueInit
<1> SUFFICES ASSUME Kbd!Init PROVE KeysInv /\ Kbd!Ring!QueueInit
  OBVIOUS
<1>1. KeysInv
  BY RingFact DEF Kbd!Init, KeysInv, Kbd!TypeOK, Kbd!Positions
<1>2. Kbd!Unread = <<>>
  <2>1. Length = 0
    BY <1>1, UnreadKeys DEF Kbd!Init, UnreadIs
  <2> QED
    BY <1>1, <2>1, UnreadKeys DEF UnreadIs
<1> QED
  BY <1>1, <1>2, RingFact DEF Kbd!Init, Kbd!Ring!QueueInit

(* The positions stay in the ring, and what is stored are keys.               *)
LEMMA KeysStep == KeysInv /\ [Kbd!Next]_keyVars => KeysInv'
<1> SUFFICES ASSUME KeysInv, [Kbd!Next]_keyVars PROVE KeysInv'
  OBVIOUS
<1>1. ASSUME NEW pos \in Kbd!Positions PROVE Kbd!After(pos) \in Kbd!Positions
  BY RingFact DEF Kbd!After, Kbd!Positions
<1>2. ASSUME NEW k \in Keys, Kbd!push(k) PROVE KeysInv'
  BY <1>1, <1>2 DEF Kbd!push, KeysInv, Kbd!TypeOK
<1>3. ASSUME Kbd!pop PROVE KeysInv'
  BY <1>1, <1>3 DEF Kbd!pop, KeysInv, Kbd!TypeOK
<1>4. CASE UNCHANGED keyVars
  BY <1>4 DEF keyVars, KeysInv, Kbd!TypeOK
<1> QED
  BY <1>2, <1>3, <1>4 DEF Kbd!Next

(* Every step on the ring is one on the queue, or none.                       *)
LEMMA KeysRefine ==
  KeysInv /\ [Kbd!Next]_keyVars => [Kbd!Ring!QueueNext]_(Kbd!Ring!queueVars)
<1> SUFFICES ASSUME KeysInv, [Kbd!Next]_keyVars
             PROVE  [Kbd!Ring!QueueNext]_(Kbd!Ring!queueVars)
  OBVIOUS
<1>1. ASSUME NEW k \in Keys, Kbd!push(k) PROVE Kbd!Ring!QueueNext
  BY <1>1, PushUnread DEF Kbd!Ring!QueueNext
<1>2. ASSUME Kbd!pop PROVE Kbd!Ring!QueueNext
  BY <1>2, PopUnread DEF Kbd!Ring!QueueNext
<1>3. CASE UNCHANGED keyVars
  BY <1>3 DEF keyVars, Kbd!Ring!queueVars, Kbd!Unread
<1> QED
  BY <1>1, <1>2, <1>3 DEF Kbd!Next

---------------------------------------------------------------------------
(* The decimator.                                                             *)

(* The ring of the filter, read from the index, is the window of the samples  *)
(* consumed; the counter counts them.                                         *)
RadioInv ==
  /\ delay \in [0 .. Taps - 1 -> 0 .. MaxInput]
  /\ index \in 0 .. Taps - 1 /\ left \in 0 .. MaxSlice
  /\ consumed \in Nat /\ consumed + left <= MaxInput
  /\ counter = consumed % Factor
  /\ Radio!Windowed(delay, index) = Radio!WindowAt(consumed)
  /\ Radio!SlicesDoNotMatter

(* What the assumptions say of the decimator.                                 *)
LEMMA RadioFact ==
  /\ Taps \in Nat /\ Taps > 0 /\ Factor \in Nat /\ Factor > 0
  /\ MaxSlice \in Nat /\ MaxInput \in Nat
  BY DriversAssumption DEF Radio!DecimatorAssumption

(* Division rounded up goes up after every multiple.                          *)
LEMMA DivUp ==
  ASSUME NEW n \in Nat, NEW f \in Nat, f > 0
  PROVE  /\ (n + f - 1) \div f \in Nat
         /\ n % f = 0 => /\ n = ((n + f - 1) \div f) * f
                         /\ (n + 1 + f - 1) \div f = (n + f - 1) \div f + 1
         /\ n % f # 0 => (n + 1 + f - 1) \div f = (n + f - 1) \div f
         /\ (n + 1) % f = ((n % f) + 1) % f
<1>1. PICK q \in Nat, r \in 0 .. f - 1 : n = q * f + r /\ q = n \div f /\ r = n % f
  BY SMTT(30)
<1>2. CASE r = 0
  <2>1. (q * f + f - 1) \div f = q /\ (q * f + f) \div f = q + 1
    BY <1>1
  <2>2. (q * f + 1) % f = 1 % f
    BY <1>1
  <2> QED
    BY <1>1, <1>2, <2>1, <2>2
<1>3. CASE r > 0
  <2>1. (q * f + r + f - 1) \div f = q + 1 /\ (q * f + r + f) \div f = q + 1
    BY <1>1, <1>3
  <2>2. (q * f + r + 1) % f = (r + 1) % f
    BY <1>1
  <2> QED
    BY <1>1, <1>3, <2>1, <2>2
<1> QED
  BY <1>1, <1>2, <1>3

(* Before the first sample the filter is full of silence.                     *)
LEMMA RadioInit == Radio!Init => RadioInv
<1> SUFFICES ASSUME Radio!Init PROVE RadioInv
  OBVIOUS
<1>1. Radio!Windowed(delay, index) = Radio!WindowAt(consumed)
  BY RadioFact DEF Radio!Init, Radio!Windowed, Radio!WindowAt
<1>2. (0 + Factor - 1) \div Factor = 0 /\ 0 % Factor = 0
  BY RadioFact
<1>3. Radio!SlicesDoNotMatter
  BY <1>2, RadioFact DEF Radio!Init, Radio!SlicesDoNotMatter
<1> QED
  BY <1>1, <1>2, <1>3, RadioFact DEF Radio!Init, RadioInv

(* A ring that holds the samples before x, oldest at the index, is the window *)
(* at x.                                                                      *)
LEMMA WindowedIs ==
  ASSUME NEW b, NEW at, NEW x,
         \A k \in 1 .. Taps : b[(at + k - 1) % Taps] = IF x - Taps + k > 0 THEN x - Taps + k
                                                                         ELSE 0
  PROVE  Radio!Windowed(b, at) = Radio!WindowAt(x)
  BY DEF Radio!Windowed, Radio!WindowAt

(* One sample through the filter.                                             *)
LEMMA RadioSample == RadioInv /\ Radio!DecimateSample => RadioInv'
<1> SUFFICES ASSUME RadioInv, Radio!DecimateSample PROVE RadioInv'
  OBVIOUS
<1> DEFINE s == consumed
           m == (s + Factor - 1) \div Factor
<1>1. /\ Taps \in Nat /\ Taps > 0 /\ Factor \in Nat /\ Factor > 0 /\ MaxInput \in Nat
      /\ delay \in [0 .. Taps - 1 -> 0 .. MaxInput] /\ index \in 0 .. Taps - 1
      /\ MaxSlice \in Nat /\ s \in Nat /\ left > 0 /\ left \in 0 .. MaxSlice /\ s + left <= MaxInput
      /\ counter = s % Factor
  BY RadioFact DEF RadioInv, Radio!DecimateSample
<1>2. /\ delay' = [delay EXCEPT ![index] = s + 1] /\ index' = (index + 1) % Taps
      /\ output' = IF counter = 0 THEN Append(output, Radio!Windowed(delay', index'))
                                  ELSE output
      /\ counter' = (counter + 1) % Factor /\ left' = left - 1 /\ consumed' = s + 1
  BY DEF Radio!DecimateSample, Radio!Filter
<1>a. /\ index' = (index + 1) % Taps
      /\ index' = IF index + 1 < Taps THEN index + 1 ELSE 0
  <2>1. index + 1 \in 0 .. 2 * Taps - 1
    BY <1>1
  <2>2. index' = (index + 1) % Taps
    BY DEF Radio!DecimateSample, Radio!Filter
  <2> QED
    BY <1>1, <2>1, <2>2, ModTwice
<1>b. Taps \in Nat /\ Taps > 0 /\ index \in 0 .. Taps - 1
  BY <1>1
<1>3. /\ delay' \in [0 .. Taps - 1 -> 0 .. MaxInput] /\ index' \in 0 .. Taps - 1
      /\ left' \in 0 .. MaxSlice /\ consumed' \in Nat /\ consumed' + left' <= MaxInput
  <2>1. index' \in 0 .. Taps - 1
    BY <1>1, <1>a
  <2>2. s + 1 \in 0 .. MaxInput
    BY <1>1
  <2>3. delay' \in [0 .. Taps - 1 -> 0 .. MaxInput]
    BY <1>1, <1>2, <2>2
  <2>4. left - 1 \in 0 .. MaxSlice /\ s + 1 \in Nat /\ s + 1 + (left - 1) <= MaxInput
    BY <1>1
  <2> QED
    BY <1>2, <2>1, <2>3, <2>4
<1>4. counter' = consumed' % Factor
  BY <1>1, <1>2, DivUp
<1>5. Radio!Windowed(delay', index') = Radio!WindowAt(s + 1)
  <2>1. \A k \in 1 .. Taps : delay[(index + k - 1) % Taps]
                               = IF s - Taps + k > 0 THEN s - Taps + k ELSE 0
    BY DEF RadioInv, Radio!Windowed, Radio!WindowAt
  <2>2. ASSUME NEW k \in 1 .. Taps
        PROVE  delay'[(index' + k - 1) % Taps]
                 = IF s + 1 - Taps + k > 0 THEN s + 1 - Taps + k ELSE 0
    <3>2. CASE k < Taps
      <4>1. (index' + k - 1) % Taps = (index + (k + 1) - 1) % Taps
        <5>1. k \in 1 .. Taps - 1
          BY <1>b, <3>2
        <5> QED
          BY <1>a, <1>b, <5>1, ModNext
      <4>2. (index + (k + 1) - 1) % Taps = IF index + k < Taps THEN index + k
                                                                ELSE index + k - Taps
        <5>1. index + k \in 0 .. 2 * Taps - 1 /\ index + (k + 1) - 1 = index + k
          BY <1>b, <3>2
        <5> QED
          BY <1>b, <5>1, ModTwice
      <4>3. delay[(index + (k + 1) - 1) % Taps]
              = IF s - Taps + (k + 1) > 0 THEN s - Taps + (k + 1) ELSE 0
        <5>1. k + 1 \in 1 .. Taps
          BY <1>1, <3>2
        <5> QED
          BY <2>1, <5>1
      <4>4. delay'[(index + (k + 1) - 1) % Taps] = delay[(index + (k + 1) - 1) % Taps]
        BY <1>1, <1>2, <3>2, <4>2
      <4> QED
        BY <1>1, <4>1, <4>3, <4>4
    <3>3. CASE k = Taps
      <4>1. (index' + Taps - 1) % Taps = index
        <5>1. index' + Taps - 1 \in 0 .. 2 * Taps - 1
          BY <1>1, <1>a
        <5> QED
          BY <1>1, <1>a, <5>1, ModTwice
      <4> QED
        BY <1>1, <1>2, <3>3, <4>1
    <3> QED
      BY <1>1, <3>2, <3>3
  <2> DEFINE b == delay'
             at == index'
             x == s + 1
  <2>3. \A k \in 1 .. Taps : b[(at + k - 1) % Taps] = IF x - Taps + k > 0 THEN x - Taps + k
                                                                         ELSE 0
    BY <1>1, <2>2
  <2> HIDE DEF b, at, x
  <2>4. Radio!Windowed(b, at) = Radio!WindowAt(x)
    BY <2>3, WindowedIs
  <2> QED
    BY <2>4 DEF b, at, x
<1>6. Radio!SlicesDoNotMatter'
  <2>1. m \in Nat /\ output = [k \in 1 .. m |-> Radio!WindowAt(1 + (k - 1) * Factor)]
    BY <1>1, DivUp DEF RadioInv, Radio!SlicesDoNotMatter
  <2>2. \A x : Radio!WindowAt(x)' = Radio!WindowAt(x)
    BY DEF Radio!WindowAt
  <2>3. CASE counter = 0
    <3>1. (s + 1 + Factor - 1) \div Factor = m + 1 /\ s = m * Factor
      BY <1>1, <2>3, DivUp
    <3>2. output' = Append(output, Radio!WindowAt(1 + ((m + 1) - 1) * Factor))
      BY <1>1, <1>2, <1>5, <2>1, <2>3, <3>1
    <3> DEFINE W(k) == Radio!WindowAt(1 + (k - 1) * Factor)
    <3>3. output = [k \in 1 .. m |-> W(k)] /\ output' = Append(output, W(m + 1)) /\ m \in Nat
      BY <2>1, <3>2
    <3> HIDE DEF W, m
    <3>4. output' = [k \in 1 .. m + 1 |-> W(k)]
      BY <3>3
    <3> USE DEF W
    <3> QED
      BY <1>2, <2>2, <3>1, <3>4 DEF Radio!SlicesDoNotMatter
  <2>4. CASE counter # 0
    <3>1. (s + 1 + Factor - 1) \div Factor = m
      BY <1>1, <2>4, DivUp
    <3> QED
      BY <1>2, <2>1, <2>2, <2>4, <3>1 DEF Radio!SlicesDoNotMatter
  <2> QED
    BY <2>3, <2>4
<1> QED
  BY <1>2, <1>3, <1>4, <1>5, <1>6 DEF RadioInv

(* Cutting the stream changes nothing of it.                                  *)
LEMMA RadioStep == RadioInv /\ [Radio!Next]_radioVars => RadioInv'
<1> SUFFICES ASSUME RadioInv, [Radio!Next]_radioVars PROVE RadioInv'
  OBVIOUS
<1>1. ASSUME NEW n \in 1 .. MaxSlice, Radio!Decimate(n) PROVE RadioInv'
  <2>1. /\ left' = n /\ consumed' = consumed /\ delay' = delay /\ index' = index
        /\ counter' = counter /\ output' = output /\ consumed + n <= MaxInput
        /\ Radio!Windowed(delay, index)' = Radio!Windowed(delay, index)
        /\ Radio!WindowAt(consumed)' = Radio!WindowAt(consumed)
        /\ Radio!SlicesDoNotMatter' = Radio!SlicesDoNotMatter
    BY <1>1 DEF Radio!Decimate, Radio!Windowed, Radio!WindowAt, Radio!SlicesDoNotMatter
  <2> QED
    BY <2>1, RadioFact DEF RadioInv
<1>2. CASE UNCHANGED radioVars \/ Radio!StreamEnds
  BY <1>2 DEF radioVars, Radio!StreamEnds, Radio!vars, RadioInv, Radio!Windowed,
              Radio!WindowAt, Radio!SlicesDoNotMatter
<1> QED
  BY <1>1, <1>2, RadioSample DEF Radio!Next

(* The types are among that.                                                  *)
LEMMA RadioTypes == RadioInv => Radio!TypeOK
  BY RadioFact DEF RadioInv, Radio!TypeOK

(* Max of FiniteSetsExt, which FoldLeft is built with, under a name of our    *)
(* own.                                                                       *)
MaxOf(T) == CHOOSE x \in T : \A y \in T : x >= y

(* The largest of some of the numbers from 1 to n: n less the least of the    *)
(* differences.                                                               *)
LEMMA MaxFact ==
  ASSUME NEW n \in Nat, NEW T \in SUBSET (1 .. n), T # {}
  PROVE  MaxOf(T) \in T /\ \A y \in T : MaxOf(T) >= y
<1> DEFINE D == {n - x : x \in T}
<1>1. D \in SUBSET Nat /\ D # {}
  <2>1. \A x \in T : x \in 1 .. n /\ n - x \in Nat
    OBVIOUS
  <2> QED
    BY <2>1
<1>2. PICK d \in D : \A e \in D : d <= e
  BY <1>1, LeastNat
<1>3. PICK x \in T : d = n - x
  BY <1>2
<1>4. \A y \in T : n - x <= n - y
  BY <1>2, <1>3
<1>5. \A y \in T : x >= y
  BY <1>4
<1> QED
  BY <1>3, <1>5 DEF MaxOf

(* Taking the largest number out of 1 .. n leaves 1 .. n - 1.                 *)
LEMMA Segment ==
  ASSUME NEW n \in Nat, n > 0
  PROVE  1 .. n # {} /\ (1 .. n) \ {n} = 1 .. n - 1 /\ MaxOf(1 .. n) = n
<1>1. n \in 1 .. n
  OBVIOUS
<1>2. \A x : x \in (1 .. n) \ {n} <=> x \in 1 .. n - 1
  OBVIOUS
<1>3. MaxOf(1 .. n) = n
  <2> DEFINE m == MaxOf(1 .. n)
  <2>1. m \in 1 .. n /\ \A y \in 1 .. n : m >= y
    BY <1>1, MaxFact
  <2>2. m \in 1 .. n /\ m >= n
    BY <1>1, <2>1
  <2> HIDE DEF m
  <2>3. m = n
    BY <2>2
  <2> QED
    BY <2>3 DEF m
<1> QED
  BY <1>1, <1>2, <1>3

(* The fold of a sequence is defined by recursion on sets of its positions;   *)
(* such a function exists, for a step that is a function.                     *)
Solves(f, g, b, s) ==
  \A t \in SUBSET DOMAIN s :
    f[t] = IF t = {} THEN b ELSE g[<<f[t \ {MaxOf(t)}], s[MaxOf(t)]>>]

(* The recursion has a solution: if it had none for some length, there would  *)
(* be a least such length, and the solution for the one before extends to it. *)
LEMMA FoldExists ==
  ASSUME NEW A, NEW X, NEW g \in [A \X X -> A], NEW b \in A, NEW s \in Seq(X)
  PROVE  \E f \in [SUBSET DOMAIN s -> A] : Solves(f, g, b, s)
<1> DEFINE Law(f, n) == \A t \in SUBSET (1 .. n) :
             f[t] = IF t = {} THEN b ELSE g[<<f[t \ {MaxOf(t)}], s[MaxOf(t)]>>]
           Has(n) == \E f \in [SUBSET (1 .. n) -> A] : Law(f, n)
           Bad == {n \in 0 .. Len(s) : ~ Has(n)}
<1>1. Len(s) \in Nat /\ DOMAIN s = 1 .. Len(s)
  OBVIOUS
<1>2. SUFFICES ASSUME Bad # {} PROVE FALSE
  <2> HIDE DEF Has
  <2>1. Bad = {} => Has(Len(s))
    BY <1>1
  <2> USE DEF Has
  <2> QED
    BY <1>1, <2>1 DEF Solves
<1>3. PICK n \in Bad : \A m \in Bad : n <= m
  <2>1. Bad \in SUBSET Nat
    BY <1>1
  <2> QED
    BY <1>2, <2>1, LeastNat
<1>4. n # 0
  <2>1. SUBSET (1 .. 0) = {{}}
    OBVIOUS
  <2> DEFINE f == [t \in SUBSET (1 .. 0) |-> b]
  <2>2. f \in [SUBSET (1 .. 0) -> A] /\ Law(f, 0)
    BY <2>1
  <2>3. Has(0)
    BY <2>2
  <2> QED
    BY <1>3, <2>3
<1>5. n - 1 \in 0 .. Len(s) /\ n \in 1 .. Len(s) /\ s[n] \in X
  BY <1>1, <1>3, <1>4
<1>6. Has(n - 1)
  <2> HIDE DEF Has
  <2>0. n \in Nat
    BY <1>5
  <2>1. n - 1 \notin Bad
    <3> HIDE DEF Bad
    <3> QED
      BY <1>3, <2>0
  <2> QED
    BY <1>5, <2>1
<1>7. PICK h \in [SUBSET (1 .. n - 1) -> A] : Law(h, n - 1)
  BY <1>6
<1> DEFINE f == [t \in SUBSET (1 .. n) |-> IF n \in t THEN g[<<h[t \ {n}], s[n]>>] ELSE h[t]]
<1>8. ASSUME NEW t \in SUBSET (1 .. n)
      PROVE  /\ n \notin t => t \in SUBSET (1 .. n - 1)
             /\ t \ {n} \in SUBSET (1 .. n - 1)
  BY <1>5
<1>9. f \in [SUBSET (1 .. n) -> A]
  <2>1. ASSUME NEW t \in SUBSET (1 .. n) PROVE f[t] \in A
    BY <1>5, <1>8
  <2> QED
    BY <2>1
<1>10. Law(f, n)
  <2> SUFFICES ASSUME NEW t \in SUBSET (1 .. n), t # {}
               PROVE  f[t] = g[<<f[t \ {MaxOf(t)}], s[MaxOf(t)]>>]
    <3>1. f[{}] = b
      BY <1>7
    <3> QED
      BY <3>1
  <2>1. MaxOf(t) \in t /\ \A y \in t : MaxOf(t) >= y
    <3>1. n \in Nat
      BY <1>5
    <3> HIDE DEF f
    <3> QED
      BY <3>1, MaxFact
  <2>2. CASE n \in t
    <3>1. MaxOf(t) = n
      <4> DEFINE m == MaxOf(t)
      <4>1. m \in 1 .. n /\ m >= n
        BY <2>1, <2>2
      <4> HIDE DEF m
      <4>2. m = n
        BY <1>5, <4>1
      <4> QED
        BY <4>2 DEF m
    <3>2. t \ {n} \in SUBSET (1 .. n) /\ t \ {n} \in SUBSET (1 .. n - 1) /\ n \notin t \ {n}
      BY <1>8
    <3>3. f[t \ {n}] = h[t \ {n}]
      BY <3>2
    <3> QED
      BY <2>2, <3>1, <3>3
  <2>3. CASE n \notin t
    <3>1. t \in SUBSET (1 .. n - 1) /\ t \ {MaxOf(t)} \in SUBSET (1 .. n)
           /\ n \notin t \ {MaxOf(t)}
      BY <1>8, <2>3
    <3>2. f[t \ {MaxOf(t)}] = h[t \ {MaxOf(t)}] /\ f[t] = h[t]
      BY <2>3, <3>1
    <3>3. h[t] = g[<<h[t \ {MaxOf(t)}], s[MaxOf(t)]>>]
      BY <1>7, <3>1
    <3> QED
      BY <3>2, <3>3
  <2> QED
    BY <2>2, <2>3
<1>11. Has(n)
  BY <1>9, <1>10
<1> QED
  BY <1>3, <1>11

(* Any function that follows the same recursion steps through the sequence.   *)
Follows(it, A, g, b, s) ==
  /\ it[{}] = b
  /\ \A t \in SUBSET DOMAIN s :
       t # {} /\ it[t \ {MaxOf(t)}] \in A =>
         it[t] = g[<<it[t \ {MaxOf(t)}], s[MaxOf(t)]>>]
Steps(it, A, g, s) ==
  \A n \in 0 .. Len(s) :
    /\ it[1 .. n] \in A
    /\ n > 0 => it[1 .. n] = g[<<it[1 .. n - 1], s[n]>>]

(* It does so for every length, or there would be a least one where it does   *)
(* not.                                                                       *)
LEMMA FoldStays ==
  ASSUME NEW A, NEW X, NEW g \in [A \X X -> A], NEW b \in A, NEW s \in Seq(X),
         NEW it, Follows(it, A, g, b, s)
  PROVE  Steps(it, A, g, s)
<1> DEFINE Bad == {n \in 0 .. Len(s) : it[1 .. n] \notin A}
<1>1. Len(s) \in Nat /\ DOMAIN s = 1 .. Len(s) /\ \A i \in 1 .. Len(s) : s[i] \in X
  OBVIOUS
<1>2. ASSUME NEW n \in 1 .. Len(s), it[1 .. n - 1] \in A
      PROVE  it[1 .. n] = g[<<it[1 .. n - 1], s[n]>>] /\ it[1 .. n] \in A
  <2> HIDE DEF Bad
  <2>1. n \in Nat /\ n > 0 /\ 1 .. n \in SUBSET DOMAIN s
    <3>1. n \in Nat /\ n > 0 /\ n <= Len(s)
      BY <1>1
    <3>2. \A x \in 1 .. n : x \in 1 .. Len(s)
      BY <1>1, <3>1
    <3> QED
      BY <1>1, <3>1, <3>2
  <2>2. 1 .. n # {} /\ (1 .. n) \ {n} = 1 .. n - 1 /\ MaxOf(1 .. n) = n
    BY <2>1, Segment
  <2>3. it[1 .. n] = g[<<it[1 .. n - 1], s[n]>>]
    BY <1>2, <2>1, <2>2 DEF Follows
  <2> QED
    BY <1>1, <1>2, <2>3
<1>3. Bad = {}
  <2> SUFFICES ASSUME Bad # {} PROVE FALSE
    OBVIOUS
  <2>1. PICK n \in Bad : \A m \in Bad : n <= m
    <3>1. Bad \in SUBSET Nat
      BY <1>1
    <3> QED
      BY <3>1, LeastNat
  <2>2. n # 0
    <3>1. 1 .. 0 = {}
      OBVIOUS
    <3> QED
      BY <2>1, <3>1 DEF Follows
  <2>3. n \in 1 .. Len(s) /\ n - 1 \in 0 .. Len(s) /\ n - 1 < n
    BY <1>1, <2>1, <2>2
  <2>4. it[1 .. n - 1] \in A
    <3>1. n - 1 \notin Bad
      <4> HIDE DEF Bad
      <4> QED
        BY <2>1, <2>3
    <3> QED
      BY <2>3, <3>1
  <2> QED
    BY <1>2, <2>1, <2>3, <2>4
<1> SUFFICES ASSUME NEW n \in 0 .. Len(s)
             PROVE  /\ it[1 .. n] \in A
                    /\ n > 0 => it[1 .. n] = g[<<it[1 .. n - 1], s[n]>>]
  BY DEF Steps
<1>4. it[1 .. n] \in A
  BY <1>3
<1>5. ASSUME n > 0 PROVE it[1 .. n] = g[<<it[1 .. n - 1], s[n]>>]
  <2>1. n \in 1 .. Len(s) /\ n - 1 \in 0 .. Len(s)
    BY <1>1, <1>5
  <2>2. it[1 .. n - 1] \in A
    BY <1>3, <2>1
  <2> QED
    BY <1>2, <2>1, <2>2
<1> QED
  BY <1>4, <1>5

---------------------------------------------------------------------------
(* The audio buffer.                                                          *)

(* What the assumptions say of the audio buffer.                              *)
LEMMA AudioFact ==
  /\ Formats \subseteq Nat \X Nat /\ Chunks \subseteq Seq(Samples)
  /\ NFft \in Nat /\ NFft > 0 /\ Hop \in Nat /\ Hop > 0
  BY DriversAssumption DEF Audio!AudioAssumption

(* What the window keeps of all samples: the newest, as many as fit.          *)
Keep(u) == IF Len(u) <= capacity THEN u ELSE Audio!Window!Newest(u, capacity)

(* It keeps them in order, the newest last.                                   *)
LEMMA KeepIs ==
  ASSUME NEW u \in Seq(Samples), capacity \in Nat
  PROVE  /\ Keep(u) \in Seq(Samples)
         /\ Len(Keep(u)) = IF Len(u) <= capacity THEN Len(u) ELSE capacity
         /\ \A i \in 1 .. Len(Keep(u)) : Keep(u)[i] = u[i + (Len(u) - Len(Keep(u)))]
<1>1. CASE Len(u) <= capacity
  <2>1. Keep(u) = u /\ Len(u) \in Nat
    BY <1>1 DEF Keep
  <2> QED
    BY <1>1, <2>1
<1>2. CASE ~ (Len(u) <= capacity)
  <2> DEFINE m == Len(u) - capacity + 1
             k == SubSeq(u, m, Len(u))
  <2>1. m \in Int /\ Len(u) \in Nat /\ m >= 1 /\ m <= Len(u) + 1
    BY <1>2
  <2>2. \A i \in m .. Len(u) : u[i] \in Samples
    BY <2>1
  <2>3. Keep(u) = k
    BY <1>2 DEF Keep, Audio!Window!Newest
  <2>4. /\ k \in Seq(Samples)
        /\ Len(k) = IF m <= Len(u) THEN Len(u) - m + 1 ELSE 0
        /\ \A i \in 1 .. Len(u) - m + 1 : k[i] = u[m + i - 1]
    <3> HIDE DEF m
    <3> QED
      BY <2>1, <2>2, SubSeqProperties
  <2>5. Len(k) = capacity /\ Len(u) - m + 1 = capacity
    <3> HIDE DEF k
    <3> QED
      BY <2>1, <2>4
  <2> HIDE DEF k
  <2>6. \A i \in 1 .. capacity : k[i] = u[i + (Len(u) - capacity)]
    BY <2>1, <2>4, <2>5
  <2> QED
    BY <1>2, <2>3, <2>4, <2>5, <2>6
<1> QED
  BY <1>1, <1>2

(* One more sample.                                                           *)
LEMMA PushOneKeeps ==
  ASSUME NEW u \in Seq(Samples), NEW x \in Samples, capacity \in Nat, capacity > 0
  PROVE  Audio!PushOne(Keep(u), x) = Keep(Append(u, x))
<1> DEFINE w == Keep(u)
           v == Append(u, x)
           n == Len(u)
           l == Keep(v)
           r == Audio!PushOne(w, x)
<1>1. /\ w \in Seq(Samples) /\ n \in Nat
      /\ Len(w) = IF n <= capacity THEN n ELSE capacity
      /\ \A i \in 1 .. Len(w) : w[i] = u[i + (n - Len(w))]
  BY KeepIs
<1>2. /\ v \in Seq(Samples) /\ Len(v) = n + 1 /\ v[n + 1] = x
      /\ \A i \in 1 .. n : v[i] = u[i]
  OBVIOUS
<1>3. /\ l \in Seq(Samples)
      /\ Len(l) = IF n + 1 <= capacity THEN n + 1 ELSE capacity
      /\ \A i \in 1 .. Len(l) : l[i] = v[i + (n + 1 - Len(l))]
  <2>1. Len(v) = n + 1 /\ v \in Seq(Samples)
    BY <1>2
  <2>2. \A z \in Seq(Samples) :
          /\ Keep(z) \in Seq(Samples)
          /\ Len(Keep(z)) = IF Len(z) <= capacity THEN Len(z) ELSE capacity
          /\ \A i \in 1 .. Len(Keep(z)) : Keep(z)[i] = z[i + (Len(z) - Len(Keep(z)))]
    BY KeepIs
  <2> HIDE DEF v
  <2>3. /\ l \in Seq(Samples)
        /\ Len(l) = IF Len(v) <= capacity THEN Len(v) ELSE capacity
        /\ \A i \in 1 .. Len(l) : l[i] = v[i + (Len(v) - Len(l))]
    BY <2>1, <2>2
  <2>4. n \in Nat /\ capacity \in Nat
    BY <1>1
  <2> HIDE DEF l, n
  <2>5. \A i \in 1 .. Len(l) : l[i] = v[i + (n + 1 - Len(l))]
    BY <2>1, <2>3, <2>4
  <2> QED
    BY <2>1, <2>3, <2>5
<1>4. CASE n < capacity
  <2>1. r = Append(w, x) /\ Len(w) = n
    BY <1>1, <1>4 DEF Audio!PushOne
  <2>2. w = u /\ l = v
    <3> HIDE DEF v
    <3> QED
      BY <1>2, <1>4 DEF Keep
  <2> QED
    BY <2>1, <2>2
<1>5. CASE n >= capacity
  <2> HIDE DEF w, v, l
  <2>1. Len(w) = capacity /\ Len(l) = capacity /\ w # <<>>
    BY <1>1, <1>3, <1>5
  <2>2. r = Append(Tail(w), x)
    BY <2>1 DEF Audio!PushOne
  <2>3. /\ Tail(w) \in Seq(Samples) /\ Len(Tail(w)) = capacity - 1
        /\ \A i \in 1 .. capacity - 1 : Tail(w)[i] = w[i + 1]
    BY <1>1, <2>1, HeadTailProperties
  <2>4. /\ r \in Seq(Samples) /\ Len(r) = capacity
        /\ \A i \in 1 .. capacity - 1 : r[i] = w[i + 1]
        /\ r[capacity] = x
    <3> DEFINE q == Tail(w)
    <3> HIDE DEF q, r
    <3> QED
      BY <2>2, <2>3 DEF q
  <2>5. \A i \in 1 .. capacity - 1 : w[i + 1] = u[i + (n + 1 - capacity)]
    <3> SUFFICES ASSUME NEW i \in 1 .. capacity - 1
                 PROVE  w[i + 1] = u[i + (n + 1 - capacity)]
      OBVIOUS
    <3> HIDE DEF n
    <3>1. i + 1 \in 1 .. Len(w) /\ (i + 1) + (n - Len(w)) = i + (n + 1 - capacity)
      BY <1>1, <2>1
    <3> QED
      BY <1>1, <3>1
  <2>6. \A i \in 1 .. capacity - 1 : l[i] = u[i + (n + 1 - capacity)]
    <3> SUFFICES ASSUME NEW i \in 1 .. capacity - 1
                 PROVE  l[i] = u[i + (n + 1 - capacity)]
      OBVIOUS
    <3>1. i \in 1 .. Len(l) /\ i + (n + 1 - capacity) \in 1 .. n
      BY <1>1, <1>5, <2>1
    <3> QED
      BY <1>2, <1>3, <2>1, <3>1
  <2>7. l[capacity] = x
    <3>1. capacity \in 1 .. Len(l) /\ capacity + (n + 1 - capacity) = n + 1
      BY <1>1, <2>1
    <3> QED
      BY <1>2, <1>3, <2>1, <3>1
  <2>8. \A i \in 1 .. capacity : r[i] = l[i]
    <3> HIDE DEF r
    <3>1. \A i \in 1 .. capacity - 1 : r[i] = l[i]
      BY <2>4, <2>5, <2>6
    <3>2. \A i \in 1 .. capacity : i = capacity \/ i \in 1 .. capacity - 1
      OBVIOUS
    <3> QED
      BY <2>4, <2>7, <3>1, <3>2
  <2> HIDE DEF r
  <2>9. r = l
    BY <1>3, <2>1, <2>4, <2>8, SeqEqual
  <2> QED
    BY <2>9 DEF r, l, w, v
<1> QED
  BY <1>1, <1>4, <1>5

(* The recursion of the fold over a slice has a solution.                     *)
LEMMA PushFold ==
  ASSUME capacity \in Nat, capacity > 0, NEW b \in Seq(Samples), Len(b) <= capacity,
         NEW s \in Seq(Samples)
  PROVE  \E f : f = [t \in SUBSET DOMAIN s |->
                      IF t = {} THEN b
                      ELSE Audio!PushOne(f[t \ {Audio!Max(t)}], s[Audio!Max(t)])]
<1> DEFINE A == {w \in Seq(Samples) : Len(w) <= capacity}
           g == [p \in A \X Samples |-> Audio!PushOne(p[1], p[2])]
<1>1. Len(s) \in Nat /\ DOMAIN s = 1 .. Len(s) /\ \A i \in 1 .. Len(s) : s[i] \in Samples
  OBVIOUS
<1>2. \A t : Audio!Max(t) = MaxOf(t)
  BY DEF Audio!Max, MaxOf
<1>3. ASSUME NEW w \in A, NEW x \in Samples PROVE Audio!PushOne(w, x) \in A
  <2>1. Keep(w) = w
    BY DEF Keep
  <2> DEFINE z == Append(w, x)
  <2>2. z \in Seq(Samples) /\ Len(z) \in Nat
    OBVIOUS
  <2> HIDE DEF z
  <2>3. /\ Keep(z) \in Seq(Samples)
        /\ Len(Keep(z)) = IF Len(z) <= capacity THEN Len(z) ELSE capacity
    BY <2>2, KeepIs
  <2>4. Audio!PushOne(w, x) = Keep(z)
    BY <2>1, PushOneKeeps DEF z
  <2> QED
    BY <2>2, <2>3, <2>4
<1>4. g \in [A \X Samples -> A]
  BY <1>3
<1>5. \A w \in A : \A x \in Samples : g[<<w, x>>] = Audio!PushOne(w, x)
  OBVIOUS
<1>6. b \in A
  OBVIOUS
<1> HIDE DEF A, g
<1>7. PICK f \in [SUBSET DOMAIN s -> A] :
        \A t \in SUBSET DOMAIN s :
          f[t] = IF t = {} THEN b ELSE g[<<f[t \ {MaxOf(t)}], s[MaxOf(t)]>>]
  <2>1. \E f \in [SUBSET DOMAIN s -> A] : Solves(f, g, b, s)
    BY <1>4, <1>6, FoldExists
  <2> QED
    BY <2>1 DEF Solves
<1>8. ASSUME NEW t \in SUBSET DOMAIN s, t # {}
      PROVE  f[t] = Audio!PushOne(f[t \ {Audio!Max(t)}], s[Audio!Max(t)])
  <2>1. MaxOf(t) \in t
    BY <1>1, <1>8, MaxFact
  <2>2. s[MaxOf(t)] \in Samples /\ f[t \ {MaxOf(t)}] \in A
    BY <1>1, <2>1
  <2> QED
    BY <1>2, <1>5, <1>7, <1>8, <2>2
<1>9. f[{}] = b
  BY <1>7
<1>10. f = [t \in SUBSET DOMAIN s |->
              IF t = {} THEN b
              ELSE Audio!PushOne(f[t \ {Audio!Max(t)}], s[Audio!Max(t)])]
  BY <1>8, <1>9
<1> QED
  BY <1>10

(* Appending one sample at a time comes to appending them all.                *)
LEMMA ConcatNext ==
  ASSUME NEW S, NEW b \in Seq(S), NEW s \in Seq(S), NEW n \in 1 .. Len(s)
  PROVE  /\ b \o SubSeq(s, 1, n - 1) \in Seq(S)
         /\ b \o SubSeq(s, 1, n) = Append(b \o SubSeq(s, 1, n - 1), s[n])
<1> DEFINE q(m) == SubSeq(s, 1, m)
           u(m) == b \o q(m)
           v == Append(u(n - 1), s[n])
<1>1. Len(b) \in Nat /\ Len(s) \in Nat /\ n - 1 \in 0 .. Len(s) /\ n \in 0 .. Len(s)
      /\ s[n] \in S
  OBVIOUS
<1>2. ASSUME NEW m \in 0 .. Len(s)
      PROVE  /\ u(m) \in Seq(S) /\ Len(u(m)) = Len(b) + m
             /\ \A i \in 1 .. Len(b) + m : u(m)[i] = IF i <= Len(b) THEN b[i]
                                                                   ELSE s[i - Len(b)]
  <2>1. /\ q(m) \in Seq(S) /\ Len(q(m)) = m /\ \A i \in 1 .. m : q(m)[i] = s[i]
    OBVIOUS
  <2> HIDE DEF q
  <2> QED
    BY <1>1, <2>1
<1> HIDE DEF u
<1>3. /\ v \in Seq(S) /\ Len(v) = Len(b) + n /\ v[Len(b) + n] = s[n]
      /\ \A i \in 1 .. Len(b) + n - 1 : v[i] = u(n - 1)[i]
  BY <1>1, <1>2
<1> HIDE DEF v
<1>4. \A i \in 1 .. Len(b) + n : v[i] = u(n)[i]
  <2> SUFFICES ASSUME NEW i \in 1 .. Len(b) + n PROVE v[i] = u(n)[i]
    OBVIOUS
  <2>1. CASE i = Len(b) + n
    <3>1. i - Len(b) = n /\ ~ (i <= Len(b))
      BY <1>1, <2>1
    <3> QED
      BY <1>1, <1>2, <1>3, <2>1, <3>1
  <2>2. CASE i # Len(b) + n
    <3>1. i \in 1 .. Len(b) + (n - 1) /\ i \in 1 .. Len(b) + n - 1
      BY <1>1, <2>2
    <3> QED
      BY <1>1, <1>2, <1>3, <3>1
  <2> QED
    BY <2>1, <2>2
<1>5. u(n) = v
  BY <1>1, <1>2, <1>3, <1>4, SeqEqual
<1> QED
  BY <1>1, <1>2, <1>5 DEF u, v

(* A slice pushed sample by sample leaves what the window keeps of all.       *)
LEMMA FoldKeep ==
  ASSUME capacity \in Nat, NEW b \in Seq(Samples), Len(b) <= capacity,
         NEW s \in Seq(Samples), s = <<>> \/ capacity > 0
  PROVE  Audio!FoldLeft(Audio!PushOne, b, s) = Keep(b \o s)
<1> DEFINE Law(f) == f = [t \in SUBSET DOMAIN s |->
                            IF t = {} THEN b
                            ELSE Audio!PushOne(f[t \ {Audio!Max(t)}], s[Audio!Max(t)])]
           it == CHOOSE f : Law(f)
           u(n) == b \o SubSeq(s, 1, n)
           Bad == {n \in 0 .. Len(s) : it[1 .. n] # Keep(u(n))}
<1>1. Len(s) \in Nat /\ DOMAIN s = 1 .. Len(s) /\ \A i \in 1 .. Len(s) : s[i] \in Samples
  OBVIOUS
<1>2. \A t : Audio!Max(t) = MaxOf(t)
  BY DEF Audio!Max, MaxOf
<1>3. Keep(b) = b
  BY DEF Keep
<1>4. \E f : Law(f)
  <2>1. CASE s = <<>>
    <3> DEFINE f == [t \in SUBSET DOMAIN s |-> b]
    <3>1. SUBSET DOMAIN s = {{}}
      BY <2>1
    <3>2. Law(f)
      BY <3>1, Zenon
    <3> QED
      BY <3>2
  <2>2. CASE capacity > 0
    BY <2>2, PushFold
  <2> QED
    BY <2>1, <2>2
<1>5. Law(it)
  BY <1>4
<1>6. Audio!FoldLeft(Audio!PushOne, b, s) = it[DOMAIN s]
  BY DEF Audio!FoldLeft, Audio!MapThenFoldSet
<1> HIDE DEF it
<1>7. it[{}] = b
  BY <1>5
<1>8. ASSUME NEW n \in 1 .. Len(s)
      PROVE  it[1 .. n] = Audio!PushOne(it[1 .. n - 1], s[n])
  <2> HIDE DEF Law, u, Bad
  <2>1. 1 .. n \in SUBSET (1 .. Len(s)) /\ 1 .. n # {} /\ (1 .. n) \ {n} = 1 .. n - 1
        /\ n \in Nat
    <3>1. n \in Nat /\ n > 0 /\ n <= Len(s)
      BY <1>1
    <3>2. \A x \in 1 .. n : x \in 1 .. Len(s)
      BY <1>1, <3>1
    <3> QED
      BY <3>1, <3>2, Segment
  <2>2. MaxOf(1 .. n) = n
    <3>1. n > 0
      BY <1>1
    <3> QED
      BY <2>1, <3>1, Segment
  <2> QED
    BY <1>1, <1>2, <1>5, <2>1, <2>2 DEF Law
<1>9. Bad = {}
  <2> SUFFICES ASSUME Bad # {} PROVE FALSE
    OBVIOUS
  <2>1. PICK n \in Bad : \A m \in Bad : n <= m
    <3>1. Bad \in SUBSET Nat
      BY <1>1
    <3> QED
      BY <3>1, LeastNat
  <2>2. n # 0
    <3>1. u(0) = b /\ 1 .. 0 = {}
      <4>1. SubSeq(s, 1, 0) = <<>>
        BY SubSeqEmpty
      <4> QED
        BY <4>1, ConcatEmptySeq
    <3> QED
      BY <1>3, <1>7, <2>1, <3>1
  <2>3. n \in 1 .. Len(s) /\ n - 1 \in 0 .. Len(s) /\ n - 1 < n
    BY <1>1, <2>1, <2>2
  <2>4. it[1 .. n - 1] = Keep(u(n - 1))
    <3>1. n - 1 \notin Bad
      <4> HIDE DEF Bad
      <4> QED
        BY <2>1, <2>3
    <3> HIDE DEF u
    <3> QED
      BY <2>3, <3>1
  <2>5. u(n) = Append(u(n - 1), s[n]) /\ u(n - 1) \in Seq(Samples)
    BY <2>3, ConcatNext
  <2>6. it[1 .. n] = Keep(u(n))
    <3>1. s[n] \in Samples /\ capacity > 0
      <4>1. s # <<>>
        BY <1>1, <2>3
      <4> QED
        BY <1>1, <2>3, <4>1
    <3> HIDE DEF u
    <3> QED
      BY <1>8, <2>3, <2>4, <2>5, <3>1, PushOneKeeps
  <2> QED
    BY <2>1, <2>6
<1>10. it[1 .. Len(s)] = Keep(u(Len(s)))
  <2> HIDE DEF u
  <2> QED
    BY <1>1, <1>9
<1>11. u(Len(s)) = b \o s
  BY SubSeqFull
<1> QED
  BY <1>1, <1>6, <1>10, <1>11

(* The types and what a transcription counted.                                *)
AudioInv == Audio!TypeOK /\ Audio!FramesFitTheWindow

(* How many frames fit.                                                       *)
LEMMA FramesFit ==
  ASSUME NEW n \in Nat, NEW l \in Nat, l > 0, NEW h \in Nat, h > 0, n >= l,
         NEW c, c = (n - l) \div h + 1
  PROVE  c \in 0 .. n /\ (c - 1) * h + l <= n /\ ~ (((c + 1) - 1) * h + l <= n)
<1>1. PICK q \in Nat, r \in 0 .. h - 1 : n - l = q * h + r /\ q = (n - l) \div h
  <2>1. n - l \in Nat
    OBVIOUS
  <2> QED
    BY <2>1, SMTT(30)
<1>2. q <= q * h /\ q * h \in Nat /\ (q + 1) * h = q * h + h
  <2>1. PICK k \in Nat : h = k + 1
    BY <1>1
  <2>2. q * h = q * k + q /\ q * k \in Nat
    BY <1>1, <2>1
  <2> QED
    BY <1>1, <2>1, <2>2
<1>3. c = q + 1
  BY <1>1
<1> QED
  BY <1>1, <1>2, <1>3

(* The window starts as an empty queue.                                       *)
LEMMA AudioInit == Audio!Init => AudioInv /\ Audio!Window!QueueInit
<1> SUFFICES ASSUME Audio!Init PROVE AudioInv /\ Audio!Window!QueueInit
  OBVIOUS
<1>1. capacity \in Nat
  <2>1. PICK f \in Formats : capacity = (f[1] * f[2]) \div 1000
    BY DEF Audio!Init, Audio!CapacityOf
  <2>2. f[1] \in Nat /\ f[2] \in Nat
    BY AudioFact
  <2>3. f[1] * f[2] \in Nat
    BY <2>2
  <2> QED
    BY <2>1, <2>3
<1>2. frames.samples = 0 /\ frames.count = 0 /\ frames = Audio!NoFrames
  BY DEF Audio!Init, Audio!NoFrames
<1>3. window = <<>> /\ window \in Seq(Samples) /\ Len(window) = 0 /\ slice = <<>>
  BY DEF Audio!Init
<1>4. ~ panicked /\ panicked \in BOOLEAN
  BY Zenon DEF Audio!Init
<1> QED
  BY <1>1, <1>2, <1>3, <1>4
     DEF AudioInv, Audio!TypeOK, Audio!FramesFitTheWindow, Audio!Window!QueueInit

(* A slice is pushed, or the push on a window of no samples panics.           *)
LEMMA AudioPush ==
  ASSUME AudioInv, NEW s \in Chunks, Audio!push(s), ~ panicked
  PROVE  AudioInv' /\ [Audio!Window!QueueNext]_(Audio!Window!queueVars)
<1>1. /\ window \in Seq(Samples) /\ Len(window) <= capacity /\ capacity \in Nat
      /\ s \in Seq(Samples)
  BY AudioFact DEF AudioInv, Audio!TypeOK
<1>2. CASE s # <<>> /\ capacity = 0
  <2>1. panicked' = TRUE /\ UNCHANGED <<window, capacity, frames, slice>>
    BY <1>2 DEF Audio!push
  <2> QED
    BY <1>2, <2>1 DEF AudioInv, Audio!TypeOK, Audio!FramesFitTheWindow, Audio!Window!queueVars
<1>3. CASE ~ (s # <<>> /\ capacity = 0)
  <2>1. /\ window' = Audio!FoldLeft(Audio!PushOne, window, s)
        /\ slice' = s /\ UNCHANGED <<capacity, panicked, frames>>
    BY <1>3 DEF Audio!push
  <2>2. window' = Keep(window \o s)
    BY <1>1, <1>3, <2>1, FoldKeep
  <2>3. window \o s \in Seq(Samples) /\ Len(window \o s) \in Nat
    BY <1>1
  <2>4. /\ window' \in Seq(Samples) /\ Len(window') <= capacity
    <3> DEFINE u == window \o s
    <3> HIDE DEF u
    <3>1. /\ Keep(u) \in Seq(Samples)
          /\ Len(Keep(u)) = IF Len(u) <= capacity THEN Len(u) ELSE capacity
      BY <1>1, <2>3, KeepIs DEF u
    <3> QED
      BY <1>1, <2>2, <2>3, <3>1 DEF u
  <2>5. AudioInv'
    BY <2>1, <2>4 DEF AudioInv, Audio!TypeOK, Audio!FramesFitTheWindow
  <2>6. Audio!Window!Push(s)
    BY <2>1, <2>2 DEF Audio!Window!Push, Keep
  <2> QED
    BY <2>5, <2>6 DEF Audio!Window!QueueNext
<1> QED
  BY <1>2, <1>3

(* A transcription leaves the window alone.                                   *)
LEMMA AudioTranscribe ==
  ASSUME AudioInv, Audio!transcribe, ~ panicked
  PROVE  AudioInv' /\ [Audio!Window!QueueNext]_(Audio!Window!queueVars)
<1>1. /\ window \in Seq(Samples) /\ Len(window) <= capacity /\ capacity \in Nat
      /\ Len(window) \in Nat /\ UNCHANGED <<window, capacity, slice>>
  BY DEF AudioInv, Audio!TypeOK, Audio!transcribe
<1>2. CASE Len(window) < NFft
  <2>1. panicked' = TRUE /\ UNCHANGED frames
    BY <1>2 DEF Audio!transcribe
  <2> QED
    BY <1>1, <1>2, <2>1 DEF AudioInv, Audio!TypeOK, Audio!FramesFitTheWindow, Audio!Window!queueVars
<1>3. CASE ~ (Len(window) < NFft)
  <2> DEFINE c == Audio!NFrames(Len(window))
  <2>1. frames' = [samples |-> Len(window), count |-> c] /\ UNCHANGED panicked
    BY <1>3 DEF Audio!transcribe
  <2>2. c = (Len(window) - NFft) \div Hop + 1
    BY DEF Audio!NFrames
  <2> HIDE DEF c
  <2>3. /\ c \in 0 .. Len(window)
        /\ Audio!Within(c, Len(window)) /\ ~ Audio!Within(c + 1, Len(window))
    <3> DEFINE n == Len(window)
    <3>1. n \in Nat /\ NFft \in Nat /\ NFft > 0 /\ Hop \in Nat /\ Hop > 0 /\ n >= NFft
          /\ c = (n - NFft) \div Hop + 1
      BY <1>1, <1>3, <2>2, AudioFact
    <3> HIDE DEF n
    <3>2. /\ c \in 0 .. n
          /\ (c - 1) * Hop + NFft <= n /\ ~ (((c + 1) - 1) * Hop + NFft <= n)
      BY <3>1, FramesFit
    <3> QED
      BY <3>2 DEF n, Audio!Within
  <2>4. frames'.samples = Len(window) /\ frames'.count = c
    BY <2>1
  <2>5. Audio!TypeOK'
    BY <1>1, <2>1, <2>3, <2>4 DEF AudioInv, Audio!TypeOK
  <2>6. Audio!FramesFitTheWindow'
    BY <1>1, <2>1, <2>3, <2>4 DEF AudioInv, Audio!FramesFitTheWindow, Audio!Within
  <2> QED
    BY <1>1, <2>5, <2>6 DEF AudioInv, Audio!Window!queueVars
<1> QED
  BY <1>2, <1>3

(* Every step on the window is one on the queue, or none.                     *)
LEMMA AudioStep ==
  AudioInv /\ [Audio!Next]_audioVars =>
    AudioInv' /\ [Audio!Window!QueueNext]_(Audio!Window!queueVars)
<1> SUFFICES ASSUME AudioInv, [Audio!Next]_audioVars
             PROVE  AudioInv' /\ [Audio!Window!QueueNext]_(Audio!Window!queueVars)
  OBVIOUS
<1>1. CASE Audio!clear
  <2>1. window' = <<>> /\ UNCHANGED <<capacity, panicked, frames, slice>>
    BY <1>1 DEF Audio!clear
  <2>2. window' \in Seq(Samples) /\ Len(window') = 0
    BY <2>1
  <2>3. AudioInv'
    BY <2>1, <2>2, AudioFact DEF AudioInv, Audio!TypeOK, Audio!FramesFitTheWindow
  <2> QED
    BY <2>1, <2>3 DEF Audio!Window!QueueNext, Audio!Window!Clear
<1>2. CASE UNCHANGED audioVars
  BY <1>2 DEF audioVars, AudioInv, Audio!TypeOK, Audio!FramesFitTheWindow,
              Audio!Window!queueVars
<1> QED
  BY <1>1, <1>2, AudioPush, AudioTranscribe DEF Audio!Next

---------------------------------------------------------------------------
(* The tensors.                                                               *)

(* How many elements a shape has: the product of its dimensions, from left to *)
(* right.                                                                     *)
LEMMA ElementsIs ==
  ASSUME NEW s \in Seq(Nat)
  PROVE  /\ Tens!Elements(s) \in Nat
         /\ \E f \in [0 .. Len(s) -> Nat] :
              /\ f[0] = 1 /\ Tens!Elements(s) = f[Len(s)]
              /\ \A n \in 1 .. Len(s) : f[n] = f[n - 1] * s[n]
<1> DEFINE g == [p \in Nat \X Nat |-> p[1] * p[2]]
           Law(h) == h = [t \in SUBSET DOMAIN s |->
                            IF t = {} THEN 1 ELSE h[t \ {Tens!Max(t)}] * s[Tens!Max(t)]]
           it == CHOOSE h : Law(h)
           f == [n \in 0 .. Len(s) |-> it[1 .. n]]
<1>1. Len(s) \in Nat /\ DOMAIN s = 1 .. Len(s) /\ \A i \in 1 .. Len(s) : s[i] \in Nat
  OBVIOUS
<1>2. /\ \A t : Tens!Max(t) = MaxOf(t)
      /\ \A t \in SUBSET DOMAIN s : t # {} => MaxOf(t) \in DOMAIN s
  <2>1. \A t : Tens!Max(t) = MaxOf(t)
    BY DEF Tens!Max, MaxOf
  <2>2. ASSUME NEW t \in SUBSET (1 .. Len(s)), t # {} PROVE MaxOf(t) \in 1 .. Len(s)
    BY <1>1, <2>2, MaxFact
  <2> QED
    BY <1>1, <2>1, <2>2
<1>3. /\ g \in [Nat \X Nat -> Nat] /\ 1 \in Nat
      /\ \A x, y \in Nat : g[<<x, y>>] = x * y
  OBVIOUS
<1> HIDE DEF g
<1>4. \E h : Law(h)
  <2>1. PICK h \in [SUBSET DOMAIN s -> Nat] : Solves(h, g, 1, s)
    BY <1>3, FoldExists
  <2>2. ASSUME NEW t \in SUBSET DOMAIN s
        PROVE  h[t] = IF t = {} THEN 1 ELSE h[t \ {Tens!Max(t)}] * s[Tens!Max(t)]
    <3>1. h[t \ {MaxOf(t)}] \in Nat /\ (t # {} => s[MaxOf(t)] \in Nat)
      BY <1>1, <1>2
    <3> QED
      BY <1>2, <1>3, <2>1, <3>1 DEF Solves
  <2>3. h = [t \in SUBSET DOMAIN s |->
               IF t = {} THEN 1 ELSE h[t \ {Tens!Max(t)}] * s[Tens!Max(t)]]
    BY <2>2
  <2> QED
    BY <2>3
<1>5. Law(it)
  BY <1>4
<1>6. Tens!Elements(s) = it[DOMAIN s]
  BY DEF Tens!Elements, Tens!FoldLeft, Tens!MapThenFoldSet
<1> HIDE DEF it
<1>7. /\ it[{}] = 1
      /\ \A t \in SUBSET DOMAIN s :
           t # {} /\ it[t \ {MaxOf(t)}] \in Nat =>
             it[t] = g[<<it[t \ {MaxOf(t)}], s[MaxOf(t)]>>]
  BY <1>1, <1>2, <1>3, <1>5
<1>8. \A n \in 0 .. Len(s) :
        /\ it[1 .. n] \in Nat
        /\ n > 0 => it[1 .. n] = g[<<it[1 .. n - 1], s[n]>>]
  <2>1. Follows(it, Nat, g, 1, s)
    BY <1>7 DEF Follows
  <2>2. Steps(it, Nat, g, s)
    BY <1>3, <2>1, FoldStays
  <2> QED
    BY <2>2 DEF Steps
<1>9. f \in [0 .. Len(s) -> Nat]
  BY <1>8
<1>10. f[0] = 1 /\ Tens!Elements(s) = f[Len(s)]
  <2>1. 1 .. 0 = {} /\ 0 \in 0 .. Len(s) /\ Len(s) \in 0 .. Len(s)
    BY <1>1
  <2> QED
    BY <1>1, <1>6, <1>7, <2>1
<1>11. ASSUME NEW n \in 1 .. Len(s) PROVE f[n] = f[n - 1] * s[n]
  <2>1. n \in 0 .. Len(s) /\ n - 1 \in 0 .. Len(s) /\ n > 0
    BY <1>1
  <2> QED
    BY <1>1, <1>3, <1>8, <2>1
<1> HIDE DEF f
<1>12. Tens!Elements(s) \in Nat
  BY <1>1, <1>9, <1>10
<1> QED
  BY <1>9, <1>10, <1>11, <1>12

(* The sum of integers is one.                                                *)
LEMMA SumIs ==
  ASSUME NEW s \in Seq(Int)
  PROVE  Tens!Sum(s) \in Int
<1> DEFINE g == [p \in Int \X Int |-> p[1] + p[2]]
           Law(h) == h = [t \in SUBSET DOMAIN s |->
                            IF t = {} THEN 0 ELSE h[t \ {Tens!Max(t)}] + s[Tens!Max(t)]]
           it == CHOOSE h : Law(h)
<1>1. Len(s) \in Nat /\ DOMAIN s = 1 .. Len(s) /\ \A i \in 1 .. Len(s) : s[i] \in Int
  OBVIOUS
<1>2. /\ \A t : Tens!Max(t) = MaxOf(t)
      /\ \A t \in SUBSET DOMAIN s : t # {} => MaxOf(t) \in DOMAIN s
  <2>1. \A t : Tens!Max(t) = MaxOf(t)
    BY DEF Tens!Max, MaxOf
  <2>2. ASSUME NEW t \in SUBSET (1 .. Len(s)), t # {} PROVE MaxOf(t) \in 1 .. Len(s)
    BY <1>1, <2>2, MaxFact
  <2> QED
    BY <1>1, <2>1, <2>2
<1>3. /\ g \in [Int \X Int -> Int] /\ 0 \in Int
      /\ \A x, y \in Int : g[<<x, y>>] = x + y
  OBVIOUS
<1> HIDE DEF g
<1>4. \E h : Law(h)
  <2>1. PICK h \in [SUBSET DOMAIN s -> Int] : Solves(h, g, 0, s)
    BY <1>3, FoldExists
  <2>2. ASSUME NEW t \in SUBSET DOMAIN s
        PROVE  h[t] = IF t = {} THEN 0 ELSE h[t \ {Tens!Max(t)}] + s[Tens!Max(t)]
    <3>1. h[t \ {MaxOf(t)}] \in Int /\ (t # {} => s[MaxOf(t)] \in Int)
      BY <1>1, <1>2
    <3> QED
      BY <1>2, <1>3, <2>1, <3>1 DEF Solves
  <2>3. h = [t \in SUBSET DOMAIN s |->
               IF t = {} THEN 0 ELSE h[t \ {Tens!Max(t)}] + s[Tens!Max(t)]]
    BY <2>2
  <2> QED
    BY <2>3
<1>5. Law(it)
  BY <1>4
<1>6. Tens!Sum(s) = it[DOMAIN s]
  BY DEF Tens!Sum, Tens!FoldLeft, Tens!MapThenFoldSet
<1> HIDE DEF it
<1>7. /\ it[{}] = 0
      /\ \A t \in SUBSET DOMAIN s :
           t # {} /\ it[t \ {MaxOf(t)}] \in Int =>
             it[t] = g[<<it[t \ {MaxOf(t)}], s[MaxOf(t)]>>]
  BY <1>1, <1>2, <1>3, <1>5
<1>8. \A n \in 0 .. Len(s) : it[1 .. n] \in Int
  <2>1. Follows(it, Int, g, 0, s)
    BY <1>7 DEF Follows
  <2>2. Steps(it, Int, g, s)
    BY <1>3, <2>1, FoldStays
  <2> QED
    BY <2>2 DEF Steps
<1>9. Len(s) \in 0 .. Len(s)
  BY <1>1
<1> QED
  BY <1>1, <1>6, <1>8, <1>9

(* A list of integers, as a function, is a sequence of them.                  *)
LEMMA IsIntegers ==
  ASSUME NEW k \in Nat, NEW w \in [1 .. k -> Int] PROVE w \in Seq(Int)
OBVIOUS

(* A vector of integers and a shape.                                          *)
IsTensor(t) == t \in [data : Seq(Int), shape : Seq(Nat)]

(* The types and the property, which is inductive.                            *)
TensorInv == IsTensor(tensor) /\ Tens!TensorsStayConsistent

(* What the assumptions say of the tensors programs start from.               *)
LEMMA TensorFact ==
  \A t \in Tensors : IsTensor(t) /\ Tens!Consistent(t)
  BY DriversAssumption DEF Tens!TensorAssumption, IsTensor

(* A matrix has rows times columns elements; where there is a last dimension, *)
(* it divides their number.                                                   *)
LEMMA ElementsOfMatrix ==
  ASSUME NEW m \in Nat, NEW n \in Nat
  PROVE  Tens!Elements(<<m, n>>) = m * n
<1>1. <<m, n>> \in Seq(Nat) /\ Len(<<m, n>>) = 2
  OBVIOUS
<1>2. PICK f \in [0 .. 2 -> Nat] :
        /\ f[0] = 1 /\ Tens!Elements(<<m, n>>) = f[2]
        /\ \A i \in 1 .. 2 : f[i] = f[i - 1] * <<m, n>>[i]
  BY <1>1, ElementsIs
<1>3. f[1] = m
  <2>1. f[1] = f[1 - 1] * <<m, n>>[1]
    BY <1>2
  <2> QED
    BY <1>2, <2>1
<1>4. f[2] = f[2 - 1] * <<m, n>>[2]
  BY <1>2
<1> QED
  BY <1>2, <1>3, <1>4

(* Where there is a last dimension, it divides the number of elements.        *)
LEMMA ElementsOfRows ==
  ASSUME NEW s \in Seq(Nat), s # <<>>
  PROVE  /\ Tens!Last(s) \in Nat
         /\ \E q \in Nat : Tens!Elements(s) = q * Tens!Last(s)
<1>1. Len(s) \in Nat /\ Len(s) >= 1 /\ s[Len(s)] \in Nat /\ Tens!Last(s) = s[Len(s)]
  BY DEF Tens!Last
<1>2. PICK f \in [0 .. Len(s) -> Nat] :
        /\ f[0] = 1 /\ Tens!Elements(s) = f[Len(s)]
        /\ \A i \in 1 .. Len(s) : f[i] = f[i - 1] * s[i]
  BY ElementsIs
<1>3. Tens!Elements(s) = f[Len(s) - 1] * s[Len(s)] /\ f[Len(s) - 1] \in Nat
  <2>1. Len(s) \in 1 .. Len(s) /\ Len(s) - 1 \in 0 .. Len(s)
    BY <1>1
  <2> QED
    BY <1>2, <2>1
<1> QED
  BY <1>1, <1>3

(* Where the elements of a row lie.                                           *)
LEMMA InRow ==
  ASSUME NEW m \in Nat, NEW n \in Nat, NEW i \in 1 .. m, NEW j \in 1 .. n
  PROVE  /\ (i - 1) * n + j \in 1 .. m * n
         /\ (((i - 1) * n + j) - 1) \div n = i - 1 /\ (((i - 1) * n + j) - 1) % n = j - 1
         /\ i * n - ((i - 1) * n + 1) + 1 = n
         /\ (i - 1) * n + 1 \in Int /\ i * n \in Int
         /\ m * n \in Nat
<1>1. PICK a \in Nat : i = a + 1 /\ a < m
  <2>1. i - 1 \in Nat /\ i = (i - 1) + 1 /\ i - 1 < m
    OBVIOUS
  <2> QED
    BY <2>1
<1>2. PICK b \in Nat : m = a + 1 + b
  <2>1. m - (a + 1) \in Nat /\ m = a + 1 + (m - (a + 1))
    BY <1>1
  <2> QED
    BY <2>1
<1>3. /\ a * n \in Nat /\ b * n \in Nat /\ i * n = a * n + n /\ m * n = a * n + n + b * n
  BY <1>1, <1>2
<1>4. (a * n + (j - 1)) \div n = a /\ (a * n + (j - 1)) % n = j - 1
  <2>1. n > 0 /\ j - 1 \in 0 .. n - 1
    OBVIOUS
  <2> QED
    BY <2>1
<1>5. i - 1 = a /\ (i - 1) * n = a * n /\ a * n + j - 1 = a * n + (j - 1)
  BY <1>1, <1>3
<1> QED
  BY <1>3, <1>4, <1>5

(* The same, as the index that is found there.                                *)
LEMMA InRowAt ==
  ASSUME NEW m \in Nat, NEW n \in Nat, NEW i \in 1 .. m, NEW j \in 1 .. n
  PROVE  \E x \in 1 .. m * n :
           /\ x = (i - 1) * n + j
           /\ (x - 1) \div n = i - 1 /\ (x - 1) % n = j - 1
<1>1. (i - 1) * n + j \in 1 .. m * n
  BY InRow
<1> WITNESS (i - 1) * n + j \in 1 .. m * n
<1>2. (((i - 1) * n + j) - 1) \div n = i - 1 /\ (((i - 1) * n + j) - 1) % n = j - 1
  BY InRow
<1> QED
  BY Zenon, <1>2

(* An element of a row is the one matmul indexes.                             *)
LEMMA RowAt ==
  ASSUME NEW t, IsTensor(t), NEW m \in Nat, NEW n \in Nat, t.shape = <<m, n>>,
         Tens!Consistent(t), NEW i \in 1 .. m, NEW j \in 1 .. n
  PROVE  Tens!Rows(t)[i][j] = t.data[(i - 1) * n + j]
<1>1. Len(t.data) = m * n /\ t.data \in Seq(Int)
  BY ElementsOfMatrix DEF Tens!Consistent, IsTensor
<1>2. Tens!Rows(t)[i] = SubSeq(t.data, (i - 1) * n + 1, i * n)
  BY DEF Tens!Rows
<1> DEFINE lo == (i - 1) * n + 1
           hi == i * n
           d == t.data
<1>3. /\ lo \in Int /\ hi \in Int /\ hi - lo + 1 = n
      /\ (i - 1) * n + j \in 1 .. m * n /\ lo + j - 1 = (i - 1) * n + j
  <2>1. (i - 1) * n \in Int
    OBVIOUS
  <2> QED
    BY <2>1, InRow
<1>4. \A k \in lo .. hi : d[k] \in Int
  <2>0. \A k \in 1 .. m * n : d[k] \in Int
    <3> HIDE DEF lo, hi
    <3> QED
      BY <1>1
  <2>1. (i - 1) * n + 1 \in 1 .. m * n /\ (i - 1) * n + n \in 1 .. m * n
    <3>1. 1 \in 1 .. n /\ n \in 1 .. n
      OBVIOUS
    <3> QED
      BY <3>1, InRow
  <2>2. hi = (i - 1) * n + n
    <3>1. (i - 1) * n \in Int /\ i * n \in Int
      OBVIOUS
    <3> QED
      BY <1>3, <3>1
  <2>3. /\ lo \in 1 .. m * n /\ hi \in 1 .. m * n /\ m * n \in Nat
    BY <2>1, <2>2
  <2> HIDE DEF lo, hi, d
  <2>4. \A k \in lo .. hi : k \in 1 .. m * n
    BY <2>3
  <2> QED
    BY <2>0, <2>4
<1> HIDE DEF lo, hi, d
<1>5. SubSeq(d, lo, hi)[j] = d[lo + j - 1]
  BY <1>3, <1>4, SubSeqProperties
<1> QED
  BY <1>2, <1>3, <1>5 DEF lo, hi, d

(* The row and the column of an element.                                      *)
LEMMA OutOfRow ==
  ASSUME NEW m \in Nat, NEW n \in Nat, NEW x \in 1 .. m * n
  PROVE  ((x - 1) \div n) + 1 \in 1 .. m /\ ((x - 1) % n) + 1 \in 1 .. n
<1>1. n > 0
  <2>1. n = 0 => m * n = 0
    OBVIOUS
  <2>2. m * n \in Nat
    OBVIOUS
  <2> QED
    BY <2>1, <2>2
<1>2. m * n \in Nat /\ x - 1 \in Nat /\ x - 1 < m * n
  <2>1. m * n \in Nat
    OBVIOUS
  <2> QED
    BY <2>1
<1>3. (x - 1) \div n \in 0 .. m - 1 /\ (x - 1) % n \in 0 .. n - 1
  BY <1>1, <1>2, FunctionFact
<1> QED
  BY <1>3

(* matmul computes the product of the matrices, and of its shape.             *)
THEOREM ProductIs ==
  ASSUME NEW a, NEW b, IsTensor(a), IsTensor(b), Tens!Consistent(a), Tens!Consistent(b),
         Tens!Multiplies(a, b), NEW c, c = Tens!Product(a, b)
  PROVE  IsTensor(c) /\ Tens!Consistent(c) /\ Tens!IsProduct(c, a, b)
<1> DEFINE m == a.shape[1]
           k == a.shape[2]
           n == b.shape[2]
           Terms(i, j) == [p \in 1 .. k |-> a.data[i * k + p] * b.data[(p - 1) * n + j + 1]]
<1>1. /\ m \in Nat /\ k \in Nat /\ n \in Nat /\ a.shape = <<m, k>> /\ b.shape = <<k, n>>
  BY DEF IsTensor, Tens!Multiplies
<1>2. /\ a.data \in Seq(Int) /\ Len(a.data) = m * k
      /\ b.data \in Seq(Int) /\ Len(b.data) = k * n
  BY <1>1, ElementsOfMatrix DEF Tens!Consistent, IsTensor
<1>3. c.shape = <<m, n>> /\ c = [data |-> c.data, shape |-> c.shape]
      /\ c.data = [x \in 1 .. m * n |-> Tens!Sum(Terms((x - 1) \div n, (x - 1) % n))]
  <2>1. Tens!zeros(<<m, n>>) = [data |-> [x \in 1 .. m * n |-> 0], shape |-> <<m, n>>]
    BY <1>1, ElementsOfMatrix DEF Tens!zeros
  <2>2. c = [Tens!zeros(<<m, n>>) EXCEPT !.data =
               [x \in DOMAIN @ |-> Tens!Sum(Terms((x - 1) \div n, (x - 1) % n))]]
    BY DEF Tens!Product
  <2> HIDE DEF Terms
  <2> QED
    BY <2>1, <2>2
<1> HIDE DEF m, k, n
<1>4. ASSUME NEW i \in 1 .. m, NEW j \in 1 .. n PROVE Tens!Sum(Terms(i - 1, j - 1)) \in Int
  <2>1. ASSUME NEW p \in 1 .. k
        PROVE  a.data[(i - 1) * k + p] * b.data[(p - 1) * n + (j - 1) + 1] \in Int
    <3>1. (i - 1) * k + p \in 1 .. m * k
      BY <1>1, InRow
    <3>2. (p - 1) * n + j \in 1 .. k * n
      BY <1>1, InRow
    <3>3. (p - 1) * n + (j - 1) + 1 = (p - 1) * n + j
      <4>1. (p - 1) * n \in Int
        BY <1>1
      <4> QED
        BY <4>1
    <3>4. a.data[(i - 1) * k + p] \in Int /\ b.data[(p - 1) * n + j] \in Int
      BY <1>2, <3>1, <3>2
    <3> QED
      BY <3>3, <3>4
  <2>2. Terms(i - 1, j - 1) \in [1 .. k -> Int]
    BY <2>1
  <2> DEFINE w == Terms(i - 1, j - 1)
  <2>3. w \in [1 .. k -> Int]
    BY <2>2
  <2> HIDE DEF w
  <2>4. w \in Seq(Int)
    <3>1. k \in Nat
      BY <1>1
    <3> QED
      BY <2>3, <3>1, IsIntegers
  <2>5. Tens!Sum(w) \in Int
    BY <2>4, SumIs
  <2> QED
    BY <2>5 DEF w
<1>5. /\ c.data \in Seq(Int) /\ Len(c.data) = m * n
  <2>1. ASSUME NEW x \in 1 .. m * n
        PROVE  Tens!Sum(Terms((x - 1) \div n, (x - 1) % n)) \in Int
    <3> DEFINE i == ((x - 1) \div n) + 1
               j == ((x - 1) % n) + 1
    <3>1. i \in 1 .. m /\ j \in 1 .. n
      BY <1>1, OutOfRow
    <3>2. i - 1 = (x - 1) \div n /\ j - 1 = (x - 1) % n
      <4>1. n # 0
        BY <3>1
      <4>2. (x - 1) \div n \in Int /\ (x - 1) % n \in Int
        BY <1>1, <4>1
      <4> QED
        BY <4>2
    <3> HIDE DEF i, j, Terms
    <3> QED
      BY <1>4, <3>1, <3>2
  <2>2. m * n \in Nat
    BY <1>1
  <2> HIDE DEF Terms
  <2>3. c.data \in [1 .. m * n -> Int]
    BY <1>3, <2>1
  <2> QED
    BY <2>2, <2>3
<1>6. IsTensor(c)
  <2> HIDE DEF Terms
  <2>1. <<m, n>> \in Seq(Nat)
    BY <1>1
  <2>2. c.shape \in Seq(Nat)
    BY <1>3, <2>1
  <2>3. c = [data |-> c.data, shape |-> c.shape]
    BY <1>3
  <2> QED
    BY <1>5, <2>2, <2>3 DEF IsTensor
<1>7. Tens!Consistent(c)
  BY <1>1, <1>3, <1>5, ElementsOfMatrix DEF Tens!Consistent
<1>8. ASSUME NEW i \in 1 .. m, NEW j \in 1 .. n
      PROVE  Tens!Rows(c)[i][j]
               = Tens!Sum([p \in 1 .. k |-> Tens!Rows(a)[i][p] * Tens!Rows(b)[p][j]])
  <2>1. Tens!Rows(c)[i][j] = c.data[(i - 1) * n + j]
    <3>1. m \in Nat /\ n \in Nat /\ c.shape = <<m, n>>
      BY <1>1, <1>3
    <3> QED
      BY <3>1, <1>6, <1>7, RowAt
  <2>3. c.data[(i - 1) * n + j] = Tens!Sum(Terms(i - 1, j - 1))
    <3> PICK x \in 1 .. m * n :
          /\ x = (i - 1) * n + j
          /\ (x - 1) \div n = i - 1 /\ (x - 1) % n = j - 1
      BY <1>1, InRowAt
    <3>1. c.data = [y \in 1 .. m * n |-> Tens!Sum(Terms((y - 1) \div n, (y - 1) % n))]
      BY <1>3
    <3> HIDE DEF Terms
    <3>3. c.data[x] = Tens!Sum(Terms((x - 1) \div n, (x - 1) % n))
      BY <3>1
    <3>4. c.data[x] = Tens!Sum(Terms(i - 1, j - 1))
      BY <3>3
    <3> QED
      BY <3>4
  <2>4. ASSUME NEW p \in 1 .. k
        PROVE  a.data[(i - 1) * k + p] * b.data[(p - 1) * n + (j - 1) + 1]
                 = Tens!Rows(a)[i][p] * Tens!Rows(b)[p][j]
    <3>1. Tens!Rows(a)[i][p] = a.data[(i - 1) * k + p]
      BY <1>1, RowAt
    <3>2. Tens!Rows(b)[p][j] = b.data[(p - 1) * n + j]
      BY <1>1, RowAt
    <3>3. (p - 1) * n + (j - 1) + 1 = (p - 1) * n + j
      <4>1. (p - 1) * n \in Int
        BY <1>1
      <4> QED
        BY <4>1
    <3> QED
      BY <3>1, <3>2, <3>3
  <2>5. Terms(i - 1, j - 1) = [p \in 1 .. k |-> Tens!Rows(a)[i][p] * Tens!Rows(b)[p][j]]
    BY <2>4
  <2> QED
    BY <2>1, <2>3, <2>5
<1>9. Tens!IsProduct(c, a, b)
  <2>1. c.shape = <<a.shape[1], b.shape[2]>> /\ c.shape[1] = m /\ c.shape[2] = n
    BY <1>3 DEF m, n
  <2> QED
    BY <1>8, <2>1 DEF Tens!IsProduct, m, n, k
<1> QED
  BY <1>6, <1>7, <1>9

(* What division with a remainder is.                                         *)
LEMMA DivBounds ==
  ASSUME NEW y \in Nat, NEW n \in Nat, n > 0
  PROVE  y \div n \in Nat /\ (y \div n) * n <= y /\ y < (y \div n) * n + n
         /\ (y \div n) * n \in Nat
OBVIOUS

(* A number lies in one row only.                                             *)
LEMMA OneRow ==
  ASSUME NEW n \in Nat, n > 0, NEW r \in Nat, NEW y \in Nat,
         r * n <= y, y < r * n + n, NEW h \in Nat
  PROVE  (h * n <= y /\ y < h * n + n) <=> h = r
<1>1. CASE h < r
  <2>1. PICK d \in Nat : r = h + 1 + d
    <3>1. r - (h + 1) \in Nat /\ r = h + 1 + (r - (h + 1))
      BY <1>1
    <3> QED
      BY <3>1
  <2>2. r * n = h * n + n + d * n /\ d * n \in Nat /\ h * n \in Nat
    BY <2>1
  <2> QED
    BY <1>1, <2>2
<1>2. CASE h > r
  <2>1. PICK d \in Nat : h = r + 1 + d
    <3>1. h - (r + 1) \in Nat /\ h = r + 1 + (h - (r + 1))
      BY <1>2
    <3> QED
      BY <3>1
  <2>2. h * n = r * n + n + d * n /\ d * n \in Nat /\ r * n \in Nat
    BY <2>1
  <2> QED
    BY <1>2, <2>2
<1> QED
  BY <1>1, <1>2

(* The groups of softmax and layer_norm are the rows of the last dimension.   *)
LEMMA RowsPartition ==
  ASSUME NEW last \in Nat, last > 0, NEW q \in Nat,
         NEW ranges, ranges = [g \in 1 .. q |-> <<(g - 1) * last + 1, g * last>>]
  PROVE  Tens!Partition(ranges, q * last)
<1>1. SUFFICES ASSUME NEW x \in 1 .. q * last
               PROVE  \E g \in 1 .. q : \A h \in 1 .. q :
                        (ranges[h][1] <= x /\ x <= ranges[h][2]) <=> h = g
  BY DEF Tens!Partition
<1> DEFINE r == (x - 1) \div last
<1>2. x - 1 \in Nat
  <2>1. q * last \in Nat
    OBVIOUS
  <2> QED
    BY <2>1
<1>3. r \in Nat /\ r * last <= x - 1 /\ x - 1 < r * last + last /\ r * last \in Nat
  <2> DEFINE y == x - 1
  <2>1. y \in Nat
    BY <1>2
  <2> HIDE DEF y
  <2>2. /\ y \div last \in Nat /\ (y \div last) * last <= y
        /\ y < (y \div last) * last + last /\ (y \div last) * last \in Nat
    BY <2>1, DivBounds
  <2> QED
    BY <2>2 DEF y
<1>4. r + 1 \in 1 .. q
  BY OutOfRow
<1> HIDE DEF r
<1>5. ASSUME NEW h \in 1 .. q
      PROVE  ((h - 1) * last + 1 <= x /\ x <= h * last) <=> h = r + 1
  <2> DEFINE y == x - 1
             l == h - 1
  <2>1. y \in Nat /\ l \in Nat /\ l * last \in Nat
    BY <1>2
  <2>2. r * last <= y /\ y < r * last + last
    BY <1>3
  <2>3. h = l + 1 /\ x = y + 1 /\ h * last = l * last + last
    BY <1>2
  <2> HIDE DEF y, l
  <2>4. (l * last <= y /\ y < l * last + last) <=> l = r
    BY <1>3, <2>1, <2>2, OneRow
  <2>5. (h - 1) * last = l * last
    BY <2>1, <2>3
  <2> QED
    BY <1>3, <2>1, <2>3, <2>4, <2>5
<1>6. ASSUME NEW h \in 1 .. q
      PROVE  ranges[h][1] = (h - 1) * last + 1 /\ ranges[h][2] = h * last
  OBVIOUS
<1>7. \A h \in 1 .. q : (ranges[h][1] <= x /\ x <= ranges[h][2]) <=> h = r + 1
  BY <1>5, <1>6
<1> QED
  BY <1>4, <1>7

(* Hence each element of a tensor is in exactly one group.                    *)
LEMMA GroupsFact ==
  ASSUME NEW t, IsTensor(t), Tens!Consistent(t), t.shape # <<>>, Tens!Last(t.shape) # 0
  PROVE  Tens!Partition(Tens!GroupsOf(t), Len(t.data))
<1> DEFINE last == Tens!Last(t.shape)
<1>1. t.shape \in Seq(Nat) /\ t.shape # <<>>
  BY DEF IsTensor
<1>2. last \in Nat /\ last > 0
  BY <1>1, ElementsOfRows
<1>3. PICK q \in Nat : Len(t.data) = q * last
  BY <1>1, ElementsOfRows DEF Tens!Consistent
<1>4. Tens!GroupsOf(t) = [g \in 1 .. Len(t.data) \div last |-> <<(g - 1) * last + 1, g * last>>]
  BY DEF Tens!GroupsOf
<1> HIDE DEF last
<1>5. (q * last) \div last = q
  BY <1>2
<1>6. Tens!GroupsOf(t) = [g \in 1 .. q |-> <<(g - 1) * last + 1, g * last>>]
  BY <1>3, <1>4, <1>5
<1> QED
  BY <1>2, <1>3, <1>6, RowsPartition

(* Tensors start consistent.                                                  *)
LEMMA TensorInit == Tens!Init => TensorInv
  BY TensorFact DEF Tens!Init, TensorInv, Tens!TensorsStayConsistent

(* A tensor that agrees with its shape, an answer that is no panic and no     *)
(* groups: the invariant holds, if a product is one.                          *)
LEMMA Computed ==
  ASSUME NEW t, IsTensor(t), Tens!Consistent(t), NEW o, operands' = o, tensor' = t,
         groups' = <<>>, result' # "panic",
         o[1] = "matmul" /\ result' = "ok" => Tens!IsProduct(t, o[2], o[3])
  PROVE  TensorInv'
<1>1. operands'[1] = "matmul" /\ result' = "ok" => Tens!IsProduct(tensor', operands'[2], operands'[3])
  OBVIOUS
<1>2. IsTensor(tensor') /\ Tens!Consistent(tensor') /\ groups' = <<>> /\ result' # "panic"
  OBVIOUS
<1> QED
  BY <1>1, <1>2 DEF TensorInv, Tens!TensorsStayConsistent, IsTensor, Tens!Consistent

(* The element by element operations.                                         *)
LEMMA ElementwiseStep ==
  ASSUME TensorInv, NEW b \in Tensors, NEW name \in {"add", "mul"},
         NEW data \in Seq(Int), tensor.shape = b.shape => Len(data) = Len(tensor.data),
         Tens!Elementwise(name, b, data)
  PROVE  TensorInv'
<1> DEFINE t == [data |-> data, shape |-> tensor.shape]
<1>1. IsTensor(tensor) /\ Tens!Consistent(tensor)
  BY DEF TensorInv, Tens!TensorsStayConsistent
<1>2. operands' = <<name, tensor, b>> /\ name # "matmul"
  BY DEF Tens!Elementwise, Tens!Calls
<1>3. CASE tensor.shape # b.shape
  <2>1. tensor' = tensor /\ result' = "error" /\ groups' = <<>>
    BY <1>3 DEF Tens!Elementwise, Tens!Refused
  <2> QED
    BY <1>1, <1>2, <2>1, Computed
<1>4. CASE tensor.shape = b.shape
  <2>1. IsTensor(t) /\ Tens!Consistent(t)
    BY <1>1, <1>4 DEF IsTensor, Tens!Consistent
  <2>2. tensor' = t /\ result' = "ok" /\ groups' = <<>>
    BY <1>4, <2>1 DEF Tens!Elementwise, Tens!Becomes
  <2> HIDE DEF t
  <2> QED
    BY <1>2, <2>1, <2>2, Computed
<1> QED
  BY <1>3, <1>4

(* Element by element over two tensors of one shape gives as many elements.   *)
LEMMA BothIs ==
  ASSUME TensorInv, NEW b \in Tensors, NEW data, DOMAIN data = Tens!Both(b),
         data = [x \in DOMAIN data |-> data[x]],
         \A x \in DOMAIN data :
           tensor.data[x] \in Int /\ b.data[x] \in Int => data[x] \in Int
  PROVE  data \in Seq(Int) /\ (tensor.shape = b.shape => Len(data) = Len(tensor.data))
<1>1. /\ tensor.data \in Seq(Int) /\ b.data \in Seq(Int)
      /\ Tens!Consistent(tensor) /\ Tens!Consistent(b)
  BY TensorFact DEF TensorInv, Tens!TensorsStayConsistent, IsTensor
<1> DEFINE k == IF Len(tensor.data) <= Len(b.data) THEN Len(tensor.data) ELSE Len(b.data)
<1>2. k \in Nat /\ Tens!Both(b) = 1 .. k
  BY <1>1 DEF Tens!Both
<1>3. \A x \in 1 .. k : tensor.data[x] \in Int /\ b.data[x] \in Int
  BY <1>1
<1>4. tensor.shape = b.shape => k = Len(tensor.data)
  BY <1>1 DEF Tens!Consistent
<1> HIDE DEF k
<1>5. data \in [1 .. k -> Int]
  BY <1>2, <1>3
<1> QED
  BY <1>2, <1>4, <1>5

(* matmul refuses matrices that do not fit, and multiplies the others.        *)
LEMMA MatmulStep ==
  ASSUME TensorInv, NEW b \in Tensors, Tens!matmul(b) PROVE TensorInv'
<1>1. IsTensor(tensor) /\ Tens!Consistent(tensor) /\ IsTensor(b) /\ Tens!Consistent(b)
  BY TensorFact DEF TensorInv, Tens!TensorsStayConsistent
<1>2. operands' = <<"matmul", tensor, b>>
  BY DEF Tens!matmul, Tens!Calls
<1>3. CASE Tens!Multiplies(tensor, b)
  <2> DEFINE c == Tens!Product(tensor, b)
  <2>1. tensor' = c /\ result' = "ok" /\ groups' = <<>>
    BY <1>3 DEF Tens!matmul, Tens!Becomes
  <2>2. IsTensor(c) /\ Tens!Consistent(c) /\ Tens!IsProduct(c, tensor, b)
    BY <1>1, <1>3, ProductIs
  <2> HIDE DEF c
  <2> QED
    BY <1>2, <2>1, <2>2, Computed
<1>4. CASE ~ Tens!Multiplies(tensor, b)
  <2>1. tensor' = tensor /\ result' = "error" /\ groups' = <<>>
    BY <1>4 DEF Tens!matmul, Tens!Refused
  <2> QED
    BY <1>1, <1>2, <2>1, Computed
<1> QED
  BY <1>3, <1>4

(* relu keeps the shape.                                                      *)
LEMMA ReluStep == ASSUME TensorInv, Tens!relu PROVE TensorInv'
<1> DEFINE d == [x \in DOMAIN tensor.data |-> IF tensor.data[x] < 0 THEN 0 ELSE tensor.data[x]]
           t == [tensor EXCEPT !.data = d]
<1>1. IsTensor(tensor) /\ Tens!Consistent(tensor)
  BY DEF TensorInv, Tens!TensorsStayConsistent
<1>2. operands' = <<"relu", tensor, tensor>> /\ tensor' = t /\ result' = "ok" /\ groups' = <<>>
  BY DEF Tens!relu, Tens!Calls, Tens!Becomes
<1>3. d \in Seq(Int) /\ Len(d) = Len(tensor.data)
  BY <1>1 DEF IsTensor
<1> HIDE DEF d
<1>4. t.data = d /\ t.shape = tensor.shape /\ IsTensor(t)
  BY <1>1, <1>3 DEF IsTensor
<1>5. Tens!Consistent(t)
  BY <1>1, <1>3, <1>4 DEF Tens!Consistent
<1> HIDE DEF t
<1> QED
  BY <1>2, <1>4, <1>5, Computed

(* softmax and layer_norm panic only on a last dimension of zero.             *)
LEMMA NormalizeStep == ASSUME TensorInv, Tens!Normalize PROVE TensorInv'
<1>1. IsTensor(tensor) /\ Tens!Consistent(tensor)
  BY DEF TensorInv, Tens!TensorsStayConsistent
<1>2. operands' = <<"normalize", tensor, tensor>>
  BY DEF Tens!Normalize, Tens!Calls
<1>3. CASE tensor.shape = <<>>
  <2>1. tensor' = tensor /\ result' = "ok" /\ groups' = <<>>
    BY <1>3 DEF Tens!Normalize, Tens!Becomes
  <2> QED
    BY <1>1, <1>2, <2>1, Computed
<1>4. CASE tensor.shape # <<>> /\ Tens!Last(tensor.shape) = 0
  <2>1. result' = "panic" /\ UNCHANGED <<tensor, groups>>
    BY <1>4 DEF Tens!Normalize
  <2> QED
    BY <1>1, <1>2, <1>4, <2>1
       DEF TensorInv, Tens!TensorsStayConsistent, IsTensor, Tens!Consistent
<1>5. CASE tensor.shape # <<>> /\ Tens!Last(tensor.shape) # 0
  <2>1. tensor' = tensor /\ result' = "ok" /\ groups' = Tens!GroupsOf(tensor)
    BY <1>5 DEF Tens!Normalize
  <2>2. Tens!Partition(Tens!GroupsOf(tensor), Len(tensor.data))
    BY <1>1, <1>5, GroupsFact
  <2> QED
    BY <1>1, <1>2, <2>1, <2>2
       DEF TensorInv, Tens!TensorsStayConsistent, IsTensor, Tens!Consistent
<1> QED
  BY <1>3, <1>4, <1>5

(* No operation brings data and shape apart.                                  *)
LEMMA TensorStep == TensorInv /\ [Tens!Next]_tensVars => TensorInv'
<1> SUFFICES ASSUME TensorInv, [Tens!Next]_tensVars PROVE TensorInv'
  OBVIOUS
<1>1. ASSUME NEW b \in Tensors, Tens!add(b) PROVE TensorInv'
  <2> DEFINE data == [x \in Tens!Both(b) |-> tensor.data[x] + b.data[x]]
  <2>1. data \in Seq(Int) /\ (tensor.shape = b.shape => Len(data) = Len(tensor.data))
    BY BothIs
  <2>2. Tens!Elementwise("add", b, data)
    BY <1>1 DEF Tens!add
  <2> HIDE DEF data
  <2> QED
    BY <2>1, <2>2, ElementwiseStep
<1>2. ASSUME NEW b \in Tensors, Tens!mul(b) PROVE TensorInv'
  <2> DEFINE data == [x \in Tens!Both(b) |-> tensor.data[x] * b.data[x]]
  <2>1. data \in Seq(Int) /\ (tensor.shape = b.shape => Len(data) = Len(tensor.data))
    BY BothIs
  <2>2. Tens!Elementwise("mul", b, data)
    BY <1>2 DEF Tens!mul
  <2> HIDE DEF data
  <2> QED
    BY <2>1, <2>2, ElementwiseStep
<1>3. CASE UNCHANGED tensVars
  BY <1>3 DEF tensVars, TensorInv, Tens!TensorsStayConsistent, IsTensor, Tens!Consistent
<1> QED
  BY <1>1, <1>2, <1>3, MatmulStep, ReluStep, NormalizeStep DEF Tens!Next

---------------------------------------------------------------------------
(* PCI configuration space.                                                   *)

(* The double word a call is about.                                           *)
Target == Dev!Aligned(op.offset)

(* A well-formed access stays inside its double word.                         *)
IsOp(o) ==
  /\ o.kind \in {"none", "read", "write"} /\ o.size \in {1, 2, 4}
  /\ o.kind # "none" => o.place \in Places
  /\ o.offset \in Nat /\ Dev!Aligned(o.offset) \in Dev!Dwords
  /\ (o.offset % 4) + o.size <= 4 /\ o.value \subseteq Dev!Low(o.size)
  /\ o.sets \subseteq Dev!CommandBits
  /\ o.sets # {} => o.kind = "read" /\ o.offset = Dev!Command /\ o.size = 2

(* What a call under way still has to make of the register it is for.         *)
Merged(o, v) == Dev!Merge(v, o.value, Dev!Shift(o.offset), o.size)
Asked(o, v) ==
  LET w == Dev!Writable(Dev!Aligned(o.offset)) IN
  IF o.kind = "read" THEN v \cup o.sets ELSE (v \ w) \cup (Merged(o, v) \cap w)

UnderWay == {"select", "input", "return", "modify", "output"}
Bits == SUBSET (0 .. 31)

(* The types of an access.                                                    *)
DeviceType ==
  /\ step \in {"idle"} \cup UnderWay /\ IsOp(op)
  /\ dword \in Bits /\ value \in Bits /\ calls \in 0 .. MaxCalls
  /\ space \in [Places -> [Dev!Dwords -> Bits]]
  /\ expected \in [Places -> [Dev!Dwords -> Bits]]
  /\ pending \in [Places -> SUBSET Errors]

(* The address port selects the register of the call, the double word in hand *)
(* is that register, errors aside, and the registers are what was asked for,  *)
(* but for what the call under way has not written yet.                       *)
DeviceInv ==
  /\ DeviceType
  /\ step \in UnderWay => op.kind # "none"
  /\ step \in UnderWay \ {"select"} => latch = Dev!pci_address(op.place, op.offset)
  /\ step = "return" => op.kind = "read"
  /\ step \in {"modify", "output"} => op.kind = "write"
  /\ step \in {"return", "modify"} =>
       dword \ Errors = space[op.place][Target] \ Errors
  /\ step = "output" =>
       dword \cap Dev!Writable(Target)
         = Merged(op, space[op.place][Target]) \cap Dev!Writable(Target)
  /\ \A p \in Places, d \in Dev!Dwords :
       expected[p][d] = IF step \in UnderWay /\ p = op.place /\ d = Target
                          THEN Asked(op, space[p][d] \ Errors)
                          ELSE space[p][d] \ Errors
  /\ Dev!AnswersAreExact /\ Dev!NoErrorIsMissed

(* What the assumptions say of configuration space.                           *)
LEMMA DeviceFact ==
  /\ Places \subseteq (0 .. 255) \X (0 .. 31) \X (0 .. 7)
  /\ Errors \subseteq 16 .. 31 /\ MaxCalls \in Nat
  /\ Spaces \subseteq [Places -> [Dev!Dwords -> Bits]]
  /\ Values \subseteq Bits
  BY DriversAssumption DEF Dev!PciConfigAssumption, Bits

(* The bits a write changes are none of the errors.                           *)
LEMMA WritableIs ==
  \A d \in Dev!Dwords : Dev!Writable(d) \subseteq 0 .. 10 /\ Dev!Writable(d) \cap Errors = {}
<1>1. Dev!CommandBits \subseteq 0 .. 10 /\ Dev!Low(1) \subseteq 0 .. 10
  BY DEF Dev!CommandBits, Dev!Low
<1>2. \A x \in Errors : x \notin 0 .. 10
  BY DeviceFact
<1> QED
  BY <1>1, <1>2 DEF Dev!Writable

(* An address is read back as the bus, device, function and register it was   *)
(* made of.                                                                   *)
LEMMA Digits ==
  ASSUME NEW x \in Nat, NEW y \in Nat, NEW z \in Nat, NEW w \in Nat,
         y < 32, z < 8, w < 256,
         NEW a, a = 65536 * x + 2048 * y + 256 * z + w
  PROVE  /\ a \div 65536 = x /\ (a \div 2048) % 32 = y
         /\ (a \div 256) % 8 = z /\ a % 256 = w
<1>1. PICK u \in Nat : u = 32 * x + y
  OBVIOUS
<1>2. PICK v \in Nat : v = 8 * u + z
  BY <1>1
<1>3. a = 256 * v + w /\ a = 2048 * u + (256 * z + w) /\ 256 * z + w < 2048
      /\ a = 65536 * x + (2048 * y + 256 * z + w) /\ 2048 * y + 256 * z + w < 65536
  BY <1>1, <1>2
<1>4. a \div 256 = v /\ a % 256 = w
  BY <1>2, <1>3
<1>5. a \div 2048 = u
  BY <1>1, <1>3
<1>6. a \div 65536 = x
  BY <1>3
<1>7. u % 32 = y /\ v % 8 = z
  BY <1>1, <1>2
<1> QED
  BY <1>4, <1>5, <1>6, <1>7

(* The address of a register is that of no other.                             *)
LEMMA SelectsOne ==
  ASSUME NEW p \in Places, NEW q \in Places, NEW o \in Nat, NEW d \in Dev!Dwords,
         Dev!Aligned(o) \in Dev!Dwords
  PROVE  Dev!Selects(Dev!pci_address(p, o), q, d) <=> q = p /\ d = Dev!Aligned(o)
<1> DEFINE a == 65536 * p[1] + 2048 * p[2] + 256 * p[3] + Dev!Aligned(o)
<1>1. /\ p \in (0 .. 255) \X (0 .. 31) \X (0 .. 7) /\ q \in (0 .. 255) \X (0 .. 31) \X (0 .. 7)
  BY DeviceFact
<1>2. /\ p[1] \in 0 .. 255 /\ p[2] \in 0 .. 31 /\ p[3] \in 0 .. 7
      /\ p = <<p[1], p[2], p[3]>> /\ q = <<q[1], q[2], q[3]>>
  BY <1>1
<1>3. Dev!Aligned(o) \in Nat /\ Dev!Aligned(o) < 256
  BY DEF Dev!Dwords, Dev!Command, Dev!Line
<1>4. /\ a \div 65536 = p[1] /\ (a \div 2048) % 32 = p[2]
      /\ (a \div 256) % 8 = p[3] /\ a % 256 = Dev!Aligned(o)
  <2> DEFINE x == p[1]
             y == p[2]
             z == p[3]
             w == Dev!Aligned(o)
  <2>1. /\ x \in Nat /\ y \in Nat /\ z \in Nat /\ w \in Nat
        /\ y < 32 /\ z < 8 /\ w < 256
        /\ a = 65536 * x + 2048 * y + 256 * z + w
    BY <1>2, <1>3
  <2> HIDE DEF a, x, y, z, w
  <2>2. /\ a \div 65536 = x /\ (a \div 2048) % 32 = y
        /\ (a \div 256) % 8 = z /\ a % 256 = w
    BY <2>1, Digits
  <2> QED
    BY <2>2 DEF x, y, z, w
<1> HIDE DEF a
<1>5. Dev!Selects(a, q, d) <=> q = p /\ d = Dev!Aligned(o)
  BY <1>2, <1>4 DEF Dev!Selects
<1> QED
  BY <1>5 DEF a, Dev!pci_address

(* Changing one register leaves the others.                                   *)
LEMMA ExceptOne ==
  ASSUME NEW T, NEW f \in [Places -> [Dev!Dwords -> T]],
         NEW p \in Places, NEW d \in Dev!Dwords, NEW v \in T,
         NEW g, g = [f EXCEPT ![p][d] = v]
  PROVE  /\ g \in [Places -> [Dev!Dwords -> T]]
         /\ \A q \in Places, e \in Dev!Dwords :
              g[q][e] = IF q = p /\ e = d THEN v ELSE f[q][e]
  OBVIOUS

(* The bits of a double word of which a part was replaced.                    *)
LEMMA MergeIs ==
  ASSUME NEW o, IsOp(o), NEW v \in Bits
  PROVE  /\ Merged(o, v) \in Bits
         /\ \A x \in 0 .. 31 :
              x \in Merged(o, v)
                      <=> IF x - Dev!Shift(o.offset) \in Dev!Low(o.size)
                            THEN x - Dev!Shift(o.offset) \in o.value ELSE x \in v
<1> DEFINE s == Dev!Shift(o.offset)
           n == o.size
           w == o.value
<1>1. /\ s \in {0, 8, 16, 24} /\ n \in {1, 2, 4} /\ w \subseteq 0 .. 8 * n - 1
      /\ s + 8 * n <= 32
  <2>1. o.offset % 4 \in 0 .. 3 /\ (o.offset % 4) + o.size <= 4 /\ o.size \in {1, 2, 4}
    BY DEF IsOp
  <2>2. w \subseteq 0 .. 8 * n - 1
    BY DEF IsOp, Dev!Low
  <2>3. s = 8 * (o.offset % 4)
    BY DEF Dev!Shift
  <2> QED
    BY <2>1, <2>2, <2>3
<1>2. Dev!Low(n) = 0 .. 8 * n - 1
  BY DEF Dev!Low
<1> HIDE DEF s, n, w
<1>3. \A b \in w : b + s \in 0 .. 31 /\ (b + s) - s = b /\ b \in 0 .. 8 * n - 1
  BY <1>1
<1>4. ASSUME NEW x \in 0 .. 31
      PROVE  (\E b \in w : x = b + s) <=> x - s \in w
  <2>1. (x - s) + s = x
    BY <1>1
  <2> QED
    BY <1>3, <2>1
<1> DEFINE m == {b \in v : b - s \notin Dev!Low(n)} \cup {b + s : b \in w}
<1>5. m \in Bits
  BY <1>3 DEF Bits
<1>6. \A x \in 0 .. 31 : x \in m <=> IF x - s \in Dev!Low(n) THEN x - s \in w ELSE x \in v
  BY <1>1, <1>2, <1>4
<1> QED
  BY <1>5, <1>6 DEF Merged, Dev!Merge, s, n, w

(* At first nothing is asked for.                                             *)
LEMMA DeviceInit == Dev!Init => DeviceInv
<1> SUFFICES ASSUME Dev!Init PROVE DeviceInv
  OBVIOUS
<1>1. /\ step = "idle" /\ op = Dev!NoOp /\ dword = {} /\ value = {}
      /\ space \in [Places -> [Dev!Dwords -> Bits]] /\ calls = 0
      /\ expected = Dev!Settings(space) /\ pending = [p \in Places |-> {}]
  BY DeviceFact DEF Dev!Init
<1>2. IsOp(op) /\ op.kind = "none"
  BY <1>1 DEF Dev!NoOp, IsOp, Dev!Line, Dev!Dwords, Dev!Aligned, Dev!Low, Dev!Command
<1>3. /\ expected \in [Places -> [Dev!Dwords -> Bits]]
      /\ \A p \in Places, d \in Dev!Dwords : expected[p][d] = space[p][d] \ Errors
  BY <1>1 DEF Dev!Settings, Bits
<1>4. DeviceType
  BY <1>1, <1>2, <1>3, DeviceFact DEF DeviceType, Bits
<1>5. Dev!AnswersAreExact /\ Dev!NoErrorIsMissed
  BY <1>1, <1>2 DEF Dev!AnswersAreExact, Dev!NoErrorIsMissed
<1> QED
  BY <1>1, <1>3, <1>4, <1>5 DEF DeviceInv, UnderWay

(* A call sets out what it is for.                                            *)
Asks(o) ==
  /\ IsOp(o) /\ o.kind # "none"
  /\ expected' \in [Places -> [Dev!Dwords -> Bits]]
  /\ \A p \in Places, d \in Dev!Dwords :
       expected'[p][d] = IF p = o.place /\ d = Dev!Aligned(o.offset)
                           THEN Asked(o, expected[p][d]) ELSE expected[p][d]

(* Every call is one that is well formed, and asks for a change of one        *)
(* register at most.                                                          *)
LEMMA DeviceAsks ==
  ASSUME DeviceInv, Dev!Calls
  PROVE  \E o : Dev!Call(o) /\ Asks(o)
<1>1. expected \in [Places -> [Dev!Dwords -> Bits]]
  BY DEF DeviceInv, DeviceType
<1>2. PICK p \in Places :
        \/ \E b \in Dev!CommandBits : Dev!Enable(p, b)
        \/ \E a \in Dev!Parts :
             /\ Dev!IsAligned(a)
             /\ \/ Dev!Read(p, a[1], a[2])
                \/ \E v \in Values : v \subseteq Dev!Low(a[2])
                                     /\ Dev!Write(p, a[1], a[2], v)
  BY DEF Dev!Calls
<1>3. ASSUME NEW b \in Dev!CommandBits, Dev!Enable(p, b)
      PROVE  \E o : Dev!Call(o) /\ Asks(o)
  <2> DEFINE o == [Dev!Access("read", p, Dev!Command, 2, {}) EXCEPT !.sets = {b}]
  <2>1. /\ o.kind = "read" /\ o.place = p /\ o.offset = Dev!Command /\ o.size = 2
        /\ o.value = {} /\ o.sets = {b}
    BY DEF Dev!Access
  <2>2. Dev!Call(o) /\ expected' = [expected EXCEPT ![p][Dev!Command] = @ \cup {b}]
    BY <1>3 DEF Dev!Enable
  <2> HIDE DEF o
  <2>3. /\ Dev!Command \in Nat /\ Dev!Command % 4 = 0 /\ Dev!Command \in Dev!Dwords
        /\ Dev!Aligned(Dev!Command) = Dev!Command
    BY DEF Dev!Command, Dev!Dwords, Dev!Aligned
  <2>4. IsOp(o) /\ o.kind # "none"
    BY <2>1, <2>3 DEF IsOp
  <2>5. expected[p][Dev!Command] \cup {b} \in Bits
    <3>1. expected[p][Dev!Command] \in Bits /\ b \in 0 .. 31
      BY <1>1, <2>3 DEF Dev!CommandBits
    <3> QED
      BY <3>1 DEF Bits
  <2>6. /\ expected' \in [Places -> [Dev!Dwords -> Bits]]
        /\ \A q \in Places, d \in Dev!Dwords :
             expected'[q][d] = IF q = p /\ d = Dev!Command
                                 THEN expected[p][Dev!Command] \cup {b} ELSE expected[q][d]
    BY <1>1, <2>2, <2>3, <2>5
  <2>7. \A v : Asked(o, v) = v \cup {b}
    BY <2>1 DEF Asked
  <2>8. \A q \in Places, d \in Dev!Dwords :
          expected'[q][d] = IF q = o.place /\ d = Dev!Aligned(o.offset)
                              THEN Asked(o, expected[q][d]) ELSE expected[q][d]
    <3> TAKE q \in Places, d \in Dev!Dwords
    <3>1. (q = p /\ d = Dev!Command) <=> (q = o.place /\ d = Dev!Aligned(o.offset))
      BY <2>1, <2>3
    <3>2. Asked(o, expected[q][d]) = expected[q][d] \cup {b}
      BY <2>7
    <3>3. expected'[q][d] = IF q = p /\ d = Dev!Command
                              THEN expected[p][Dev!Command] \cup {b} ELSE expected[q][d]
      BY <2>6
    <3> QED
      BY <3>1, <3>2, <3>3
  <2> QED
    BY <2>2, <2>4, <2>6, <2>8 DEF Asks
<1>4. ASSUME NEW a \in Dev!Parts, Dev!IsAligned(a)
      PROVE  /\ a[1] \in Nat /\ a[2] \in {1, 2, 4}
             /\ Dev!Aligned(a[1]) \in Dev!Dwords /\ (a[1] % 4) + a[2] <= 4
  <2>1. PICK d \in Dev!Dwords, k \in 0 .. 3, n \in {1, 2, 4} : a = <<d + k, n>>
    BY DEF Dev!Parts
  <2>2. (d + k) % n = 0 /\ d \in {4, 60}
    BY <1>4, <2>1 DEF Dev!IsAligned, Dev!Dwords, Dev!Command, Dev!Line
  <2>3. (d + k) % 4 = k /\ d + k \in Nat
    BY <2>2
  <2>4. k + n <= 4
    BY <2>2
  <2>5. Dev!Aligned(d + k) = d
    BY <2>2, <2>3 DEF Dev!Aligned
  <2>6. a[1] = d + k /\ a[2] = n
    BY <2>1
  <2> QED
    BY <2>3, <2>4, <2>5, <2>6
<1>5. ASSUME NEW a \in Dev!Parts, Dev!IsAligned(a), Dev!Read(p, a[1], a[2])
      PROVE  \E o : Dev!Call(o) /\ Asks(o)
  <2> DEFINE o == Dev!Access("read", p, a[1], a[2], {})
  <2>1. /\ o.kind = "read" /\ o.place = p /\ o.offset = a[1] /\ o.size = a[2]
        /\ o.value = {} /\ o.sets = {}
    BY DEF Dev!Access
  <2>2. Dev!Call(o) /\ expected' = expected
    BY <1>5 DEF Dev!Read
  <2> HIDE DEF o
  <2>3. IsOp(o) /\ o.kind # "none"
    BY <1>4, <1>5, <2>1 DEF IsOp
  <2>4. \A v : Asked(o, v) = v
    BY <2>1 DEF Asked
  <2> QED
    BY <1>1, <2>2, <2>3, <2>4 DEF Asks
<1>6. ASSUME NEW a \in Dev!Parts, Dev!IsAligned(a), NEW v \in Values,
             v \subseteq Dev!Low(a[2]), Dev!Write(p, a[1], a[2], v)
      PROVE  \E o : Dev!Call(o) /\ Asks(o)
  <2> DEFINE o == Dev!Access("write", p, a[1], a[2], v)
             d == Dev!Aligned(a[1])
             e == expected[p][d]
  <2>1. /\ o.kind = "write" /\ o.place = p /\ o.offset = a[1] /\ o.size = a[2]
        /\ o.value = v /\ o.sets = {}
    BY DEF Dev!Access
  <2>2. Dev!Call(o) /\ Dev!Expect(p, a[1], a[2], v)
    BY <1>6 DEF Dev!Write
  <2> HIDE DEF o
  <2>3. IsOp(o) /\ o.kind # "none"
    BY <1>4, <1>6, <2>1 DEF IsOp
  <2>4. /\ Asked(o, e) = (e \ Dev!Writable(d))
                           \cup (Dev!Merge(e, v, Dev!Shift(a[1]), a[2]) \cap Dev!Writable(d))
    BY <2>1 DEF Asked, Merged
  <2>5. expected' = [expected EXCEPT ![p][d] = Asked(o, e)]
    BY <2>2, <2>4 DEF Dev!Expect
  <2>6. d \in Dev!Dwords /\ e \in Bits
    BY <1>1, <1>4, <1>6
  <2>7. Asked(o, e) \in Bits
    <3>1. Merged(o, e) \in Bits
      BY <2>3, <2>6, MergeIs
    <3> HIDE DEF e
    <3> QED
      BY <2>1, <2>6, <3>1 DEF Asked, Bits
  <2>8. /\ expected' \in [Places -> [Dev!Dwords -> Bits]]
        /\ \A q \in Places, f \in Dev!Dwords :
             expected'[q][f] = IF q = p /\ f = d THEN Asked(o, e) ELSE expected[q][f]
    BY <1>1, <2>5, <2>6, <2>7
  <2> QED
    BY <2>1, <2>2, <2>3, <2>8 DEF Asks
<1> QED
  BY <1>2, <1>3, <1>5, <1>6

(* A call begins.                                                             *)
LEMMA DeviceCalls == DeviceInv /\ Dev!Calls => DeviceInv'
<1> SUFFICES ASSUME DeviceInv, Dev!Calls PROVE DeviceInv'
  OBVIOUS
<1>1. PICK o : Dev!Call(o) /\ Asks(o)
  BY DeviceAsks
<1>2. /\ step = "idle" /\ step' = "select" /\ op' = o /\ value' = {}
      /\ calls' \in 0 .. MaxCalls
      /\ dword' = dword /\ latch' = latch /\ space' = space /\ pending' = pending
  BY <1>1, DeviceFact DEF Dev!Call, Dev!registers, DeviceInv, DeviceType
<1>3. /\ DeviceType'
  BY <1>1, <1>2 DEF DeviceInv, DeviceType, Asks, Bits, UnderWay
<1>4. \A p \in Places, d \in Dev!Dwords : expected[p][d] = space[p][d] \ Errors
  BY <1>2 DEF DeviceInv, UnderWay
<1>5. \A p \in Places, d \in Dev!Dwords :
        expected'[p][d] = IF p = o.place /\ d = Dev!Aligned(o.offset)
                            THEN Asked(o, space[p][d] \ Errors) ELSE space[p][d] \ Errors
  <2> TAKE p \in Places, d \in Dev!Dwords
  <2>1. expected[p][d] = space[p][d] \ Errors
    BY <1>4
  <2>2. expected'[p][d] = IF p = o.place /\ d = Dev!Aligned(o.offset)
                            THEN Asked(o, expected[p][d]) ELSE expected[p][d]
    BY <1>1 DEF Asks
  <2> QED
    BY <2>1, <2>2
<1>6. Dev!AnswersAreExact' /\ Dev!NoErrorIsMissed'
  BY <1>2 DEF Dev!AnswersAreExact, Dev!NoErrorIsMissed, DeviceInv
<1> QED
  BY <1>1, <1>2, <1>3, <1>5, <1>6 DEF DeviceInv, Asks, UnderWay, Target

(* Writing the address port selects the register of the call, and no other.   *)
LEMMA DeviceSelect == DeviceInv /\ Dev!Select => DeviceInv'
<1> SUFFICES ASSUME DeviceInv, Dev!Select PROVE DeviceInv'
  OBVIOUS
<1>1. /\ step = "select" /\ op' = op /\ value' = value /\ space' = space /\ calls' = calls
      /\ expected' = expected /\ pending' = pending
      /\ latch' = Dev!pci_address(op.place, op.offset)
      /\ step' = IF op.kind = "read" \/ Dev!Shorter THEN "input" ELSE "output"
      /\ dword' = IF op.kind = "write" /\ ~ Dev!Shorter THEN op.value ELSE {}
  BY DEF Dev!Select, Dev!ghosts
<1>2. /\ IsOp(op) /\ op.kind # "none" /\ op.place \in Places /\ Target \in Dev!Dwords
      /\ space[op.place][Target] \in Bits
  BY <1>1 DEF DeviceInv, DeviceType, IsOp, UnderWay, Target
<1>3. step' = "output" => /\ op.kind = "write" /\ op.size = 4 /\ dword' = op.value
                          /\ Merged(op, space[op.place][Target]) = op.value
  <2> SUFFICES ASSUME step' = "output"
               PROVE  /\ op.kind = "write" /\ op.size = 4 /\ dword' = op.value
                      /\ Merged(op, space[op.place][Target]) = op.value
    OBVIOUS
  <2>1. op.kind = "write" /\ op.size = 4 /\ dword' = op.value
    BY <1>1, <1>2 DEF Dev!Shorter, IsOp
  <2>2. op.offset % 4 = 0 /\ op.value \subseteq 0 .. 31 /\ Dev!Low(op.size) = 0 .. 31
    BY <1>2, <2>1 DEF IsOp, Dev!Low
  <2>3. Dev!Shift(op.offset) = 0
    BY <2>2 DEF Dev!Shift
  <2>4. \A x \in 0 .. 31 : x - 0 = x
    OBVIOUS
  <2>5. /\ Merged(op, space[op.place][Target]) \in Bits
        /\ \A x \in 0 .. 31 :
             x \in Merged(op, space[op.place][Target])
                     <=> IF x - Dev!Shift(op.offset) \in Dev!Low(op.size)
                           THEN x - Dev!Shift(op.offset) \in op.value
                           ELSE x \in space[op.place][Target]
    BY <1>2, MergeIs
  <2>6. \A x \in 0 .. 31 : x \in Merged(op, space[op.place][Target]) <=> x \in op.value
    BY <2>2, <2>3, <2>4, <2>5
  <2> QED
    BY <2>1, <2>2, <2>5, <2>6 DEF Bits
<1>4. dword' \in Bits
  <2>1. op.value \subseteq 0 .. 31
    BY <1>2 DEF IsOp, Dev!Low
  <2> QED
    BY <1>1, <2>1 DEF Bits
<1>5. DeviceType'
  BY <1>1, <1>4 DEF DeviceInv, DeviceType, UnderWay
<1>6. Dev!AnswersAreExact' /\ Dev!NoErrorIsMissed' /\ Target' = Target
  BY <1>1 DEF Dev!AnswersAreExact, Dev!NoErrorIsMissed, DeviceInv, Target
<1>7. \A p \in Places, d \in Dev!Dwords :
        expected'[p][d] = IF step' \in UnderWay /\ p = op'.place /\ d = Target'
                          THEN Asked(op', space'[p][d] \ Errors)
                          ELSE space'[p][d] \ Errors
  BY <1>1, <1>6 DEF DeviceInv, UnderWay
<1> QED
  BY <1>1, <1>2, <1>3, <1>5, <1>6, <1>7 DEF DeviceInv, UnderWay

(* Reading the data port gives the register in hand.                          *)
LEMMA DeviceInput == DeviceInv /\ Dev!Input => DeviceInv'
<1> SUFFICES ASSUME DeviceInv, Dev!Input PROVE DeviceInv'
  OBVIOUS
<1>1. /\ step = "input" /\ op' = op /\ value' = value /\ space' = space /\ calls' = calls
      /\ expected' = expected /\ latch' = latch
      /\ step' = IF op.kind = "read" THEN "return" ELSE "modify"
  BY DEF Dev!Input, Dev!registers
<1>2. /\ IsOp(op) /\ op.kind # "none" /\ op.place \in Places /\ Target \in Dev!Dwords
      /\ space[op.place][Target] \in Bits /\ op.offset \in Nat
      /\ latch = Dev!pci_address(op.place, op.offset)
      /\ pending \in [Places -> SUBSET Errors]
  BY <1>1 DEF DeviceInv, DeviceType, IsOp, UnderWay, Target
<1>3. PICK p \in Places, d \in Dev!Dwords :
        /\ Dev!Selects(latch, p, d) /\ dword' = space[p][d]
        /\ pending' = IF d = Dev!Command THEN [pending EXCEPT ![p] = {}] ELSE pending
  BY DEF Dev!Input
<1>4. p = op.place /\ d = Target
  BY <1>2, <1>3, SelectsOne DEF Target
<1>5. /\ pending' \in [Places -> SUBSET Errors]
      /\ \A q \in Places : pending'[q] \subseteq pending[q]
  BY <1>2, <1>3
<1>6. DeviceType'
  BY <1>1, <1>2, <1>3, <1>4, <1>5 DEF DeviceInv, DeviceType, UnderWay
<1>7. Dev!AnswersAreExact' /\ Dev!NoErrorIsMissed' /\ Target' = Target
  BY <1>1, <1>5 DEF Dev!AnswersAreExact, Dev!NoErrorIsMissed, DeviceInv, Target
<1>8. \A q \in Places, e \in Dev!Dwords :
        expected'[q][e] = IF step' \in UnderWay /\ q = op'.place /\ e = Target'
                          THEN Asked(op', space'[q][e] \ Errors)
                          ELSE space'[q][e] \ Errors
  BY <1>1, <1>7 DEF DeviceInv, UnderWay
<1>9. op.kind = "read" \/ op.kind = "write"
  BY <1>2 DEF IsOp
<1> QED
  BY <1>1, <1>2, <1>3, <1>4, <1>6, <1>7, <1>8, <1>9 DEF DeviceInv, UnderWay

(* What a part of a double word was cut to.                                   *)
LEMMA CutIs ==
  ASSUME NEW o, IsOp(o), NEW v \in Bits
  PROVE  LET c == Dev!Cut(v, Dev!Shift(o.offset), o.size) IN
         /\ c \subseteq Dev!Low(o.size) /\ c \in Bits
         /\ {b + Dev!Shift(o.offset) : b \in c}
              = {x \in v : x - Dev!Shift(o.offset) \in Dev!Low(o.size)}
<1> DEFINE s == Dev!Shift(o.offset)
           n == o.size
           c == Dev!Cut(v, s, n)
<1>1. /\ s \in Nat /\ n \in {1, 2, 4}
  BY DEF IsOp, Dev!Shift
<1>2. c = {b \in Dev!Low(n) : b + s \in v}
  BY DEF Dev!Cut
<1>3. Dev!Low(n) \subseteq 0 .. 31 /\ Dev!Low(n) \subseteq Int
  BY <1>1 DEF Dev!Low
<1> HIDE DEF s, n, c
<1>4. c \subseteq Dev!Low(n) /\ c \in Bits
  BY <1>2, <1>3 DEF Bits
<1>5. ASSUME NEW x PROVE x \in {b + s : b \in c} <=> x \in {y \in v : y - s \in Dev!Low(n)}
  <2>1. ASSUME NEW b \in c, x = b + s PROVE x \in v /\ x - s \in Dev!Low(n)
    BY <1>1, <1>2, <1>3, <2>1
  <2>2. ASSUME x \in v, x - s \in Dev!Low(n) PROVE x - s \in c /\ x = (x - s) + s
    <3>1. x \in 0 .. 31
      BY <2>2 DEF Bits
    <3>2. x = (x - s) + s
      BY <1>1, <3>1
    <3> QED
      BY <1>2, <2>2, <3>2
  <2> QED
    BY <2>1, <2>2
<1>6. {b + s : b \in c} = {x \in v : x - s \in Dev!Low(n)}
  BY <1>5
<1> QED
  BY <1>4, <1>6 DEF s, n, c

(* A read returns the bytes asked for, or goes on to a write of the command   *)
(* register.                                                                  *)
LEMMA DeviceReturn == DeviceInv /\ Dev!Return => DeviceInv'
<1> SUFFICES ASSUME DeviceInv, Dev!Return PROVE DeviceInv'
  OBVIOUS
<1> DEFINE c == Dev!Cut(dword, Dev!Shift(op.offset), op.size)
           v == space[op.place][Target]
<1>1. /\ step = "return" /\ dword' = {} /\ latch' = latch /\ space' = space
      /\ calls' = calls /\ expected' = expected /\ pending' = pending
  BY DEF Dev!Return, Dev!registers, Dev!ghosts
<1>2. /\ IsOp(op) /\ op.kind = "read" /\ op.place \in Places /\ Target \in Dev!Dwords
      /\ v \in Bits /\ dword \in Bits /\ dword \ Errors = v \ Errors
      /\ expected[op.place][Target] = (v \ Errors) \cup op.sets
  <2>1. /\ IsOp(op) /\ op.kind = "read" /\ op.place \in Places /\ Target \in Dev!Dwords
        /\ v \in Bits /\ dword \in Bits /\ dword \ Errors = v \ Errors
    BY <1>1 DEF DeviceInv, DeviceType, IsOp, UnderWay, Target
  <2>2. expected[op.place][Target] = Asked(op, v \ Errors)
    BY <1>1, <2>1 DEF DeviceInv, UnderWay
  <2>3. Asked(op, v \ Errors) = (v \ Errors) \cup op.sets
    BY <2>1 DEF Asked
  <2> QED
    BY <2>1, <2>2, <2>3
<1>3. /\ c \subseteq Dev!Low(op.size) /\ c \in Bits
      /\ {b + Dev!Shift(op.offset) : b \in c}
           = {x \in dword : x - Dev!Shift(op.offset) \in Dev!Low(op.size)}
  BY <1>2, CutIs
<1>4. Dev!NoErrorIsMissed'
  BY <1>1 DEF Dev!NoErrorIsMissed, DeviceInv
<1> HIDE DEF c, v
<1>5. CASE op.sets = {}
  <2>1. step' = "idle" /\ op' = op /\ value' = c
    BY <1>5 DEF Dev!Return, c
  <2>2. DeviceType'
    BY <1>1, <1>3, <2>1 DEF DeviceInv, DeviceType, Bits
  <2>3. expected[op.place][Target] = v \ Errors
    BY <1>2, <1>5
  <2>4. Dev!AnswersAreExact'
    <3>1. c \ Dev!Low(4) = {}
      BY <1>3 DEF Dev!Low, Bits
    <3>2. {b + Dev!Shift(op.offset) : b \in c} \ Errors
            = {x \in expected[op.place][Target] :
                 x - Dev!Shift(op.offset) \in Dev!Low(op.size)}
      BY <1>2, <1>3, <2>3
    <3> QED
      BY <1>1, <2>1, <3>1, <3>2 DEF Dev!AnswersAreExact, Target
  <2>5. \A p \in Places, d \in Dev!Dwords : expected[p][d] = space[p][d] \ Errors
    <3> TAKE p \in Places, d \in Dev!Dwords
    <3>1. CASE p = op.place /\ d = Target
      BY <2>3, <3>1 DEF v
    <3>2. CASE ~ (p = op.place /\ d = Target)
      BY <3>2 DEF DeviceInv
    <3> QED
      BY <3>1, <3>2
  <2> QED
    BY <1>1, <1>4, <2>1, <2>2, <2>4, <2>5 DEF DeviceInv, UnderWay
<1>6. CASE op.sets # {}
  <2> DEFINE o == Dev!Access("write", op.place, Dev!Command, 2, c \cup op.sets)
  <2>1. step' = "select" /\ op' = o /\ value' = value
    BY <1>6 DEF Dev!Return, c
  <2>2. /\ o.kind = "write" /\ o.place = op.place /\ o.offset = Dev!Command /\ o.size = 2
        /\ o.value = c \cup op.sets /\ o.sets = {}
    BY DEF Dev!Access
  <2>3. /\ op.offset = Dev!Command /\ op.size = 2 /\ op.sets \subseteq Dev!CommandBits
    BY <1>2, <1>6 DEF IsOp
  <2>4. /\ Dev!Command \in Nat /\ Dev!Command % 4 = 0 /\ Dev!Command \in Dev!Dwords
        /\ Dev!Aligned(Dev!Command) = Dev!Command /\ Dev!Shift(Dev!Command) = 0
        /\ Target = Dev!Command
    BY <2>3 DEF Dev!Command, Dev!Dwords, Dev!Aligned, Dev!Shift, Target
  <2>5. /\ Dev!Low(2) = 0 .. 15 /\ Dev!CommandBits \subseteq 0 .. 15
        /\ Dev!Writable(Dev!Command) = Dev!CommandBits
        /\ Dev!CommandBits \subseteq 0 .. 31 /\ Dev!CommandBits \cap Errors = {}
    <3>1. Dev!Low(2) = 0 .. 15 /\ Dev!CommandBits \subseteq 0 .. 15
      BY DEF Dev!Low, Dev!CommandBits
    <3>2. Dev!Writable(Dev!Command) = Dev!CommandBits
      BY DEF Dev!Writable
    <3> QED
      BY <2>4, <3>1, <3>2, WritableIs
  <2> HIDE DEF o
  <2>6. IsOp(o)
    BY <1>2, <1>3, <2>2, <2>3, <2>4, <2>5 DEF IsOp
  <2>7. v \ Errors \in Bits
    BY <1>2 DEF Bits
  <2>8. \A x \in 0 .. 31 :
          x \in Merged(o, v \ Errors)
                  <=> IF x - 0 \in 0 .. 15 THEN x - 0 \in c \cup op.sets ELSE x \in v \ Errors
    <3> DEFINE u == v \ Errors
               m == Merged(o, u)
    <3> HIDE DEF u
    <3>1. \A x \in 0 .. 31 :
            x \in m <=> IF x - Dev!Shift(o.offset) \in Dev!Low(o.size)
                          THEN x - Dev!Shift(o.offset) \in o.value ELSE x \in u
      BY <2>6, <2>7, MergeIs DEF u
    <3>2. Dev!Shift(o.offset) = 0 /\ Dev!Low(o.size) = 0 .. 15 /\ o.value = c \cup op.sets
      BY <2>2, <2>4, <2>5
    <3> HIDE DEF m
    <3> QED
      BY <3>1, <3>2 DEF u, m
  <2>9. \A x \in Dev!CommandBits : x \in c <=> x \in v
    <3>1. c = {b \in 0 .. 15 : b + 0 \in dword}
      BY <2>3, <2>4, <2>5 DEF c, Dev!Cut
    <3>2. \A x \in Dev!CommandBits : x \in 0 .. 15 /\ x + 0 = x /\ x \notin Errors
      BY <2>5
    <3> QED
      BY <1>2, <3>1, <3>2
  <2>10. \A x \in Dev!CommandBits : x \in Merged(o, v \ Errors) <=> x \in v \cup op.sets
    <3>1. \A x \in Dev!CommandBits : x \in 0 .. 31 /\ x - 0 = x /\ x \in 0 .. 15
      BY <2>5
    <3> QED
      BY <2>8, <2>9, <3>1
  <2>11. Asked(o, v \ Errors)
           = ((v \ Errors) \ Dev!CommandBits)
               \cup (Merged(o, v \ Errors) \cap Dev!CommandBits)
    BY <2>2, <2>4, <2>5 DEF Asked
  <2>12. Asked(o, v \ Errors) = (v \ Errors) \cup op.sets
    BY <2>3, <2>5, <2>10, <2>11
  <2>13. DeviceType'
    BY <1>1, <2>1, <2>6 DEF DeviceInv, DeviceType, Bits, UnderWay
  <2>14. \A p \in Places, d \in Dev!Dwords :
           expected[p][d] = IF p = o.place /\ d = Dev!Aligned(o.offset)
                              THEN Asked(o, space[p][d] \ Errors) ELSE space[p][d] \ Errors
    <3> TAKE p \in Places, d \in Dev!Dwords
    <3>1. (p = o.place /\ d = Dev!Aligned(o.offset)) <=> (p = op.place /\ d = Target)
      BY <2>2, <2>4
    <3>2. CASE p = op.place /\ d = Target
      BY <1>2, <2>12, <3>1, <3>2 DEF v
    <3>3. CASE ~ (p = op.place /\ d = Target)
      BY <3>1, <3>3 DEF DeviceInv
    <3> QED
      BY <3>2, <3>3
  <2>15. Dev!AnswersAreExact'
    BY <2>1 DEF Dev!AnswersAreExact
  <2> QED
    BY <1>1, <1>4, <2>1, <2>2, <2>13, <2>14, <2>15 DEF DeviceInv, UnderWay, Target
<1> QED
  BY <1>5, <1>6

(* A write puts its bytes into the double word in hand.                       *)
LEMMA DeviceModify == DeviceInv /\ Dev!Modify => DeviceInv'
<1> SUFFICES ASSUME DeviceInv, Dev!Modify PROVE DeviceInv'
  OBVIOUS
<1> DEFINE v == space[op.place][Target]
           w == Dev!Writable(Target)
<1>1. /\ step = "modify" /\ step' = "output" /\ dword' = Merged(op, dword)
      /\ latch' = latch /\ space' = space /\ op' = op /\ value' = value
      /\ calls' = calls /\ expected' = expected /\ pending' = pending
  BY DEF Dev!Modify, Dev!registers, Dev!ghosts, Merged
<1>2. /\ IsOp(op) /\ op.kind = "write" /\ op.place \in Places /\ Target \in Dev!Dwords
      /\ v \in Bits /\ dword \in Bits /\ dword \ Errors = v \ Errors
  BY <1>1 DEF DeviceInv, DeviceType, IsOp, UnderWay, Target
<1>3. /\ Merged(op, dword) \in Bits /\ Merged(op, v) \in Bits
      /\ \A x \in 0 .. 31 :
           x \in Merged(op, dword)
                   <=> IF x - Dev!Shift(op.offset) \in Dev!Low(op.size)
                         THEN x - Dev!Shift(op.offset) \in op.value ELSE x \in dword
      /\ \A x \in 0 .. 31 :
           x \in Merged(op, v)
                   <=> IF x - Dev!Shift(op.offset) \in Dev!Low(op.size)
                         THEN x - Dev!Shift(op.offset) \in op.value ELSE x \in v
  BY <1>2, MergeIs
<1>4. \A x \in w : x \in 0 .. 31 /\ x \notin Errors
  BY <1>2, WritableIs
<1> HIDE DEF v, w
<1>5. Merged(op, dword) \cap w = Merged(op, v) \cap w
  BY <1>2, <1>3, <1>4
<1>6. DeviceType'
  BY <1>1, <1>3 DEF DeviceInv, DeviceType, UnderWay
<1>7. Dev!AnswersAreExact' /\ Dev!NoErrorIsMissed' /\ Target' = Target
  BY <1>1 DEF Dev!AnswersAreExact, Dev!NoErrorIsMissed, DeviceInv, Target
<1>8. \A q \in Places, e \in Dev!Dwords :
        expected'[q][e] = IF step' \in UnderWay /\ q = op'.place /\ e = Target'
                          THEN Asked(op', space'[q][e] \ Errors)
                          ELSE space'[q][e] \ Errors
  BY <1>1, <1>7 DEF DeviceInv, UnderWay
<1> QED
  BY <1>1, <1>2, <1>5, <1>6, <1>7, <1>8 DEF DeviceInv, UnderWay, v, w

(* Writing it back changes these bytes only, and clears no error unseen.      *)
LEMMA DeviceOutput == DeviceInv /\ Dev!Output => DeviceInv'
<1> SUFFICES ASSUME DeviceInv, Dev!Output PROVE DeviceInv'
  OBVIOUS
<1> DEFINE v == space[op.place][Target]
           w == Dev!Writable(Target)
<1>1. /\ step = "output" /\ step' = "idle" /\ dword' = {} /\ latch' = latch
      /\ op' = Dev!NoOp /\ value' = value /\ calls' = calls /\ expected' = expected
  BY DEF Dev!Output
<1>2. /\ IsOp(op) /\ op.kind = "write" /\ op.place \in Places /\ Target \in Dev!Dwords
      /\ v \in Bits /\ dword \in Bits /\ op.offset \in Nat
      /\ latch = Dev!pci_address(op.place, op.offset)
      /\ pending \in [Places -> SUBSET Errors]
      /\ space \in [Places -> [Dev!Dwords -> Bits]]
      /\ dword \cap w = Merged(op, v) \cap w
      /\ expected[op.place][Target] = Asked(op, v \ Errors)
  BY <1>1 DEF DeviceInv, DeviceType, IsOp, UnderWay, Target
<1> DEFINE n == ((v \ w) \cup (dword \cap w))
                  \ (IF Target = Dev!Command THEN dword \cap Errors ELSE {})
<1>3. PICK p \in Places, d \in Dev!Dwords :
        /\ Dev!Selects(latch, p, d)
        /\ space' = [space EXCEPT ![p][d] =
             ((@ \ Dev!Writable(d)) \cup (dword \cap Dev!Writable(d)))
               \ (IF d = Dev!Command THEN dword \cap Errors ELSE {})]
        /\ pending' = IF d = Dev!Command THEN [pending EXCEPT ![p] = @ \ dword] ELSE pending
  BY DEF Dev!Output
<1>4. p = op.place /\ d = Target
  BY <1>2, <1>3, SelectsOne DEF Target
<1>5. /\ space' = [space EXCEPT ![p][d] = n]
      /\ pending' = IF d = Dev!Command THEN [pending EXCEPT ![p] = @ \ dword] ELSE pending
  BY <1>3, <1>4
<1>6. \A x \in w : x \in 0 .. 31 /\ x \notin Errors
  BY <1>2, WritableIs
<1>7. n \in Bits
  BY <1>2 DEF Bits
<1> HIDE DEF n
<1>8. /\ space' \in [Places -> [Dev!Dwords -> Bits]]
      /\ \A q \in Places, e \in Dev!Dwords :
           space'[q][e] = IF q = p /\ e = d THEN n ELSE space[q][e]
  BY <1>2, <1>5, <1>7, ExceptOne
<1>9. n \ Errors = Asked(op, v \ Errors)
  <2>1. Asked(op, v \ Errors) = ((v \ Errors) \ w) \cup (Merged(op, v \ Errors) \cap w)
    BY <1>2 DEF Asked, Target
  <2>2. \A x \in w : x \in Merged(op, v \ Errors) <=> x \in Merged(op, v)
    <3>1. v \ Errors \in Bits
      BY <1>2 DEF Bits
    <3>2. \A x \in 0 .. 31 :
            x \in Merged(op, v \ Errors)
                    <=> IF x - Dev!Shift(op.offset) \in Dev!Low(op.size)
                          THEN x - Dev!Shift(op.offset) \in op.value ELSE x \in v \ Errors
      BY <1>2, <3>1, MergeIs
    <3>3. \A x \in 0 .. 31 :
            x \in Merged(op, v)
                    <=> IF x - Dev!Shift(op.offset) \in Dev!Low(op.size)
                          THEN x - Dev!Shift(op.offset) \in op.value ELSE x \in v
      BY <1>2, MergeIs
    <3> HIDE DEF v, w
    <3> QED
      BY <1>6, <3>2, <3>3
  <2> HIDE DEF v, w
  <2> QED
    BY <1>2, <1>6, <2>1, <2>2 DEF n
<1>10. \A q \in Places, e \in Dev!Dwords : expected'[q][e] = space'[q][e] \ Errors
  <2> TAKE q \in Places, e \in Dev!Dwords
  <2>1. CASE q = p /\ e = d
    <3>1. expected'[q][e] = Asked(op, v \ Errors)
      BY <1>1, <1>2, <1>4, <2>1
    <3>2. space'[q][e] = n
      BY <1>8, <2>1
    <3> QED
      BY <1>9, <3>1, <3>2
  <2>2. CASE ~ (q = p /\ e = d)
    <3>1. expected[q][e] = space[q][e] \ Errors
      BY <1>4, <2>2 DEF DeviceInv
    <3>2. space'[q][e] = space[q][e]
      BY <1>8, <2>2
    <3> QED
      BY <1>1, <3>1, <3>2
  <2> QED
    BY <2>1, <2>2
<1>11. IsOp(op') /\ op'.kind = "none"
  BY <1>1 DEF Dev!NoOp, IsOp, Dev!Line, Dev!Dwords, Dev!Aligned, Dev!Low, Dev!Command
<1>12. pending' \in [Places -> SUBSET Errors]
  BY <1>2, <1>5
<1>13. DeviceType'
  BY <1>1, <1>8, <1>11, <1>12 DEF DeviceInv, DeviceType, Bits
<1>14. Dev!NoErrorIsMissed'
  <2> SUFFICES ASSUME NEW q \in Places, NEW x \in pending'[q]
               PROVE  x \in space'[q][Dev!Command]
    BY DEF Dev!NoErrorIsMissed
  <2>1. Dev!Command \in Dev!Dwords
    BY DEF Dev!Dwords
  <2>2. \A y \in pending[q] : y \in space[q][Dev!Command] /\ y \in Errors
    BY <1>2 DEF DeviceInv, Dev!NoErrorIsMissed
  <2>3. x \in pending[q] /\ (q = p /\ d = Dev!Command => x \notin dword)
    BY <1>2, <1>5
  <2>4. CASE q = p /\ d = Dev!Command
    <3>1. x \in v /\ x \in Errors /\ x \notin dword
      BY <1>4, <2>2, <2>3, <2>4
    <3>2. x \notin w
      BY <1>6, <3>1
    <3>3. x \in n
      BY <3>1, <3>2 DEF n
    <3> QED
      BY <1>8, <2>1, <2>4, <3>3
  <2>5. CASE ~ (q = p /\ d = Dev!Command)
    BY <1>8, <2>1, <2>2, <2>3, <2>5
  <2> QED
    BY <2>4, <2>5
<1>15. Dev!AnswersAreExact'
  BY <1>11 DEF Dev!AnswersAreExact
<1> QED
  BY <1>1, <1>10, <1>13, <1>14, <1>15 DEF DeviceInv, UnderWay

(* A device may record an error at any moment.                                *)
LEMMA DeviceErrs == DeviceInv /\ Dev!RecordError => DeviceInv'
<1> SUFFICES ASSUME DeviceInv, Dev!RecordError PROVE DeviceInv'
  OBVIOUS
<1> DEFINE w == Dev!Writable(Target)
<1>1. PICK p \in Places, e \in Errors :
        /\ space' = [space EXCEPT ![p][Dev!Command] = @ \cup {e}]
        /\ pending' = [pending EXCEPT ![p] = @ \cup {e}]
        /\ step' = step /\ op' = op /\ dword' = dword /\ value' = value /\ latch' = latch
        /\ calls' = calls /\ expected' = expected
  BY DEF Dev!RecordError
<1>2. /\ space \in [Places -> [Dev!Dwords -> Bits]] /\ pending \in [Places -> SUBSET Errors]
      /\ Dev!Command \in Dev!Dwords /\ e \in 16 .. 31 /\ IsOp(op) /\ Target \in Dev!Dwords
  BY DeviceFact DEF DeviceInv, DeviceType, Dev!Dwords, IsOp, Target
<1>3. space[p][Dev!Command] \cup {e} \in Bits
  BY <1>2 DEF Bits
<1>4. /\ space' \in [Places -> [Dev!Dwords -> Bits]]
      /\ \A q \in Places, d \in Dev!Dwords :
           space'[q][d] = IF q = p /\ d = Dev!Command THEN space[p][Dev!Command] \cup {e}
                                                      ELSE space[q][d]
  BY <1>1, <1>2, <1>3, ExceptOne
<1>5. /\ \A q \in Places, d \in Dev!Dwords :
           /\ space'[q][d] \ Errors = space[q][d] \ Errors
           /\ space[q][d] \subseteq space'[q][d]
  BY <1>4
<1>6. /\ pending' \in [Places -> SUBSET Errors]
      /\ \A q \in Places : pending'[q] = IF q = p THEN pending[q] \cup {e} ELSE pending[q]
  BY <1>1, <1>2
<1>7. DeviceType' /\ Target' = Target
  BY <1>1, <1>4, <1>6 DEF DeviceInv, DeviceType, Target
<1>8. Dev!NoErrorIsMissed'
  BY <1>2, <1>4, <1>5, <1>6 DEF DeviceInv, Dev!NoErrorIsMissed
<1>9. Dev!AnswersAreExact'
  BY <1>1 DEF DeviceInv, Dev!AnswersAreExact
<1>10. ASSUME op.place \in Places
       PROVE  Merged(op, space'[op.place][Target]) \cap w
                = Merged(op, space[op.place][Target]) \cap w
  <2> DEFINE v == space[op.place][Target]
             u == space'[op.place][Target]
  <2>1. v \in Bits /\ u \in Bits /\ v \ Errors = u \ Errors
    BY <1>2, <1>4, <1>5, <1>10
  <2>2. \A x \in w : x \in 0 .. 31 /\ x \notin Errors
    BY <1>2, WritableIs
  <2> HIDE DEF u, v, w
  <2>3. /\ \A x \in 0 .. 31 :
             x \in Merged(op, u)
                     <=> IF x - Dev!Shift(op.offset) \in Dev!Low(op.size)
                           THEN x - Dev!Shift(op.offset) \in op.value ELSE x \in u
        /\ \A x \in 0 .. 31 :
             x \in Merged(op, v)
                     <=> IF x - Dev!Shift(op.offset) \in Dev!Low(op.size)
                           THEN x - Dev!Shift(op.offset) \in op.value ELSE x \in v
    BY <1>2, <2>1, MergeIs
  <2>4. Merged(op, u) \cap w = Merged(op, v) \cap w
    BY <2>1, <2>2, <2>3
  <2> QED
    BY <2>4 DEF u, v
<1>11. \A q \in Places, d \in Dev!Dwords :
         expected'[q][d] = IF step' \in UnderWay /\ q = op'.place /\ d = Target'
                           THEN Asked(op', space'[q][d] \ Errors)
                           ELSE space'[q][d] \ Errors
  <2> TAKE q \in Places, d \in Dev!Dwords
  <2>1. space'[q][d] \ Errors = space[q][d] \ Errors
    BY <1>5
  <2> QED
    BY <1>1, <1>7, <2>1 DEF DeviceInv
<1>12. step \in UnderWay => op.place \in Places
  BY <1>2 DEF DeviceInv, IsOp
<1>13. step \in {"return", "modify"} =>
         dword' \ Errors = space'[op'.place][Target'] \ Errors
  BY <1>1, <1>2, <1>5, <1>7, <1>12 DEF DeviceInv, UnderWay
<1>14. step = "output" =>
         dword' \cap Dev!Writable(Target')
           = Merged(op', space'[op'.place][Target']) \cap Dev!Writable(Target')
  BY <1>1, <1>7, <1>10, <1>12 DEF DeviceInv, UnderWay
<1> QED
  BY <1>1, <1>7, <1>8, <1>9, <1>11, <1>13, <1>14 DEF DeviceInv

(* So every step of an access keeps the invariant.                            *)
LEMMA DeviceStep == DeviceInv /\ [Dev!Next]_deviceVars => DeviceInv'
<1> SUFFICES ASSUME DeviceInv, [Dev!Next]_deviceVars PROVE DeviceInv'
  OBVIOUS
<1>1. CASE UNCHANGED deviceVars
  <2>1. /\ step' = step /\ op' = op /\ dword' = dword /\ value' = value /\ latch' = latch
        /\ space' = space /\ calls' = calls /\ expected' = expected /\ pending' = pending
    BY <1>1 DEF deviceVars
  <2>2. DeviceType' /\ Target' = Target
    BY <2>1 DEF DeviceInv, DeviceType, Target
  <2>3. Dev!AnswersAreExact' /\ Dev!NoErrorIsMissed'
    BY <2>1 DEF DeviceInv, Dev!AnswersAreExact, Dev!NoErrorIsMissed
  <2> QED
    BY <2>1, <2>2, <2>3 DEF DeviceInv
<1> QED
  BY <1>1, DeviceCalls, DeviceSelect, DeviceInput, DeviceReturn, DeviceModify,
     DeviceOutput, DeviceErrs DEF Dev!Next, Dev!Proceed

(* The types and the property are among it.                                   *)
LEMMA DeviceTypes == DeviceInv => Dev!TypeOK /\ Dev!AccessesAreExact
<1> SUFFICES ASSUME DeviceInv PROVE Dev!TypeOK /\ Dev!AccessesAreExact
  OBVIOUS
<1>1. op.value \subseteq 0 .. 31
  <2>1. op.size \in {1, 2, 4} /\ op.value \subseteq 0 .. 8 * op.size - 1
    BY DEF DeviceInv, DeviceType, IsOp, Dev!Low
  <2> QED
    BY <2>1
<1>2. Dev!TypeOK
  BY <1>1 DEF DeviceInv, DeviceType, IsOp, UnderWay, Bits, Dev!TypeOK
<1>3. Dev!RegistersAreExact
  <2> SUFFICES ASSUME step = "idle" PROVE Dev!Settings(space) = expected
    BY DEF Dev!RegistersAreExact
  <2>1. expected \in [Places -> [Dev!Dwords -> Bits]]
    BY DEF DeviceInv, DeviceType
  <2>2. \A p \in Places, d \in Dev!Dwords : expected[p][d] = space[p][d] \ Errors
    BY DEF DeviceInv, UnderWay
  <2> QED
    BY <2>1, <2>2 DEF Dev!Settings
<1> QED
  BY <1>2, <1>3 DEF DeviceInv, Dev!AccessesAreExact

---------------------------------------------------------------------------
(* The xHCI controller.                                                       *)

(* While a port is dealt with it is a port of the controller, and had a       *)
(* device at some time; what was found lies behind it; and what is about to   *)
(* be written starts a reset that the port, unless it is pulled out, is in    *)
(* or has come through when it is polled.                                     *)
Progress ==
  pc \in Enumerating =>
    /\ pc # "look" => port < MaxPorts /\ port \in seen
    /\ connected \subseteq seen
    /\ Len(devices) <= port
    /\ \A i \in 1 .. Len(devices) : devices[i] < port
    /\ pc = "write back" => "resetting" \in portsc
    /\ pc = "poll" /\ port \in steady => port \in enabled \cup resetting

(* The controller is in reset only while the driver waits for that to end,    *)
(* and told to run only outside init.                                         *)
Orderly ==
  /\ run \in BOOLEAN /\ halted \in BOOLEAN /\ hcreset \in BOOLEAN
  /\ pc = "await halt" => ~run
  /\ pc = "reset controller" => ~run /\ halted
  /\ hcreset => pc \in {"await reset", "spin"}

IInv == TypeOK /\ devices \in Seq(Ports) /\ Progress /\ Orderly
          /\ EnumerationIsFair /\ NoChangeIsMissed

(* The groups the variables are in, and the shape most steps of the driver    *)
(* have.                                                                      *)
USE DEF where, driver, commands, portRegs, ghosts, Goes

---------------------------------------------------------------------------
(* The order of init, from the registers init itself is about.                *)
LEMMA InitOrderly == Init => Orderly
  BY DEF Init, Orderly

(* Every step keeps that order.                                               *)
LEMMA OrderIsKept == ASSUME Orderly, [Next]_vars PROVE Orderly'
<1> USE DEF Orderly
<1>1. CASE New
  BY <1>1 DEF New
<1>2. CASE StopController
  BY <1>2 DEF StopController
<1>3. CASE AwaitHalt
  BY <1>3 DEF AwaitHalt
<1>4. CASE ResetController
  BY <1>4 DEF ResetController
<1>5. CASE AwaitReset
  BY <1>5 DEF AwaitReset
<1>6. CASE StartController
  BY <1>6 DEF StartController
<1>7. CASE Enumerate
  BY <1>7 DEF Enumerate
<1>8. CASE LookAtPort
  BY <1>8 DEF LookAtPort, NextPort
<1>9. CASE ProbePort
  BY <1>9 DEF ProbePort, NextPort
<1>10. CASE ReadPortsc
  BY <1>10 DEF ReadPortsc
<1>11. CASE WriteBack
  BY <1>11 DEF WriteBack
<1>12. CASE PollAgain
  BY <1>12 DEF PollAgain
<1>13. CASE PollEnds
  BY <1>13 DEF PollEnds, NextPort
<1>14. CASE EnumerationEnds
  BY <1>14 DEF EnumerationEnds
<1>15. CASE Halt
  BY <1>15 DEF Halt
<1>16. CASE GoOn
  BY <1>16 DEF GoOn
<1>17. CASE ControllerResetEnds
  BY <1>17 DEF ControllerResetEnds
<1>18. CASE PortResetEnds
  <2>1. UNCHANGED <<driver, commands>>
    BY <1>18 DEF PortResetEnds
  <2> QED
    BY <2>1
<1>19. ASSUME NEW p \in Ports, PlugIn(p) PROVE Orderly'
  BY <1>19 DEF PlugIn
<1>20. ASSUME NEW p \in Ports, PullOut(p) PROVE Orderly'
  BY <1>20 DEF PullOut
<1>21. CASE UNCHANGED vars
  BY <1>21 DEF vars
<1> QED
  BY <1>1, <1>2, <1>3, <1>4, <1>5, <1>6, <1>7, <1>8, <1>9, <1>10, <1>11,
     <1>12, <1>13, <1>14, <1>15, <1>16, <1>17, <1>18, <1>19, <1>20, <1>21
     DEF Next, Driver, Hardware, Users

(* What the driver has not read is noted in the change bits.                  *)
LEMMA ChangesAreKept ==
  ASSUME NoChangeIsMissed, [Next]_vars PROVE NoChangeIsMissed'
<1> USE DEF NoChangeIsMissed
<1>1. CASE \/ New \/ StopController \/ AwaitHalt
         \/ ResetController \/ AwaitReset \/ StartController
  BY <1>1 DEF New, StopController, AwaitHalt, ResetController, AwaitReset,
       StartController
<1>2. CASE Enumerate \/ LookAtPort \/ ProbePort \/ ReadPortsc
  BY <1>2 DEF Enumerate, LookAtPort, ProbePort, ReadPortsc, ReadsPort
<1>3. CASE WriteBack
  BY <1>3 DEF WriteBack, WritesPortsc
<1>4. CASE PollAgain \/ PollEnds \/ EnumerationEnds
  BY <1>4 DEF PollAgain, PollEnds, EnumerationEnds, ReadsPort
<1>5. CASE Hardware
  BY <1>5 DEF Hardware, Halt, GoOn, ControllerResetEnds, PortResetEnds
<1>6. CASE Users
  BY <1>6 DEF Users, PlugIn, PullOut, ConnectionChanges
<1>7. CASE UNCHANGED vars
  BY <1>7 DEF vars
<1> QED
  BY <1>1, <1>2, <1>3, <1>4, <1>5, <1>6, <1>7 DEF Next, Driver

---------------------------------------------------------------------------
(* The enumeration.                                                           *)
Fair == TypeOK /\ devices \in Seq(Ports) /\ Progress /\ EnumerationIsFair

(* It holds before the first enumeration, in which nothing is enumerated.     *)
LEMMA InitFair == Init => Fair
<1> SUFFICES ASSUME Init PROVE Fair
  OBVIOUS
<1> USE XhciAssumption DEF XhciAssumption, Init, Fair, Ports, Enumerating
<1>1. TypeOK
  BY DEF TypeOK, Busy
<1>2. devices \in Seq(Ports)
  OBVIOUS
<1> QED
  BY <1>1, <1>2 DEF Progress, EnumerationIsFair

(* No poll yet is a number of polls.                                          *)
LEMMA NoPollsYet == 0 \in 0 .. MaxPolls
  BY XhciAssumption DEF XhciAssumption

(* Every step keeps it: the driver's, the controller's and the users'.        *)
LEMMA FairnessIsKept ==
  ASSUME Fair, Orderly, [Next]_vars PROVE Fair'
<1> USE XhciAssumption
    DEF XhciAssumption, Fair, Ports, PortBits, Enumerating, Found, TypeOK, Busy,
        Progress, EnumerationIsFair
<1>1. CASE New
  BY <1>1 DEF New
<1>2. CASE StopController
  BY <1>2 DEF StopController
<1>3. CASE AwaitHalt
  BY <1>3 DEF AwaitHalt
<1>4. CASE ResetController
  BY <1>4 DEF ResetController
<1>5. CASE AwaitReset
  BY <1>5 DEF AwaitReset
<1>6. CASE StartController
  BY <1>6 DEF StartController
<1>7. CASE Enumerate
  BY <1>7 DEF Enumerate
<1>8. CASE LookAtPort
  <2>1. CASE port \in connected
    <3>1. pc' = "probe" /\ port' = port
      BY <1>8, <2>1 DEF LookAtPort, NextPort, ReadsPort
    <3>2. UNCHANGED <<portsc, polls, devices, connected, enabled, resetting,
                     changed, steady, seen>>
      BY <1>8, <2>1 DEF LookAtPort, NextPort, ReadsPort
    <3>3. port < MaxPorts
      BY <1>8 DEF LookAtPort, NextPort, ReadsPort
    <3> QED
      BY <1>8, <2>1, <3>1, <3>2, <3>3 DEF LookAtPort
  <2>2. CASE port \notin connected
    <3>1. pc' = "look" /\ port' = port + 1
      BY <1>8, <2>2 DEF LookAtPort, NextPort, ReadsPort
    <3>2. UNCHANGED <<portsc, polls, devices, connected, enabled, resetting,
                     changed, steady, seen>>
      BY <1>8, <2>2 DEF LookAtPort, NextPort, ReadsPort
    <3>3. port < MaxPorts
      BY <1>8 DEF LookAtPort, NextPort, ReadsPort
    <3>4. port \notin steady
      BY <2>2
    <3> QED
      BY <1>8, <3>1, <3>2, <3>3, <3>4 DEF LookAtPort
  <2> QED
    BY <2>1, <2>2
<1>9. CASE ProbePort
  <2>1. CASE port \in connected
    <3>1. pc' = "reset port" /\ port' = port
      BY <1>9, <2>1 DEF ProbePort, NextPort, ReadsPort
    <3>2. UNCHANGED <<portsc, polls, devices, connected, enabled, resetting,
                     changed, steady, seen>>
      BY <1>9, <2>1 DEF ProbePort, NextPort, ReadsPort
    <3>3. port < MaxPorts
      BY <1>9 DEF ProbePort, NextPort, ReadsPort
    <3> QED
      BY <1>9, <2>1, <3>1, <3>2, <3>3 DEF ProbePort
  <2>2. CASE port \notin connected
    <3>1. pc' = "look" /\ port' = port + 1
      BY <1>9, <2>2 DEF ProbePort, NextPort, ReadsPort
    <3>2. UNCHANGED <<portsc, polls, devices, connected, enabled, resetting,
                     changed, steady, seen>>
      BY <1>9, <2>2 DEF ProbePort, NextPort, ReadsPort
    <3>3. port < MaxPorts
      BY <1>9 DEF ProbePort, NextPort, ReadsPort
    <3>4. port \notin steady
      BY <2>2
    <3> QED
      BY <1>9, <3>1, <3>2, <3>3, <3>4 DEF ProbePort
  <2> QED
    BY <2>1, <2>2
<1>10. CASE ReadPortsc
  BY <1>10 DEF ReadPortsc, ReadsPort, PortscOf
<1>11. CASE WriteBack
  <2> USE <1>11 DEF WriteBack, WritesPortsc
  <2>1. enabled' \subseteq enabled /\ resetting' \subseteq connected
    OBVIOUS
  <2>2. \A p \in enabled : p # port => p \in enabled'
    OBVIOUS
  <2>3. /\ resetting \subseteq resetting'
        /\ port \in steady => port \in resetting'
    OBVIOUS
  <2>4. changed' \subseteq changed /\ portsc' \subseteq PortBits
    OBVIOUS
  <2>5. polls' \in 0 .. MaxPolls
    BY NoPollsYet
  <2>6. TypeOK'
    BY <2>1, <2>4, <2>5
  <2>7. Progress'
    BY <2>3
  <2>8. EnumerationIsFair'
    BY <2>2, <2>3
  <2> QED
    BY <2>6, <2>7, <2>8
<1>12. CASE PollAgain
  BY <1>12 DEF PollAgain, ReadsPort
<1>13. CASE PollEnds
  <2> USE <1>13 DEF PollEnds, NextPort, ReadsPort
  <2>1. port \in Ports /\ port \in seen /\ port' = port + 1 /\ pc' = "look"
    OBVIOUS
  <2>2. /\ devices' \in Seq(Ports) /\ Len(devices') = Len(devices) + 1
        /\ \A i \in 1 .. Len(devices) : devices'[i] = devices[i]
        /\ devices'[Len(devices) + 1] = port
    BY <2>1
  <2>3. UNCHANGED <<portsc, polls, connected, enabled, resetting, changed,
                   steady, seen>>
    OBVIOUS
  <2>4. TypeOK'
    BY <2>1, <2>2, <2>3
  <2>5. Progress'
    BY <2>1, <2>2, <2>3
  <2>6. Found' = Found \cup {port}
    BY <2>2
  <2>7. \A i \in 1 .. Len(devices') - 1 : devices'[i] < devices'[i + 1]
    BY <2>1, <2>2
  <2>8. EnumerationIsFair'
    BY <2>1, <2>3, <2>6, <2>7
  <2> QED
    BY <2>2, <2>4, <2>5, <2>8
<1>14. CASE EnumerationEnds
  BY <1>14 DEF EnumerationEnds
<1>15. CASE Halt
  BY <1>15 DEF Halt
<1>16. CASE GoOn
  BY <1>16 DEF GoOn
<1>17. CASE ControllerResetEnds
  BY <1>17 DEF ControllerResetEnds, Orderly
<1>18. CASE PortResetEnds
  <2> USE <1>18 DEF PortResetEnds
  <2>1. TypeOK'
    OBVIOUS
  <2>2. Progress'
    OBVIOUS
  <2>3. EnumerationIsFair'
    OBVIOUS
  <2> QED
    BY <2>1, <2>2, <2>3
<1>19. ASSUME NEW p \in Ports, PlugIn(p) PROVE Fair'
  BY <1>19 DEF PlugIn, ConnectionChanges
<1>20. ASSUME NEW p \in Ports, PullOut(p) PROVE Fair'
  BY <1>20 DEF PullOut, ConnectionChanges
<1>21. CASE UNCHANGED vars
  BY <1>21 DEF vars
<1> QED
  BY <1>1, <1>2, <1>3, <1>4, <1>5, <1>6, <1>7, <1>8, <1>9, <1>10, <1>11,
     <1>12, <1>13, <1>14, <1>15, <1>16, <1>17, <1>18, <1>19, <1>20, <1>21
     DEF Next, Driver, Hardware, Users

---------------------------------------------------------------------------
(* The inductive invariant: what the three parts above add up to.             *)
LEMMA XhciInit == Init => IInv
  BY InitOrderly, InitFair DEF IInv, Fair, Init, NoChangeIsMissed

LEMMA XhciStep == IInv /\ [Next]_vars => IInv'
  BY OrderIsKept, ChangesAreKept, FairnessIsKept DEF IInv, Fair

(* xhci.rs: it holds throughout, of the driver by itself.                     *)
THEOREM XhciInvariant == Spec => []IInv
  BY XhciInit, XhciStep, PTL DEF Spec

(* xhci.rs: types, however many ports and devices.                            *)
THEOREM TypesAreKept == Spec => []TypeOK
<1>1. IInv => TypeOK
  BY DEF IInv
<1> QED
  BY <1>1, XhciInvariant, PTL

(* xhci.rs, enumerate_devices: whatever is plugged and pulled meanwhile, the  *)
(* ports reported are in order, without repetition, had a device, and none    *)
(* that had one all the time is missing or not ready for use.                 *)
THEOREM EnumerationsAreFair == Spec => []EnumerationIsFair
<1>1. IInv => EnumerationIsFair
  BY DEF IInv
<1> QED
  BY <1>1, XhciInvariant, PTL

(* xhci.rs:111: writing PORTSC back loses no first change of a connection.    *)
THEOREM ChangesAreNoted == Spec => []NoChangeIsMissed
<1>1. IInv => NoChangeIsMissed
  BY DEF IInv
<1> QED
  BY <1>1, XhciInvariant, PTL

(* What a step may do to the commands.                                        *)
ResetStepOK ==
  [/\ (hcreset' /\ ~hcreset) => halted
   /\ (run' /\ ~run) => ~hcreset]_commands

LEMMA ResetStep == IInv /\ [Next]_vars => ResetStepOK
<1> SUFFICES ASSUME IInv, [Next]_vars PROVE ResetStepOK
  OBVIOUS
<1> USE DEF IInv, Orderly, ResetStepOK
<1>1. CASE New
  BY <1>1 DEF New
<1>2. CASE StopController
  BY <1>2 DEF StopController
<1>3. CASE AwaitHalt
  BY <1>3 DEF AwaitHalt
<1>4. CASE ResetController
  BY <1>4 DEF ResetController
<1>5. CASE AwaitReset
  BY <1>5 DEF AwaitReset
<1>6. CASE StartController
  BY <1>6 DEF StartController
<1>7. CASE Enumerate
  BY <1>7 DEF Enumerate
<1>8. CASE LookAtPort
  BY <1>8 DEF LookAtPort, NextPort
<1>9. CASE ProbePort
  BY <1>9 DEF ProbePort, NextPort
<1>10. CASE ReadPortsc
  BY <1>10 DEF ReadPortsc
<1>11. CASE WriteBack
  BY <1>11 DEF WriteBack
<1>12. CASE PollAgain
  BY <1>12 DEF PollAgain
<1>13. CASE PollEnds
  BY <1>13 DEF PollEnds, NextPort
<1>14. CASE EnumerationEnds
  BY <1>14 DEF EnumerationEnds
<1>15. CASE Halt
  BY <1>15 DEF Halt
<1>16. CASE GoOn
  BY <1>16 DEF GoOn
<1>17. CASE ControllerResetEnds
  BY <1>17 DEF ControllerResetEnds
<1>18. CASE PortResetEnds
  <2>1. UNCHANGED <<driver, commands>>
    BY <1>18 DEF PortResetEnds
  <2> QED
    BY <2>1
<1>19. ASSUME NEW p \in Ports, PlugIn(p) PROVE ResetStepOK
  BY <1>19 DEF PlugIn
<1>20. ASSUME NEW p \in Ports, PullOut(p) PROVE ResetStepOK
  BY <1>20 DEF PullOut
<1>21. CASE UNCHANGED vars
  BY <1>21 DEF vars
<1> QED
  BY <1>1, <1>2, <1>3, <1>4, <1>5, <1>6, <1>7, <1>8, <1>9, <1>10, <1>11,
     <1>12, <1>13, <1>14, <1>15, <1>16, <1>17, <1>18, <1>19, <1>20, <1>21
     DEF Next, Driver, Hardware, Users

(* xhci.rs, init: the controller is reset only when it has halted, and        *)
(* started only out of reset, in both builds.                                 *)
THEOREM ResetsAreOrderly == Spec => ResetIsOrderly
  BY ResetStep, XhciInvariant, PTL DEF Spec, ResetIsOrderly, ResetStepOK


HIDE DEF where, driver, commands, portRegs, ghosts, Goes

---------------------------------------------------------------------------
(* All of them side by side.                                                  *)

(* A step of the whole is, for each component, one of its own or none.        *)
LEMMA StepOfEach ==
  ASSUME [DriversNext]_allVars
  PROVE  /\ [Kbd!Next]_keyVars /\ [Audio!Next]_audioVars /\ [Tens!Next]_tensVars
         /\ [Radio!Next]_radioVars /\ [Tun!Next]_tunerVars
         /\ [Bus!Probe \/ Bus!Scanned]_busVars
         /\ [Dev!Next]_deviceVars /\ [Next]_vars
<1>1. CASE UNCHANGED allVars
  BY <1>1 DEF allVars
<1>2. CASE Only("keys") /\ Kbd!Next
  BY <1>2 DEF Only
<1>3. CASE Only("audio") /\ Audio!Next
  BY <1>3 DEF Only
<1>4. CASE Only("tensor") /\ Tens!Next
  BY <1>4 DEF Only
<1>5. CASE Only("radio") /\ Radio!Next
  BY <1>5 DEF Only
<1>6. CASE Only("tuner") /\ Tun!Next
  BY <1>6 DEF Only
<1>7. CASE Only("bus") /\ (Bus!Probe \/ Bus!Scanned)
  BY <1>7 DEF Only
<1>8. CASE Only("device") /\ Dev!Next
  BY <1>8 DEF Only
<1>9. CASE Only("usb") /\ Next
  BY <1>9 DEF Only
<1>10. CASE Ended
  BY <1>1, <1>10 DEF Ended
<1> QED
  BY <1>1, <1>2, <1>3, <1>4, <1>5, <1>6, <1>7, <1>8, <1>9, <1>10 DEF DriversNext

(* All of the above.                                                          *)
DriversInv ==
  /\ KeysInv /\ AudioInv /\ TensorInv /\ RadioInv /\ TunerInv /\ BusInv /\ DeviceInv
  /\ IInv

(* The invariants of the components hold of them together, whichever runs.    *)
THEOREM DriversInvariant == DriversSpec => []DriversInv
<1>1. DriversInit => DriversInv
  BY KeysInit, AudioInit, TensorInit, RadioInit, TunerInit, BusInit, DeviceInit, XhciInit
     DEF DriversInit, DriversInv
<1>2. DriversInv /\ [DriversNext]_allVars => DriversInv'
  <2> SUFFICES ASSUME DriversInv, [DriversNext]_allVars PROVE DriversInv'
    OBVIOUS
  <2>1. KeysInv' /\ AudioInv' /\ TensorInv' /\ RadioInv'
    BY StepOfEach, KeysStep, AudioStep, TensorStep, RadioStep DEF DriversInv
  <2>2. TunerInv' /\ BusInv' /\ DeviceInv' /\ IInv'
    BY StepOfEach, TunerStep, BusStep, DeviceStep, XhciStep DEF DriversInv
  <2> QED
    BY <2>1, <2>2 DEF DriversInv
<1> QED
  BY <1>1, <1>2, PTL DEF DriversSpec

(* drivers and ai: the types of all components, whatever the sizes.           *)
THEOREM DriversTypes == DriversSpec => []DriversTypeOK
<1>1. DriversInv => DriversTypeOK
  <2> SUFFICES ASSUME DriversInv PROVE DriversTypeOK
    OBVIOUS
  <2>1. Kbd!TypeOK /\ Audio!TypeOK /\ Radio!TypeOK /\ Tun!TypeOK /\ Dev!TypeOK /\ TypeOK
    BY RadioTypes, TunerTypes, DeviceTypes DEF DriversInv, KeysInv, AudioInv, IInv
  <2>2. /\ config \in [0 .. Devices - 1 -> [answers : SUBSET (0 .. Functions - 1), multi : BOOLEAN]]
        /\ cursor \in 0 .. Devices * Functions
    BY DEF DriversInv, BusInv, BusType, Bus!End
  <2> QED
    BY <2>1, <2>2 DEF DriversTypeOK
<1> QED
  BY <1>1, DriversInvariant, PTL

(* pci/mod.rs, enumerate_devices: after the scan the functions reported are   *)
(* those that answer, in order, none twice, on a bus of any size.             *)
THEOREM ScansAreExact == DriversSpec => []ScanIsExact
<1>1. DriversInv => ScanIsExact
  BY DEF DriversInv, BusInv, ScanIsExact
<1> QED
  BY <1>1, DriversInvariant, PTL

(* pci/mod.rs: reads return and writes change the bytes they are for and no   *)
(* others, and no error bit is cleared that nobody has seen.                  *)
THEOREM ConfigAccessesAreExact == DriversSpec => []AccessesAreExact
<1>1. DriversInv => AccessesAreExact
  BY DeviceTypes DEF DriversInv, AccessesAreExact
<1> QED
  BY <1>1, DriversInvariant, PTL

(* rtlsdr.rs: after any settings, accepted or refused, init of an attached    *)
(* receiver succeeds, and nothing overflows or divides by zero.               *)
THEOREM InitSucceeds == DriversSpec => []InitSucceedsOnceAttached
<1>1. DriversInv => InitSucceedsOnceAttached
  BY DEF DriversInv, TunerInv, InitSucceedsOnceAttached
<1> QED
  BY <1>1, DriversInvariant, PTL

(* demodulator.rs: for every length of the filter and every factor, the       *)
(* outputs are those of one endless slice.                                    *)
THEOREM SlicesNeverMatter == DriversSpec => []SlicesDoNotMatter
<1>1. DriversInv => SlicesDoNotMatter
  BY DEF DriversInv, RadioInv, SlicesDoNotMatter
<1> QED
  BY <1>1, DriversInvariant, PTL

(* whisper.rs, preprocess_audio: for every frame and hop length, the frames   *)
(* counted fit the window and one more would not.                             *)
THEOREM FramesAlwaysFit == DriversSpec => []FramesFitTheWindow
<1>1. DriversInv => FramesFitTheWindow
  BY DEF DriversInv, AudioInv, FramesFitTheWindow
<1> QED
  BY <1>1, DriversInvariant, PTL

(* tensor.rs: for all tensors of any shape, data and shape agree after every  *)
(* operation, matmul is the product, each element is normalized once, and     *)
(* nothing else panics.                                                       *)
THEOREM TensorsAreConsistent == DriversSpec => []TensorsStayConsistent
<1>1. DriversInv => TensorsStayConsistent
  BY DEF DriversInv, TensorInv, TensorsStayConsistent
<1> QED
  BY <1>1, DriversInvariant, PTL

(* keyboard.rs: a buffer of any size is a queue with room for all positions   *)
(* but one, which one key too many empties.                                   *)
THEOREM TheRingIsAQueue == DriversSpec => RingSpec
<1>1. DriversInit => Kbd!Ring!QueueInit
  BY KeysInit DEF DriversInit
<1>2. DriversInv /\ [DriversNext]_allVars => [Kbd!Ring!QueueNext]_(Kbd!Ring!queueVars)
  BY StepOfEach, KeysRefine DEF DriversInv
<1> QED
  BY <1>1, <1>2, DriversInvariant, PTL DEF DriversSpec, RingSpec, Kbd!RingSpec, Kbd!Ring!QueueSpec

(* whisper.rs, AudioBuffer: a window of any capacity is a queue of the newest *)
(* samples, in whatever slices they arrive.                                   *)
THEOREM TheWindowIsAQueue == DriversSpec => WindowSpec
<1>1. DriversInit => Audio!Window!QueueInit
  BY AudioInit DEF DriversInit
<1>2. DriversInv /\ [DriversNext]_allVars => [Audio!Window!QueueNext]_(Audio!Window!queueVars)
  BY StepOfEach, AudioStep DEF DriversInv
<1> QED
  BY <1>1, <1>2, DriversInvariant, PTL
     DEF DriversSpec, WindowSpec, Audio!WindowSpec, Audio!Window!QueueSpec

(* xhci.rs: what holds of the driver by itself holds of it among the others.  *)
THEOREM XhciAmongTheOthers ==
  DriversSpec => [](EnumerationIsFair /\ NoChangeIsMissed) /\ ResetIsOrderly
<1>1. DriversInv => EnumerationIsFair /\ NoChangeIsMissed
  BY DEF DriversInv, IInv
<1>2. DriversInv /\ [DriversNext]_allVars => ResetStepOK
  BY StepOfEach, ResetStep DEF DriversInv
<1> QED
  BY <1>1, <1>2, DriversInvariant, PTL DEF DriversSpec, ResetIsOrderly, ResetStepOK
=============================================================================
