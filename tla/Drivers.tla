------------------------------- MODULE Drivers -------------------------------
(* The drivers and the AI module side by side.  They share nothing, so a      *)
(* behaviour runs one of them and the others stand still.  The xHCI driver is *)
(* extended, its properties are those of Xhci: they hold of it at rest.       *)
EXTENDS Xhci

CONSTANTS Size, Keys, None,                       \* Keyboard
          Samples, Formats, Chunks, NFft, Hop,    \* AudioBuffer
          Tensors, MaxOps,                        \* Tensor
          Taps, Factor, MaxSlice, MaxInput,       \* Decimator
          Vendors, Frequencies, Rates,            \* Tuner
          Devices, Functions,                     \* PciBus
          Places, Errors, Spaces, Values, MaxCalls     \* PciConfig

VARIABLES part,
          ring, read_pos, write_pos, key, typed,                   \* keys
          window, capacity, panicked, frames, slice,               \* audio
          tensor, groups, result, operands, ops,                   \* tensor
          delay, index, counter, left, consumed, output,           \* radio
          receiver, frequency, sample_rate, call, answer, failed,  \* tuner
          config, cursor, functions,                               \* bus
          step, op, dword, value, latch, space, calls,             \* device
          expected, pending

Kbd   == INSTANCE Keyboard WITH buffer <- ring, pushed <- typed
Audio == INSTANCE AudioBuffer WITH buffer <- window, pushed <- slice
Tens  == INSTANCE Tensor WITH answer <- result
Radio == INSTANCE Decimator WITH buffer <- delay
Tun   == INSTANCE Tuner WITH device <- receiver, panicked <- failed
Bus   == INSTANCE PciBus WITH devices <- functions
Dev   == INSTANCE PciConfig WITH pc <- step, result <- value, unread <- pending

ASSUME DriversAssumption ==
  /\ Kbd!KeyboardAssumption /\ Audio!AudioAssumption /\ Tens!TensorAssumption
  /\ Radio!DecimatorAssumption /\ Tun!TunerAssumption
  /\ Bus!PciAssumption /\ Dev!PciConfigAssumption

Parts == {"keys", "audio", "tensor", "radio", "tuner", "bus", "device", "usb"}
keyVars    == <<ring, read_pos, write_pos, key, typed>>
audioVars  == <<window, capacity, panicked, frames, slice>>
tensVars   == <<tensor, groups, result, operands, ops>>
radioVars  == <<delay, index, counter, left, consumed, output>>
tunerVars  == <<receiver, frequency, sample_rate, call, answer, failed>>
busVars    == <<config, cursor, functions>>
deviceVars == <<step, op, dword, value, latch, space, calls, expected, pending>>
allVars == <<part, keyVars, audioVars, tensVars, radioVars, tunerVars, busVars,
             deviceVars, vars>>

DriversInit ==
  /\ part \in Parts
  /\ Kbd!Init /\ Audio!Init /\ Tens!Init /\ Radio!Init /\ Tun!Init
  /\ Bus!PciInit /\ Dev!Init /\ Init

Only(p) ==
  /\ part = p /\ UNCHANGED part
  /\ IF p = "keys"   THEN TRUE ELSE UNCHANGED keyVars
  /\ IF p = "audio"  THEN TRUE ELSE UNCHANGED audioVars
  /\ IF p = "tensor" THEN TRUE ELSE UNCHANGED tensVars
  /\ IF p = "radio"  THEN TRUE ELSE UNCHANGED radioVars
  /\ IF p = "tuner"  THEN TRUE ELSE UNCHANGED tunerVars
  /\ IF p = "bus"    THEN TRUE ELSE UNCHANGED busVars
  /\ IF p = "device" THEN TRUE ELSE UNCHANGED deviceVars
  /\ IF p = "usb"    THEN TRUE ELSE UNCHANGED vars

(* A panic is the end, and so is a bound.                                     *)
Ended ==
  /\ \/ part = "audio" /\ panicked
     \/ part = "tensor" /\ (result = "panic" \/ ops = MaxOps)
  /\ UNCHANGED allVars

DriversNext ==
  \/ Only("keys")   /\ Kbd!Next
  \/ Only("audio")  /\ Audio!Next
  \/ Only("tensor") /\ Tens!Next
  \/ Only("radio")  /\ Radio!Next
  \/ Only("tuner")  /\ Tun!Next
  \/ Only("bus")    /\ (Bus!Probe \/ Bus!Scanned)
  \/ Only("device") /\ Dev!Next
  \/ Only("usb")    /\ Next
  \/ Ended

(* Only the xHCI driver waits for something; the fairness is that of Xhci.    *)
DriversFairness ==
  /\ WF_allVars(Only("usb") /\ Driver)
  /\ WF_allVars(Only("usb") /\ Halt)
  /\ WF_allVars(Only("usb") /\ ControllerResetEnds)

DriversSpec == DriversInit /\ [][DriversNext]_allVars /\ DriversFairness

---------------------------------------------------------------------------
(* The types of all eight, each while it runs.                                *)
DriversTypeOK ==
  /\ part = "keys"   => Kbd!TypeOK
  /\ part = "audio"  => Audio!TypeOK
  /\ part = "radio"  => Radio!TypeOK
  /\ part = "tuner"  => Tun!TypeOK
  /\ part = "device" => Dev!TypeOK
  /\ part = "usb"    => TypeOK
  /\ part = "bus"    =>
       /\ config \in [0 .. Devices - 1 -> [answers : SUBSET (0 .. Functions - 1), multi : BOOLEAN]]
       /\ cursor \in 0 .. Devices * Functions

(* keyboard.rs: the ring is a queue of keys, in order, that one key too many  *)
(* empties.                                                                   *)
RingSpec == Kbd!RingSpec

(* whisper.rs: the audio buffer holds the newest samples, however they come.  *)
WindowSpec == Audio!WindowSpec

(* demodulator.rs: the outputs do not depend on how the stream is cut.        *)
SlicesDoNotMatter == part = "radio" => Radio!SlicesDoNotMatter

(* pci/mod.rs: the scan reports what is on the bus, and nothing else.         *)
ScanIsExact == part = "bus" => Bus!ScanIsExact

(* pci/mod.rs: an access to configuration space reads and changes the bytes   *)
(* it is for, and costs no error of a device unseen.                          *)
AccessesAreExact == part = "device" => Dev!AccessesAreExact

(* whisper.rs: a transcription counts the frames the window holds.            *)
FramesFitTheWindow == part = "audio" => Audio!FramesFitTheWindow

(* tensor.rs: no sequence of operations brings data and shape apart.          *)
TensorsStayConsistent == part = "tensor" => Tens!TensorsStayConsistent

(* rtlsdr.rs: refused settings leave nothing behind that init refuses.        *)
InitSucceedsOnceAttached == part = "tuner" => Tun!InitSucceedsOnceAttached
=============================================================================
