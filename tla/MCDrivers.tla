------------------------------ MODULE MCDrivers -----------------------------
(* An instance of each driver and of the AI module.                           *)
(*   keys    a buffer of four positions and three keys: every pair of         *)
(*           positions comes up, and the push that meets the reader           *)
(*   audio   windows of no, one, three, four and five samples (100 Hz for 9,  *)
(*           10, 39, 40 and 50 ms), slices of none to five, and frames of     *)
(*           three samples every two                                          *)
(*   tensor  shapes that are square and not, of one dimension and none, and   *)
(*           with a dimension of zero; three operations in a row              *)
(*   radio   three taps and a factor of four, coprime: outputs fall on every  *)
(*           position of the ring                                             *)
(*   tuner   both ends of both ranges, and what lies beyond them              *)
(*   bus     two devices of three function numbers, with every pattern of     *)
(*           answers                                                          *)
(*   device  two functions whose addresses share every bit but two, two       *)
(*           errors, two calls: a write clears one error while the other is   *)
(*           recorded                                                         *)
(*   usb     three ports and two replugs: a device can come back before, on   *)
(*           and behind the port the enumeration is at; two polls for 1000;   *)
(*           registers read anew, and a BAR of 32 bits                        *)
EXTENDS Drivers

MCFormats    == {<<100, 9>>, <<100, 10>>, <<100, 39>>, <<100, 40>>, <<100, 50>>}
MCChunks     == UNION {[1 .. n -> Samples] : n \in 0 .. 5}
MCFilled(shape, n) ==
  [data |-> [x \in 1 .. n |-> IF x % 3 = 0 THEN -x ELSE x], shape |-> shape]
MCTensors ==
  {MCFilled(<<>>, 1), MCFilled(<<2>>, 2), MCFilled(<<3, 0>>, 0), MCFilled(<<0, 2>>, 0)}
    \cup {MCFilled(<<m, n>>, m * n) :
          <<m, n>> \in {<<2, 3>>, <<3, 2>>, <<2, 2>>, <<3, 1>>, <<1, 3>>}}
MCPlaces == {<<0, 1, 0>>, <<0, 0, 1>>}
MCSpaces ==
  {[p \in MCPlaces |-> [d \in {4, 60} |->
      IF d = 60 THEN {0, 8} ELSE IF p[2] = 1 THEN {0} ELSE {10}]]}
MCValues == {{1}, {1, 8}}
MCBars   == {[bar0 |-> 0, bar1 |-> 0], [bar0 |-> 4096, bar1 |-> 0]}

(* A component that stands still does so in one initial state.                *)
Standing ==
  /\ part \in Parts
  /\ part # "audio"  => capacity = 0
  /\ part # "tensor" => tensor = MCFilled(<<2>>, 2)
  /\ part # "bus"    => config = [d \in 0 .. Devices - 1 |-> [answers |-> {}, multi |-> FALSE]]
  /\ part # "usb"    => run = FALSE /\ connected = {} /\ bars = [bar0 |-> 4096, bar1 |-> 0]

MCInit == Standing /\ DriversInit
MCSpec == MCInit /\ [][DriversNext]_allVars /\ DriversFairness
=============================================================================
