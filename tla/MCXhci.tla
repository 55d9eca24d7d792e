------------------------------- MODULE MCXhci -------------------------------
(* The xHCI driver by itself, where it does not do what its comments say.     *)
(*   MCXhciBar      every kind of window a BAR can open, below and above 4 GB *)
(*   MCXhciRelease  the registers read as the release build may read them     *)
EXTENDS Xhci

MCBars    == [bar0 : {0, 4096, 4104, 4100, 4108}, bar1 : {0, 2}]
MCLowBars == {[bar0 |-> 4096, bar1 |-> 0]}
=============================================================================
