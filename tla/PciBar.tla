------------------------------- MODULE PciBar -------------------------------
(* Base address registers, drivers/pci/mod.rs: the low bits of each say what  *)
(* kind of window it opens, the others where.                                 *)
EXTENDS Integers

Nothing == [low |-> -1, high |-> 0]    \* None, or no base address yet

(* Values of BAR0 and BAR1, as far as they are told apart here.               *)
BarPairs == [bar0 : Nat, bar1 : Nat]

(* PciDevice::get_bar_type                                                    *)
IsIo(bar)         == bar % 2 = 1
MemoryType(bar)   == (bar \div 2) % 4
Prefetchable(bar) == (bar \div 8) % 2 = 1
get_bar_type(bar) ==
  CASE bar = 0                        -> [space |-> "none"]
    [] bar # 0 /\ IsIo(bar)           -> [space |-> "io", address |-> bar - (bar % 4)]
    [] bar # 0 /\ ~IsIo(bar) /\ MemoryType(bar) \in {0, 2} ->
         [space |-> "memory", address |-> bar - (bar % 16),
          mem_type |-> IF MemoryType(bar) = 0 THEN "Bit32" ELSE "Bit64",
          prefetchable |-> Prefetchable(bar)]
    [] OTHER                          -> [space |-> "none"]

(* The device: a memory window starts where get_bar_type says, and one of 64  *)
(* bits has the upper half of its address in the next register.               *)
WindowOf(bars) ==
  LET bar == get_bar_type(bars.bar0) IN
  IF bar.space # "memory" THEN Nothing
  ELSE [low |-> bar.address, high |-> IF bar.mem_type = "Bit64" THEN bars.bar1 ELSE 0]
=============================================================================
