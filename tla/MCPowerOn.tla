----------------------------- MODULE MCPowerOn ------------------------------
(* The numbers of the boot sector as they are; the exceptions of the x86-64   *)
(* architecture that an instruction, a machine check or an NMI can raise; a   *)
(* PCI device of three function numbers; and the layouts the compiler uses for*)
(* the boot's values (the record of a PCI device, four i32, nine bytes that   *)
(* grow to eighteen, an i32) in a heap of a hundred bytes.                    *)
EXTENDS PowerOn

MCKernelPages  == 8 .. 15
MCRaisable     == (0 .. 7) \cup (10 .. 14) \cup (16 .. 19)
MCDeviceVector == [size |-> 176, align |-> 4]
MCTestVector   == [size |-> 16, align |-> 4]
MCTestString   == [size |-> 9, align |-> 1]
MCLongString   == [size |-> 18, align |-> 1]
MCTestBox      == [size |-> 4, align |-> 4]
=============================================================================
