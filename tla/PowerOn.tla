------------------------------ MODULE PowerOn -------------------------------
(* The machine from power-on to the idle loop: the boot sector hands over to  *)
(* the kernel, whose first acts load its descriptor tables, and which then    *)
(* brings up its drivers, frames and heap.  The CPU may raise an exception at *)
(* any moment of it; what becomes of it depends on how far the boot is.       *)
EXTENDS Integers

CONSTANTS Entries, KernelPages, BootPage, StackPage, Left,     \* Bootloader
          Raisable, None,                                      \* Exceptions
          Devices, Functions, HeapStart, HeapSize, Null, FrameCount,
          DeviceVector, TestVector, TestString, LongString, TestBox
                                                               \* KernelBoot
VARIABLES at, mode, interrupts, paging, prepared, cr3, edi, ebx, memory,
          pc, gdt, idt, armed, cs, ds, delivering, raised, handled, ready,
          stage, transmitter, frames, config, cursor, devices,
          heap_start, heap_end, next, allocations, live, pointer

Loader == INSTANCE Bootloader
Cpu    == INSTANCE Exceptions
Kernel == INSTANCE KernelBoot

ASSUME PowerOnAssumption ==
  /\ Loader!BootAssumption /\ Cpu!ExceptionsAssumption
  /\ Kernel!Pci!PciAssumption /\ Kernel!KernelAssumption

loaderVars == <<at, mode, interrupts, paging, prepared, cr3, edi, ebx, memory>>
cpuVars    == <<pc, gdt, idt, armed, cs, ds, delivering, raised, handled, ready>>
kernelVars == <<stage, transmitter, frames, config, cursor, devices,
                heap_start, heap_end, next, allocations, live, pointer>>
vars       == <<loaderVars, cpuVars, kernelVars>>

Init == Loader!Init /\ Cpu!Init /\ Kernel!Init

InKernel == at = "kernel"
Idles    == stage \in {"idle", "halted"}

Load == Loader!Run /\ UNCHANGED <<cpuVars, kernelVars>>

(* gdt::init and interrupts::init, and the delivery of an exception: nothing  *)
(* else happens on the CPU meanwhile.                                         *)
SetUpTables ==
  /\ InKernel
  /\ \/ Cpu!LoadGdt \/ Cpu!FarReturn \/ Cpu!LoadSegments
     \/ Cpu!RegisterHandlers \/ Cpu!LoadIdt
  /\ UNCHANGED <<loaderVars, kernelVars>>

Except ==
  /\ Cpu!DeliverThroughBios \/ Cpu!Deliver \/ Cpu!DeliverInstead \/ Cpu!Panic
  /\ UNCHANGED <<loaderVars, kernelVars>>

(* The kernel proper runs once its tables are loaded, until an exception.     *)
RunKernel ==
  /\ InKernel /\ pc = "running" /\ delivering = None
  /\ Kernel!Run
  /\ UNCHANGED <<loaderVars, cpuVars>>

Transmit == Kernel!Transmit /\ UNCHANGED <<loaderVars, cpuVars>>

(* The instructions that run once the CPU is halted raise nothing.            *)
RaiseException(v) ==
  /\ InKernel /\ ~Idles
  /\ Cpu!Raise(v)
  /\ UNCHANGED <<loaderVars, kernelVars>>

Over == at = "hang" \/ Idles \/ pc \in {"halted", "reset", "astray"}

Next ==
  \/ Load \/ SetUpTables \/ Except \/ RunKernel \/ Transmit
  \/ \E v \in Raisable : RaiseException(v)
  \/ Over /\ UNCHANGED vars

(* There is one CPU, and it runs: the boot sector, the kernel, the delivery   *)
(* of what the kernel has raised.  The serial port sends its byte.  Nothing   *)
(* is assumed of exceptions.                                                  *)
Spec ==
  /\ Init /\ [][Next]_vars
  /\ WF_vars(Load) /\ WF_vars(SetUpTables) /\ WF_vars(Except)
  /\ WF_vars(RunKernel) /\ WF_vars(Transmit)

---------------------------------------------------------------------------
(* The types of the three.                                                    *)
TypeOK == Loader!TypeOK /\ Cpu!TypeOK /\ Kernel!TypeOK

(* boot.asm: when paging is turned on, the code that does it, the stack and   *)
(* the kernel translate to themselves, and nothing else is mapped.            *)
PagingSurvives == Loader!PagingSurvives

(* boot.asm: nothing is written over the kernel between its reading and its   *)
(* start, nor over the boot sector that is running.                           *)
KernelArrivesWhole == Loader!KernelArrivesWhole

(* interrupts/idt.rs, gdt/mod.rs: with the IDT loaded, an exception ends in a *)
(* handler under the kernel's segments, but for three that reset the machine. *)
ExceptionsEndInAHandler == Cpu!ExceptionsEndInAHandler

(* main.rs: the kernel idles only after its memory tests passed, and panics   *)
(* (but for an exception) only because of a device on the PCI bus.            *)
BootOutcomeIsEarned == Kernel!IdleMeansTested /\ Kernel!PanicMeansDevice

(* From power-on, the machine ends in the idle loop, in a halt after a panic, *)
(* in the boot sector's hang loop or, by an exception, in a reset or astray:  *)
(* no loop of the boot runs for ever, and no wait of it is in vain.           *)
BootEnds == <>Over

(* allocator/mod.rs: no heap allocation comes before init_heap.               *)
HeapReadyBeforeUse == Kernel!HeapReadyBeforeUse

(* interrupts/handlers.rs: a double fault finds a handler.                    *)
DoubleFaultIsHandled == Cpu!DoubleFaultIsHandled
=============================================================================
