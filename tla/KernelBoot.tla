----------------------------- MODULE KernelBoot -----------------------------
(* From _start to the idle loop, main.rs: the order in which the kernel       *)
(* brings up its parts, composed with the scan of the PCI bus and the global  *)
(* allocator.  Every allocation that returns null ends in the panic handler.  *)
(* What a step prints goes to the serial port, whose transmitter the kernel   *)
(* polls without a limit; a step starts when the transmitter is free.         *)
EXTENDS Integers, Sequences, FiniteSets

CONSTANTS Devices, Functions,                  \* the PCI bus
          HeapStart, HeapSize, Null,           \* the heap
          FrameCount,                          \* frames of managed RAM: 8192
          DeviceVector, TestVector, TestString, LongString, TestBox
                                               \* layouts of the boot's allocations

Layouts == {DeviceVector, TestVector, TestString, LongString, TestBox}

VARIABLES stage,                                                  \* where _start is
          transmitter,                                            \* "free" or "busy"
          frames,                                                 \* test frames allocated
          config, cursor, devices,                                \* PciBus
          heap_start, heap_end, next, allocations, live, pointer  \* BumpAllocator

Pci  == INSTANCE PciBus
Heap == INSTANCE BumpAllocator

pciVars  == <<config, cursor, devices>>
heapVars == <<heap_start, heap_end, next, allocations, live, pointer>>
vars     == <<stage, transmitter, frames, pciVars, heapVars>>

TestFrames == 5

(* As for the heap alone; further, the short string has a size of its own     *)
(* (9 bytes), the heap (1 MB) has room for the tests however their blocks are *)
(* padded, and the managed RAM (32 MB) for the test frames.                   *)
Padded(l) == l.size + l.align
KernelAssumption ==
  /\ HeapStart \in Nat \ {0} /\ HeapSize \in Nat
  /\ Layouts \subseteq [size : Nat \ {0}, align : Nat \ {0}]
  /\ Null \notin Nat
  /\ TestString.size \notin {TestVector.size, LongString.size}
  /\ Padded(TestVector) + Padded(TestString) + Padded(LongString) + Padded(TestBox)
       <= HeapSize
  /\ FrameCount \in Nat /\ TestFrames <= FrameCount

Init ==
  /\ stage = "start" /\ transmitter = "free" /\ frames = 0
  /\ Pci!PciInit
  /\ Heap!BumpInit

(* A step of _start that begins at one stage and ends at another, or in the   *)
(* panic handler if the heap gave it no memory.                               *)
Step(from, to) ==
  /\ stage = from /\ stage' = to
  /\ transmitter = "free" /\ transmitter' = "busy"

Allocating(from, to, l) ==
  /\ Heap!Alloc(l)
  /\ Step(from, IF pointer' = Null THEN "panic" ELSE to)

(* GDT, IDT, system calls, processes and IPC: nothing that can fail or that   *)
(* the later stages depend on.                                                *)
InitCpu ==
  /\ Step("start", "pci")
  /\ UNCHANGED <<frames, pciVars, heapVars>>

(* drivers::init_all, up to the end of the scan.  The vector of devices takes *)
(* its first memory when it gets its first device.                            *)
ScanFindsNothing ==
  /\ Step("pci", "pci")
  /\ Pci!ProbeNothing
  /\ UNCHANGED <<frames, heapVars>>

ScanFindsDevice ==
  /\ cursor < Pci!End /\ Pci!Answers(cursor)
  /\ IF devices = <<>>
       THEN Allocating("pci", "pci", DeviceVector)
       ELSE Step("pci", "pci") /\ UNCHANGED heapVars
  /\ IF stage' = "panic" THEN UNCHANGED pciVars ELSE Pci!ProbeFound
  /\ UNCHANGED frames

(* The vector of devices is dropped; USB and SDR find nothing, and their      *)
(* errors are ignored; file system and network do nothing.                    *)
FinishDrivers ==
  /\ cursor = Pci!End
  /\ Step("pci", "frames")
  /\ live' = {}
  /\ UNCHANGED <<frames, pciVars, heap_start, heap_end, next, allocations, pointer>>

(* A frame that cannot be allocated is reported and nothing else.             *)
AllocateTestFrames ==
  /\ Step("frames", "heap")
  /\ frames' = IF TestFrames <= FrameCount THEN TestFrames ELSE FrameCount
  /\ UNCHANGED <<pciVars, heapVars>>

InitHeap ==
  /\ Step("heap", "vector")
  /\ Heap!InitHeap
  /\ UNCHANGED <<frames, pciVars>>

(* Vec, String and Box; the string grows once and gives its first block back. *)
AllocateVector == Allocating("vector", "string", TestVector) /\ UNCHANGED <<frames, pciVars>>
AllocateString == Allocating("string", "longer", TestString) /\ UNCHANGED <<frames, pciVars>>
GrowString ==
  /\ Allocating("longer", "shorter", LongString)
  /\ UNCHANGED <<frames, pciVars>>
DropShortString_Twice ==             \* fault: the block in use is dropped too
  /\ Step("shorter", "box")
  /\ live' = {b \in live : b.size # TestString.size /\ b.size # LongString.size}
  /\ UNCHANGED <<frames, pciVars, heap_start, heap_end, next, allocations, pointer>>
DropShortString ==
  /\ Step("shorter", "box")
  /\ \E b \in live : b.size = TestString.size /\ Heap!Dealloc(b)
  /\ UNCHANGED <<frames, pciVars>>
AllocateBox == Allocating("box", "idle", TestBox) /\ UNCHANGED <<frames, pciVars>>

(* The panic handler prints where and stops the CPU.                          *)
Panic_Again ==                       \* fault: the panic handler panics
  /\ Step("panic", "panic")
  /\ UNCHANGED <<frames, pciVars, heapVars>>
Panic ==
  /\ Step("panic", "halted")
  /\ UNCHANGED <<frames, pciVars, heapVars>>

(* hlt in a loop: nothing wakes the CPU, interrupts are off in both.          *)
Stopped == stage \in {"idle", "halted"} /\ UNCHANGED vars

Run == \/ InitCpu \/ ScanFindsNothing \/ ScanFindsDevice \/ FinishDrivers
       \/ AllocateTestFrames \/ InitHeap
       \/ AllocateVector \/ AllocateString \/ GrowString \/ DropShortString \/ AllocateBox
       \/ Panic

(* The serial port (hardware) sends its byte.                                 *)
Transmit ==
  /\ transmitter = "busy" /\ transmitter' = "free"
  /\ UNCHANGED <<stage, frames, pciVars, heapVars>>

Next == Run \/ Transmit \/ Stopped

(* The kernel is the only code on the CPU, and the serial port always gets    *)
(* its byte out.                                                              *)
Spec == Init /\ [][Next]_vars /\ WF_vars(Run) /\ WF_vars(Transmit)

---------------------------------------------------------------------------
Stages == {"start", "pci", "frames", "heap", "vector", "string", "longer", "shorter",
           "box", "idle", "panic", "halted"}

TypeOK ==
  /\ stage \in Stages /\ transmitter \in {"free", "busy"}
  /\ frames \in 0 .. TestFrames
  /\ cursor \in 0 .. Pci!End
  /\ Heap!BumpTypeOK

(* The kernel idles only after its tests passed on memory of their own: all   *)
(* frames allocated, and a vector, a string and a box in the heap that do not *)
(* overlap, the vector of PCI devices and the short string given back.        *)
IdleMeansTested ==
  stage = "idle" =>
    /\ frames = TestFrames
    /\ {[size |-> b.size, align |-> b.align] : b \in live} = {TestVector, LongString, TestBox}
    /\ \A b, c \in live : b # c => Heap!BytesOf(b) \cap Heap!BytesOf(c) = {}
    /\ \A b \in live : Heap!BytesOf(b) \subseteq HeapStart .. HeapStart + HeapSize - 1

(* With a heap large enough for the tests, the only reason to panic is a      *)
(* device on the PCI bus.                                                     *)
PanicMeansDevice ==
  stage \in {"panic", "halted"} => \E n \in 0 .. Pci!End - 1 : Pci!IsThere(n)

(* allocator/mod.rs:38-39: init_heap must be called before any heap           *)
(* allocations.  An allocation before it can only fail, and failing panics.   *)
HeapReadyBeforeUse == stage = "panic" => Heap!Initialized
=============================================================================
