----------------------------- MODULE Exceptions -----------------------------
(* The descriptor tables of the kernel, gdt/mod.rs and interrupts/idt.rs, and *)
(* what becomes of an exception at any moment of their set-up and after it.   *)
(* The CPU finds the handler of an exception in the table IDTR points to, and *)
(* the handler's code segment in the table GDTR points to.  When it finds     *)
(* none it raises general protection, or a double fault if that comes on top  *)
(* of an exception of its kind; a double fault without a handler resets the   *)
(* machine.  How the CPU delivers an exception is external.                   *)
EXTENDS Integers

CONSTANTS Raisable,   \* vectors that the CPU can raise by itself
          None

DivideError       == 0
DoubleFault       == 8
GeneralProtection == 13
PageFault         == 14
Vectors           == 0 .. 255

ExceptionsAssumption ==
  /\ Raisable \subseteq Vectors \ {DoubleFault}
  /\ None \notin Vectors

(* Segment descriptors, as far as the selection of a handler depends on them, *)
(* by selector.  The table of the boot sector serves until gdt::init.         *)
Code(ring) == [kind |-> "code", ring |-> ring]
Data(ring) == [kind |-> "data", ring |-> ring]
NullSegment == [kind |-> "null", ring |-> 0]

KernelCode == 8
KernelData == 16
BootGdt   == [s \in {0, KernelCode, KernelData} |->
                CASE s = 0 -> NullSegment [] s = KernelCode -> Code(0) [] OTHER -> Data(0)]
KernelGdt == [s \in {0, KernelCode, KernelData, 24, 32} |->
                CASE s = 0  -> NullSegment [] s = KernelCode -> Code(0)
                  [] s = 24 -> Data(3)     [] s = KernelData -> Data(0) [] OTHER -> Code(3)]

(* A gate is the selector of its handler's code segment; an entry of Idt::new *)
(* is all zeros, which is no gate.                                            *)
NoGate == None

VARIABLES pc,        \* where the boot is, or how the machine ended
          gdt,       \* the table GDTR points to
          idt,       \* the kernel's IDT: vector -> gate
          armed,     \* whether IDTR points to it
          cs, ds,    \* selector and descriptor of the segment registers
          delivering,      \* the exception being delivered, or None
          raised, handled, \* ghosts: the exception that stopped the kernel,
                           \* and the one whose handler it got to
          ready            \* ghost: armed, when it was raised

segments == <<gdt, cs, ds>>
ghosts   == <<raised, handled, ready>>
vars     == <<pc, segments, idt, armed, delivering, ghosts>>

Segment(table, selector) == [selector |-> selector, descriptor |-> table[selector]]

Init ==
  /\ pc = "lgdt"
  /\ gdt = BootGdt /\ cs = Segment(BootGdt, KernelCode) /\ ds = Segment(BootGdt, KernelData)
  /\ idt = [v \in Vectors |-> NoGate] /\ armed = FALSE
  /\ delivering = None /\ raised = None /\ handled = None /\ ready = FALSE

Booting == {"lgdt", "far_return", "load_segments", "divide_error", "protection",
            "page_fault", "lidt", "running"}

Goto(from, to) ==
  /\ pc = from /\ pc' = to
  /\ delivering = None
  /\ UNCHANGED <<delivering, ghosts>>

---------------------------------------------------------------------------
(* gdt::init                                                                  *)
LoadGdt ==
  /\ Goto("lgdt", "far_return")
  /\ gdt' = KernelGdt
  /\ UNCHANGED <<cs, ds, idt, armed>>

FarReturn ==
  /\ Goto("far_return", "load_segments")
  /\ cs' = Segment(gdt, KernelCode)
  /\ UNCHANGED <<gdt, ds, idt, armed>>

LoadSegments ==
  /\ Goto("load_segments", "divide_error")
  /\ ds' = Segment(gdt, KernelData)
  /\ UNCHANGED <<gdt, cs, idt, armed>>

(* interrupts::init: three handlers, then the table is loaded                 *)
SetHandler_Early(v) ==               \* fault: the table is loaded before it is full
  /\ idt' = [idt EXCEPT ![v] = KernelCode]
  /\ armed' = TRUE
  /\ UNCHANGED segments
SetHandler(v) ==
  /\ idt' = [idt EXCEPT ![v] = KernelCode]
  /\ UNCHANGED <<segments, armed>>

RegisterHandlers ==
  \/ Goto("divide_error", "protection") /\ SetHandler(DivideError)
  \/ Goto("protection", "page_fault")   /\ SetHandler(GeneralProtection)
  \/ Goto("page_fault", "lidt")         /\ SetHandler(PageFault)

LoadIdt ==
  /\ Goto("lidt", "running")
  /\ armed' = TRUE
  /\ UNCHANGED <<segments, idt>>

---------------------------------------------------------------------------
(* An instruction of the kernel raises an exception.                          *)
Raise(v) ==
  /\ pc \in Booting /\ delivering = None
  /\ delivering' = v /\ raised' = v /\ ready' = armed
  /\ UNCHANGED <<pc, segments, idt, armed, handled>>

(* Until lidt the CPU reads the BIOS's real-mode vectors as gates: it may     *)
(* find one, and jump to where it points, or none, and reset.                 *)
DeliverThroughBios ==
  /\ delivering # None /\ ~armed
  /\ pc' \in {"astray", "reset"}
  /\ delivering' = None
  /\ UNCHANGED <<segments, idt, armed, ghosts>>

HasHandler(v) == idt[v] # NoGate /\ gdt[idt[v]] = Code(0)

(* The handlers panic: they do not return.                                    *)
Deliver ==
  /\ delivering # None /\ armed /\ HasHandler(delivering)
  /\ cs' = Segment(gdt, idt[delivering])
  /\ handled' = delivering /\ delivering' = None
  /\ pc' = "panic"
  /\ UNCHANGED <<gdt, ds, idt, armed, raised, ready>>

Contributory == {DivideError, 10, 11, 12, GeneralProtection}

DeliverInstead ==
  /\ delivering # None /\ armed /\ ~HasHandler(delivering)
  /\ IF delivering = DoubleFault
       THEN pc' = "reset" /\ delivering' = None
       ELSE /\ delivering' = IF delivering \in Contributory \cup {PageFault}
                               THEN DoubleFault ELSE GeneralProtection
            /\ UNCHANGED pc
  /\ UNCHANGED <<segments, idt, armed, ghosts>>

(* panic: cli; hlt                                                            *)
Panic ==
  /\ Goto("panic", "halted")
  /\ UNCHANGED <<segments, idt, armed>>

Stopped == pc \in {"running", "halted", "reset", "astray"} /\ UNCHANGED vars

Next ==
  \/ LoadGdt \/ FarReturn \/ LoadSegments \/ RegisterHandlers \/ LoadIdt
  \/ \E v \in Raisable : Raise(v)
  \/ DeliverThroughBios \/ Deliver \/ DeliverInstead
  \/ Panic \/ Stopped

Spec == Init /\ [][Next]_vars

---------------------------------------------------------------------------
TypeOK ==
  /\ pc \in Booting \cup {"panic", "halted", "reset", "astray"}
  /\ gdt \in {BootGdt, KernelGdt}
  /\ idt \in [Vectors -> {NoGate, KernelCode}] /\ armed \in BOOLEAN
  /\ delivering \in Raisable \cup {None, DoubleFault, GeneralProtection}
  /\ raised \in Raisable \cup {None}
  /\ handled \in {None, DivideError, GeneralProtection, PageFault}
  /\ ready \in BOOLEAN

(* From the moment the kernel's IDT is loaded, an exception ends in its own   *)
(* handler if it has one, and otherwise in that of general protection, unless *)
(* it is one that a general protection on top turns into a double fault; only *)
(* those reset the machine.  In the handler the kernel's own segments are in  *)
(* force.  This needs the table complete before it is loaded, and the gates'  *)
(* selector to name kernel code in the other table, at every step.            *)
ExceptionsEndInAHandler ==
  ready =>
    /\ pc = "reset" => raised \in {10, 11, 12}
    /\ pc # "astray"
    /\ handled # None =>
         /\ handled = IF raised \in {DivideError, PageFault} THEN raised ELSE GeneralProtection
         /\ cs = Segment(KernelGdt, KernelCode) /\ ds = Segment(KernelGdt, KernelData)

(* interrupts/handlers.rs:8, "Double fault handler", and :5, "Handlers         *)
(* registered in IDT": with the table loaded, no double fault is without one. *)
DoubleFaultIsHandled == ready => pc # "reset"
=============================================================================
