--------------------------- MODULE PowerOnProofs ---------------------------
(* From power-on to the idle loop, for every size of the page tables, of the  *)
(* heap and of the PCI bus, every placement of the boot's pages and every set *)
(* of exceptions: what the boot sector hands over, where an exception ends,   *)
(* and what the kernel has done when it idles or panics.  The three parts     *)
(* touch each other's variables only through the guards of PowerOn, so the    *)
(* inductive invariant is one conjunct for each.                              *)
EXTENDS PowerOn, TLAPS

-----------------------------------------------------------------------------
(* Part 1: the boot sector.                                                   *)

Late   == {"jump", "kernel"}                  \* paging is on
Filled == {"prepare", "enable_paging"} \cup Late
Linked == {"fill_table"} \cup Filled
Read   == {"protect", "clear_tables", "link_tables"} \cup Linked

(* A table whose first entry points to the table that follows it.             *)
Chain(p) == Loader!Table([k \in 0 .. Entries - 1 |->
                            IF k = 0 THEN p + 1 ELSE Loader!NotPresent])

(* The last table when its first n entries have been written.                 *)
Identity(n) == Loader!Table([k \in 0 .. Entries - 1 |->
                               IF k < n THEN k ELSE Loader!NotPresent])

MemoryShape ==
  /\ memory = [p \in Loader!MappedPages |-> memory[p]]
  /\ Loader!TypeOK

(* What the mode switches have done by when.                                  *)
Switched ==
  /\ paging => at \in Late
  /\ at \in Late \cup {"enable_paging"} => prepared = {"PAE", "LME"}
  /\ at \in Read \ {"protect"} => ~ interrupts
  /\ at = "kernel" => mode = "long"
  /\ at \in Late => paging

(* What the page tables hold by when; the loop keeps its two registers equal. *)
TablesGrow ==
  /\ at = "link_tables" => \A p \in Loader!TablePages : memory[p] = Loader!EmptyTable
  /\ at \in Linked \cup {"link_tables"} => cr3 = Loader!Pml4
  /\ at \in Linked => \A p \in Loader!Pml4 .. Loader!Pd : memory[p] = Chain(p)
  /\ at = "fill_table" => ebx = edi /\ memory[Loader!Pt] = Identity(edi)
  /\ at \in Filled => memory[Loader!Pt] = Identity(Entries)

(* The pages that nothing may be written over.                                *)
PagesStay ==
  /\ memory[BootPage].kind = "boot"
  /\ memory[StackPage].kind # "table"
  /\ at \in Read => \A p \in KernelPages : memory[p].kind = "kernel"

LoaderInv == MemoryShape /\ Switched /\ TablesGrow /\ PagesStay

LEMMA BootFact ==
  /\ Entries \in Nat /\ 4 < Entries
  /\ Loader!MappedPages = 0 .. Entries - 1 /\ Loader!TablePages = 1 .. 4
  /\ Loader!Pml4 = 1 /\ Loader!Pdpt = 2 /\ Loader!Pd = 3 /\ Loader!Pt = 4
  BY PowerOnAssumption
     DEF PowerOnAssumption, Loader!BootAssumption, Loader!MappedPages, Loader!TablePages,
         Loader!Pml4, Loader!Pdpt, Loader!Pd, Loader!Pt

(* The pages to be kept are memory, and no table stands there.                *)
LEMMA KeptFact ==
  /\ BootPage \in Loader!MappedPages /\ StackPage \in Loader!MappedPages
  /\ BootPage \notin 1 .. 4 /\ StackPage \notin 1 .. 4 /\ BootPage \notin KernelPages
  /\ \A p \in KernelPages : p \in Loader!MappedPages /\ p \notin 1 .. 4
  /\ Left # "table"
  BY PowerOnAssumption, BootFact DEF PowerOnAssumption, Loader!BootAssumption

LEMMA TableFact ==
  /\ \A e : Loader!Table(e).kind = "table" /\ Loader!Table(e).entry = e
  /\ Loader!EmptyTable.kind = "table"
  /\ \A p : Chain(p).kind = "table" /\ Chain(p).entry =
       [k \in 0 .. Entries - 1 |-> IF k = 0 THEN p + 1 ELSE Loader!NotPresent]
  /\ \A n : Identity(n).kind = "table" /\ Identity(n).entry =
       [k \in 0 .. Entries - 1 |-> IF k < n THEN k ELSE Loader!NotPresent]
  /\ \A w : Loader!Content(w).kind = w
  BY DEF Loader!Table, Loader!EmptyTable, Chain, Identity, Loader!Content

LEMMA LoaderStarts == Loader!Init => LoaderInv
<1> SUFFICES ASSUME Loader!Init PROVE LoaderInv
  OBVIOUS
<1>1. \A p \in Loader!MappedPages :
        memory[p].kind = IF p = BootPage THEN "boot" ELSE Left
  BY TableFact DEF Loader!Init
<1>2. MemoryShape
  <2>1. memory = [p \in Loader!MappedPages |-> memory[p]]
    BY DEF Loader!Init
  <2>2. \A p \in Loader!MappedPages : memory[p].kind \in {"boot", "kernel", "table", Left}
    BY <1>1
  <2>3. cr3 \in {0, Loader!Pml4} /\ edi \in 0 .. Entries /\ ebx \in 0 .. Entries
    <3>1. cr3 = 0 /\ edi = 0 /\ ebx = 0
      BY DEF Loader!Init
    <3>2. Entries \in Nat
      BY BootFact
    <3> QED
      BY <3>1, <3>2
  <2> QED
    BY <2>1, <2>2, <2>3 DEF Loader!Init, MemoryShape, Loader!TypeOK
<1>3. Switched /\ TablesGrow
  BY DEF Loader!Init, Switched, TablesGrow, Late, Filled, Linked, Read
<1>4. PagesStay
  BY <1>1, KeptFact DEF Loader!Init, PagesStay, Late, Filled, Linked, Read
<1> QED
  BY <1>2, <1>3, <1>4 DEF LoaderInv

(* The steps before the tables: the disk, the kernel's pages, protected mode. *)
LEMMA ReadStep ==
  LoaderInv /\ (Loader!ResetDisk \/ Loader!ReadFails \/ Loader!ReadKernel
                  \/ Loader!EnterProtectedMode \/ Loader!Hang) => LoaderInv'
<1> USE DEF LoaderInv, Late, Filled, Linked, Read, Loader!Goto
<1>1. LoaderInv /\ Loader!ReadKernel => LoaderInv'
  <2> SUFFICES ASSUME LoaderInv, Loader!ReadKernel PROVE LoaderInv'
    OBVIOUS
  <2>1. \A p \in Loader!MappedPages :
          memory'[p].kind = IF p \in KernelPages THEN "kernel" ELSE memory[p].kind
    BY TableFact DEF Loader!ReadKernel
  <2>2. MemoryShape'
    BY <2>1 DEF Loader!ReadKernel, MemoryShape, Loader!TypeOK
  <2>3. Switched' /\ TablesGrow'
    BY DEF Loader!ReadKernel, Switched, TablesGrow
  <2>4. PagesStay'
    BY <2>1, KeptFact DEF Loader!ReadKernel, PagesStay
  <2> QED
    BY <2>2, <2>3, <2>4
<1>2. ASSUME LoaderInv, Loader!ResetDisk \/ Loader!ReadFails \/ Loader!EnterProtectedMode
                            \/ Loader!Hang
      PROVE  LoaderInv'
  <2> USE <1>2 DEF Loader!ResetDisk, Loader!ReadFails, Loader!EnterProtectedMode, Loader!Hang
  <2>1. UNCHANGED <<paging, prepared, cr3, edi, ebx, memory>>
    OBVIOUS
  <2>2. Loader!TypeOK'
    BY <2>1 DEF MemoryShape, Loader!TypeOK
  <2>3. MemoryShape'
    BY <2>1, <2>2 DEF MemoryShape
  <2>4. Switched'
    BY <2>1 DEF Switched
  <2>5. TablesGrow'
    BY <2>1 DEF TablesGrow
  <2>6. PagesStay'
    BY <2>1 DEF PagesStay
  <2> QED
    BY <2>3, <2>4, <2>5, <2>6
<1> QED
  BY <1>1, <1>2

(* The four tables are cleared, and nothing else.                             *)
LEMMA ClearStep == LoaderInv /\ Loader!ClearTables => LoaderInv'
<1> SUFFICES ASSUME LoaderInv, Loader!ClearTables PROVE LoaderInv'
  OBVIOUS
<1> USE DEF LoaderInv, Late, Filled, Linked, Read, Loader!Goto
<1>1. /\ at = "clear_tables" /\ at' = "link_tables" /\ cr3' = Loader!Pml4
      /\ UNCHANGED <<mode, interrupts, paging, prepared, edi, ebx>>
  BY DEF Loader!ClearTables
<1>2. \A p \in Loader!MappedPages :
        memory'[p] = IF p \in Loader!TablePages THEN Loader!EmptyTable ELSE memory[p]
  BY DEF Loader!ClearTables
<1>3. memory' = [p \in Loader!MappedPages |-> memory'[p]]
  BY DEF Loader!ClearTables
<1>4. Loader!TypeOK'
  BY <1>1, <1>2, BootFact, TableFact DEF MemoryShape, Loader!TypeOK
<1>5. MemoryShape'
  BY <1>3, <1>4 DEF MemoryShape
<1>6. Switched'
  BY <1>1 DEF Switched
<1>7. TablesGrow'
  BY <1>1, <1>2, BootFact DEF TablesGrow
<1>8. PagesStay'
  BY <1>1, <1>2, BootFact, KeptFact DEF PagesStay
<1> QED
  BY <1>5, <1>6, <1>7, <1>8

(* Each table but the last gets its first entry.                              *)
LEMMA LinkStep == LoaderInv /\ Loader!LinkTables => LoaderInv'
<1> SUFFICES ASSUME LoaderInv, Loader!LinkTables PROVE LoaderInv'
  OBVIOUS
<1> USE DEF LoaderInv, Late, Filled, Linked, Read, Loader!Goto
<1>1. /\ at = "link_tables" /\ at' = "fill_table" /\ edi' = 0 /\ ebx' = 0
      /\ UNCHANGED <<mode, interrupts, paging, prepared, cr3>>
  BY DEF Loader!LinkTables
<1>2. \A p \in Loader!MappedPages :
        memory'[p] = IF p \in Loader!Pml4 .. Loader!Pd
                       THEN Loader!Table([memory[p].entry EXCEPT ![0] = p + 1])
                       ELSE memory[p]
  BY DEF Loader!LinkTables
<1>3. \A p \in Loader!Pml4 .. Loader!Pd : memory'[p] = Chain(p)
  <2> TAKE p \in Loader!Pml4 .. Loader!Pd
  <2>1. memory[p] = Loader!EmptyTable
    BY <1>1, BootFact DEF TablesGrow
  <2>2. Loader!EmptyTable.entry = [k \in 0 .. Entries - 1 |-> Loader!NotPresent]
    BY DEF Loader!EmptyTable, Loader!Table
  <2>3. [memory[p].entry EXCEPT ![0] = p + 1]
          = [k \in 0 .. Entries - 1 |-> IF k = 0 THEN p + 1 ELSE Loader!NotPresent]
    BY <2>1, <2>2
  <2> QED
    BY <1>2, <2>3, BootFact DEF Chain
<1>11. /\ \A p \in Loader!MappedPages : p \notin 1 .. 3 => memory'[p] = memory[p]
       /\ \A p \in Loader!MappedPages : p \in 1 .. 3 => memory'[p].kind = "table"
  BY <1>2, TableFact, BootFact
<1>4. memory'[Loader!Pt] = Identity(0)
  <2>1. memory'[Loader!Pt] = Loader!EmptyTable
    <3>1. memory'[4] = memory[4]
      BY <1>11, BootFact
    <3> QED
      BY <1>1, <3>1, BootFact DEF TablesGrow
  <2>2. [k \in 0 .. Entries - 1 |-> Loader!NotPresent]
          = [k \in 0 .. Entries - 1 |-> IF k < 0 THEN k ELSE Loader!NotPresent]
    OBVIOUS
  <2> QED
    BY <2>1, <2>2 DEF Loader!EmptyTable, Identity
<1>5. memory' = [p \in Loader!MappedPages |-> memory'[p]]
  BY DEF Loader!LinkTables
<1>6. Loader!TypeOK'
  <2>1. 0 \in 0 .. Entries
    BY BootFact
  <2>2. \A p \in Loader!MappedPages : memory'[p].kind \in {"boot", "kernel", "table", Left}
    BY <1>11 DEF MemoryShape, Loader!TypeOK
  <2> QED
    BY <1>1, <2>1, <2>2 DEF MemoryShape, Loader!TypeOK
<1>7. MemoryShape'
  BY <1>5, <1>6 DEF MemoryShape
<1>8. Switched'
  BY <1>1 DEF Switched
<1>9. TablesGrow'
  BY <1>1, <1>3, <1>4, BootFact DEF TablesGrow
<1>10. PagesStay'
  BY <1>1, <1>11, KeptFact DEF PagesStay
<1> QED
  BY <1>7, <1>8, <1>9, <1>10

(* One more entry of the last table; the loop keeps edi and ebx equal.        *)
LEMMA FillStep == LoaderInv /\ Loader!FillEntry => LoaderInv'
<1> SUFFICES ASSUME LoaderInv, Loader!FillEntry PROVE LoaderInv'
  OBVIOUS
<1> USE DEF LoaderInv, Late, Filled, Linked, Read
<1>1. /\ at = "fill_table" /\ at' = at /\ edi' = edi + 1 /\ ebx' = ebx + 1
      /\ edi < Entries /\ edi \in 0 .. Entries /\ ebx = edi
      /\ UNCHANGED <<mode, interrupts, paging, prepared, cr3>>
  BY DEF Loader!FillEntry, MemoryShape, Loader!TypeOK, TablesGrow
<1>2. memory' = [memory EXCEPT ![Loader!Pt] =
                   Loader!Table([memory[Loader!Pt].entry EXCEPT ![edi] = edi])]
  BY <1>1 DEF Loader!FillEntry, Loader!Put
<1>3. [memory[Loader!Pt].entry EXCEPT ![edi] = edi]
        = [k \in 0 .. Entries - 1 |-> IF k < edi + 1 THEN k ELSE Loader!NotPresent]
  <2>1. memory[Loader!Pt].entry
          = [k \in 0 .. Entries - 1 |-> IF k < edi THEN k ELSE Loader!NotPresent]
    BY <1>1, BootFact, TableFact DEF TablesGrow
  <2> QED
    BY <1>1, <2>1, BootFact
<1>4. /\ memory' = [p \in Loader!MappedPages |-> memory'[p]]
      /\ memory'[Loader!Pt] = Identity(edi + 1)
      /\ \A p \in Loader!MappedPages \ {Loader!Pt} : memory'[p] = memory[p]
  <2>1. Loader!Pt \in Loader!MappedPages
    BY BootFact
  <2>2. memory' = [memory EXCEPT ![Loader!Pt] = Identity(edi + 1)]
    BY <1>2, <1>3 DEF Identity
  <2>3. memory = [p \in Loader!MappedPages |-> memory[p]]
    BY DEF MemoryShape
  <2> QED
    BY <2>1, <2>2, <2>3
<1>5. Loader!TypeOK'
  <2>1. edi + 1 \in 0 .. Entries
    BY <1>1, BootFact
  <2>2. \A p \in Loader!MappedPages : memory'[p].kind \in {"boot", "kernel", "table", Left}
    BY <1>4, TableFact DEF MemoryShape, Loader!TypeOK
  <2> QED
    BY <1>1, <2>1, <2>2 DEF MemoryShape, Loader!TypeOK
<1>6. MemoryShape'
  BY <1>4, <1>5 DEF MemoryShape
<1>7. Switched'
  BY <1>1 DEF Switched
<1>8. TablesGrow'
  BY <1>1, <1>4, BootFact DEF TablesGrow
<1>9. PagesStay'
  BY <1>1, <1>4, BootFact, KeptFact DEF PagesStay
<1> QED
  BY <1>6, <1>7, <1>8, <1>9

(* The steps after the tables change registers only.                          *)
LEMMA SwitchStep ==
  LoaderInv /\ (Loader!FillTableDone \/ Loader!Prepare \/ Loader!EnablePaging
                  \/ Loader!EnterLongMode) => LoaderInv'
<1> SUFFICES ASSUME LoaderInv, Loader!FillTableDone \/ Loader!Prepare
                      \/ Loader!EnablePaging \/ Loader!EnterLongMode
             PROVE  LoaderInv'
  OBVIOUS
<1> USE DEF LoaderInv, Late, Filled, Linked, Read, Loader!Goto, Loader!FillTableDone,
            Loader!Prepare, Loader!EnablePaging, Loader!EnterLongMode
<1>1. UNCHANGED <<interrupts, cr3, edi, ebx, memory>>
  OBVIOUS
<1>2. Loader!TypeOK'
  BY <1>1 DEF MemoryShape, Loader!TypeOK
<1>3. MemoryShape'
  BY <1>1, <1>2 DEF MemoryShape
<1>4. Switched'
  BY <1>1 DEF Switched
<1>5. TablesGrow'
  BY <1>1 DEF TablesGrow
<1>6. PagesStay'
  BY <1>1 DEF PagesStay
<1> QED
  BY <1>3, <1>4, <1>5, <1>6

LEMMA LoaderStep == LoaderInv /\ Loader!Run => LoaderInv'
  BY ReadStep, ClearStep, LinkStep, FillStep, SwitchStep DEF Loader!Run

(* The four tables translate every page below 2 MB to itself.                 *)
LEMMA TablesTranslate ==
  ASSUME LoaderInv, at \in Filled
  PROVE  /\ \A v \in Loader!MappedPages : Loader!Translate(v) = v
         /\ \A p \in Loader!Pml4 .. Loader!Pd, k \in 1 .. Entries - 1 :
              Loader!EntryOf(p, k) = Loader!NotPresent
<1>1. /\ cr3 = Loader!Pml4 /\ memory[Loader!Pt] = Identity(Entries)
      /\ \A p \in Loader!Pml4 .. Loader!Pd : memory[p] = Chain(p)
  BY DEF LoaderInv, TablesGrow, Linked
<1>7. \A p \in 1 .. 3 :
        /\ memory[p].kind = "table"
        /\ memory[p].entry =
             [k \in 0 .. Entries - 1 |-> IF k = 0 THEN p + 1 ELSE Loader!NotPresent]
  <2> TAKE p \in 1 .. 3
  <2>1. memory[p] = Chain(p)
    BY <1>1, BootFact
  <2> QED
    BY <2>1, TableFact
<1>8. /\ memory[4].kind = "table"
      /\ memory[4].entry =
           [k \in 0 .. Entries - 1 |-> IF k < Entries THEN k ELSE Loader!NotPresent]
  BY <1>1, BootFact, TableFact
<1>2. \A p \in 1 .. 3 : Loader!Follow(p, 0) = p + 1
  BY <1>7, BootFact DEF Loader!Follow, Loader!EntryOf
<1>3. \A v \in Loader!MappedPages : Loader!Follow(4, v) = v
  BY <1>8, BootFact DEF Loader!Follow, Loader!EntryOf
<1>4. \A p \in 1 .. 3, k \in 1 .. Entries - 1 : Loader!EntryOf(p, k) = Loader!NotPresent
  BY <1>7, BootFact DEF Loader!EntryOf
<1>5. Loader!Follow(1, 0) = 2 /\ Loader!Follow(2, 0) = 3 /\ Loader!Follow(3, 0) = 4
  BY <1>2
<1>6. \A v \in Loader!MappedPages : Loader!Translate(v) = v
  BY <1>1, <1>3, <1>5, BootFact DEF Loader!Translate
<1> QED
  BY <1>4, <1>6, BootFact

-----------------------------------------------------------------------------
(* Part 2: the descriptor tables and the delivery of exceptions.              *)

Own == {Cpu!DivideError, Cpu!GeneralProtection, Cpu!PageFault}

(* The gates that are set, by when: no other ever is.                         *)
Gates ==
  /\ \A v \in Cpu!Vectors : idt[v] # None => v \in Own
  /\ armed \/ pc \in {"protection", "page_fault", "lidt"}
       => idt[Cpu!DivideError] = Cpu!KernelCode
  /\ armed \/ pc \in {"page_fault", "lidt"}
       => idt[Cpu!GeneralProtection] = Cpu!KernelCode
  /\ armed \/ pc = "lidt" => idt[Cpu!PageFault] = Cpu!KernelCode

(* The segment registers follow the table, one step each.                     *)
Segmented ==
  /\ armed \/ pc \in Cpu!Booting \ {"lgdt"} => gdt = Cpu!KernelGdt
  /\ armed \/ pc \in Cpu!Booting \ {"lgdt", "far_return"}
       => cs = Cpu!Segment(Cpu!KernelGdt, Cpu!KernelCode)
  /\ armed \/ pc \in Cpu!Booting \ {"lgdt", "far_return", "load_segments"}
       => ds = Cpu!Segment(Cpu!KernelGdt, Cpu!KernelData)

Armed ==
  /\ armed => pc \in {"running", "panic", "halted", "reset"}
  /\ pc \in {"running", "panic", "halted"} => armed
  /\ ready => armed

(* An exception is raised once; while it is delivered it is itself, or has    *)
(* become general protection or a double fault for want of a handler.         *)
Delivery ==
  /\ pc \in Cpu!Booting => handled = None
  /\ delivering # None => pc \in Cpu!Booting /\ ready = armed
  /\ delivering # None /\ armed =>
       \/ delivering = raised /\ raised \in Raisable
       \/ delivering = Cpu!GeneralProtection
            /\ raised \notin {Cpu!DivideError, Cpu!PageFault}
       \/ delivering = Cpu!DoubleFault /\ raised \in {10, 11, 12}
  /\ ready /\ pc = "reset" => raised \in {10, 11, 12}
  /\ ready => pc # "astray"
  /\ handled # None =>
       handled = IF raised \in {Cpu!DivideError, Cpu!PageFault}
                   THEN raised ELSE Cpu!GeneralProtection

CpuInv == Cpu!TypeOK /\ Gates /\ Segmented /\ Armed /\ Delivery

LEMMA VectorFact ==
  /\ Cpu!DivideError = 0 /\ Cpu!DoubleFault = 8 /\ Cpu!GeneralProtection = 13
  /\ Cpu!PageFault = 14 /\ Cpu!KernelCode = 8 /\ Cpu!Vectors = 0 .. 255
  /\ None \notin 0 .. 255 /\ Cpu!NoGate = None
  /\ \A v \in Raisable : v \in 0 .. 255 /\ v # 8
  /\ Cpu!KernelGdt[8] = Cpu!Code(0)
<1>1. Cpu!KernelGdt[8] = Cpu!Code(0)
  BY DEF Cpu!KernelGdt, Cpu!KernelCode, Cpu!KernelData
<1> QED
  BY <1>1, PowerOnAssumption
     DEF PowerOnAssumption, Cpu!ExceptionsAssumption, Cpu!DivideError, Cpu!DoubleFault,
         Cpu!GeneralProtection, Cpu!PageFault, Cpu!KernelCode, Cpu!Vectors, Cpu!NoGate

LEMMA CpuStarts == Cpu!Init => CpuInv
<1> SUFFICES ASSUME Cpu!Init PROVE CpuInv
  OBVIOUS
<1>1. Cpu!TypeOK
  BY VectorFact DEF Cpu!Init, Cpu!TypeOK, Cpu!Booting
<1> QED
  BY <1>1, VectorFact DEF Cpu!Init, CpuInv, Gates, Segmented, Armed, Delivery, Cpu!Booting

(* With the table loaded, exactly the three registered vectors have handlers. *)
LEMMA HandlerFact ==
  ASSUME CpuInv, armed, NEW v \in 0 .. 255
  PROVE  Cpu!HasHandler(v) <=> v \in Own
<1>1. idt[v] # None => v \in Own
  BY VectorFact DEF CpuInv, Gates
<1>2. v \in Own => idt[v] = 8
  BY VectorFact DEF CpuInv, Gates, Own
<1>3. gdt = Cpu!KernelGdt
  BY DEF CpuInv, Segmented
<1> QED
  BY <1>1, <1>2, <1>3, VectorFact DEF Cpu!HasHandler

(* gdt::init and interrupts::init.                                            *)
LEMMA SetUpStep ==
  CpuInv /\ (Cpu!LoadGdt \/ Cpu!FarReturn \/ Cpu!LoadSegments
               \/ Cpu!RegisterHandlers \/ Cpu!LoadIdt) => CpuInv'
<1> USE DEF Cpu!Goto, Cpu!segments, Cpu!ghosts
<1>1. ASSUME CpuInv, Cpu!LoadGdt \/ Cpu!FarReturn \/ Cpu!LoadSegments
      PROVE  CpuInv'
  <2> USE <1>1 DEF CpuInv, Cpu!LoadGdt, Cpu!FarReturn, Cpu!LoadSegments
  <2>1. Cpu!TypeOK'
    BY DEF Cpu!TypeOK, Cpu!Booting
  <2>2. Gates'
    BY DEF Gates, Cpu!Booting
  <2>3. Segmented'
    BY DEF Segmented, Armed, Cpu!Booting
  <2>4. Armed' /\ Delivery'
    BY DEF Armed, Delivery, Cpu!Booting
  <2> QED
    BY <2>1, <2>2, <2>3, <2>4
<1>2. ASSUME CpuInv, Cpu!RegisterHandlers
      PROVE  CpuInv'
  <2> USE <1>2 DEF CpuInv
  <2>1. PICK v \in Own :
          /\ idt' = [idt EXCEPT ![v] = Cpu!KernelCode]
          /\ UNCHANGED <<gdt, cs, ds, armed, delivering, raised, handled, ready>>
          /\ \/ pc = "divide_error" /\ pc' = "protection" /\ v = 0
             \/ pc = "protection" /\ pc' = "page_fault" /\ v = 13
             \/ pc = "page_fault" /\ pc' = "lidt" /\ v = 14
    BY VectorFact DEF Cpu!RegisterHandlers, Cpu!SetHandler, Own
  <2>2. v \in 0 .. 255 /\ idt \in [0 .. 255 -> {None, 8}] /\ ~ armed
    BY <2>1, VectorFact DEF Own, Cpu!TypeOK, Armed
  <2>3. /\ idt' \in [0 .. 255 -> {None, 8}] /\ idt'[v] = 8
        /\ \A w \in 0 .. 255 : w # v => idt'[w] = idt[w]
    BY <2>1, <2>2, VectorFact
  <2>4. Cpu!TypeOK'
    BY <2>1, <2>3, VectorFact DEF Cpu!TypeOK, Cpu!Booting
  <2>5. Gates'
    BY <2>1, <2>2, <2>3, VectorFact DEF Gates, Own
  <2>6. Segmented' /\ Armed' /\ Delivery'
    BY <2>1, <2>2 DEF Segmented, Armed, Delivery, Cpu!Booting
  <2> QED
    BY <2>4, <2>5, <2>6
<1>3. ASSUME CpuInv, Cpu!LoadIdt
      PROVE  CpuInv'
  <2> USE <1>3 DEF CpuInv, Cpu!LoadIdt
  <2>1. Cpu!TypeOK'
    BY DEF Cpu!TypeOK, Cpu!Booting
  <2>2. Gates' /\ Segmented'
    BY DEF Gates, Segmented, Cpu!Booting
  <2>3. Armed' /\ Delivery'
    BY DEF Armed, Delivery, Cpu!Booting
  <2> QED
    BY <2>1, <2>2, <2>3
<1> QED
  BY <1>1, <1>2, <1>3

LEMMA RaiseStep == \A v \in Raisable : CpuInv /\ Cpu!Raise(v) => CpuInv'
<1> TAKE v \in Raisable
<1> SUFFICES ASSUME CpuInv, Cpu!Raise(v) PROVE CpuInv'
  OBVIOUS
<1>1. Cpu!TypeOK'
  BY DEF CpuInv, Cpu!TypeOK, Cpu!Raise, Cpu!segments
<1>2. Gates' /\ Segmented' /\ Armed'
  BY DEF CpuInv, Gates, Segmented, Armed, Cpu!Raise, Cpu!segments
<1>3. Delivery'
  BY VectorFact DEF CpuInv, Delivery, Cpu!TypeOK, Cpu!Raise, Cpu!Booting
<1> QED
  BY <1>1, <1>2, <1>3 DEF CpuInv

(* The delivery of an exception, and the panic of its handler.                *)
LEMMA DeliveryStep ==
  CpuInv /\ (Cpu!DeliverThroughBios \/ Cpu!Deliver \/ Cpu!DeliverInstead \/ Cpu!Panic)
    => CpuInv'
<1> SUFFICES ASSUME CpuInv, Cpu!DeliverThroughBios \/ Cpu!Deliver
                              \/ Cpu!DeliverInstead \/ Cpu!Panic
             PROVE  CpuInv'
  OBVIOUS
<1> USE DEF CpuInv, Cpu!segments, Cpu!ghosts
<1>1. CASE Cpu!DeliverThroughBios
  <2> USE <1>1 DEF Cpu!DeliverThroughBios
  <2>1. Cpu!TypeOK'
    BY DEF Cpu!TypeOK, Cpu!Booting
  <2>2. Gates' /\ Segmented' /\ Armed'
    BY DEF Gates, Segmented, Armed, Cpu!Booting
  <2>3. Delivery'
    BY DEF Delivery, Cpu!Booting
  <2> QED
    BY <2>1, <2>2, <2>3
<1>2. CASE Cpu!Deliver
  <2>1. /\ delivering # None /\ armed /\ pc' = "panic"
        /\ handled' = delivering /\ delivering' = None
        /\ cs' = Cpu!Segment(gdt, idt[delivering])
        /\ UNCHANGED <<gdt, ds, idt, armed, raised, ready>>
    BY <1>2 DEF Cpu!Deliver
  <2>2. delivering \in Own
    BY <1>2, <2>1, HandlerFact, VectorFact DEF Cpu!Deliver, Cpu!TypeOK
  <2>3. cs' = Cpu!Segment(Cpu!KernelGdt, Cpu!KernelCode)
    BY <2>1, <2>2, VectorFact DEF Gates, Segmented, Own
  <2>4. Cpu!TypeOK'
    BY <2>1, <2>2, VectorFact DEF Cpu!TypeOK, Cpu!Booting, Own
  <2>5. Gates' /\ Segmented' /\ Armed'
    BY <2>1, <2>3 DEF Gates, Segmented, Armed, Cpu!Booting
  <2>6. Delivery'
    BY <2>1, <2>2, VectorFact DEF Delivery, Cpu!Booting, Own
  <2> QED
    BY <2>4, <2>5, <2>6
<1>3. CASE Cpu!DeliverInstead
  <2>1. /\ delivering # None /\ armed /\ ~ Cpu!HasHandler(delivering)
        /\ UNCHANGED <<gdt, cs, ds, idt, armed, raised, handled, ready>>
    BY <1>3 DEF Cpu!DeliverInstead
  <2>2. delivering \in 0 .. 255 /\ delivering \notin Own /\ pc \in Cpu!Booting
    BY <2>1, HandlerFact, VectorFact DEF Cpu!TypeOK, Delivery
  <2>3. CASE delivering = 8
    <3>1. pc' = "reset" /\ delivering' = None
      BY <1>3, <2>3, VectorFact DEF Cpu!DeliverInstead
    <3>2. raised \in {10, 11, 12}
      BY <2>1, <2>3, VectorFact DEF Delivery
    <3>3. Cpu!TypeOK'
      BY <2>1, <3>1 DEF Cpu!TypeOK
    <3>4. Gates' /\ Segmented' /\ Armed' /\ Delivery'
      BY <2>1, <2>2, <3>1, <3>2 DEF Gates, Segmented, Armed, Delivery, Cpu!Booting
    <3> QED
      BY <3>3, <3>4
  <2>4. CASE delivering # 8
    <3>1. delivering = raised
      BY <2>1, <2>2, <2>4, VectorFact DEF Delivery, Own
    <3>2. /\ pc' = pc
          /\ delivering' = IF delivering \in {10, 11, 12} THEN 8 ELSE 13
      BY <1>3, <2>2, <2>4, VectorFact DEF Cpu!DeliverInstead, Cpu!Contributory, Own
    <3>3. Cpu!TypeOK'
      BY <2>1, <3>2, VectorFact DEF Cpu!TypeOK
    <3>4. Gates' /\ Segmented' /\ Armed'
      BY <2>1, <3>2 DEF Gates, Segmented, Armed
    <3>5. Delivery'
      BY <2>1, <2>2, <3>1, <3>2, VectorFact DEF Delivery, Own, Cpu!Booting
    <3> QED
      BY <3>3, <3>4, <3>5
  <2> QED
    BY <2>3, <2>4
<1>4. CASE Cpu!Panic
  BY <1>4 DEF Cpu!Panic, Cpu!Goto, Cpu!TypeOK, Gates, Segmented, Armed, Delivery, Cpu!Booting
<1> QED
  BY <1>1, <1>2, <1>3, <1>4

-----------------------------------------------------------------------------
(* Part 3: the kernel.                                                        *)

BeforeHeap == {"start", "pci", "frames", "heap"}
Testing    == {"vector", "string", "longer", "shorter", "box", "idle"}

(* The memory the tests have taken at most when a stage begins.               *)
Spent(s) ==
  CASE s = "vector" -> 0
    [] s = "string" -> Kernel!Padded(TestVector)
    [] s = "longer" -> Kernel!Padded(TestVector) + Kernel!Padded(TestString)
    [] s \in {"shorter", "box"} ->
         Kernel!Padded(TestVector) + Kernel!Padded(TestString) + Kernel!Padded(LongString)
    [] OTHER ->
         Kernel!Padded(TestVector) + Kernel!Padded(TestString) + Kernel!Padded(LongString)
           + Kernel!Padded(TestBox)

(* The scan passes the first function of a device only if the device has more.*)
OnDevice ==
  /\ config \in [0 .. Devices - 1 ->
                   [answers : SUBSET (0 .. Functions - 1), multi : BOOLEAN]]
  /\ cursor \in 0 .. Kernel!Pci!End
  /\ cursor < Kernel!Pci!End /\ Kernel!Pci!FunctionOf(cursor) # 0 =>
       /\ 0 \in config[Kernel!Pci!DeviceOf(cursor)].answers
       /\ config[Kernel!Pci!DeviceOf(cursor)].multi

(* The first device ends the boot, so the vector never gets one.              *)
DeviceEndsBoot == devices = <<>> /\ Kernel!PanicMeansDevice

HeapEmpty ==
  stage \in BeforeHeap => heap_start = 0 /\ heap_end = 0 /\ next = 0 /\ live = {}

HeapSuffices ==
  stage \in Testing => /\ heap_end = HeapStart + HeapSize
                       /\ HeapStart <= next /\ next <= HeapStart + Spent(stage)

B(at_, l) == Kernel!Heap!Block(at_, l)

(* The blocks in use, in the order of their addresses.                        *)
Laid ==
  /\ stage = "vector" => live = {}
  /\ stage = "string" => \E a \in Nat :
       /\ HeapStart <= a /\ a + TestVector.size <= next
       /\ live = {B(a, TestVector)}
  /\ stage = "longer" => \E a, b \in Nat :
       /\ HeapStart <= a /\ a + TestVector.size <= b /\ b + TestString.size <= next
       /\ live = {B(a, TestVector), B(b, TestString)}
  /\ stage = "shorter" => \E a, b, c \in Nat :
       /\ HeapStart <= a /\ a + TestVector.size <= b /\ b + TestString.size <= c
       /\ c + LongString.size <= next
       /\ live = {B(a, TestVector), B(b, TestString), B(c, LongString)}
  /\ stage = "box" => \E a, c \in Nat :
       /\ HeapStart <= a /\ a + TestVector.size <= c /\ c + LongString.size <= next
       /\ live = {B(a, TestVector), B(c, LongString)}
  /\ stage = "idle" => \E a, c, d \in Nat :
       /\ HeapStart <= a /\ a + TestVector.size <= c /\ c + LongString.size <= d
       /\ d + TestBox.size <= next
       /\ live = {B(a, TestVector), B(c, LongString), B(d, TestBox)}

FramesTested == stage \in {"heap"} \cup Testing => frames = Kernel!TestFrames

KernelInv == Kernel!TypeOK /\ OnDevice /\ DeviceEndsBoot /\ HeapEmpty /\ HeapSuffices
               /\ Laid /\ FramesTested

LEMMA LayoutFact ==
  ASSUME NEW l \in Kernel!Layouts
  PROVE  /\ l = [size |-> l.size, align |-> l.align]
         /\ l.size \in Nat /\ l.size > 0 /\ l.align \in Nat /\ l.align > 0
         /\ Kernel!Padded(l) \in Nat /\ Kernel!Padded(l) = l.size + l.align
  BY PowerOnAssumption DEF PowerOnAssumption, Kernel!KernelAssumption, Kernel!Padded

LEMMA LayoutsFact ==
  /\ DeviceVector \in Kernel!Layouts /\ TestVector \in Kernel!Layouts
  /\ TestString \in Kernel!Layouts /\ LongString \in Kernel!Layouts
  /\ TestBox \in Kernel!Layouts
  BY DEF Kernel!Layouts

LEMMA SizesFact ==
  /\ HeapStart \in Nat /\ HeapStart > 0 /\ HeapSize \in Nat /\ Null \notin Nat
  /\ TestString.size # TestVector.size /\ TestString.size # LongString.size
  /\ Kernel!Padded(TestVector) + Kernel!Padded(TestString) + Kernel!Padded(LongString)
       + Kernel!Padded(TestBox) <= HeapSize
  /\ FrameCount \in Nat /\ Kernel!TestFrames <= FrameCount
  /\ Devices \in Nat /\ Functions \in Nat /\ Functions > 0
  BY PowerOnAssumption
     DEF PowerOnAssumption, Kernel!KernelAssumption, Kernel!Pci!PciAssumption

(* Every amount spent fits into the heap.                                     *)
LEMMA SpentFact ==
  /\ \A s \in Testing : Spent(s) \in Nat /\ Spent(s) <= HeapSize
  /\ Spent("vector") = 0
  /\ Spent("string") = Spent("vector") + Kernel!Padded(TestVector)
  /\ Spent("longer") = Spent("string") + Kernel!Padded(TestString)
  /\ Spent("shorter") = Spent("longer") + Kernel!Padded(LongString)
  /\ Spent("box") = Spent("shorter")
  /\ Spent("idle") = Spent("box") + Kernel!Padded(TestBox)
<1> DEFINE v == Kernel!Padded(TestVector)
           s == Kernel!Padded(TestString)
           g == Kernel!Padded(LongString)
           x == Kernel!Padded(TestBox)
<1>1. v \in Nat /\ s \in Nat /\ g \in Nat /\ x \in Nat /\ v + s + g + x <= HeapSize
      /\ HeapSize \in Nat
  BY LayoutFact, LayoutsFact, SizesFact
<1>2. /\ Spent("vector") = 0 /\ Spent("string") = v /\ Spent("longer") = v + s
      /\ Spent("shorter") = v + s + g /\ Spent("box") = v + s + g
      /\ Spent("idle") = v + s + g + x
  BY DEF Spent
<1> HIDE DEF v, s, g, x
<1>3. 0 + v = v
  BY <1>1
<1>4. \A r \in Testing : Spent(r) \in Nat /\ Spent(r) <= HeapSize
  BY <1>1, <1>2 DEF Testing
<1> QED
  BY <1>2, <1>3, <1>4 DEF v, s, g, x

(* An allocation that finds room takes a block above next, at most its        *)
(* alignment further up.                                                      *)
LEMMA AllocFact ==
  ASSUME NEW l \in Kernel!Layouts, next \in Nat, heap_end \in Nat,
         next + Kernel!Padded(l) <= heap_end, Kernel!Heap!Alloc(l)
  PROVE  /\ pointer' \in Nat /\ pointer' # Null
         /\ next <= pointer' /\ next' = pointer' + l.size
         /\ next' \in Nat /\ next' <= next + Kernel!Padded(l)
         /\ allocations' = allocations + 1
         /\ live' = live \cup {B(pointer', l)}
         /\ UNCHANGED <<heap_start, heap_end>>
<1> DEFINE start == Kernel!Heap!align_up(next, l.align)
<1>1. l.size \in Nat /\ l.align \in Nat /\ l.align > 0
      /\ Kernel!Padded(l) = l.size + l.align
  BY LayoutFact
<1>2. start \in Nat /\ next <= start /\ start <= next + l.align
  BY <1>1 DEF Kernel!Heap!align_up
<1> HIDE DEF start
<1>3. ~ (start + l.size > heap_end)
  BY <1>1, <1>2
<1>4. /\ next' = start + l.size /\ allocations' = allocations + 1 /\ pointer' = start
      /\ live' = live \cup {Kernel!Heap!Block(start, l)}
      /\ UNCHANGED <<heap_start, heap_end>>
  BY <1>3 DEF Kernel!Heap!Alloc, start
<1> QED
  BY <1>1, <1>2, <1>4, SizesFact DEF B

(* Before init_heap an allocation can only fail.                              *)
LEMMA NoHeapFact ==
  ASSUME NEW l \in Kernel!Layouts, next = 0, heap_end = 0, Kernel!Heap!Alloc(l)
  PROVE  pointer' = Null /\ UNCHANGED <<heap_start, heap_end, next, allocations, live>>
<1>1. l.size \in Nat /\ l.size > 0 /\ l.align \in Nat /\ l.align > 0
  BY LayoutFact
<1>2. Kernel!Heap!align_up(next, l.align) \in Nat
  BY <1>1 DEF Kernel!Heap!align_up
<1> QED
  BY <1>1, <1>2 DEF Kernel!Heap!Alloc, Kernel!Heap!bump

LEMMA BlockFact ==
  ASSUME NEW a, NEW l \in Kernel!Layouts
  PROVE  /\ B(a, l).at = a /\ B(a, l).size = l.size /\ B(a, l).align = l.align
         /\ a \in Nat => B(a, l) \in [at : Nat, size : Nat, align : Nat]
  BY LayoutFact DEF B, Kernel!Heap!Block

-----------------------------------------------------------------------------
(* The cursor of the scan.                                                    *)

(* A function has a successor on its device, or the next device begins.       *)
LEMMA SuccessorFact ==
  ASSUME NEW n \in Nat, NEW f \in Nat, f > 0
  PROVE  /\ (n + 1) % f # 0 => (n + 1) \div f = n \div f
         /\ (((n \div f) + 1) * f) % f = 0
  OBVIOUS

(* What follows a device of the bus is on the bus, or its end.                *)
LEMMA DeviceFact ==
  ASSUME NEW n \in Nat, NEW f \in Nat, f > 0, NEW d \in Nat, n < d * f
  PROVE  /\ n \div f \in 0 .. d - 1 /\ ((n \div f) + 1) * f \in 0 .. d * f
<1> DEFINE q == n \div f
<1>1. q \in Nat /\ q * f <= n
  OBVIOUS
<1> HIDE DEF q
<1>2. q < d
  <2> SUFFICES ASSUME q >= d PROVE FALSE
    BY <1>1
  <2>1. PICK k \in Nat : q = d + k
    BY <1>1
  <2>2. q * f = d * f + k * f
    BY <2>1
  <2>3. k * f \in Nat /\ d * f \in Nat /\ q * f \in Nat
    BY <1>1, <2>1
  <2> QED
    BY <1>1, <2>2, <2>3
<1>3. (q + 1) * f <= d * f
  <2>1. PICK k \in Nat : d = q + 1 + k
    BY <1>1, <1>2
  <2>2. d * f = (q + 1) * f + k * f
    BY <1>1, <2>1
  <2>3. k * f \in Nat /\ (q + 1) * f \in Nat
    BY <1>1
  <2> QED
    BY <2>2, <2>3
<1>4. (q + 1) * f \in Nat
  BY <1>1
<1> QED
  BY <1>1, <1>2, <1>3, <1>4 DEF q

LEMMA CursorFact ==
  ASSUME OnDevice, cursor < Kernel!Pci!End, ~ Kernel!Pci!Answers(cursor),
         cursor' = Kernel!Pci!After(cursor), config' = config
  PROVE  OnDevice'
<1> DEFINE f == Functions
           q == cursor \div f
<1>1. /\ Devices \in Nat /\ f \in Nat /\ f > 0 /\ cursor \in Nat
      /\ cursor < Devices * f /\ Devices * f \in Nat
  BY SizesFact DEF OnDevice, Kernel!Pci!End
<1>2. q \in 0 .. Devices - 1 /\ (q + 1) * f \in 0 .. Devices * f
  BY <1>1, DeviceFact
<1>3. /\ (cursor + 1) % f # 0 => (cursor + 1) \div f = q
      /\ ((q + 1) * f) % f = 0
  BY <1>1, SuccessorFact
<1>4. CASE cursor % f = 0
  <2>1. cursor' = (q + 1) * f
    BY <1>4 DEF Kernel!Pci!After, Kernel!Pci!NextDevice, Kernel!Pci!FunctionOf,
                Kernel!Pci!DeviceOf
  <2> QED
    BY <1>2, <1>3, <2>1 DEF OnDevice, Kernel!Pci!End, Kernel!Pci!FunctionOf
<1>5. CASE cursor % f # 0
  <2>1. cursor' = cursor + 1
    BY <1>5 DEF Kernel!Pci!After, Kernel!Pci!FunctionOf
  <2>2. 0 \in config[q].answers /\ config[q].multi
    BY <1>1, <1>5 DEF OnDevice, Kernel!Pci!End, Kernel!Pci!FunctionOf, Kernel!Pci!DeviceOf
  <2>3. cursor' \in 0 .. Devices * f
    BY <1>1, <2>1
  <2> QED
    BY <1>3, <2>1, <2>2, <2>3
       DEF OnDevice, Kernel!Pci!End, Kernel!Pci!FunctionOf, Kernel!Pci!DeviceOf
<1> QED
  BY <1>4, <1>5

-----------------------------------------------------------------------------
(* The steps of _start.                                                       *)

LEMMA StageFact ==
  /\ BeforeHeap \cap Testing = {}
  /\ \A s \in BeforeHeap \cup Testing : s \notin {"panic", "halted"}
  /\ Kernel!Stages = BeforeHeap \cup Testing \cup {"panic", "halted"}
  BY DEF BeforeHeap, Testing, Kernel!Stages

LEMMA KernelStarts == Kernel!Init => KernelInv
<1> SUFFICES ASSUME Kernel!Init PROVE KernelInv
  OBVIOUS
<1>1. /\ stage = "start" /\ transmitter = "free" /\ frames = 0 /\ cursor = 0
      /\ devices = <<>>
      /\ config \in [0 .. Devices - 1 ->
                       [answers : SUBSET (0 .. Functions - 1), multi : BOOLEAN]]
      /\ heap_start = 0 /\ heap_end = 0 /\ next = 0 /\ allocations = 0
      /\ live = {} /\ pointer = Null
  BY DEF Kernel!Init, Kernel!Pci!PciInit, Kernel!Heap!BumpInit
<1>2. 0 \in 0 .. Kernel!Pci!End /\ Kernel!Pci!FunctionOf(0) = 0
  BY SizesFact DEF Kernel!Pci!End, Kernel!Pci!FunctionOf
<1>3. Kernel!TypeOK
  BY <1>1, <1>2 DEF Kernel!TypeOK, Kernel!Heap!BumpTypeOK, Kernel!Stages, Kernel!TestFrames
<1>4. OnDevice
  BY <1>1, <1>2 DEF OnDevice
<1>5. DeviceEndsBoot /\ HeapEmpty /\ HeapSuffices /\ Laid /\ FramesTested
  BY <1>1 DEF DeviceEndsBoot, Kernel!PanicMeansDevice, HeapEmpty, HeapSuffices, Laid,
              FramesTested, Testing
<1> QED
  BY <1>3, <1>4, <1>5 DEF KernelInv

(* The steps that change nothing but how far _start is.                       *)
LEMMA PlainStep ==
  KernelInv /\ (Kernel!InitCpu \/ Kernel!Panic \/ Kernel!Transmit) => KernelInv'
<1> SUFFICES ASSUME KernelInv, Kernel!InitCpu \/ Kernel!Panic \/ Kernel!Transmit
             PROVE  KernelInv'
  OBVIOUS
<1> USE DEF KernelInv
<1>1. /\ UNCHANGED <<frames, config, cursor, devices,
                     heap_start, heap_end, next, allocations, live, pointer>>
      /\ transmitter' \in {"free", "busy"}
      /\ \/ stage = "start" /\ stage' = "pci"
         \/ stage = "panic" /\ stage' = "halted"
         \/ stage' = stage
  BY DEF Kernel!InitCpu, Kernel!Panic, Kernel!Transmit, Kernel!Step, Kernel!pciVars,
         Kernel!heapVars
<1>2. Kernel!TypeOK'
  BY <1>1 DEF Kernel!TypeOK, Kernel!Stages, Kernel!Heap!BumpTypeOK
<1>3. OnDevice'
  BY <1>1 DEF OnDevice
<1>4. DeviceEndsBoot'
  <2>1. (\E n \in 0 .. Kernel!Pci!End - 1 : Kernel!Pci!IsThere(n))'
          = (\E n \in 0 .. Kernel!Pci!End - 1 : Kernel!Pci!IsThere(n))
    BY <1>1 DEF Kernel!Pci!IsThere, Kernel!Pci!Answers
  <2> QED
    BY <1>1, <2>1 DEF DeviceEndsBoot, Kernel!PanicMeansDevice
<1>5. HeapEmpty'
  BY <1>1 DEF HeapEmpty, BeforeHeap
<1>6. HeapSuffices'
  BY <1>1 DEF HeapSuffices, Testing
<1>7. Laid'
  BY <1>1 DEF Laid
<1>8. FramesTested'
  BY <1>1 DEF FramesTested, Testing
<1> QED
  BY <1>2, <1>3, <1>4, <1>5, <1>6, <1>7, <1>8

(* A function nobody answers for.                                             *)
LEMMA NothingStep == KernelInv /\ Kernel!ScanFindsNothing => KernelInv'
<1> SUFFICES ASSUME KernelInv, Kernel!ScanFindsNothing PROVE KernelInv'
  OBVIOUS
<1> USE DEF KernelInv
<1>1. /\ UNCHANGED <<frames, config, devices,
                     heap_start, heap_end, next, allocations, live, pointer>>
      /\ cursor' = Kernel!Pci!After(cursor)
      /\ cursor < Kernel!Pci!End /\ ~ Kernel!Pci!Answers(cursor)
      /\ stage = "pci" /\ stage' = "pci" /\ transmitter' = "busy"
  BY DEF Kernel!ScanFindsNothing, Kernel!Step, Kernel!Pci!ProbeNothing, Kernel!heapVars
<1>2. OnDevice'
  BY <1>1, CursorFact
<1>3. Kernel!TypeOK'
  BY <1>1, <1>2 DEF Kernel!TypeOK, Kernel!Stages, Kernel!Heap!BumpTypeOK, OnDevice
<1>4. DeviceEndsBoot'
  BY <1>1 DEF DeviceEndsBoot, Kernel!PanicMeansDevice
<1>5. HeapEmpty' /\ HeapSuffices' /\ Laid' /\ FramesTested'
  BY <1>1 DEF HeapEmpty, HeapSuffices, Laid, FramesTested
<1> QED
  BY <1>2, <1>3, <1>4, <1>5

(* The first device: its vector finds no heap, and the kernel panics.         *)
LEMMA DeviceStep == KernelInv /\ Kernel!ScanFindsDevice => KernelInv'
<1> SUFFICES ASSUME KernelInv, Kernel!ScanFindsDevice PROVE KernelInv'
  OBVIOUS
<1> USE DEF KernelInv
<1>1. devices = <<>> /\ cursor < Kernel!Pci!End /\ Kernel!Pci!Answers(cursor)
  BY DEF DeviceEndsBoot, Kernel!ScanFindsDevice
<1>2. /\ Kernel!Heap!Alloc(DeviceVector)
      /\ stage = "pci" /\ stage' = IF pointer' = Null THEN "panic" ELSE "pci"
      /\ transmitter' = "busy" /\ UNCHANGED frames
      /\ IF stage' = "panic" THEN UNCHANGED <<config, cursor, devices>>
                             ELSE Kernel!Pci!ProbeFound
  BY <1>1 DEF Kernel!ScanFindsDevice, Kernel!Allocating, Kernel!Step, Kernel!pciVars
<1>3. pointer' = Null /\ UNCHANGED <<heap_start, heap_end, next, allocations, live>>
  BY <1>2, NoHeapFact, LayoutsFact DEF HeapEmpty, BeforeHeap
<1>4. stage' = "panic" /\ UNCHANGED <<config, cursor, devices>>
  BY <1>2, <1>3
<1>5. cursor \in 0 .. Kernel!Pci!End - 1 /\ Kernel!Pci!End \in Nat
  BY <1>1, SizesFact DEF OnDevice, Kernel!Pci!End
<1>6. Kernel!Pci!IsThere(cursor)
  <2>1. CASE Kernel!Pci!FunctionOf(cursor) = 0
    BY <1>1, <2>1 DEF Kernel!Pci!IsThere, Kernel!Pci!Answers
  <2>2. CASE Kernel!Pci!FunctionOf(cursor) # 0
    BY <1>1, <2>2 DEF Kernel!Pci!IsThere, OnDevice
  <2> QED
    BY <2>1, <2>2
<1>7. (\E n \in 0 .. Kernel!Pci!End - 1 : Kernel!Pci!IsThere(n))'
  BY <1>4, <1>5, <1>6 DEF Kernel!Pci!IsThere, Kernel!Pci!Answers
<1>8. Kernel!TypeOK'
  BY <1>2, <1>3, <1>4 DEF Kernel!TypeOK, Kernel!Stages, Kernel!Heap!BumpTypeOK
<1>9. OnDevice'
  BY <1>4 DEF OnDevice
<1>10. DeviceEndsBoot'
  BY <1>1, <1>4, <1>7 DEF DeviceEndsBoot, Kernel!PanicMeansDevice
<1>11. HeapEmpty' /\ HeapSuffices' /\ Laid' /\ FramesTested'
  BY <1>4 DEF HeapEmpty, HeapSuffices, Laid, FramesTested, BeforeHeap, Testing
<1> QED
  BY <1>8, <1>9, <1>10, <1>11

(* The rest of the drivers, the test frames, and init_heap.                   *)
LEMMA SetHeapStep ==
  KernelInv /\ (Kernel!FinishDrivers \/ Kernel!AllocateTestFrames \/ Kernel!InitHeap)
    => KernelInv'
<1> SUFFICES ASSUME KernelInv, Kernel!FinishDrivers \/ Kernel!AllocateTestFrames
                                 \/ Kernel!InitHeap
             PROVE  KernelInv'
  OBVIOUS
<1> USE DEF KernelInv, Kernel!Step, Kernel!pciVars, Kernel!heapVars
<1>1. /\ UNCHANGED <<config, cursor, devices, pointer>> /\ transmitter' = "busy"
      /\ live' = {} /\ stage \in BeforeHeap
  BY DEF Kernel!FinishDrivers, Kernel!AllocateTestFrames, Kernel!InitHeap,
         Kernel!Heap!InitHeap, HeapEmpty, BeforeHeap
<1>2. OnDevice'
  BY <1>1 DEF OnDevice
<1>3. CASE Kernel!InitHeap
  <2>1. /\ heap_start' = HeapStart /\ heap_end' = HeapStart + HeapSize
        /\ next' = HeapStart /\ allocations' = 0 /\ frames' = frames
        /\ stage = "heap" /\ stage' = "vector"
    BY <1>3 DEF Kernel!InitHeap, Kernel!Heap!InitHeap
  <2>2. Kernel!TypeOK'
    BY <1>1, <2>1, SizesFact DEF Kernel!TypeOK, Kernel!Stages, Kernel!Heap!BumpTypeOK
  <2>3. DeviceEndsBoot'
    BY <1>1, <2>1 DEF DeviceEndsBoot, Kernel!PanicMeansDevice
  <2>4. HeapEmpty' /\ Laid' /\ FramesTested'
    BY <1>1, <2>1 DEF HeapEmpty, BeforeHeap, Laid, FramesTested
  <2>5. HeapSuffices'
    <3>1. Spent(stage') = 0
      BY <2>1, SpentFact
    <3> QED
      BY <2>1, <3>1, SizesFact DEF HeapSuffices
  <2> QED
    BY <1>2, <2>2, <2>3, <2>4, <2>5
<1>4. CASE Kernel!FinishDrivers \/ Kernel!AllocateTestFrames
  <2>1. /\ UNCHANGED <<heap_start, heap_end, next, allocations>>
        /\ \/ stage' = "frames" /\ frames' = frames
           \/ stage' = "heap" /\ frames' = Kernel!TestFrames
    BY <1>4, SizesFact DEF Kernel!FinishDrivers, Kernel!AllocateTestFrames
  <2>2. Kernel!TypeOK'
    BY <1>1, <2>1 DEF Kernel!TypeOK, Kernel!Stages, Kernel!Heap!BumpTypeOK, Kernel!TestFrames
  <2>3. DeviceEndsBoot'
    BY <1>1, <2>1 DEF DeviceEndsBoot, Kernel!PanicMeansDevice
  <2>4. HeapEmpty'
    BY <1>1, <2>1 DEF HeapEmpty, BeforeHeap
  <2>5. HeapSuffices' /\ Laid' /\ FramesTested'
    BY <1>1, <2>1 DEF HeapSuffices, Laid, FramesTested, Testing
  <2> QED
    BY <1>2, <2>2, <2>3, <2>4, <2>5
<1> QED
  BY <1>3, <1>4

(* A test allocation always succeeds, and keeps all but the layout of the     *)
(* blocks.                                                                    *)
LEMMA TestAllocation ==
  ASSUME KernelInv, NEW from \in Testing, NEW to \in Testing \ {"vector"},
         NEW l \in Kernel!Layouts, Spent(to) = Spent(from) + Kernel!Padded(l),
         Kernel!Allocating(from, to, l), UNCHANGED <<frames, Kernel!pciVars>>
  PROVE  /\ stage = from /\ stage' = to
         /\ pointer' \in Nat /\ next \in Nat /\ next' \in Nat
         /\ next <= pointer' /\ next' = pointer' + l.size
         /\ live' = live \cup {B(pointer', l)} /\ HeapStart <= next
         /\ Kernel!TypeOK' /\ OnDevice' /\ DeviceEndsBoot' /\ HeapEmpty'
         /\ HeapSuffices' /\ FramesTested'
<1> USE DEF KernelInv
<1>1. /\ Kernel!Heap!Alloc(l) /\ stage = from /\ transmitter' = "busy"
      /\ stage' = IF pointer' = Null THEN "panic" ELSE to
  BY DEF Kernel!Allocating, Kernel!Step
<1>2. /\ next \in Nat /\ heap_end \in Nat /\ HeapStart <= next
      /\ next <= HeapStart + Spent(from) /\ heap_end = HeapStart + HeapSize
  BY <1>1 DEF Kernel!TypeOK, Kernel!Heap!BumpTypeOK, HeapSuffices
<1>3. /\ Spent(to) <= HeapSize /\ Spent(from) \in Nat /\ Spent(to) \in Nat
      /\ Kernel!Padded(l) \in Nat /\ HeapSize \in Nat /\ HeapStart \in Nat
  BY SpentFact, LayoutFact, SizesFact
<1>4. next + Kernel!Padded(l) <= heap_end
  BY <1>2, <1>3
<1>5. /\ pointer' \in Nat /\ pointer' # Null
      /\ next <= pointer' /\ next' = pointer' + l.size
      /\ next' \in Nat /\ next' <= next + Kernel!Padded(l)
      /\ allocations' = allocations + 1
      /\ live' = live \cup {B(pointer', l)}
      /\ UNCHANGED <<heap_start, heap_end>>
  BY <1>1, <1>2, <1>4, AllocFact
<1>6. stage' = to /\ UNCHANGED <<frames, config, cursor, devices>>
  BY <1>1, <1>5 DEF Kernel!pciVars
<1>7. HeapStart <= next' /\ next' <= HeapStart + Spent(to)
  <2>1. pointer' + l.size \in Nat /\ l.size \in Nat
    BY <1>5, LayoutFact
  <2> QED
    BY <1>2, <1>3, <1>5, <2>1
<1>8. Kernel!TypeOK'
  <2>1. B(pointer', l) \in [at : Nat, size : Nat, align : Nat]
    BY <1>5, BlockFact
  <2>2. Kernel!Heap!BumpTypeOK'
    BY <1>5, <2>1 DEF Kernel!TypeOK, Kernel!Heap!BumpTypeOK
  <2> QED
    BY <1>1, <1>6, <2>2, StageFact DEF Kernel!TypeOK
<1>9. OnDevice'
  BY <1>6 DEF OnDevice
<1>10. DeviceEndsBoot' /\ HeapEmpty'
  BY <1>6, StageFact DEF DeviceEndsBoot, Kernel!PanicMeansDevice, HeapEmpty
<1>11. HeapSuffices'
  BY <1>2, <1>5, <1>6, <1>7 DEF HeapSuffices
<1>12. FramesTested'
  BY <1>1, <1>6 DEF FramesTested
<1> QED
  BY <1>1, <1>2, <1>5, <1>6, <1>8, <1>9, <1>10, <1>11, <1>12

LEMMA VectorStep == KernelInv /\ Kernel!AllocateVector => KernelInv'
<1> SUFFICES ASSUME KernelInv, Kernel!AllocateVector PROVE KernelInv'
  OBVIOUS
<1>1. /\ Kernel!Allocating("vector", "string", TestVector)
      /\ UNCHANGED <<frames, Kernel!pciVars>>
      /\ "vector" \in Testing /\ "string" \in Testing \ {"vector"}
  BY DEF Kernel!AllocateVector, Testing
<1>2. /\ stage = "vector" /\ stage' = "string"
      /\ pointer' \in Nat /\ next \in Nat /\ next' \in Nat
      /\ next <= pointer' /\ next' = pointer' + TestVector.size
      /\ live' = live \cup {B(pointer', TestVector)} /\ HeapStart <= next
      /\ Kernel!TypeOK' /\ OnDevice' /\ DeviceEndsBoot' /\ HeapEmpty'
      /\ HeapSuffices' /\ FramesTested'
  BY <1>1, TestAllocation, LayoutsFact, SpentFact
<1>3. live' = {B(pointer', TestVector)}
  BY <1>2 DEF KernelInv, Laid
<1>4. HeapStart <= pointer' /\ pointer' + TestVector.size <= next'
  BY <1>2, SizesFact
<1>5. Laid'
  BY <1>2, <1>3, <1>4 DEF Laid
<1> QED
  BY <1>2, <1>5 DEF KernelInv

LEMMA StringStep == KernelInv /\ Kernel!AllocateString => KernelInv'
<1> SUFFICES ASSUME KernelInv, Kernel!AllocateString PROVE KernelInv'
  OBVIOUS
<1>1. /\ Kernel!Allocating("string", "longer", TestString)
      /\ UNCHANGED <<frames, Kernel!pciVars>>
      /\ "string" \in Testing /\ "longer" \in Testing \ {"vector"}
  BY DEF Kernel!AllocateString, Testing
<1>2. /\ stage = "string" /\ stage' = "longer"
      /\ pointer' \in Nat /\ next \in Nat /\ next' \in Nat
      /\ next <= pointer' /\ next' = pointer' + TestString.size
      /\ live' = live \cup {B(pointer', TestString)} /\ HeapStart <= next
      /\ Kernel!TypeOK' /\ OnDevice' /\ DeviceEndsBoot' /\ HeapEmpty'
      /\ HeapSuffices' /\ FramesTested'
  BY <1>1, TestAllocation, LayoutsFact, SpentFact
<1>3. PICK a \in Nat : /\ HeapStart <= a /\ a + TestVector.size <= next
                       /\ live = {B(a, TestVector)}
  BY <1>2 DEF KernelInv, Laid
<1>4. live' = {B(a, TestVector), B(pointer', TestString)}
  BY <1>2, <1>3
<1>5. a + TestVector.size <= pointer' /\ pointer' + TestString.size <= next'
  BY <1>2, <1>3, LayoutFact, LayoutsFact
<1>6. Laid'
  BY <1>2, <1>3, <1>4, <1>5 DEF Laid
<1> QED
  BY <1>2, <1>6 DEF KernelInv

LEMMA GrowStep == KernelInv /\ Kernel!GrowString => KernelInv'
<1> SUFFICES ASSUME KernelInv, Kernel!GrowString PROVE KernelInv'
  OBVIOUS
<1>1. /\ Kernel!Allocating("longer", "shorter", LongString)
      /\ UNCHANGED <<frames, Kernel!pciVars>>
      /\ "longer" \in Testing /\ "shorter" \in Testing \ {"vector"}
  BY DEF Kernel!GrowString, Testing
<1>2. /\ stage = "longer" /\ stage' = "shorter"
      /\ pointer' \in Nat /\ next \in Nat /\ next' \in Nat
      /\ next <= pointer' /\ next' = pointer' + LongString.size
      /\ live' = live \cup {B(pointer', LongString)} /\ HeapStart <= next
      /\ Kernel!TypeOK' /\ OnDevice' /\ DeviceEndsBoot' /\ HeapEmpty'
      /\ HeapSuffices' /\ FramesTested'
  BY <1>1, TestAllocation, LayoutsFact, SpentFact
<1>3. PICK a \in Nat, b \in Nat :
        /\ HeapStart <= a /\ a + TestVector.size <= b /\ b + TestString.size <= next
        /\ live = {B(a, TestVector), B(b, TestString)}
  BY <1>2 DEF KernelInv, Laid
<1>4. live' = {B(a, TestVector), B(b, TestString), B(pointer', LongString)}
  BY <1>2, <1>3
<1>5. b + TestString.size <= pointer' /\ pointer' + LongString.size <= next'
  BY <1>2, <1>3, LayoutFact, LayoutsFact
<1>6. Laid'
  BY <1>2, <1>3, <1>4, <1>5 DEF Laid
<1> QED
  BY <1>2, <1>6 DEF KernelInv

(* The size of the short string singles its block out.                        *)
LEMMA DropStep == KernelInv /\ Kernel!DropShortString => KernelInv'
<1> SUFFICES ASSUME KernelInv, Kernel!DropShortString PROVE KernelInv'
  OBVIOUS
<1> USE DEF KernelInv
<1>1. /\ stage = "shorter" /\ stage' = "box" /\ transmitter' = "busy"
      /\ \E b \in live : b.size = TestString.size /\ live' = live \ {b}
      /\ UNCHANGED <<frames, config, cursor, devices,
                     heap_start, heap_end, next, allocations, pointer>>
  BY DEF Kernel!DropShortString, Kernel!Step, Kernel!Heap!Dealloc, Kernel!Heap!bump,
         Kernel!pciVars
<1>2. PICK a \in Nat, b \in Nat, c \in Nat :
        /\ HeapStart <= a /\ a + TestVector.size <= b /\ b + TestString.size <= c
        /\ c + LongString.size <= next
        /\ live = {B(a, TestVector), B(b, TestString), B(c, LongString)}
  BY <1>1 DEF Laid
<1>3. /\ B(a, TestVector).size # TestString.size
      /\ B(c, LongString).size # TestString.size
      /\ B(b, TestString).size = TestString.size
  BY BlockFact, LayoutsFact, SizesFact
<1>4. live' = {B(a, TestVector), B(c, LongString)}
  BY <1>1, <1>2, <1>3
<1>5. a + TestVector.size <= c
  BY <1>2, LayoutFact, LayoutsFact
<1>6. Laid'
  BY <1>1, <1>2, <1>4, <1>5 DEF Laid
<1>7. Kernel!TypeOK'
  <2>1. live' \subseteq live
    BY <1>1
  <2> QED
    BY <1>1, <2>1 DEF Kernel!TypeOK, Kernel!Stages, Kernel!Heap!BumpTypeOK
<1>8. OnDevice'
  BY <1>1 DEF OnDevice
<1>9. DeviceEndsBoot' /\ HeapEmpty'
  BY <1>1 DEF DeviceEndsBoot, Kernel!PanicMeansDevice, HeapEmpty, BeforeHeap
<1>10. HeapSuffices'
  BY <1>1, SpentFact DEF HeapSuffices, Testing
<1>11. FramesTested'
  BY <1>1 DEF FramesTested, Testing
<1> QED
  BY <1>6, <1>7, <1>8, <1>9, <1>10, <1>11

LEMMA BoxStep == KernelInv /\ Kernel!AllocateBox => KernelInv'
<1> SUFFICES ASSUME KernelInv, Kernel!AllocateBox PROVE KernelInv'
  OBVIOUS
<1>1. /\ Kernel!Allocating("box", "idle", TestBox)
      /\ UNCHANGED <<frames, Kernel!pciVars>>
      /\ "box" \in Testing /\ "idle" \in Testing \ {"vector"}
  BY DEF Kernel!AllocateBox, Testing
<1>2. /\ stage = "box" /\ stage' = "idle"
      /\ pointer' \in Nat /\ next \in Nat /\ next' \in Nat
      /\ next <= pointer' /\ next' = pointer' + TestBox.size
      /\ live' = live \cup {B(pointer', TestBox)} /\ HeapStart <= next
      /\ Kernel!TypeOK' /\ OnDevice' /\ DeviceEndsBoot' /\ HeapEmpty'
      /\ HeapSuffices' /\ FramesTested'
  BY <1>1, TestAllocation, LayoutsFact, SpentFact
<1>3. PICK a \in Nat, c \in Nat :
        /\ HeapStart <= a /\ a + TestVector.size <= c /\ c + LongString.size <= next
        /\ live = {B(a, TestVector), B(c, LongString)}
  BY <1>2 DEF KernelInv, Laid
<1>4. live' = {B(a, TestVector), B(c, LongString), B(pointer', TestBox)}
  BY <1>2, <1>3
<1>5. c + LongString.size <= pointer' /\ pointer' + TestBox.size <= next'
  BY <1>2, <1>3, LayoutFact, LayoutsFact
<1>6. Laid'
  BY <1>2, <1>3, <1>4, <1>5 DEF Laid
<1> QED
  BY <1>2, <1>6 DEF KernelInv

LEMMA KernelStep == KernelInv /\ (Kernel!Run \/ Kernel!Transmit) => KernelInv'
  BY PlainStep, NothingStep, DeviceStep, SetHeapStep, VectorStep, StringStep, GrowStep,
     DropStep, BoxStep DEF Kernel!Run

(* Idle, the kernel has its three blocks of the tests, apart and in the heap. *)
LEMMA IdleFact == KernelInv => Kernel!IdleMeansTested
<1> SUFFICES ASSUME KernelInv, stage = "idle"
             PROVE  /\ frames = Kernel!TestFrames
                    /\ {[size |-> b.size, align |-> b.align] : b \in live}
                         = {TestVector, LongString, TestBox}
                    /\ \A b, c \in live : b # c =>
                         Kernel!Heap!BytesOf(b) \cap Kernel!Heap!BytesOf(c) = {}
                    /\ \A b \in live : Kernel!Heap!BytesOf(b)
                                         \subseteq HeapStart .. HeapStart + HeapSize - 1
  BY DEF Kernel!IdleMeansTested
<1>1. PICK a \in Nat, c \in Nat, d \in Nat :
        /\ HeapStart <= a /\ a + TestVector.size <= c /\ c + LongString.size <= d
        /\ d + TestBox.size <= next
        /\ live = {B(a, TestVector), B(c, LongString), B(d, TestBox)}
  BY DEF KernelInv, Laid
<1>2. /\ TestVector.size \in Nat /\ LongString.size \in Nat /\ TestBox.size \in Nat
      /\ next \in Nat /\ HeapStart \in Nat /\ HeapSize \in Nat
      /\ next <= HeapStart + HeapSize
  <2>1. Spent("idle") \in Nat /\ Spent("idle") <= HeapSize /\ "idle" \in Testing
    BY SpentFact DEF Testing
  <2>2. next \in Nat /\ next <= HeapStart + Spent("idle")
    BY <2>1 DEF KernelInv, HeapSuffices, Kernel!TypeOK, Kernel!Heap!BumpTypeOK
  <2> QED
    BY <2>1, <2>2, SizesFact, LayoutFact, LayoutsFact
<1>3. /\ Kernel!Heap!BytesOf(B(a, TestVector)) = a .. a + TestVector.size - 1
      /\ Kernel!Heap!BytesOf(B(c, LongString)) = c .. c + LongString.size - 1
      /\ Kernel!Heap!BytesOf(B(d, TestBox)) = d .. d + TestBox.size - 1
  BY BlockFact, LayoutsFact DEF Kernel!Heap!BytesOf
<1>4. frames = Kernel!TestFrames
  BY DEF KernelInv, FramesTested, Testing
<1>5. {[size |-> b.size, align |-> b.align] : b \in live} = {TestVector, LongString, TestBox}
  <2> DEFINE Layout(b) == [size |-> b.size, align |-> b.align]
  <2>1. /\ Layout(B(a, TestVector)) = TestVector
        /\ Layout(B(c, LongString)) = LongString
        /\ Layout(B(d, TestBox)) = TestBox
    BY BlockFact, LayoutFact, LayoutsFact
  <2> HIDE DEF Layout
  <2>2. {Layout(b) : b \in live} = {TestVector, LongString, TestBox}
    BY <1>1, <2>1
  <2> QED
    BY <2>2 DEF Layout
<1>6. \A x, y \in live : x # y => Kernel!Heap!BytesOf(x) \cap Kernel!Heap!BytesOf(y) = {}
  <2>1. /\ (a .. a + TestVector.size - 1) \cap (c .. c + LongString.size - 1) = {}
        /\ (a .. a + TestVector.size - 1) \cap (d .. d + TestBox.size - 1) = {}
        /\ (c .. c + LongString.size - 1) \cap (d .. d + TestBox.size - 1) = {}
    BY <1>1, <1>2
  <2> QED
    BY <1>1, <1>3, <2>1
<1>7. \A x \in live : Kernel!Heap!BytesOf(x) \subseteq HeapStart .. HeapStart + HeapSize - 1
  <2>1. /\ a .. a + TestVector.size - 1 \subseteq HeapStart .. HeapStart + HeapSize - 1
        /\ c .. c + LongString.size - 1 \subseteq HeapStart .. HeapStart + HeapSize - 1
        /\ d .. d + TestBox.size - 1 \subseteq HeapStart .. HeapStart + HeapSize - 1
    BY <1>1, <1>2
  <2> QED
    BY <1>1, <1>3, <2>1
<1> QED
  BY <1>4, <1>5, <1>6, <1>7

-----------------------------------------------------------------------------
(* Part 4: the machine.                                                       *)

IInv == LoaderInv /\ CpuInv /\ KernelInv

(* What does not touch the variables of a part keeps its invariant.           *)
LEMMA LoaderRests == LoaderInv /\ UNCHANGED loaderVars => LoaderInv'
<1> SUFFICES ASSUME LoaderInv, UNCHANGED loaderVars PROVE LoaderInv'
  OBVIOUS
<1>1. UNCHANGED <<at, mode, interrupts, paging, prepared, cr3, edi, ebx, memory>>
  BY DEF loaderVars
<1>2. MemoryShape'
  BY <1>1 DEF LoaderInv, MemoryShape, Loader!TypeOK
<1>3. Switched' /\ TablesGrow' /\ PagesStay'
  BY <1>1 DEF LoaderInv, Switched, TablesGrow, PagesStay
<1> QED
  BY <1>2, <1>3 DEF LoaderInv

LEMMA CpuRests == CpuInv /\ UNCHANGED cpuVars => CpuInv'
<1> SUFFICES ASSUME CpuInv, UNCHANGED cpuVars PROVE CpuInv'
  OBVIOUS
<1>1. UNCHANGED <<pc, gdt, idt, armed, cs, ds, delivering, raised, handled, ready>>
  BY DEF cpuVars
<1>2. Cpu!TypeOK'
  BY <1>1 DEF CpuInv, Cpu!TypeOK
<1>3. Gates' /\ Segmented' /\ Armed' /\ Delivery'
  BY <1>1 DEF CpuInv, Gates, Segmented, Armed, Delivery
<1> QED
  BY <1>2, <1>3 DEF CpuInv

LEMMA KernelRests == KernelInv /\ UNCHANGED kernelVars => KernelInv'
<1> SUFFICES ASSUME KernelInv, UNCHANGED kernelVars PROVE KernelInv'
  OBVIOUS
<1>1. UNCHANGED <<stage, transmitter, frames, config, cursor, devices,
                  heap_start, heap_end, next, allocations, live, pointer>>
  BY DEF kernelVars
<1>2. Kernel!TypeOK' /\ OnDevice'
  BY <1>1 DEF KernelInv, Kernel!TypeOK, Kernel!Heap!BumpTypeOK, OnDevice
<1>3. DeviceEndsBoot'
  BY <1>1 DEF KernelInv, DeviceEndsBoot, Kernel!PanicMeansDevice, Kernel!Pci!IsThere,
              Kernel!Pci!Answers
<1>4. HeapEmpty' /\ HeapSuffices' /\ Laid' /\ FramesTested'
  BY <1>1 DEF KernelInv, HeapEmpty, HeapSuffices, Laid, FramesTested
<1> QED
  BY <1>2, <1>3, <1>4 DEF KernelInv

(* IInv is an invariant of the machine.                                       *)
THEOREM PowerOnInvariant == Spec => []IInv
<1>1. Init => IInv
  BY LoaderStarts, CpuStarts, KernelStarts DEF Init, IInv
<1>2. IInv /\ [Next]_vars => IInv'
  <2> SUFFICES ASSUME IInv, [Next]_vars PROVE IInv'
    OBVIOUS
  <2>1. CASE Load
    BY <2>1, LoaderStep, CpuRests, KernelRests DEF Load, IInv
  <2>2. CASE SetUpTables
    BY <2>2, LoaderRests, SetUpStep, KernelRests DEF SetUpTables, IInv
  <2>3. CASE Except
    BY <2>3, LoaderRests, DeliveryStep, KernelRests DEF Except, IInv
  <2>4. CASE RunKernel
    BY <2>4, LoaderRests, CpuRests, KernelStep DEF RunKernel, IInv
  <2>5. CASE Transmit
    BY <2>5, LoaderRests, CpuRests, KernelStep DEF Transmit, IInv
  <2>6. CASE \E v \in Raisable : RaiseException(v)
    BY <2>6, LoaderRests, RaiseStep, KernelRests DEF RaiseException, IInv
  <2>7. CASE UNCHANGED vars
    <3>1. UNCHANGED loaderVars /\ UNCHANGED cpuVars /\ UNCHANGED kernelVars
      BY <2>7 DEF vars
    <3> QED
      BY <3>1, LoaderRests, CpuRests, KernelRests DEF IInv
  <2> QED
    BY <2>1, <2>2, <2>3, <2>4, <2>5, <2>6, <2>7 DEF Next
<1> QED
  BY <1>1, <1>2, PTL DEF Spec

(* Every variable of the machine stays in its type.                           *)
THEOREM TypesAreKept == Spec => []TypeOK
<1>1. IInv => TypeOK
  BY DEF IInv, LoaderInv, MemoryShape, CpuInv, KernelInv, TypeOK
<1> QED
  BY <1>1, PowerOnInvariant, PTL

(* Paging is turned on under code that is mapped to itself, and nothing       *)
(* above the first two megabytes is mapped.                                   *)
THEOREM PagingIsSafe == Spec => []PagingSurvives
<1>1. LoaderInv => Loader!PagingSurvives
  <2> SUFFICES ASSUME LoaderInv, paging PROVE Loader!PagingSurvives
    BY DEF Loader!PagingSurvives
  <2>1. at \in Late /\ prepared = {"PAE", "LME"} /\ at \in Filled
    BY DEF LoaderInv, Switched, Filled
  <2> QED
    BY <2>1, TablesTranslate DEF Loader!PagingSurvives
<1>2. IInv => PagingSurvives
  BY <1>1 DEF IInv, PagingSurvives
<1> QED
  BY <1>2, PowerOnInvariant, PTL

(* The kernel is started whole, in long mode, with interrupts off.            *)
THEOREM KernelIsHandedOver == Spec => []KernelArrivesWhole
<1>1. LoaderInv => Loader!KernelArrivesWhole
  BY DEF LoaderInv, Switched, PagesStay, Late, Filled, Linked, Read,
         Loader!KernelArrivesWhole
<1>2. IInv => KernelArrivesWhole
  BY <1>1 DEF IInv, KernelArrivesWhole
<1> QED
  BY <1>2, PowerOnInvariant, PTL

(* Once the IDT is loaded every exception ends in the handler it should, but  *)
(* for three that reset the machine.                                          *)
THEOREM ExceptionsAreHandled == Spec => []ExceptionsEndInAHandler
<1>1. CpuInv => Cpu!ExceptionsEndInAHandler
  <2> SUFFICES ASSUME CpuInv, ready PROVE Cpu!ExceptionsEndInAHandler
    BY DEF Cpu!ExceptionsEndInAHandler
  <2>1. armed
    BY DEF CpuInv, Armed
  <2> QED
    BY <2>1 DEF CpuInv, Segmented, Delivery, Cpu!ExceptionsEndInAHandler
<1>2. IInv => ExceptionsEndInAHandler
  BY <1>1 DEF IInv, ExceptionsEndInAHandler
<1> QED
  BY <1>2, PowerOnInvariant, PTL

(* The kernel idles only behind its tests, and panics only over a device.     *)
THEOREM OutcomesAreEarned == Spec => []BootOutcomeIsEarned
<1>1. IInv => BootOutcomeIsEarned
  BY IdleFact DEF IInv, KernelInv, DeviceEndsBoot, BootOutcomeIsEarned
<1> QED
  BY <1>1, PowerOnInvariant, PTL
=============================================================================
