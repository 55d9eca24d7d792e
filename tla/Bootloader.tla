----------------------------- MODULE Bootloader -----------------------------
(* From the BIOS to the kernel, bootloader/src/boot.asm: the disk is read in  *)
(* real mode, then the CPU goes through protected mode into long mode, which  *)
(* needs page tables that map the very code that turns paging on.  Memory is  *)
(* kept page by page, and a page holds either something (the boot sector,     *)
(* the stack, a part of the kernel, whatever the BIOS left) or a page table.  *)
EXTENDS Integers

CONSTANTS Entries,       \* entries of a page table: 512
          KernelPages,   \* pages the kernel is loaded to: 8 .. 15
          BootPage,      \* page of the boot sector: 7
          StackPage,     \* page below the 32-bit stack pointer: 143
          Left           \* what the BIOS left in memory

(* Pages of the four tables, from the PML4 down.                              *)
Pml4 == 1
Pdpt == 2
Pd   == 3
Pt   == 4
TablePages == Pml4 .. Pt
MappedPages == 0 .. Entries - 1

(* The tables stand at 1000h .. 4FFFh, below the boot sector, the kernel and  *)
(* the stack; what the BIOS left is none.                                     *)
BootAssumption ==
  /\ Entries \in Nat /\ Pt < Entries
  /\ KernelPages \cup {BootPage, StackPage} \subseteq MappedPages
  /\ TablePages \cap (KernelPages \cup {BootPage, StackPage}) = {}
  /\ BootPage \notin KernelPages
  /\ Left # "table"

VARIABLES at,          \* where the program is
          mode,        \* "real", "protected" or "long"
          interrupts,  \* the interrupt flag
          paging,      \* CR0.PG, with CR4.PAE and EFER.LME in `prepared`
          prepared,
          cr3,         \* page of the table CR3 points to
          edi, ebx,    \* the registers of the loop that fills the last table:
                       \* the entry to write, and the page to put there
          memory       \* page -> what it holds

vars == <<at, mode, interrupts, paging, prepared, cr3, edi, ebx, memory>>

Content(what)    == [kind |-> what, entry |-> [k \in {} |-> 0]]
Table(entry)     == [kind |-> "table", entry |-> entry]
NotPresent       == -1
EmptyTable       == Table([k \in 0 .. Entries - 1 |-> NotPresent])
Put(page, k, to) ==
  memory' = [memory EXCEPT ![page] = Table([memory[page].entry EXCEPT ![k] = to])]

Init ==
  /\ at = "reset_disk" /\ mode = "real" /\ interrupts = TRUE
  /\ paging = FALSE /\ prepared = {}
  /\ cr3 = 0 /\ edi = 0 /\ ebx = 0
  /\ memory = [p \in MappedPages |->
                 Content(IF p = BootPage THEN "boot" ELSE Left)]

Goto(from, to) == at = from /\ at' = to

---------------------------------------------------------------------------
(* The BIOS answers an int 0x13 with the carry flag set or clear.             *)
ResetDisk ==
  /\ at = "reset_disk"
  /\ at' \in {"read_disk", "hang"}
  /\ UNCHANGED <<mode, interrupts, paging, prepared, cr3, edi, ebx, memory>>

ReadFails ==
  /\ Goto("read_disk", "hang")
  /\ UNCHANGED <<mode, interrupts, paging, prepared, cr3, edi, ebx, memory>>

ReadKernel ==
  /\ Goto("read_disk", "protect")
  /\ memory' = [p \in MappedPages |->
                  IF p \in KernelPages THEN Content("kernel") ELSE memory[p]]
  /\ UNCHANGED <<mode, interrupts, paging, prepared, cr3, edi, ebx>>

(* cli, lgdt, CR0.PE, far jump: from here on no interrupt may come, there is  *)
(* no table of handlers for it.                                               *)
EnterProtectedMode ==
  /\ Goto("protect", "clear_tables")
  /\ interrupts' = FALSE
  /\ mode' = "protected"
  /\ UNCHANGED <<paging, prepared, cr3, edi, ebx, memory>>

(* rep stosd: 4096 double words, which are the four tables.                   *)
ClearTables_Quarter ==               \* fault: 4096 bytes for 4096 double words
  /\ Goto("clear_tables", "link_tables")
  /\ cr3' = Pml4
  /\ memory' = [memory EXCEPT ![Pml4] = EmptyTable,
                  ![Pdpt] = Table([k \in 0 .. Entries - 1 |-> 0]),
                  ![Pd]   = Table([k \in 0 .. Entries - 1 |-> 0]),
                  ![Pt]   = Table([k \in 0 .. Entries - 1 |-> 0])]
  /\ UNCHANGED <<mode, interrupts, paging, prepared, edi, ebx>>

ClearTables_TooFar ==                \* fault: 32 KB for 16 KB
  /\ Goto("clear_tables", "link_tables")
  /\ cr3' = Pml4
  /\ memory' = [p \in MappedPages |->
                  IF p \in Pml4 .. 2 * Pt THEN EmptyTable ELSE memory[p]]
  /\ UNCHANGED <<mode, interrupts, paging, prepared, edi, ebx>>

ClearTables ==
  /\ Goto("clear_tables", "link_tables")
  /\ cr3' = Pml4
  /\ memory' = [p \in MappedPages |-> IF p \in TablePages THEN EmptyTable ELSE memory[p]]
  /\ UNCHANGED <<mode, interrupts, paging, prepared, edi, ebx>>

(* The first entry of each table but the last.                                *)
LinkTables ==
  /\ Goto("link_tables", "fill_table")
  /\ memory' = [p \in MappedPages |->
                  IF p \in Pml4 .. Pd
                    THEN Table([memory[p].entry EXCEPT ![0] = p + 1])
                    ELSE memory[p]]
  /\ edi' = 0 /\ ebx' = 0
  /\ UNCHANGED <<mode, interrupts, paging, prepared, cr3>>

FillEntry_OneMore ==                 \* fault: 513 turns of the loop
  /\ at = "fill_table" /\ edi <= Entries
  /\ Put(Pt, edi, ebx)
  /\ edi' = edi + 1 /\ ebx' = ebx + 1
  /\ UNCHANGED <<at, mode, interrupts, paging, prepared, cr3>>

FillEntry ==
  /\ at = "fill_table" /\ edi < Entries
  /\ Put(Pt, edi, ebx)
  /\ edi' = edi + 1 /\ ebx' = ebx + 1
  /\ UNCHANGED <<at, mode, interrupts, paging, prepared, cr3>>

FillTableDone ==
  /\ edi = Entries /\ Goto("fill_table", "prepare")
  /\ UNCHANGED <<mode, interrupts, paging, prepared, cr3, edi, ebx, memory>>

Prepare ==
  /\ Goto("prepare", "enable_paging")
  /\ prepared' = {"PAE", "LME"}
  /\ UNCHANGED <<mode, interrupts, paging, cr3, edi, ebx, memory>>

EnablePaging ==
  /\ Goto("enable_paging", "jump")
  /\ paging' = TRUE
  /\ UNCHANGED <<mode, interrupts, prepared, cr3, edi, ebx, memory>>

(* lgdt of the 64-bit table and the far jump; the screen is cleared, and the  *)
(* kernel entered at its first byte.                                          *)
EnterLongMode ==
  /\ Goto("jump", "kernel")
  /\ mode' = "long"
  /\ UNCHANGED <<interrupts, paging, prepared, cr3, edi, ebx, memory>>

(* cli; hlt; jmp hang                                                         *)
Hang ==
  /\ at = "hang" /\ interrupts
  /\ interrupts' = FALSE
  /\ UNCHANGED <<at, mode, paging, prepared, cr3, edi, ebx, memory>>

Over == at \in {"hang", "kernel"} /\ UNCHANGED vars

Run == \/ ResetDisk \/ ReadFails \/ ReadKernel \/ EnterProtectedMode
       \/ ClearTables \/ LinkTables \/ FillEntry \/ FillTableDone
       \/ Prepare \/ EnablePaging \/ EnterLongMode \/ Hang

Next == Run \/ Over

(* The CPU runs the boot sector, and the BIOS returns from its interrupts.    *)
Spec == Init /\ [][Next]_vars /\ WF_vars(Run)

---------------------------------------------------------------------------
(* The walk of the CPU through the tables, for a page below 2 MB.             *)
EntryOf(page, k) == IF memory[page].kind = "table" THEN memory[page].entry[k] ELSE NotPresent
Follow(page, k)  == IF page \in MappedPages THEN EntryOf(page, k) ELSE NotPresent
Translate(v)     == Follow(Follow(Follow(Follow(cr3, 0), 0), 0), v)

TypeOK ==
  /\ mode \in {"real", "protected", "long"}
  /\ interrupts \in BOOLEAN /\ paging \in BOOLEAN
  /\ prepared \subseteq {"PAE", "LME"}
  /\ cr3 \in {0, Pml4} /\ edi \in 0 .. Entries /\ ebx \in 0 .. Entries
  /\ \A p \in MappedPages : memory[p].kind \in {"boot", "kernel", "table", Left}

(* The instruction after the one that turns paging on is fetched through the  *)
(* tables: by then long mode is prepared, and every page of the first two     *)
(* megabytes, the boot sector's, the stack's and the kernel's among them,     *)
(* translates to itself; nothing above them is mapped.                        *)
PagingSurvives ==
  paging =>
    /\ prepared = {"PAE", "LME"}
    /\ \A v \in MappedPages : Translate(v) = v
    /\ \A p \in Pml4 .. Pd, k \in 1 .. Entries - 1 : EntryOf(p, k) = NotPresent

(* The kernel is entered as it was read: neither the tables nor anything else *)
(* has been written over it or over the boot sector that runs until then, the *)
(* stack lies on no table, and interrupts, which have no handlers, are off.   *)
KernelArrivesWhole ==
  at = "kernel" =>
    /\ mode = "long" /\ paging /\ ~interrupts
    /\ \A p \in KernelPages : memory[p].kind = "kernel"
    /\ memory[BootPage].kind = "boot"
    /\ memory[StackPage].kind # "table"
=============================================================================
