----------------------------- MODULE PageMapper -----------------------------
(* Four-level paging, memory/paging.rs over memory/page_table.rs, composed    *)
(* with the frame allocator through its abstract specification FramePool      *)
(* (FrameProofs shows that the bitmap allocator implements it).               *)
(*                                                                            *)
(* Page tables live in physical frames, so `table` gives, for every frame,    *)
(* what the frame reads as when it is walked as a table: until it is zeroed,  *)
(* whatever it held before.  map_page is one step per level and one more for  *)
(* each of the writes whose order matters: the entry that installs a new      *)
(* table, the zeroing of that table, the leaf entry, and invlpg.  `tlb` is    *)
(* the translation cache of the CPU, whose walker may load an entry at any    *)
(* moment, between any two of these writes.                                   *)
EXTENDS FramePool, FiniteSets

CONSTANTS Width,      \* entries of a table: 512
          Root,       \* frame of the PML4
          Pages,      \* virtual page numbers callers pass
          Devices,    \* frames outside the pool that callers map
          Ranges,     \* <<start, size>>: the bytes callers identity-map
          Flags,      \* the flags callers pass, as far as the mapper tells them apart
          Contents,   \* what the frames hold at boot, read as tables
          Nowhere     \* the result of translating an unmapped page

(* How many pages lie under one entry of a table at level 1 .. 4, and under   *)
(* the PML4.                                                                  *)
PagesUnder == <<1, Width, Width * Width, Width * Width * Width,
                Width * Width * Width * Width>>
Slots   == 0 .. PagesUnder[5] - 1
Targets == Frames \cup Devices

(* The pages of a range of bytes, align_down of its start to align_up of its  *)
(* end; a range of no bytes may still touch one page, if it is not aligned.   *)
PAGE_SIZE == 4096
FirstPage(r) == r[1] \div PAGE_SIZE
EndPage_Down(r) == (r[1] + r[2]) \div PAGE_SIZE      \* fault: align_down of the end
EndPage(r)   == (r[1] + r[2] + PAGE_SIZE - 1) \div PAGE_SIZE

Absent      == [present |-> FALSE, frame |-> Nowhere, user |-> FALSE]
Entry(f, u) == [present |-> TRUE, frame |-> f, user |-> u]
EntryType   == {Absent} \cup [present : BOOLEAN, frame : Targets, user : BOOLEAN]
EmptyTable  == [i \in 0 .. Width - 1 |-> Absent]

ASSUME PageMapperAssumption ==
  /\ Width \in Nat \ {0}
  /\ Frames \subseteq Nat /\ IsFiniteSet(Frames) /\ Devices \subseteq Nat
  /\ Refused \notin Frames /\ Root \in Frames
  /\ Pages \subseteq Slots
  /\ Ranges \subseteq Nat \X Nat
  /\ \A r \in Ranges : FirstPage(r) .. EndPage(r) - 1 \subseteq Slots \cap Targets
  /\ Flags \subseteq [present : BOOLEAN, user : BOOLEAN]
  /\ Contents \in [Frames -> [0 .. Width - 1 -> EntryType]]
  /\ Nowhere \notin Targets

VARIABLES table,    \* frame -> what it holds, read as a page table
          pc,       \* "idle", "walk", "zero" or "flush"
          call,     \* the map_page in progress, or the last one
          outcome,  \* how the last call ended, and for which page and frame
          tlb,      \* cached translations <<page, frame, kind>>; kind is a ghost
          owned     \* ghost: frames callers allocated for their data

vars == <<poolVars, table, pc, call, outcome, tlb, owned>>

(* VirtualAddress::pml4_index .. pt_index: the index at level 4 .. 1.         *)
IndexAt(l, v) == (v \div PagesUnder[l]) % Width

(* A walk that is led out of the pool by what a frame held before finds       *)
(* nothing there.                                                             *)
EntryIn(mem, t, l, v) == IF t \in Frames THEN mem[t][IndexAt(l, v)] ELSE Absent
Follow(mem, t, l, v)  ==
  LET e == EntryIn(mem, t, l, v) IN IF e.present THEN e.frame ELSE Nowhere

PdptOf(mem, v)    == Follow(mem, Root, 4, v)
PdOf(mem, v)      == Follow(mem, PdptOf(mem, v), 3, v)
PtOf(mem, v)      == Follow(mem, PdOf(mem, v), 2, v)
Translate(mem, v) == Follow(mem, PtOf(mem, v), 1, v)

(* What software can observe: between its two writes get_or_create_table has  *)
(* not returned, and the table it is about to zero counts as empty.           *)
Settled == IF pc = "zero" THEN [table EXCEPT ![answer] = EmptyTable] ELSE table

Result(what, v, f) == [what |-> what, page |-> v, frame |-> f]
NoBytes == <<0, 0>>
NoCall == [range |-> NoBytes, page |-> 0, end |-> 0, frame |-> Nowhere,
           flags |-> [present |-> TRUE, user |-> FALSE], level |-> 0, at |-> Root]

Init ==
  /\ inUse = {Root} /\ asked = 1 /\ answer = Root
  /\ table = [f \in Frames |-> IF f = Root THEN EmptyTable ELSE Contents[f]]
  /\ pc = "idle"
  /\ call = NoCall
  /\ outcome = Result("none", Nowhere, Nowhere)
  /\ tlb = {}
  /\ owned = {}

---------------------------------------------------------------------------
(* The callers' own use of the allocator: data frames, given back once no     *)
(* page is mapped to them (the deallocator's contract).                       *)
CallerAllocates ==
  /\ pc = "idle"
  /\ Grant(1) \/ Refuse(1)
  /\ owned' = IF answer' = Refused THEN owned ELSE owned \cup {answer'}
  /\ UNCHANGED <<table, pc, call, outcome, tlb>>

CallerFrees(f) ==
  /\ pc = "idle"
  /\ f \in owned
  /\ \A v \in Slots : Translate(table, v) # f
  /\ GiveBack({f})
  /\ owned' = owned \ {f}
  /\ UNCHANGED <<table, pc, call, outcome, tlb>>

---------------------------------------------------------------------------
(* map_page                                                                   *)
Begin(range, v, end, f, fl) ==
  /\ pc' = "walk"
  /\ call' = [range |-> range, page |-> v, end |-> end, frame |-> f,
              flags |-> fl, level |-> 4, at |-> Root]

MapPage(v, f, fl) ==
  /\ pc = "idle"
  /\ Begin(NoBytes, v, v + 1, f, fl)
  /\ UNCHANGED <<poolVars, table, outcome, tlb, owned>>

IdentityMapRange(r, fl) ==
  /\ pc = "idle"
  /\ IF FirstPage(r) < EndPage(r)
       THEN /\ Begin(r, FirstPage(r), EndPage(r), FirstPage(r), fl)
            /\ UNCHANGED outcome
       ELSE /\ outcome' = Result("nothing", Nowhere, Nowhere)
            /\ call' = NoCall
            /\ UNCHANGED pc
  /\ UNCHANGED <<poolVars, table, tlb, owned>>

Misaligned ==
  /\ pc = "idle"
  /\ outcome' = Result("InvalidAddress", Nowhere, Nowhere)
  /\ call' = NoCall
  /\ UNCHANGED <<poolVars, table, pc, tlb, owned>>

EntryAtCall == table[call.at][IndexAt(call.level, call.page)]
SetEntryAtCall(e) ==
  table' = [table EXCEPT ![call.at][IndexAt(call.level, call.page)] = e]

Fail(what) ==
  /\ pc' = "idle"
  /\ outcome' = Result(what, call.page, Nowhere)
  /\ call' = NoCall
  /\ UNCHANGED <<table, tlb, owned>>

(* get_or_create_table at levels 4, 3 and 2.                                  *)
Descend_AllocatesFirst ==            \* fault: the frame is taken before the test
  /\ pc = "walk" /\ call.level > 1
  /\ EntryAtCall.present
  /\ Grant(1) \/ Refuse(1)
  /\ call' = [call EXCEPT !.level = @ - 1, !.at = EntryAtCall.frame]
  /\ UNCHANGED <<table, pc, outcome, tlb, owned>>

Descend ==
  /\ pc = "walk" /\ call.level > 1
  /\ EntryAtCall.present
  /\ call' = [call EXCEPT !.level = @ - 1, !.at = EntryAtCall.frame]
  /\ UNCHANGED <<poolVars, table, pc, outcome, tlb, owned>>

InstallTable_Unchecked ==            \* fault: the allocator's None is not looked at
  /\ pc = "walk" /\ call.level > 1
  /\ ~EntryAtCall.present
  /\ Grant(1) \/ Refuse(1)
  /\ SetEntryAtCall(Entry(answer', FALSE))
  /\ pc' = "zero"
  /\ UNCHANGED <<call, outcome, tlb, owned>>

InstallTable ==
  /\ pc = "walk" /\ call.level > 1
  /\ ~EntryAtCall.present
  /\ \/ /\ Grant(1)
        /\ SetEntryAtCall(Entry(answer', FALSE))
        /\ pc' = "zero"
        /\ UNCHANGED <<call, outcome, tlb, owned>>
     \/ Refuse(1) /\ Fail("OutOfMemory")

ZeroTable_Skipped ==                 \* fault: the new table is not zeroed
  /\ pc = "zero"
  /\ call' = [call EXCEPT !.level = @ - 1, !.at = answer]
  /\ pc' = "walk"
  /\ UNCHANGED <<poolVars, table, outcome, tlb, owned>>

ZeroTable ==
  /\ pc = "zero"
  /\ table' = [table EXCEPT ![answer] = EmptyTable]
  /\ call' = [call EXCEPT !.level = @ - 1, !.at = answer]
  /\ pc' = "walk"
  /\ UNCHANGED <<poolVars, outcome, tlb, owned>>

(* The leaf: set_address stores the caller's flags as they are.  Of an entry  *)
(* without PRESENT nothing else is ever read, so it is one with no entry, and *)
(* the call that wrote it is Ok all the same.                                 *)
Leaf(f, fl) == IF fl.present THEN Entry(f, fl.user) ELSE Absent
Mapped(v, f, fl) == Result("mapped", v, IF fl.present THEN f ELSE Nowhere)

SetLeaf_Overwrites ==                \* fault: the is_present test is dropped
  /\ pc = "walk" /\ call.level = 1
  /\ SetEntryAtCall(Leaf(call.frame, call.flags))
  /\ outcome' = Mapped(call.page, call.frame, call.flags)
  /\ pc' = "flush"
  /\ UNCHANGED <<poolVars, call, tlb, owned>>

SetLeaf ==
  /\ pc = "walk" /\ call.level = 1
  /\ \/ /\ EntryAtCall.present
        /\ Fail("PageAlreadyMapped")
        /\ UNCHANGED poolVars
     \/ /\ ~EntryAtCall.present
        /\ SetEntryAtCall(Leaf(call.frame, call.flags))
        /\ outcome' = Mapped(call.page, call.frame, call.flags)
        /\ pc' = "flush"
        /\ UNCHANGED <<poolVars, call, tlb, owned>>

(* flush_tlb, then the next page of the range if there is one.                *)
FlushTlb_Skipped ==                  \* fault: no invlpg
  /\ pc = "flush"
  /\ IF call.page + 1 < call.end
       THEN Begin(call.range, call.page + 1, call.end, call.page + 1, call.flags)
       ELSE pc' = "idle" /\ UNCHANGED call
  /\ UNCHANGED <<poolVars, table, outcome, tlb, owned>>

FlushTlb ==
  /\ pc = "flush"
  /\ tlb' = {e \in tlb : e[1] # call.page}
  /\ IF call.page + 1 < call.end
       THEN Begin(call.range, call.page + 1, call.end, call.page + 1, call.flags)
       ELSE pc' = "idle" /\ UNCHANGED call
  /\ UNCHANGED <<poolVars, table, outcome, owned>>

---------------------------------------------------------------------------
(* unmap_page: a read-only walk, then the leaf is cleared and flushed.        *)
UnmapPage(v) ==
  /\ pc = "idle"
  /\ IF Translate(table, v) = Nowhere
       THEN /\ outcome' = Result("InvalidAddress", v, Nowhere)
            /\ call' = NoCall
            /\ UNCHANGED <<table, pc>>
       ELSE /\ table' = [table EXCEPT ![PtOf(table, v)][IndexAt(1, v)] = Absent]
            /\ outcome' = Result("unmapped", v, Translate(table, v))
            /\ call' = [NoCall EXCEPT !.page = v, !.end = v]
            /\ pc' = "flush"
  /\ UNCHANGED <<poolVars, tlb, owned>>

(* flush_tlb_all: CR3 is reloaded.                                            *)
FlushTlbAll ==
  /\ pc = "idle" /\ tlb # {}
  /\ tlb' = {}
  /\ UNCHANGED <<poolVars, table, pc, call, outcome, owned>>

(* The CPU may walk the tables at any time, ahead of need too.  The entry it  *)
(* caches is a stray if software would not translate the page so: then the    *)
(* walk went through a table that is installed and not yet zeroed.            *)
HardwareWalk(v) ==
  /\ Translate(table, v) # Nowhere
  /\ LET kind == IF Translate(table, v) = Translate(Settled, v) THEN "sound" ELSE "stray"
     IN  tlb' = tlb \cup {<<v, Translate(table, v), kind>>}
  /\ UNCHANGED <<poolVars, table, pc, call, outcome, owned>>

Next ==
  \/ CallerAllocates \/ \E f \in owned : CallerFrees(f)
  \/ \E v \in Pages, f \in owned \cup Devices, fl \in Flags : MapPage(v, f, fl)
  \/ \E r \in Ranges, fl \in Flags : IdentityMapRange(r, fl)
  \/ Misaligned
  \/ Descend \/ InstallTable \/ ZeroTable \/ SetLeaf \/ FlushTlb
  \/ \E v \in Pages : UnmapPage(v)
  \/ FlushTlbAll
  \/ \E v \in Pages : HardwareWalk(v)

Spec == Init /\ [][Next]_vars

---------------------------------------------------------------------------
TypeOK ==
  /\ inUse \subseteq Frames
  /\ table \in [Frames -> [0 .. Width - 1 -> EntryType]]
  /\ pc \in {"idle", "walk", "zero", "flush"}
  /\ call.level \in 0 .. 4 /\ call.at \in Frames
  /\ tlb \subseteq Slots \X Targets \X {"sound", "stray"}
  /\ owned \subseteq Frames

(* The tables of the address space, level by level, and the entries that     *)
(* refer to one.                                                              *)
Children(mem, S) ==
  {mem[ti[1]][ti[2]].frame :
     ti \in {ti \in S \X (0 .. Width - 1) : mem[ti[1]][ti[2]].present}}
Level3(mem) == Children(mem, {Root})
Level2(mem) == Children(mem, Level3(mem))
Level1(mem) == Children(mem, Level2(mem))
Tables(mem) == {Root} \cup Level3(mem) \cup Level2(mem) \cup Level1(mem)
References(mem) ==
  {ti \in ({Root} \cup Level3(mem) \cup Level2(mem)) \X (0 .. Width - 1) :
     mem[ti[1]][ti[2]].present}

(* The page tables form a tree: no frame is the table of two entries, and     *)
(* none sits at two levels; a new table must have been zeroed, and the walk   *)
(* must never have taken a leaf for a table.                                  *)
TablesFormATree ==
  Cardinality(Tables(Settled)) = Cardinality(References(Settled)) + 1

(* Every frame the pool has given out is either a caller's or a table that    *)
(* can still be reached, never both, also after map_page ran out of memory    *)
(* half-way down and left the tables it had made in place.                    *)
NoFrameLost ==
  /\ inUse = owned \cup Tables(Settled)
  /\ owned \cap Tables(Settled) = {}

(* Between calls the CPU caches no translation that the tables do not hold,   *)
(* unless it went ahead through a table that map_page had installed and not   *)
(* yet zeroed; and for the page that the last call mapped or unmapped it      *)
(* caches none at all that is out of date.                                    *)
StaleOnlyIfStray ==
  pc = "idle" =>
    \A e \in tlb :
      \/ Translate(table, e[1]) = e[2]
      \/ e[3] = "stray" /\ (outcome.what \in {"mapped", "unmapped"} => outcome.page # e[1])

(* "TLB invalidation" is a responsibility of the page mapper                  *)
(* (docs/PHASE1.2_PAGING.md:115), done automatically by map_page and          *)
(* unmap_page (:296): between calls the CPU caches no translation that the    *)
(* tables do not hold.                                                        *)
TlbIsCoherent ==
  pc = "idle" => \A e \in tlb : Translate(table, e[1]) = e[2]

(* When identity_map_range returns Ok, every byte of the range translates to  *)
(* itself, those before the first and behind the last page boundary included, *)
(* unless the caller left PRESENT out of the flags.                           *)
Touches(v, r) == /\ r[2] > 0
                 /\ v * PAGE_SIZE < r[1] + r[2] /\ r[1] < (v + 1) * PAGE_SIZE
IdentityRangeIsMapped ==
  (pc = "idle" /\ outcome.what = "mapped" /\ call.flags.present) =>
     \A v \in Slots : Touches(v, call.range) => Translate(table, v) = v

(* What callers see of all this is an address space: one page changes per     *)
(* successful call, none in a call that fails, however far it got.            *)
Space == INSTANCE AddressSpace WITH
           space <- [v \in Slots |-> Translate(Settled, v)]
SpaceSpec == Space!SpaceSpec

(* The paging document calls a page mapped with USER_ACCESSIBLE a "User page  *)
(* (accessible from user mode)"; the CPU grants that only when every entry    *)
(* on the walk has the flag.                                                  *)
UserPageIsReachable ==
  (pc = "idle" /\ outcome.what = "mapped" /\ call.flags.user) =>
     LET v == outcome.page IN
       /\ EntryIn(table, Root, 4, v).user
       /\ EntryIn(table, PdptOf(table, v), 3, v).user
       /\ EntryIn(table, PdOf(table, v), 2, v).user
       /\ EntryIn(table, PtOf(table, v), 1, v).user
=============================================================================
