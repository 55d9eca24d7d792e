# AetherionOS: models, checks and proofs

TLA+ models of the AetherionOS kernel and boot sector, the TLC configurations that
check them on small instances, and TLAPS proofs about the parts that everything else
rests on. Paths are relative to the repository; `kernel/` stands for `src/kernel/src/`
below and `boot.asm` for `src/bootloader/src/boot.asm`.

    tlc -workers 2 -config MCPageMapper.cfg MCPageMapper.tla     a run
    tlapm FrameProofs.tla                                        a proof module

## 1. The system

A boot sector loads a Rust kernel, switches the CPU to long mode and jumps to it. The
kernel runs on one CPU, never enables interrupts, starts no second thread and ends in a
`hlt` loop. Concurrency therefore comes from outside the program: the CPU itself (its TLB,
its exceptions), the devices, the users who plug and unplug them, and the callers of an
operation, who may call it in any order.

| Component | Source | State | Operations | What makes it hard |
|---|---|---|---|---|
| boot sector | `boot.asm` | CPU mode, page tables, memory | disk reads, mode switches, table set-up | order of the steps, byte/dword/entry counts, disk errors |
| kernel entry | `kernel/main.rs`, `kernel/drivers/mod.rs` | how far `_start` is | start-up, tests, panic | drivers allocate before the heap exists; unbounded waits for the serial port |
| memory routines | `kernel/main.rs` | memory | memcpy, memset, memcmp, memmove | overlapping regions |
| descriptor tables, exceptions | `kernel/gdt`, `kernel/interrupts` | GDT, IDT, segment registers | load, register handlers, deliver | an exception between any two steps; faults on faults |
| frame bitmap | `kernel/memory/bitmap.rs` | bits | set, clear, two searches, counts | buffers longer than the bitmap, broken runs |
| frame allocator | `kernel/memory/frame_allocator.rs` | bitmap and counter | allocate, deallocate, statistics | double frees, foreign and unaligned addresses, wrapping arithmetic |
| page mapper | `kernel/memory/paging.rs`, `page_table.rs` | page tables, TLB | map, unmap, identity-map, translate, flush | running out of frames half-way, junk in new tables that the CPU may walk before they are zeroed, stale TLB entries |
| bump allocator | `kernel/allocator/bump.rs`, `mod.rs` | region, next, count | init, alloc, dealloc, reset | use before init, alignment, exhaustion |
| linked-list allocator | `kernel/allocator/linked_list.rs` | free list in free memory | alloc, dealloc | splitting, remainders too small for a node |
| process table | `kernel/process/mod.rs` | pid counter, table | create, schedule | pids run past the table |
| IPC | `kernel/ipc/mod.rs` | queue per slot | create, send, receive | pids that share a slot, pids that no process has, queues at capacity |
| keyboard | `kernel/drivers/keyboard.rs` | ring of keys | push, pop | full and empty look alike |
| audio buffer | `kernel/ai/whisper.rs` | sliding window | push, clear, cut into frames | capacity zero, slices longer than the window, windows shorter than a frame |
| tensors | `kernel/ai/tensor.rs` | data and shape | matmul, add, mul, relu, softmax, layer_norm | each operation indexes the data by itself; dimensions of zero |
| PCI scan | `kernel/drivers/pci/mod.rs` | vector of devices | scan | phantom and missing functions |
| PCI configuration | `kernel/drivers/pci/mod.rs` | address port | read, write, set a command bit, decode a BAR | read-modify-write of bytes next to a register the device changes |
| xHCI driver | `kernel/drivers/usb/xhci.rs` | base address, device list | new, init, enumerate, reset a port | users and controller act between any two accesses; plain pointers in polling loops |
| tuner | `kernel/drivers/sdr/rtlsdr.rs` | device, frequency, sample rate | attach, init, tune, set the rate | settings are stored before a device is there, and replayed by init |
| decimator | `kernel/drivers/sdr/demodulator.rs` | filter ring, counter | decimate | state carried across slices |

The interactions that the models keep: the boot sector hands over to the kernel with its
page tables, segments and interrupt flag; `_start` loads the tables exceptions are
delivered through, scans the PCI bus into a heap vector, then sets up frames and heap; the
page mapper takes its tables from the frame allocator; the queues of IPC are indexed by
the pids the process table gives out.

Not modelled, with the reason for each in `PROJECT.json`: USB HID (its report buffer is
never written, so nothing it does can change anything), the transformer of the speech model
(placeholders that look at no data) and the radio demodulators (floating-point arithmetic
without state), system calls (no state, no caller), file system, network and ATA (stubs), VGA
output, `demo.rs` and scripts. `ai` and `demo.rs` are not declared in `main.rs`; the audio buffer
and the tensors are modelled although the kernel does not link them.

## 2. Modules

Abstract specifications say what a component promises and nothing of how:

- `FramePool`: requests are met with frames nobody holds, and refused only if they must be.
- `AddressSpace`: a partial map that a successful call changes at one page, a failing one nowhere.
- `Heap`: aligned blocks of an arena that overlap no block in use, or null.
- `Mailbox`: one bounded FIFO queue per process that only its owner and senders to it touch, until
  a pid of no process is used for its room; then nothing is promised until the owner opens it anew.
- `BoundedQueue`: a queue that never refuses, and loses its oldest items, or all, when full.

Component modules translate the code. Names of variables and actions are those of the
source where TLA+ allows it.

- `Bitmap` has the bitmap as a set of indices and both searches as declarative operators;
  `BitmapScan` has the two search loops, one iteration per step.
- `FrameAllocator` (one action per method; `Take` is the code both allocation methods
  share) refines `FramePool`. Addresses are numbers below `WordSize`, and the subtraction and
  addition that can overflow wrap or panic by `OverflowChecks`: `scripts/build.sh` builds
  with `--release`, where they wrap; the dev profile panics. `held` is a ghost: what the callers were given.
- `PageMapper` composes with `FramePool` and refines `AddressSpace`. `map_page` takes one
  step per level, and one for each write whose order matters. A table is whatever its
  frame holds, so a new frame reads as its `Contents` until it is zeroed. The CPU may walk the tables
  at any moment, between any two writes, and load whatever translation it finds. The third part of a `tlb`
  entry is a ghost: "stray" if the walk went through a table that was installed and not yet zeroed.
- `BumpAllocator` and `LinkedListAllocator` refine `Heap`; the spin lock makes calls atomic.
  `HeapBlocks` is what they share: a block a caller holds and the rounding of addresses.
- `ProcessTable`, and `Ipc` which extends it and refines `Mailbox`. Calls are made with any pid, as `Pid::new`
  allows. `trespassed` is a ghost: the slots whose queue a pid of no process has changed.
- `Keyboard` and `AudioBuffer` refine `BoundedQueue` with either kind of overflow. `pushed` is
  a ghost: what the last call put in, so that the abstract queue is told its input.
- `PciBus` scans the bus; `PciConfig` is the access path below it, one port access per step, with
  values as sets of bit numbers. `expected` and `unread` are ghosts: what the callers asked the
  registers to hold, and the errors of a device that no read has shown the driver yet.
- `PciBar` decodes base addresses; `Xhci` extends it. Each register access of the driver is one
  step, the read and the write of `portsc |= 1 << 4` two. `Rereads` says whether a polling loop
  reads its register in every turn or, as an optimizing build may, only once.
- `Tuner`, `Decimator`, `Tensor`, `MemoryRoutines`.
- `Bootloader` (one action per group of instructions that can be told apart),
  `Exceptions`, `KernelBoot` (which composes `PciBus` and `BumpAllocator`), and `PowerOn`,
  which composes the three into the machine from power-on to the idle loop.

- `Drivers` puts `Keyboard`, `AudioBuffer`, `Tensor`, `Decimator`, `Tuner`, `PciBus`, `PciConfig` and
  `Xhci` side by side. It extends `Xhci` and instantiates the others. They share nothing, so a behaviour
  runs one of them, chosen at its start, while the others stand still in an initial state.

`MC*` modules give constants their values. `MCDrivers` extends `Drivers` and narrows only its start
(`Standing`): a component that stands still does so in one of its initial states instead of each of them,
which would multiply the states and show nothing. `MCMemory` composes its components the way
`Drivers` does, and chooses the build profile of the frame allocator with them. Operators marked `fault:` are deliberate mistakes; each shows that a property
notices it.

## 3. Runs

| Run | Checks | Instance, and why it is enough |
|---|---|---|
| `memory` | types, `AnswersAreExact`, `HeldFramesAreMarked`, `PoolSpec` (frame allocator, both build profiles), `ScanIsCorrect` (search loops), `RoutinesAreExact`, `HeapSpec` (bump), `NoAssertionFails`, `NothingOverlaps`, `ListHeapSpec`, `FreedBlockIsReusable` (free list) | see `MCMemory.tla`, part by part: 9 frames in 24-bit words with addresses below, inside (also unaligned) and beyond the region and a count whose sum overflows; every bitmap of 9 bits; every pair of regions in 4 bytes; 16 bytes of bump heap from an odd address; 96 bytes of free list with the real node size |
| `page_mapper` | types, `TablesFormATree`, `NoFrameLost`, `StaleOnlyIfStray`, `IdentityRangeIsMapped`, `SpaceSpec` | tables of 2 entries, 5 frames: one path and one data frame fit, so a call can fail at every level; one device frame; frames whose junk leads back into the tables; an identity mapping whose first page makes tables that its second shares, so that the CPU can cache the second while the first is being mapped; a range of bytes across a page boundary, aligned at neither end, and an empty one; flags with and without PRESENT (and, in `user_page`, USER) |
| `ipc` | types, `NoProcessLost`, `ScheduleFindsWork`, `MailSpec` | 2 slots and the pids 0 to 3, of which 1 to 3 are handed out: the counter wraps, and each slot is met by pids that no process has; queues of no room and of two messages |
| `power_on` | types, `PagingSurvives`, `KernelArrivesWhole`, `ExceptionsEndInAHandler`, `BootOutcomeIsEarned`, `BootEnds` | real numbers of the boot sector (512 entries); every population of one PCI device with 3 functions; 17 exceptions, one at any moment |
| `drivers` | types, `RingSpec` (keys), `WindowSpec`, `FramesFitTheWindow` (audio), `TensorsStayConsistent`, `SlicesDoNotMatter` (decimator), `InitSucceedsOnceAttached` (tuner), `ScanIsExact` (bus), `AccessesAreExact` (configuration space), `EnumerationIsFair`, `NoChangeIsMissed`, `ResetIsOrderly`, `EveryCallReturns` (xHCI) | see `MCDrivers.tla`, part by part |

`MaxPid`, `MaxInput`, `MaxOps`, `MaxCalls`, `MaxPlugs` and `MaxPolls` are the bounds that only the models have
(`MaxPolls` stands for the 1000 turns of the port wait); every other constant is a size the
code has too. Deadlock is checked in every run; where the machine stops for good, a
stuttering disjunct says so.

### What the code does not do

Seven runs look for, and find, a counterexample. They are listed as findings:

- `scheduler`: `schedule` starts every search at slot 0 and remembers nothing, so of two
  ready processes the second is never chosen: no round robin (`process/mod.rs:127`). The
  run assumes that `schedule` is called for ever and nothing else.
- `heap_before_init`: `drivers::init_all` (main.rs:98) scans the PCI bus into a `Vec` before
  `init_heap` (main.rs:157). The first device it finds ends the boot in the allocation
  error handler. The same model shows that without a device the boot is sound.
- `tlb_junk`: `get_or_create_table` enters a new table, present, before it zeroes it (paging.rs:259, :263), and
  `map_page` flushes only the page it maps. A walk of the CPU between the two writes caches, for another
  page, a translation made from what the frame held before, and it stays when the call is over. The run
  `page_mapper` shows that nothing else is ever stale (`StaleOnlyIfStray`). Zeroing the table before it is
  entered would close the window.
- `user_page`: every intermediate table is entered without `USER`, so no page mapped with it can be
  reached from user mode, as `docs/PHASE1.2_PAGING.md:276` says it can.
- `double_fault`: the double fault handler is registered for no vector; vectors 10, 11 and
  12 reset the machine.

- `xhci_bar`: the driver takes BAR0 for its base address as it is. A controller whose window is a
  64-bit one (type bits 2) is accessed four bytes off, and at the wrong place altogether if
  the window lies above 4 GB. `PciDevice::get_bar_type` would have masked the type bits.
- `xhci_release`: with registers read once per polling loop, as opt-level 2 may have it for plain
  pointers, `init` waits for ever; with registers read anew (run `drivers`) it never does.

Seen while modelling, and kept as plain behaviour of the models: `map_page` answers Ok for
flags without `PRESENT`, and the page stays unmapped (`AddressSpace` says so); the free list
refuses a region that exceeds the request by less than a node; a full keyboard ring loses all
its keys (`RingSpec` says so); `reset_port` is Ok also when its polls run out; it acknowledges the
changes PORTSC showed when it was read, and setting a command bit the errors the status
register showed: a second change or error of a kind that was still pending goes unseen
(`NoChangeIsMissed` and `NoErrorIsMissed` state exactly that much, see section 6); transcribing a window
shorter than a frame panics, as does normalizing a tensor whose last dimension is zero; a
queue that is opened again loses its messages. The gap in front of an aligned block of the free list
belongs to no one afterwards and never comes back. The queues of IPC are found by the pid modulo
256 and say nothing of whose they are, so a call with a pid that no process has, which `Pid::new` makes of any
number and the counter hands out for processes that could not be created, sends to the process in its slot, takes
its mail or replaces its queue. `MailSpec` allows exactly that (`Spoil`): the process loses what `Mailbox` promises until it opens
its queue anew, processes in other slots lose nothing, and no pid of a process ever does this to another.

## 4. Fairness

Liveness is claimed in three places. `BootEnds` (`PowerOn`): the one CPU runs what it is at,
the boot sector, the kernel or the delivery of an exception, and the serial port sends its
byte, because without it the kernel waits for ever by design. Exceptions are not fair.
`EveryCallReturns` (`Xhci`): the driver has the CPU to itself, the controller halts and
finishes its reset some time; of users and port resets nothing is assumed, since their wait is
bounded. The same fairness holds in run `xhci_release`, so its counterexample is a driver that
runs and a controller that has halted. `RoundRobin` (violated): `schedule` is called for ever. Each is weak fairness of actions that,
once enabled, stay so until taken.

## 5. Proofs

| Module | Theorems | Argument |
|---|---|---|
| `LeastNumber` | lemmas on the least number of a set | the least element of a non-empty set of naturals is what CHOOSE finds |
| `FrameProofs` | `ScanInvariant`, `ScanReturnsTheFirst`, `FrameAllocatorInvariant`, `TypesAreKept`, `AnswersAreRight`, `NoFrameLost`, `FrameAllocatorImplementsPool` | the loops: all before the cursor is taken, or holds no run, and a finished search returned the first; the allocator: types, counter = number of bits, held addresses = marked frames |
| `HeapProofs` | `BlocksStayBelowNext`, `BumpImplementsHeap`; `ListInvariant`, `AssertionsHold`, `PiecesStayApart`, `FreedBlocksAreReusable`, `ListImplementsHeap` | bump: live blocks lie below `next`, and the region is empty or all of the heap; free list: see below |
| `PageMapperProofs` | `PageMapperInvariant`, `TypesAreKept`, `TreeStaysATree`, `EveryFrameIsAccountedFor`, `StaleEntriesAreStrays`, `IdentityMapIsComplete`, `MapperIsAnAddressSpace` | see below |
| `IpcProofs` | `IpcInvariant`, `TypesAreKept`, `ProcessesKeepTheirSlots`, `QueuesStayBounded`, `SchedulingFindsWork`, `IpcImplementsMailbox` | no process is overwritten, hence no two processes share a slot, hence a queue has one owner, as long as it is in no `trespassed` slot; a slot in use holds a process that was reported, hence the first one schedule meets is real |
| `MemoryRoutinesProofs` | `MemoryInvariant`, `CopiesAreExact`, `RoutinesAreRight` | what the loop has dealt with is right, and what it has still to read is untouched; as long as memcmp goes on, everything it has passed is equal |
| `PowerOnProofs` | `PowerOnInvariant`, `TypesAreKept`, `PagingIsSafe`, `KernelIsHandedOver`, `ExceptionsAreHandled`, `OutcomesAreEarned` | see below |
| `DriverProofs`, of all drivers side by side | `DriversInvariant`, `DriversTypes`, `TheRingIsAQueue`, `TheWindowIsAQueue`, `FramesAlwaysFit`, `ProductIs`, `TensorsAreConsistent`, `SlicesNeverMatter`, `InitSucceeds`, `ScansAreExact`, `ConfigAccessesAreExact`, `XhciAmongTheOthers` | one inductive invariant per component, see below; a step of the whole is one of a single component, and a stutter of each other (`StepOfEach`), so the invariants hold together |
| `DriverProofs`, of the xHCI driver by itself | `XhciInvariant`, `TypesAreKept`, `EnumerationsAreFair`, `ChangesAreNoted`, `ResetsAreOrderly` | `Progress`: what was found lies behind the port being dealt with, and what is about to be written starts a reset; `Orderly`: the controller is in reset only while init waits for it |

They hold for every value of the constants that satisfies the assumptions stated with the
constants: any number of frames, whatever they held at boot, table entries, slots, pids, ports and users, any layouts, ranges
of bytes and memory size, any lengths of the key ring, the audio window, its frames and the filter, any
tensors, any bus and register contents, both build profiles of the frame allocator and of the xHCI driver.
What the assumptions say beyond types: a page range lies inside the address space; alignments
of the free list's layouts divide that of a node or are divided by it (`Layout` guarantees
powers of two), and its region holds a node, as `init` asserts; the boot's page tables lie below the boot
sector, the kernel and the stack, as `boot.asm` places them; the heap (1 MB) has room for the
boot's four test allocations, the RAM (32 MB) for its five test frames, and the short
string has a size of its own.

Hardly any of the invariants checked is inductive by itself.

- Frames. `AnswersAreExact` says nothing of which frames are held, so a release could disturb it;
  it follows from the counter equation and `HeldFramesAreMarked`, which are inductive together.
- IPC. `MailSpec` needs that a slot never changes hands, which is `NoProcessLost`, and that a
  slot without a process has no queue, `QueueHasOwner`.
- Memory routines. That a move preserves its source until it is read needs the direction of the loop.
- xHCI. `EnumerationIsFair` promises that a port is ready when the driver has passed it; that
  needs `Progress`, that one being polled is already in reset or through it.
- Key ring. Its types are inductive, but the refinement needs to know where the unread keys are (`UnreadIs`):
  from the read position up to the write position, which is never among them. A push therefore
  overwrites no unread key, even the one that makes both positions equal and loses all.
- Audio buffer. `push` folds over the slice, and the queue takes the slice at once. `FoldKeep` shows that
  the two agree: after each sample the window is the newest of the old window and the samples so far.
- Tensors. That data and shape agree is inductive with their types. That `matmul` is the product
  (`ProductIs`) and that rows partition the elements (`RowsPartition`) is arithmetic: every index
  is one row and one column. `ElementsOfRows` shows that the last dimension divides the number of elements.
- Decimator. `RadioInv`: the ring read from the index is the window of the samples consumed, and
  the counter is their number modulo the factor, whatever the slices were.
- Tuner. `TunerInv`: what is stored is always what the setters accept, from the defaults on, so init, which
  hands it to them again, cannot be refused, and no sum overflows.
- Bus scan. `BusInv`: behind the cursor exactly what answers has been reported; and the cursor is past the
  first function of a device only if that one answers and says there are more.
- Configuration space. `DeviceInv`: the address port selects the register of the call under way, the double word in
  hand is that register but for errors recorded since, and every register is what was asked for but
  for what that call has still to write. `Digits` shows that an address names one register.
- Page mapper. The tables are read as software sees them (`Settled`: a table still to be
  zeroed counts as empty). `Shape` says that they form a tree and that each frame is a table of
  it, the caller's, or in the pool. `Walking` ties the walk to the tables: the table it stands
  on is the one of its level on the page's path, and one that is still to be zeroed is the next
  on that path. A new table is hung only where an entry led nowhere. Hence installing a table
  changes no translation of software, and a leaf write changes one page's, since in a tree an entry has one page. `Ranging` says that an identity
  mapping has done the pages before its cursor, and `Cached` that an entry of the TLB is a stray, or what
  software translates, or for the page about to be flushed. An entry that a walk adds is one of the first two, at any moment. The refinement follows: of a call's steps only
  the one that reports an outcome, mostly the write of a leaf, is a step of `AddressSpace`.
- Free list. `NothingOverlaps` cannot be kept without knowing that a remainder which is put back
  can hold a node, and where: every region is aligned for and at least as long as a node, regions and
  block extents (layouts rounded up to nodes) are pairwise disjoint, and all lie inside the
  arena. The alignment of a block needs the assumption on layouts: rounding up to the larger of
  two alignments that divide each other keeps both.
- Power-on. Boot sector, CPU and kernel touch each other's variables only through guards of
  `PowerOn`, so the invariant has one conjunct for each. `LoaderInv` lists what is prepared by when, what
  the last table holds while it is being filled, and which pages nothing was written over. `CpuInv`
  has the gates set so far at each step before `lidt`, that they name kernel code in whichever GDT
  is in force, and that an exception under delivery is the one raised or what it turned into.
  `KernelInv` has the scan's cursor on a real function (so that a device ends the boot as
  soon as there is one), an upper bound of the heap used by each stage, padding
  included (so that no test allocation fails), and the blocks in use in the order of their addresses
  (so that the short string that is dropped is one of them, and the rest never overlap).

Every step of a refinement proof maps one action to one abstract action or a stutter.

Two models compute with `FoldLeft` of the community modules (`push` of the audio buffer, the
element count and the sums of tensors), which is defined by recursion over the index set. What it computes is
proved without an induction theorem (the library's take an operator the provers cannot
instantiate) from the existence of a least number, `LeastNat`: if the recursion failed for some
length, there would be a least one, and the length before it refutes that (`FoldExists`, `FoldStays`). That
`Sum` adds up its terms is thereby proved only as far as it is needed: it is an integer.

Only model-checked: liveness (`BootEnds`, `EveryCallReturns`: ENABLED is out of the prover's reach). Every
invariant, action property and refinement of a passing run is the property of a theorem.
The theorems `BlocksStayBelowNext` and `QueuesStayBounded` state facts the
refinements rest on and that no run checks by themselves.

## 6. Abstractions to know of

- Printing is left out, but the wait for the serial transmitter is kept.
- Page flags are reduced to `present` and `user`. Spinlocks are atomic calls (one CPU, no interrupts).
- The zeroing of a table is one step, although the code writes its entries one after the other: a walk sees
  the junk of all entries or of none. The accessed and dirty bits a walk sets and the CPU's caches of
  upper table entries are not modelled; nor is an NMI once the CPU is halted.
- An error, or a change of a port, counts as seen once a read of its double word returned it, whichever
  bytes the caller was after; a second one of a kind that was pending when the register was read is
  excused. `NoErrorIsMissed` and `NoChangeIsMissed` therefore say when the driver acknowledges what it never
  read, not that it ever acts on what it read.
- `USBCMD |= ...` and `&= ...` are single steps: the one bit of the register that the controller changes is
  the reset bit, and the driver does not set others while it is up. The byte `memset` stores is
  passed on as it is.
- `Rereads` is one choice for the whole build. Where it is FALSE only the polling loops are affected:
  single accesses stay where the code has them.
- Of PORTSC the model keeps connection, enable, reset and connection change.
- `Tuner` counts frequencies and rates in units of 5 kHz, in which both ranges and the intermediate
  frequency are whole numbers; the default rate of 2.048 MHz is rounded down.
- `pci_address` is without its bit 31, which is always set. `PciConfig` has the command and status
  registers and the interrupt line; bits no write may change are external.
- Tensors hold integers; of softmax and layer_norm only the groups they work on are kept.
- The boot sector identity-maps 2 MB while the managed frames lie at 1-33 MB; the page
  mapper's model takes frames as reachable.
- Delivery of exceptions, PCI devices, the USB controller and its users are external.
- Statistics that only read (`heap_stats`, `page_table` dumps) are left out, except those
  of the frame allocator.
- Bump allocation is taken below the top of the address space, where `addr + align - 1`
  does not wrap; `reset` is called as the tests do, with no block in use.

## 7. Plan

Done, in this order: frame bitmap and allocator; page mapper; heaps; processes and IPC;
boot and exceptions; drivers; the first proofs; then PORTSC with its change bits, base
addresses and both builds of the xHCI driver; configuration space down to its ports; flags
without `PRESENT` and ranges of bytes; tuner, tensors and the framing of audio; the proofs of memcmp and of
the xHCI driver; the proofs of the page mapper, of the free list, and of the machine from power-on
to the idle loop; the proofs of the other drivers and of the tensors.

To extend the models: identity ranges that meet mapped pages; HID reports if the driver gets them;
growth of the device vector in a `KernelBoot` whose heap comes first; `PageMapper` over
`FrameAllocator` itself rather than the pool.

To prove, with such extensions: that `KernelBoot` over a heap that comes first passes its scan for any number
of devices (`ScanIsExact` and the bump heap's invariant together), and that the frame
allocator can stand where `PageMapper` takes the pool (`FrameAllocatorImplementsPool` gives the step).
