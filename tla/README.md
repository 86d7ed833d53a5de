# elpytios in TLA+

elpytios is an operating system for x86-64: a UEFI boot loader with the kernel
built into it, a kernel that so far draws text, and a port of the Rust standard
library. This directory models the parts of it that decide something: page
tables, the boot sequence, the ELF reader, the kernel's main, console and page
allocator, the stubs of system calls and those parts of the standard library
that keep state.

## 1. The system and its parts

| Part | State it keeps | Operations | Hard behaviour |
|---|---|---|---|
| `bootinfo` page tables (`vaddr/x86_64/virt.rs`, `phys.rs`) | four levels of tables in physical memory; which mapper is in use | `VirtualMapBuilder::new`, `map`, `finish`; `VirtualMap::map` | allocation that fails half way, the change from the local to the recursive mapper, concurrent callers |
| `bootinfo` addresses (`virt.rs`) | none | `VAddr::info`, `from_info` | sign extension, four windows that must not coincide |
| boot loader: boot sequence (`bootloader/src/main.rs`) | the graphics mode, memory types of frames, the map under construction, `next_v_addr`, `BootInfo` | `setup_uefi_and_exit`, `entry` | every call may fail; the switch of CR3; what the kernel is told must be so |
| boot loader: kernel image | the block the kernel is copied to | constants evaluated by the compiler, the load loop | rounding, overlap, zero fill |
| boot loader: memory regions | the run being collected, the array of `BootInfo` | the loop after `exit_boot_services` | order of entries, a full array, short runs |
| `elf` | readers into the file | `Elf::from_bytes`, the iterators, `ElfSection64::name` | tables and data that are cut off |
| kernel console (`kernel/src/rendering.rs`) | cursor, frame buffer | `DisplayWriter::write_str` | wrapping in both directions, old text |
| kernel main (`kernel/src/main.rs`) | `DEBUG_HALT`, how far it has come | `pause`, the reports, the final loop | must come to the loop on every screen |
| kernel page allocator (`kernel/src/page_alloc*.rs`, disabled) | two flags per node of a buddy tree; an array of trees | `BinaryBuddyTree::alloc`, `free`; `PhysicalPageAllocator::new`, `alloc`, `free` | long sequences of splits and merges, nodes never written, trees that share memory with what they manage |
| `abi` (`macros/src/lib.rs`, `userspace/x86_64.rs`) | registers around `syscall` | the derive macro, `syscall0` to `syscall6` | registers that the instruction overwrites |
| `std/sys-src`: `thread_local` | state and value of a lazily created value | `get`, `initialize` | user code that calls back |
| `std/sys-src`: `sync` | state of a `Once`, counters of locks | `call`, `read`, `write`, `lock`, their guards | re-entrance; guards dropped in any order; the largest number of readers |
| `std/sys-src`: `sync/once_box.rs` | one atomic pointer | `get_or_init`, `get_unchecked`, `take`, `drop` | threads that race, outdated loads |
| `std/sys-src`: `helpers` | a position in a string | `mul_div_u64`, `run_with_cstr`, `WStrUnits` | overflow, a full buffer, the end of a string |
| `std/sys-src`: `process/env.rs` | changes asked of an environment | `set`, `remove`, `clear`, `capture`, printing | calls in any order |
| `std/sys-src`: `backtrace.rs` | what is shown and what was left out | `_print_fmt` | markers, inlined symbols, a limit |
| `std/sys-src`: `personality/dwarf` | a position in a table | `read_uleb128`, `read_sleb128`, `find_eh_action` | bounds of encodings |
| `x` | sources under `std/`, `fetch_info`, the sysroot | `std fetch`, `std build`, `std clean` | a run that is stopped half way, a compiler exchanged under it |
| `std/sys-src`: the rest | nothing: returns `unsupported` or panics | | |

`kernel/src/page_alloc.rs` and `page_alloc_tree.rs` are commented out from their
first line to their last: the kernel of this commit has no allocator. Their
text is complete all the same, and the model is of that text.

The parts meet at three places: the boot loader calls `map` for every page the
kernel needs; it leaves a `BootInfo` in the kernel's memory; and the kernel goes
on with the `VirtualMap` of that `BootInfo`, which reaches the tables through
the recursion slot and no longer through identity mapping.

## 2. Modules

PROJECT.json gives the lines behind every definition. Modules that start with
`MC` hold nothing but the bounded instances TLC works on.

**Page tables.** `PageEntry` has the 64-bit words of a page table at their real
width: a word is the set of its bits that are 1, so that `|`, `&` and `& !` of
`phys.rs` become union, intersection and difference. `VirtualMap` is
`VirtualMapBuilder` and `VirtualMap::map`. Its state is the memory of the table
pages (`mem`), which table is the PML4 (`root`), which of the two mappers is in
use (`mapper`), the pages `new_page_table` may still hand out (`free`), and the
locals of one call (`pc`, `level`, `req`, `at`, `new`). Testing an entry,
allocating a table and storing the entry are separate actions (`Descend`,
`Allocate`, `AllocateFails`, `Link`, `WriteLeaf`, `AlreadyMapped`), because the
code calls back into the allocator between them; `Finish` copies the PML4 and
sets the recursion slot. The MMU (`MmuWalk`) is external. `kind` and `done`
are history: what each page is used as, and what was reported as mapped.
`AddressSpace` is what a caller may rely on, without tables: a partial map that
only grows, and the result of each call. `ConcurrentMap` runs two callers of
the same `map` on one memory; its constant `Conflict` is the contract that
says which pages two callers must not map at the same time. `VAddr` takes
addresses apart and puts them together at 64 bits, and computes the windows at
which the recursive mapper expects the tables.

**Boot loader.** `Bootloader` follows `setup_uefi_and_exit` and `entry`
statement by statement: allocations and mappings that may fail, the stack, the
frame buffer, `BootInfo`, the switch of CR3, which faults in the model unless
the switcher, the entry point and the stack are mapped as the instructions
need. It begins with the choice of the graphics mode, one action per mode the
firmware offers (`ConsiderMode`), `SetMode` and `GraphicsFails`. It uses `map`
at the level of `AddressSpace`, but keeps the frames that were handed out as
page tables (`tables`), and the frame buffer and what the kernel is told of it
are counted in bytes. Two parts of the function have
a module of their own: `KernelImage` measures, copies, clears and maps the
segments byte by byte (all of them have the alignment of a page in their
header, as `main.rs:39` demands of every entry), and `MemoryRegions` is the loop over the UEFI memory map.

**ELF.** `Elf` models files by the extents they name rather than by bytes: where
the tables are, how long, with which stride, and where each header's data lies.
Its actions are the steps of `Elf::from_bytes` and the two iterators.

**Console.** `DisplayWriter` is `write_str` one character at a time, with
wrapping, clearing of a line and the pixels that a glyph touches. `KernelMain`
puts the kernel's `main` on top of it: a debugger that may or may not clear
`DEBUG_HALT`, and one `writeln!` per region of `BootInfo`. A screen has room for
at least one cell (`ScreenAssumption`): `rendering.rs` relies on it and does not
check it, and nothing here speaks of smaller screens. A byte behind `~` ends
`write_str` in a panic, as the index into `FONT` does.

**Page allocator (disabled code).** `BuddyTree` is `BinaryBuddyTree`: the flags
of the nodes, which start as whatever the memory held, and the recursive
functions unrolled into one action per call (`SearchBelow`, `ConsiderLeaf`,
`Split`, `Locate`, `Merge`). `PageAllocator` is what its caller may rely on: a
set of disjoint aligned blocks, a refusal only when no block of the size is left,
and a `free` that takes exactly the block starting at its argument. `BuddyTree`
implements it with the occupied leaves that a walk from the root meets as the
blocks. `PhysicalPages` is `PhysicalPageAllocator`: where trees are put in the
memory the firmware reports, and allocation from the first that has room; a
tree is taken there at what `PageAllocator` promises. The array of pointers
grows with each tree, as `push_tree` writes it; a behaviour ends with the
pointer that no longer fits the pages reserved for the array (`PointersFit`),
because the code checks nothing and overwrites what is there. `Blocks` has the
arithmetic the three share.

**System calls.** `Syscall` is the derive macro with its three errors, and then
calls of the functions it has derived: what is in which register before and
after the instruction, which is external.

**Standard library.** `LazyStorage`, `Once`, `Locks` and `CommandEnv` are
objects whose methods a program calls in any order. There are no threads on this
target; what makes the first two hard is that initialisers, destructors and
closures are user code that may call the same object again, so calls are kept
on a stack. `OnceBox` is written for threads and modelled with them: a load may
return an outdated null, and a set of the boxes whose initialisation a thread
is sure to see stands for Release and Acquire. `Objects` puts the five side by side, one of them per behaviour. `Helpers` has the functions of
`helpers/`, with words of `Bits` bits that wrap. A panic aborts (`panic-strategy` in the target specification), so it
is an end state. `Leb128`, `EhAction` and `Backtrace` are algorithms, compared
with reference definitions that do not follow the code; in `Leb128` bytes and
words are sets of bits, as in `PageEntry`. `Algorithms` puts these three,
`VAddr`, `MemoryRegions`, `Elf`, `PhysicalPages`, `Syscall` and `Helpers` side by
side, one of them per behaviour.

**Build.** `StdFetch` is `x std fetch|build|clean`: one action per change of
a file, `Stop` after any of them, and `Update` to any other compiler, newer or
older, at any time. `doubt` is history: what has happened that `fetch_info`
cannot tell of.

## 3. Runs

| Run | Question | Bounds, and why they are enough |
|---|---|---|
| `virtual_map` | Do the tables built by `map` and `finish` translate what was reported, and nothing else, stay a tree, and implement `AddressSpace`? | Three slots per table, one recursive; seven table pages, so that allocation runs out half way; four pages that share tables down to different levels, one of them reserved; an unaligned address. Free pages differ only in their address, so one choice (`Offered`) stands for all. |
| `concurrent_regions` | May two threads call `map` when their pages lie below different PML4 entries? | Two callers, three pages; interleaved at every table access. |
| `concurrent_documented` | Is the Safety section of `map` enough? (violated) | As above, with the documented contract. |
| `kernel_image` | Do the segments fit the block, arrive intact and get mapped? | One and two segments of up to two pages of two bytes, all splits into data and tail; a first and a second segment that is not aligned, pairs that descend, two that share a page. `DataIntact` speaks of programs that ascend, and the reach of `ImageMapped` of those that are aligned, which the linker script sees to and the loader does not check. |
| `kernel_image_bss` | Is the rest of a segment zero? (violated) | Programs as the linker script lays them out. |
| `kernel_image_null` | Does measuring get past an entry that is not Load? (violated) | Two segments, the second Null. |
| `bootloader` | Does the switch never fault, and is what `BootInfo` says so? | Nine frames, so that allocations fail at every point; frame buffers that start or end inside a page, and ones that do neither; kernels with and without a shared page; no mode, one of no size, the largest in the middle, two equally large. |
| `display` | Do the cursor and the pixels stay on the screen, is old text cleared, does writing end, and does `main` come to its loop? | Screens of one to three cells each way, with spare pixels and a stride larger than the width; text that wraps, control and unknown characters; up to two regions. |
| `std_fetch` | Does `fetch_info` vouch for complete sources, and is the sysroot of one compiler? | Two compilers, one with a package the other does not have, installed in turn any number of times; two items, any number of runs and stops. |
| `algorithms` | Do `VAddr`, `MemoryRegions`, `Leb128`, `Backtrace`, `EhAction`, `Elf`, `PhysicalPages`, `Syscall` and `Helpers` compute what they should? | Every combination of the first and last bits of the fields; memory maps of four entries in any order with an array of two; numbers in groups of 3 of 10 bits, which, as 7 of 64, leave one bit for the last group; stacks of four frames with a limit of two; all encodings and all sorted tables of two sites; files up to nine bytes, with tables and data that fit, reach over the end or lie behind it, and strides smaller than, equal to and larger than an entry; memory maps with entries too small for a tree, for one and for two, before and after the one of the pointers, with room for three pointers, so that four trees are too many; enums with zero to seven arguments; all words of four bits and all strings up to one more than the buffer. |
| `objects` | Do `LazyStorage`, `Once`, `Locks`, `CommandEnv` and `OnceBox` keep their promises under any sequence of calls? | Four values and four nested calls; circles of two and three closures; two locks of each kind with up to three readers; PATH and two other variables; three threads that race and three boxes. |
| `page_allocator` | Does `BuddyTree` implement `PageAllocator`, and take the smallest block? | Eight pages, so that blocks of four lengths split and merge; sizes that are and are not powers of two, none and too many; every page freed, and one on each side of the region; memory that was clear, or all ones. |

`algorithms` and `objects` each check several modules that have nothing to do
with one another: a variable `part` says which one a behaviour is about, and the
variables of the others stay empty. Deadlock is not checked where the modelled
code comes to an end (a return, a panic, a halted kernel).

**Fairness.** `DisplayWriter` has weak fairness of `WriteStep`, `KernelMain` of
the drawing and of `main`'s own steps, and `KernelImage` of `Next`: all are
single-threaded code with nothing else running, so a step that can be taken is
taken. Calls of `write_str` by other callers are not fair, and neither is the
debugger that clears `DEBUG_HALT`: `MainReachesLoop` begins behind the pause.

**Two refinements** are checked: `VirtualMap` implements `AddressSpace` (also
proved), and `BuddyTree` implements `PageAllocator`.

### Disagreements

* `concurrent_documented`: the Safety section of `VirtualMap::map` forbids
  only concurrent calls for the same page (`virt.rs:206`). Two calls for
  different pages below the same missing table both allocate it, and the later
  store (`virt.rs:228` on) cuts off the table in which the other call has
  mapped its page. `concurrent_regions` shows a contract that suffices, and
  `RegionsSuffice` proves that it does.
* `kernel_image_bss`: `data.len()` is added to the destination twice
  (`main.rs:197`, `198`), so the zero fill of a segment that has both data and
  a tail misses the start of the tail and runs over its end.
* `kernel_image_null`: `continue` before `i += 1` (`main.rs:87`) makes the
  constant evaluation stay at an entry that is not Load. To get there the
  entry must have the alignment of a page, or `main.rs:39` refuses the kernel.

## 4. Proofs

Eight modules hold proofs, all for every value of the constants; nothing is
assumed but the named assumptions of the modules they are about, which TLC
evaluates on the instances of the runs.

### Page tables (`VirtualMapProofs`)

For every number of slots, every recursion index, any table pages, any allocator
and any pages, addresses and flags:

* `Invariance`: `Spec => []Inv`, and from it `TypeCorrect`, `Durability`
  (`MapDurable`), `Exactness` (`NothingElseMapped`), `RecursionSlotSound`,
  `NodesSound` (`NodesPointDown`) and `MappersAgree` (`MapperFindsTable`);
* `TreeOfTables`: `TablesFormTree`;
* `WriteOnce`: the action property `EntriesWriteOnce`;
* `Refinement`: `Spec => ImplementsAddressSpace`.

The assumptions are `ConstantsAssumption` of `VirtualMap`: the recursion index is
a slot, table pages are page-aligned addresses and do not include the builder's
local table, the allocator offers pages it has not handed out, and callers pass
words and flags.

None of the properties is inductive. That a mapped page stays mapped
depends on no two paths sharing a table, which depends on every page being
linked at most once, which depends on the page a call is about to link
being in no table yet and the slot still being empty. `Inv` says this:

* `RootIsPml4`, `NodesPointDown`, `SoleParent`: the tables form a forest of the
  right levels, in which no table has two parents;
* `FreshPages`: free pages, and the one about to be linked, are in no table, and
  the latter is zeroed;
* `CallPath`, `LinkTarget`: how far the call in progress has come, and that the
  reference it holds across the call of the allocator is still to the right
  slot and the slot still empty;
* `RecursionSlot`: empty before `finish`, the PML4 itself afterwards;
* `DoneIsMapped`, `MapDurable`, `NothingElseMapped`.

One lemma per kind of change does the work: a step that changes no table, the
link of a fresh table (which changes no translation), the write of a leaf (which
changes one), and the copy in `finish` (which changes none). That the
recursive mapper agrees with the MMU is shown level by level from
`RecursionSlot`. `TreeOfTables` adds `NoPageLost`: a page handed out has a slot
that points to it or is about to get one (`NotLost`), which needs `LocalRoot`,
since the table that `finish` copies from is not a page that was handed out.
The refinement maps the address space's `vmap` to the MMU's translation, and
each step to `Begin`, `Reject`, `Map`, `AlreadyMapped`, `OutOfTables` or a stutter.

### Two callers (`ConcurrentMapProofs`)

`RegionsSuffice`: if calls for pages below one PML4 entry never overlap
(`RegionContract`), then `Spec => []ConcurrentMapSound`, for every interleaving
of two callers, every memory and every allocator. The hypothesis is the contract
of the run `concurrent_regions`; with the documented one the run
`concurrent_documented` refutes the conclusion. Each caller is an instance of
`VirtualMapProofs` on the shared tables, and `ConcurrentInv` says that `Inv` holds
for both at once, that calls in progress are for different regions and about to
link different pages, and that no page is lost to both. A caller's own step
keeps its `Inv` by `NextInv`. That it keeps the other's is `OtherCallKept`:
a step writes only free pages and an empty slot on the path of its own
page (`StepWrites`), and paths below different PML4 entries share only the PML4
(`RegionsApart`), so that the slot about to be filled by the other is still
empty. `SameTables` and its neighbours say that the instances mean the same by
the same names. Three or more callers are not modelled.

### Boot loader (`BootloaderProofs`, `KernelImageProofs`)

`BootloaderProofs`, for every machine, kernel and list of modes: `SwitchSafe`
(`SwitchNeverFaults`), `FramesApart` (`FramesNotShared`), `KernelSpared`
(`RegionsSpareTheKernel`) and `BootInfoSound` (`BootInfoTrue`). `BootInv` says which
frames have been given away and as what (`Ownership`), that virtual addresses are
given away in ascending order (`Layout`), that every mapped page belongs to the
kernel, the switcher, the stack or the frame buffer and has the frame of its
place there (`PagesKnown`), and that each mapping loop has mapped what lies
before its index (`Progress`): none of the four properties can be told from the
map alone. `FramesNotShared` and `RegionsSpareTheKernel` speak of the page tables
as well, by `tables`. `BootInfoTrue` has two statements about the bytes of the
frame buffer: each is mapped, in order, wherever the frame buffer starts
(`FrameBufferMapped`); and it is at the address told (`FrameBufferWhereTold`), but
only if the frame buffer starts a page, since the code loses the offset of
any other (section 5). `MachineAssumption` has the sizes positive and the switcher in the
loader's memory; `KernelAssumption` says of the kernel what the linker script
gives: it is linked above all physical frames, and its entry point and its
`BootInfo` are in a segment. If it were linked among the identity-mapped
addresses, the switcher's page could be one of its pages.

`KernelImageProofs`, for every program and page size: `BlockHoldsSegments`
(`SegmentsFitBlock`), `DataArrives` (`DataIntact`) and `KernelReachable`
(`ImageMapped`). `ImageInv` says that min and max embrace the segments seen so
far (`Measurement`), that the data copied so far is still there (`CopiedSoFar`), and
that the pages of the segments done are mapped and none outside the block is
(`MappedSoFar`). The
attempt to prove the last two without conditions failed for a good reason: the
zero fill that starts too late may run over the data of a segment that comes
earlier in the table and lies behind, and a segment that starts inside a page may
end one page after the last one that `step_by` visits. Both properties
now name what they rely on (`Ascending`, `Aligned`), and the run has programs
of either kind. `ProgramsAssumption` bounds addresses by `TopAddress`.

### Console and main (`DisplayWriterProofs`)

For every screen that has room for one cell, every font and text, and with
`main` on top: `DrawingSound` (`DrawsInsideFrameBuffer`), `NothingStale` (the
action property `NoStaleText`) and `MainNeverPanics`. `WriterInv` adds to the
cursor's bounds what the current line shows to the left of it (`RowShown`), without
which a line that is left says nothing of its beginning.

### Standard library (`ObjectsProofs`)

For any number of values, Onces, locks, keys, threads and boxes, and any depth of
calls: `LazyValuesAccountedFor` (`ValuesAccountedFor`), `OncesSound` (`OnceSound`),
`LocksGuarded` (`GuardsExclude`), `EnvironmentKept` (`EnvironmentAsAsked`),
`BoxesAgree` (`BoxAgreed`). `GuardsExclude` is inductive once the arithmetic is
known not to wrap. The others are not:

* `LazyInv` says of every frame on the stack which values it alone holds
  (`NewIsOwn`), and that all frames but the last are in user code
  (`OuterInUserCode`), so only the last can store or destroy;
* `OnceInv` adds that a Once that is not running remembers whether its last
  closure poisoned it;
* `EnvInv` adds that an environment is captured only after `clear` and that PATH
  is only changed by calls that set a flag;
* `RacyInv` says in which phases a thread owns a box, that no two own the same,
  and that a reference implies that its initialisation was acquired.

`ObjectsInv` joins them by `part`.

### Algorithms (`AlgorithmsProofs`)

Every property of the run `algorithms`, for inputs of every size.
`AlgorithmsInv` joins one inductive invariant per part by `part`:

| Theorem | Property | For every | Invariant, and why it is needed |
|---|---|---|---|
| `EveryAddressExact` | `AddressesExact` | 64-bit address, recursion index | `AddressesInv`: which fields belong to the address. The work is in the shifts of sets of bits, field by field. |
| `EveryMapSound`, `EveryLongEntryKept` | `RegionsSound`, `LongEntriesKept` | memory map, limit and length of the array | `RegionsInv`: what is held comes from entries already passed (`HeldFromBefore`), so the next one cannot overlap it; the run is apart from the array (`RunApart`); the entry before the next one is in the run, if there is one (`RunIsLatest`), so that an entry dropped with a short run has a lost one right before it (`LongKept`). |
| `EveryNumberExact` | `LebExact` | width of a group and of the word, number of bytes | `LebInv`: while the loop runs, the word has the bits of the bytes read so far that fit it (`LebBits`), and none of these bytes was the last (`LebEnds`). The number is defined by where each of its bits is, so no induction over its bytes is needed. |
| `EveryBacktraceFaithful` | `BacktraceFaithful` | stack, limit, failure of printing | `StackInv`: `print` is true exactly when the next symbol is between the markers; `first_omit` is true exactly while no gap has come before a printed symbol; and the first frame is never shown in short form, which is why `idx > MAX_NB_FRAMES` lets only that many through. |
| `EveryActionRight` | `RightAction` | table, encoding, instruction | `EhInv`: none of the call sites passed holds the instruction, and the base of landing pads is that of the header. That the search may stop at the first site behind the instruction needs the table to be sorted. |
| `EverySliceInside`, `EveryHeaderDelivered` | `SlicesInsideFile`, `EveryHeaderOnce` | file, size of headers | `ReaderInv`: the readers never pass the end of the file; the number of sections passed and left is that of the header (`SearchInv`); each program header returned is at its place (`ProgramsInv`). |
| `EveryPageApart` | `ManagedPagesApart`, as long as `PointersFit` | memory map, sizes, requests | `PhysicalInv`: trees, pointers and what is left of the current entry lie in entries already visited and apart from one another. A tree fits in front of its pages because a size is taken only if the pages that the first size leaves over hold the tree. |
| `EveryArgumentSurvives` | `ArgumentsSurvive` | enum, arguments | `CallsInv`: each function derived has the number, the arity and the driver of its variant. |
| `EveryHelperExact` | `HelpersExact` | width of a word, buffer, string | `HelpInv`: what kind of call it is. `mul_div_u64` is exact by the uniqueness of quotient and remainder (a lemma of its own, since the solver has no nonlinear arithmetic). |

The assumptions are those the modules name. The firmware lists no page twice and
no empty descriptor: UEFI promises both. The attempt to prove `LongEntriesKept`
without the second failed for a good reason: an empty entry is a run that is too
short, the long entry behind it is dropped with it, and yet no page of the empty
entry is missing that would explain the loss. Tables for unwinding are as
a compiler writes them: call sites sorted and inside the address space, action
entries inside the action table, and no LSDA at address zero (`WellFormed`). The
markers of a backtrace are not inlined and so come last in their frame. Files
and enums are arbitrary.

### Build (`StdFetchProofs`)

For any number of compilers and whatever packages each brings: `RecordTrustworthy`
(`RecordMeansComplete`) and `SysrootSound` (`SysrootUniform`). `FetchInv` follows a
run through its phases: no record while the sources are being replaced, what has
been copied is from the compiler the run began with (`CopiedSince`), and how far
it has come. A compiler exchanged in the middle of a copy leaves parts of two
compilers (`"mixed"`); what makes this safe is that the record then names one
that is no longer installed, until it is put back (`"back"`), which both properties
except. `Trust` carries this on after the run has ended: `fetch_info` names a
compiler whose sources are complete, or they are mixed and it is not the
installed one or was put back. `BuiltUniformly` needs cargo to have found the
compiler of the run, or else `"compiler"` is in `doubt`. `PartsAssumption` says
that `src` is among the items that are moved, and that packages, items and what
is discarded have different names.

### Only model-checked

* Liveness (`WritesEnd`, `MainReachesLoop`, `LoadingEnds`), which is beyond the
  prover.
* `BuddyTree`'s refinement of `PageAllocator`, and `BestFit`: the invariant is
  over all the walks from the root of a tree, which needs induction on its depth.

## 5. Observations without a run

Nothing in the repository says otherwise, so these are no findings.

* The kernel is told the page of the frame buffer; the offset of the frame
  buffer inside it is lost (`main.rs:258`). On a machine whose frame buffer does
  not start a page, the kernel draws that many bytes too early. `BootInfoTrue`
  says that the address is right of frame buffers that start a page only.
* Nothing checks that the screen has room for one character.
* A run of memory that is too short is discarded together with the entry that
  ended it; `LongEntriesKept` says exactly which entries can be lost.
* Of the page allocator: an entry of exactly a power of two pages gets no
  tree, because nothing is left over for it; the array of pointers is only put
  into an entry of exactly two pages, and entries before that one are lost; the
  array has no bound (`page_alloc.rs:23`), and its 1024th pointer lies outside its
  two pages, after which `ManagedPagesApart` says nothing; `PhysicalPageAllocator::free` reports success and does
  nothing; `loader_memory` is never true; `BinaryBuddyTree::free` subtracts
  `base` before it compares with it.
* The `asm!` blocks of the drivers do not say that `syscall` overwrites rcx and
  r11, and `syscall6` cannot be reached through the macro, whose maximum is 5.
* `path::is_absolute` is always false here, so `absolute` always asks for the
  current directory, which is unimplemented and panics.
* `x` installs the newest of several rlibs of one name; cargo does not rewrite
  one that is up to date, so going back to earlier flags installs the other.
* `ElfError::InvalidEndian` and `InvalidSegmentType` are never constructed.
* A backtrace does not announce the first omission, and announces a later one
  only before a symbol, so after frames that have none.
* `x:211` extends a local `rustflags` and not the environment, so a build with
  `RUSTFLAGS` set runs without the flags of this project.
* An interrupted `x std clean` may leave `fetch_info` beside torn sources, and
  removals with `ignore_errors` may leave files. A compiler exchanged while the
  sources are copied and later put back matches the version in `fetch_info`,
  and the mixed sources are taken for its own. `doubt` in `StdFetch` keeps
  track of all three, and the properties make no claim there.

## 6. Not modelled

* The rest of `std/sys-src`: file system, network, pipes, time, random and stdio
  return `unsupported`, panic, or have types that cannot be constructed. `OsStr`
  wraps a string and paths are separators: no state and no decision of their
  own. `LazyKey` is never used, since the functions that create, set and destroy
  a key are unimplemented; thread parking is empty; `Process::spawn` and
  `output` are unimplemented, and the fields of a `Command` other than its
  environment are replaced or extended and nothing else.
* Formatting: what a backtrace prints of one symbol, `Display` and `Debug`, the
  wording of errors, the pixels of the font.
* The layout of `BootInfo` and the conversions of ELF header fields into enums.
* In `x`: the text of the patches, flags of a build, the commands that start
  cargo and QEMU; the Makefile and `command-wrapper.rs`, which start programs
  and keep no state.

## 7. Plan

1. The refinement of `PageAllocator` by `BuddyTree`, whose invariant is that
   the leaves a walk meets partition the region.
2. `Bootloader` as an implementation of `AddressSpace` for its calls of `map`,
   and `MemoryRegions` composed with `ExitBootServices`.
