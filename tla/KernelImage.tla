----------------------------- MODULE KernelImage -----------------------------
(***************************************************************************)
(* How bootloader/src/main.rs brings the segments of the kernel ELF into   *)
(* memory: the constant KERNEL_VIRTUAL_ADDRESSES measures them, one block  *)
(* of pages is allocated for all of them, and each Load segment is copied, *)
(* its tail cleared and its pages mapped.  Addresses are bytes.            *)
(***************************************************************************)
EXTENDS Integers, Sequences, FiniteSetsExt

CONSTANTS
  Programs,   \* the program header tables that may be built in
  PAGE_SIZE,
  TopAddress  \* no address the model looks at is higher

(* ElfSegment64 as far as loading reads it; `data` is data.len().  Every   *)
(* entry here, those that are not Load included, has p_align = PAGE_SIZE:  *)
(* KERNEL_SEGMENTS refuses a kernel with any other.  It does not compare   *)
(* virtual_address with it.                                                *)
Segment == [segment_type : {"Load", "Null", "Note"}, virtual_address : 0 .. TopAddress,
            data : 0 .. TopAddress, memory_size : 0 .. TopAddress]

ASSUME ProgramsAssumption ==
  /\ PAGE_SIZE \in Nat \ {0}
  /\ TopAddress \in Nat
  /\ Programs \subseteq Seq(Segment) \ {<<>>}
  /\ \A p \in Programs : \A k \in DOMAIN p :
       /\ p[k].data <= p[k].memory_size
       /\ p[k].virtual_address + p[k].memory_size <= TopAddress

VARIABLES
  segments,  \* KERNEL_SEGMENTS
  pc,        \* "measure", "copy", "zero", "map", or how it ended
  i,         \* the segment the loop is at
  min, max,  \* the locals of KERNEL_VIRTUAL_ADDRESSES
  image,     \* memory by the virtual address it will be mapped at
  mapped     \* virtual pages mapped so far

vars == <<segments, pc, i, min, max, image, mapped>>

next_multiple_of(n, m) == ((n + m - 1) \div m) * m
VirtualBase == min
NextVAddr == next_multiple_of(max, PAGE_SIZE)
(* What is in memory: left over from earlier use, zero, or byte k of a segment. *)
Junk == <<0, 0>>
Zero == <<-1, 0>>
DataByte(s, k) == <<s, k>>

(* The bytes that a segment's data, and all of it, take up. *)
DataOf(s) == s.virtual_address .. s.virtual_address + s.data - 1
MemoryOf(s) == s.virtual_address .. s.virtual_address + s.memory_size - 1

Init ==
  /\ segments \in Programs
  /\ pc = "measure"
  /\ i = 1
  /\ min = TopAddress
  /\ max = 0
  /\ image = [a \in 0 .. TopAddress |-> Junk]
  /\ mapped = {}

(* Where the last iteration leads: a base that is not aligned is refused.  *)
Measured(base) == IF base % PAGE_SIZE = 0 THEN "copy" ELSE "refused"

(* Mutant: memory_size is forgotten. *)
MeasureData ==
  /\ pc = "measure"
  /\ segments[i].segment_type = "Load"
  /\ min' = Min({min, segments[i].virtual_address})
  /\ max' = Max({max, segments[i].virtual_address + segments[i].data})
  /\ i' = IF i = Len(segments) THEN 1 ELSE i + 1
  /\ pc' = IF i = Len(segments) THEN Measured(min') ELSE "measure"
  /\ UNCHANGED <<segments, image, mapped>>

(* The loop of KERNEL_VIRTUAL_ADDRESSES.  Its `continue` comes before the  *)
(* increment of i, so an entry of another type is looked at again.         *)
Measure ==
  /\ pc = "measure"
  /\ IF segments[i].segment_type # "Load"
       THEN UNCHANGED <<pc, i, min, max>>
       ELSE /\ min' = Min({min, segments[i].virtual_address})
            /\ max' = Max({max, segments[i].virtual_address + segments[i].memory_size})
            /\ i' = IF i = Len(segments) THEN 1 ELSE i + 1
            /\ pc' = IF i = Len(segments) THEN Measured(min') ELSE "measure"
  /\ UNCHANGED <<segments, image, mapped>>

(* The next iteration, or the end of the loop. *)
NextSegment ==
  /\ pc' = IF i = Len(segments) THEN "loaded" ELSE "copy"
  /\ i' = IF i = Len(segments) THEN i ELSE i + 1

(* The head of the load loop, which passes over other segments, and        *)
(* copy_from_nonoverlapping(segment.data).                                 *)
CopyData ==
  /\ pc = "copy"
  /\ IF segments[i].segment_type # "Load"
       THEN NextSegment /\ UNCHANGED image
       ELSE /\ image' = [a \in DOMAIN image |->
                           IF a \in DataOf(segments[i])
                             THEN DataByte(i, a - segments[i].virtual_address) ELSE image[a]]
            /\ pc' = "zero"
            /\ UNCHANGED i
  /\ UNCHANGED <<segments, min, max, mapped>>

(* Mutant: the data is cleared with the tail. *)
ZeroedByAll(s) == MemoryOf(s)

(* The addresses of write_bytes(0, ..): data.len() is added twice. *)
ZeroedBy(s) ==
  LET start == s.virtual_address + s.data + s.data
  IN  start .. start + (s.memory_size - s.data) - 1

ZeroTail ==
  /\ pc = "zero"
  /\ image' = [a \in DOMAIN image |-> IF a \in ZeroedBy(segments[i]) THEN Zero ELSE image[a]]
  /\ pc' = "map"
  /\ UNCHANGED i
  /\ UNCHANGED <<segments, min, max, mapped>>

(* Mutant: only the pages of the data. *)
PagesOfData(s) ==
  {(s.virtual_address + k * PAGE_SIZE) \div PAGE_SIZE : k \in 0 .. ((s.data - 1) \div PAGE_SIZE)}

(* (0..memory_size).step_by(PAGE_SIZE), as the pages that `map` is called  *)
(* for; the frame is that of the same byte of the block.                   *)
PagesToMap(s) ==
  {(s.virtual_address + k * PAGE_SIZE) \div PAGE_SIZE : k \in 0 .. ((s.memory_size - 1) \div PAGE_SIZE)}

(* `map` for each page; a page that is mapped already is a panic. *)
MapPages ==
  /\ pc = "map"
  /\ PagesToMap(segments[i]) \cap mapped = {}
  /\ mapped' = mapped \cup PagesToMap(segments[i])
  /\ NextSegment
  /\ UNCHANGED <<segments, min, max, image>>

MapPagesFails ==
  /\ pc = "map"
  /\ PagesToMap(segments[i]) \cap mapped # {}
  /\ pc' = "panic"
  /\ UNCHANGED <<segments, i, min, max, image, mapped>>

Next == Measure \/ CopyData \/ ZeroTail \/ MapPages \/ MapPagesFails

Spec == Init /\ [][Next]_vars /\ WF_vars(Next)

-----------------------------------------------------------------------------
Loads == {k \in DOMAIN segments : segments[k].segment_type = "Load"}

TypeOK ==
  /\ segments \in Programs
  /\ pc \in {"measure", "copy", "zero", "map", "loaded", "refused", "panic"}
  /\ i \in DOMAIN segments
  /\ min \in 0 .. TopAddress
  /\ max \in 0 .. TopAddress
  /\ mapped \subseteq 0 .. TopAddress
  /\ image \in [0 .. TopAddress -> {Junk, Zero} \cup ((DOMAIN segments) \X (0 .. TopAddress))]

(* The block that is allocated holds every segment that is copied into it. *)
SegmentsFitBlock ==
  /\ TypeOK
  /\ pc \notin {"measure", "refused"} =>
    \A k \in Loads : MemoryOf(segments[k]) \subseteq VirtualBase .. NextVAddr - 1

(* What kernel/src/linker.ld sees to and the loader does not check: the    *)
(* segments ascend without overlap, and each starts on a page.             *)
Ascending ==
  \A j, k \in Loads :
    j < k => segments[j].virtual_address + segments[j].memory_size <= segments[k].virtual_address
Aligned == \A k \in Loads : segments[k].virtual_address % PAGE_SIZE = 0

(* The kernel starts with the code and data the linker gave it: in a       *)
(* program that ascends, what is done for one segment never damages the    *)
(* data of another, nor its own, though the wrong bytes are cleared.       *)
DataIntact ==
  pc = "loaded" /\ Ascending =>
    \A k \in Loads : \A a \in DataOf(segments[k]) :
      image[a] = DataByte(k, a - segments[k].virtual_address)

(* elf/src/lib.rs of memory_size: "If greater than `data.len()`, then      *)
(* zero-fill the memory".  The statics in .bss start as zero.              *)
TailsZeroed ==
  pc = "loaded" =>
    \A k \in Loads : \A a \in MemoryOf(segments[k]) \ DataOf(segments[k]) : image[a] = Zero

(* The kernel can reach all of its memory, the tails included, if its      *)
(* segments start on pages, and no page beyond the block is ever mapped    *)
(* for it.                                                                 *)
ImageMapped ==
  pc = "loaded" =>
    /\ Aligned =>
         \A k \in Loads : \A a \in MemoryOf(segments[k]) : a \div PAGE_SIZE \in mapped
    /\ \A v \in mapped : v * PAGE_SIZE \in VirtualBase .. NextVAddr - 1

(* Measuring and loading come to an end.  elf/src/lib.rs says of a Null    *)
(* segment "Ignore the entry".                                             *)
LoadingEnds == <>(pc \in {"loaded", "refused", "panic"})
=============================================================================
