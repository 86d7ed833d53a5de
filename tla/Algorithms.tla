----------------------------- MODULE Algorithms -----------------------------
(***************************************************************************)
(* The sequential algorithms, each over its own inputs: `part` says which  *)
(* of them a behaviour runs.  Their variables have the names they have in  *)
(* their modules; the ones that a part does not use stay empty.            *)
(***************************************************************************)
EXTENDS Integers, Sequences, FiniteSets

CONSTANTS
  Samples, RecursionIndex,                                \* of VAddr
  MemoryMaps, MinPages, MAX_MEMORY_REGIONS,               \* of MemoryRegions
  GROUP, BITS,                                            \* of Leb128
  MAX_NB_FRAMES, Traces,                                  \* of Backtrace
  WORD, HALF, Lsdas, Contexts,                            \* of EhAction
  Files, Headers, Nul,                                    \* of Elf
  PrologueSize, HeaderSize, ProgramSize, SectionSize,
  Spans, PAGE_SIZE, HEADER_SIZE, POINTER_SIZE,            \* of PhysicalPages
  MINIMUM_PAGES_TO_MANAGE, PAGES_RESERVED_FOR_TREE_POINTERS, Sizes,
  Enums, Words,                                           \* of Syscall
  Bits, MAX_STACK_ALLOCATION, Strings                     \* of Helpers

VARIABLES
  part, pc, result,
  addr, fields, back,
  memory_map, next, region, regions,
  stream, signed, ptr, shift,
  lsda, context, lpad_base, n, lpad,
  print_fmt, trace, idx, sym, print, omitted_count, first_omit, res, lines,
  file, i, sections, string_table, programs, items, ended, name,
  allocator, rest, trees, answer,
  data, functions, call, regs,
  input, output, buf, lpwstr

address == <<addr, fields, back>>
firmware == <<memory_map, next>>
memory == <<region, regions>>
leb == <<stream, signed, ptr, shift>>
eh == <<lsda, context, lpad_base, n, lpad>>
bt == <<print_fmt, trace, idx, sym, print, omitted_count, first_omit, res, lines>>
elf == <<file, i, sections, string_table, programs, items, ended, name>>
pages == <<allocator, rest, trees, answer>>
abi == <<data, functions, call, regs>>
helpers == <<input, output, buf, lpwstr>>
all == <<part, pc, result, address, firmware, memory, leb, eh, bt, elf, pages, abi, helpers>>

NoAddress == addr = <<>> /\ fields = <<>> /\ back = <<>>
NoFirmware == memory_map = <<>> /\ next = <<>>
NoMemory == region = <<>> /\ regions = <<>>
NoLeb == stream = <<>> /\ signed = <<>> /\ ptr = <<>> /\ shift = <<>>
NoEh == lsda = <<>> /\ context = <<>> /\ lpad_base = <<>> /\ n = <<>> /\ lpad = <<>>
NoBt ==
  /\ print_fmt = <<>> /\ trace = <<>> /\ idx = <<>> /\ sym = <<>> /\ print = <<>>
  /\ omitted_count = <<>> /\ first_omit = <<>> /\ res = <<>> /\ lines = <<>>
NoElf ==
  /\ file = <<>> /\ i = <<>> /\ sections = <<>> /\ string_table = <<>>
  /\ programs = <<>> /\ items = <<>> /\ ended = <<>> /\ name = <<>>
NoPages == allocator = <<>> /\ rest = <<>> /\ trees = <<>> /\ answer = <<>>
NoAbi == data = <<>> /\ functions = <<>> /\ call = <<>> /\ regs = <<>>
NoHelpers == input = <<>> /\ output = <<>> /\ buf = <<>> /\ lpwstr = <<>>

Addresses == INSTANCE VAddr
Regions == INSTANCE MemoryRegions
Leb == INSTANCE Leb128
Stack == INSTANCE Backtrace
Actions == INSTANCE EhAction
Reader == INSTANCE Elf WITH Extents <- Headers
Physical == INSTANCE PhysicalPages WITH MemoryMaps <- Spans
Calls == INSTANCE Syscall
Help == INSTANCE Helpers

ASSUME AddressesAssumption == Addresses!VAddrAssumption
ASSUME RegionsAssumption == Regions!MapsAssumption
ASSUME LebAssumption == Leb!WidthsAssumption
ASSUME StackAssumption == Stack!MaxAssumption /\ Stack!TracesAssumption
ASSUME ActionsAssumption == Actions!WordsAssumption /\ Actions!TablesAssumption
ASSUME ReaderAssumption == Reader!FilesAssumption
ASSUME PhysicalAssumption == Physical!MapsAssumption
ASSUME CallsAssumption == Calls!EnumsAssumption
ASSUME HelpAssumption == Help!HelpersAssumption

-----------------------------------------------------------------------------
Init ==
  \/ /\ part = "VAddr" /\ Addresses!Init
     /\ result = <<>> /\ NoFirmware /\ NoMemory /\ NoLeb /\ NoEh /\ NoBt /\ NoElf /\ NoPages /\ NoAbi /\ NoHelpers
  \/ /\ part = "MemoryRegions" /\ Regions!Init
     /\ result = <<>> /\ NoAddress /\ NoLeb /\ NoEh /\ NoBt /\ NoElf /\ NoPages /\ NoAbi /\ NoHelpers
  \/ /\ part = "Leb128" /\ Leb!Init
     /\ NoAddress /\ NoFirmware /\ NoMemory /\ NoEh /\ NoBt /\ NoElf /\ NoPages /\ NoAbi /\ NoHelpers
  \/ /\ part = "Backtrace" /\ Stack!Init
     /\ result = <<>> /\ NoAddress /\ NoFirmware /\ NoMemory /\ NoLeb /\ NoEh /\ NoElf /\ NoPages /\ NoAbi /\ NoHelpers
  \/ /\ part = "EhAction" /\ Actions!Init
     /\ pc = <<>> /\ NoAddress /\ NoFirmware /\ NoMemory /\ NoLeb /\ NoBt /\ NoElf /\ NoPages /\ NoAbi /\ NoHelpers
  \/ /\ part = "Elf" /\ Reader!Init
     /\ result = <<>> /\ NoAddress /\ NoFirmware /\ NoMemory /\ NoLeb /\ NoEh /\ NoBt /\ NoPages /\ NoAbi /\ NoHelpers
  \/ /\ part = "PhysicalPages" /\ Physical!Init
     /\ pc = <<>> /\ result = <<>> /\ NoAddress /\ NoMemory /\ NoLeb /\ NoEh /\ NoBt /\ NoElf /\ NoAbi /\ NoHelpers
  \/ /\ part = "Syscall" /\ Calls!Init
     /\ result = <<>> /\ NoAddress /\ NoFirmware /\ NoMemory /\ NoLeb /\ NoEh /\ NoBt /\ NoElf /\ NoPages /\ NoHelpers
  \/ /\ part = "Helpers" /\ Help!Init
     /\ pc = <<>> /\ result = <<>> /\ NoAddress /\ NoFirmware /\ NoMemory /\ NoLeb /\ NoEh /\ NoBt /\ NoElf /\ NoPages /\ NoAbi

Next ==
  \/ /\ part = "VAddr" /\ Addresses!Next
     /\ UNCHANGED <<part, result, firmware, memory, leb, eh, bt, elf, pages, abi, helpers>>
  \/ /\ part = "MemoryRegions" /\ Regions!Next
     /\ UNCHANGED <<part, result, address, leb, eh, bt, elf, pages, abi, helpers>>
  \/ /\ part = "Leb128" /\ Leb!Next
     /\ UNCHANGED <<part, address, firmware, memory, eh, bt, elf, pages, abi, helpers>>
  \/ /\ part = "Backtrace" /\ Stack!Next
     /\ UNCHANGED <<part, result, address, firmware, memory, leb, eh, elf, pages, abi, helpers>>
  \/ /\ part = "EhAction" /\ Actions!Next
     /\ UNCHANGED <<part, pc, address, firmware, memory, leb, bt, elf, pages, abi, helpers>>
  \/ /\ part = "Elf" /\ Reader!Next
     /\ UNCHANGED <<part, result, address, firmware, memory, leb, eh, bt, pages, abi, helpers>>
  \/ /\ part = "PhysicalPages" /\ Physical!Next
     /\ UNCHANGED <<part, pc, result, address, memory, leb, eh, bt, elf, abi, helpers>>
  \/ /\ part = "Syscall" /\ Calls!Next
     /\ UNCHANGED <<part, result, address, firmware, memory, leb, eh, bt, elf, pages, helpers>>
  \/ /\ part = "Helpers" /\ Help!Next
     /\ UNCHANGED <<part, pc, result, address, firmware, memory, leb, eh, bt, elf, pages, abi>>

Spec == Init /\ [][Next]_all
-----------------------------------------------------------------------------
(* VAddr::from_info undoes VAddr::info on canonical addresses and makes every
   other address canonical; the four tables that RecursiveMapper reads for a
   page are at four different addresses of the recursion slot. *)
AddressesExact == part = "VAddr" => Addresses!AddressesExact

(* The regions in BootInfo fit their array, are disjoint and sorted, at most
   the last is short, and no page of them is of a type that is not usable. *)
RegionsSound == part = "MemoryRegions" => Regions!RegionsSound

(* The loop loses a long usable entry only when the array is full or right
   after a short run. *)
LongEntriesKept == part = "MemoryRegions" => Regions!LongEntriesKept

(* read_uleb128 and read_sleb128 return the number that was written, and stop
   behind it. *)
LebExact == part = "Leb128" => Leb!LebExact

(* _print_fmt shows what lies between the markers, accounts for the rest and
   keeps to its limit. *)
BacktraceFaithful == part = "Backtrace" => Stack!BacktraceFaithful

(* find_eh_action returns what the table says of the instruction, or the
   documented error. *)
RightAction == part = "EhAction" => Actions!RightAction

(* No slice that the ELF reader hands out leaves the file or its section. *)
SlicesInsideFile == part = "Elf" => Reader!SlicesInsideFile

(* The iterator delivers every program header once and then nothing. *)
EveryHeaderOnce == part = "Elf" => Reader!EveryHeaderOnce

(* PhysicalPageAllocator: as long as the pointers to its trees fit the pages
   reserved for them, pointers, trees and the blocks they hand out never
   overlap and stay inside the memory that the firmware reports as free. *)
ManagedPagesApart == part = "PhysicalPages" => Physical!ManagedPagesApart

(* The functions that derive(SyscallTable) makes deliver the number of the
   call and every argument. *)
ArgumentsSurvive == part = "Syscall" => Calls!ArgumentsSurvive

(* mul_div_u64, run_with_cstr and WStrUnits keep to what their comments
   promise at the limits of words, buffers and strings. *)
HelpersExact == part = "Helpers" => Help!HelpersExact
=============================================================================
