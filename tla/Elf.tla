--------------------------------- MODULE Elf ---------------------------------
(***************************************************************************)
(* The ELF reader of elf/src/lib.rs: Elf::from_bytes, the iterators over   *)
(* program headers and sections, and the names of sections.  Every access  *)
(* to the file goes through a Reader, a slice that ends where the file     *)
(* ends; here a Reader is the offset at which its slice begins.            *)
(***************************************************************************)
EXTENDS Integers, Sequences

CONSTANTS
  Files,           \* the files that may be read: length and header fields
  Extents,         \* what the bytes from an offset on mean as a header
  Nul,             \* offsets of zero bytes
  PrologueSize,    \* size_of::<ElfHeaderPrologue>()
  HeaderSize,      \* size_of::<ElfHeader64>()
  ProgramSize,     \* size_of::<ElfProgramHeader64>()
  SectionSize      \* size_of::<ElfSectionHeader64>()

(* ElfHeader64: the two tables, and the index of the string table. *)
Table == [offset : Nat, len : Nat, stride : Nat]
(* Where a program or section header says that its data is, and the offset *)
(* of a section's name.                                                    *)
Extent == [offset : Nat, size : Nat, name : Nat]

FilesAssumption ==
  /\ {PrologueSize, HeaderSize, ProgramSize, SectionSize} \subseteq Nat \ {0}
  /\ \A file \in Files :
       /\ file.len \in Nat
       /\ file.ident \in {"bad_magic", "class1", "class2", "class_other"}
       /\ file.programs \in Table
       /\ file.sections \in Table
       /\ file.string_table_index \in Nat
       /\ 0 .. file.len - 1 \subseteq DOMAIN Extents
  /\ \A o \in DOMAIN Extents : Extents[o] \in Extent
  /\ Nul \subseteq Nat

VARIABLES
  file,      \* the file
  pc,        \* where from_bytes is, or how it ended
  i,         \* its count of sections passed
  sections,  \* the Elf64Sections it steps through, later the caller's
  string_table,  \* the section with the names
  programs,  \* an Elf64Programs a caller steps through
  items,     \* what it has returned so far
  ended,     \* whether it has returned None
  name       \* what ElfSection64::name returned last

vars == <<file, pc, i, sections, string_table, programs, items, ended, name>>

(* Reader::fork: None beyond the end of the slice. *)
CanFork(reader, n) == reader + n <= file.len

(* Reader::take and Reader::read: None when fewer bytes are left. *)
CanTake(reader, n) == reader + n <= file.len

None == [offset |-> 0, size |-> 0, name |-> 0, at |-> -1, kind |-> "none"]

(* Mutant: only the start of the data is looked at. *)
DataFrom(at) ==
  LET x == Extents[at]
  IN  [offset |-> x.offset, size |-> x.size, name |-> x.name, at |-> at,
       kind |-> IF CanFork(0, x.offset) THEN "ok" ELSE "eof"]

(* The data of a header: a slice of the file, or Err(Eof). *)
Data(at) ==
  LET x == Extents[at]
      found == CanFork(0, x.offset) /\ CanTake(x.offset, x.size)
  IN  [offset |-> x.offset, size |-> x.size, name |-> x.name, at |-> at,
       kind |-> IF found THEN "ok" ELSE "eof"]

(* Mutant: entries are taken to follow each other without a gap. *)
SkipEntryPacked(iter) ==
  IF CanTake(iter.reader, ProgramSize) THEN [iter EXCEPT !.reader = @ + ProgramSize] ELSE iter

(* table_reader.take(stride), whose failure is ignored. *)
SkipEntry(iter) ==
  IF CanTake(iter.reader, iter.stride) THEN [iter EXCEPT !.reader = @ + iter.stride] ELSE iter

(* Iterator::next: len.checked_sub(1)?, then read the header and skip it.  *)
(* What it returns, and the iterator it leaves.                            *)
NextItem(iter, size) ==
  IF iter.len > 0 /\ CanTake(iter.reader, size) THEN Data(iter.reader) ELSE None
NextIter(iter, size) ==
  LET counted == [iter EXCEPT !.len = @ - 1]
  IN  IF iter.len = 0 THEN iter
      ELSE IF CanTake(iter.reader, size) THEN SkipEntry(counted) ELSE counted

(* program_segments and sections. *)
Iterator(table) == [len |-> table.len, stride |-> table.stride, reader |-> table.offset]

Init ==
  /\ file \in Files
  /\ pc = "prologue"
  /\ i = 0
  /\ sections = Iterator(file.sections)
  /\ string_table = None
  /\ programs = Iterator(file.programs)
  /\ items = <<>>
  /\ ended = FALSE
  /\ name = <<0, 0>>

-----------------------------------------------------------------------------
(* Elf::from_bytes up to the header: the length of the file, the magic     *)
(* number and the class.  A 32-bit file is a panic.                        *)
ReadPrologue ==
  /\ pc = "prologue"
  /\ pc' = CASE ~CanTake(0, PrologueSize) -> "Eof"
             [] CanTake(0, PrologueSize) /\ file.ident = "bad_magic" -> "InvalidMagic"
             [] CanTake(0, PrologueSize) /\ file.ident = "class1" -> "panic"
             [] CanTake(0, PrologueSize) /\ file.ident = "class_other" -> "InvalidArch"
             [] CanTake(0, PrologueSize) /\ file.ident = "class2" -> "header"
  /\ UNCHANGED <<file, i, sections, string_table, programs, items, ended, name>>

(* Elf64::from_bytes: the header and the two forks. *)
ReadHeader ==
  /\ pc = "header"
  /\ pc' = IF /\ CanTake(PrologueSize, HeaderSize)
              /\ CanFork(0, file.programs.offset)
              /\ CanFork(0, file.sections.offset)
             THEN "string_table" ELSE "Eof"
  /\ UNCHANGED <<file, i, sections, string_table, programs, items, ended, name>>

(* The section with the index that the header gives. *)
IsStringTable == i = file.string_table_index

(* One round of the loop that looks for the string table; sections with    *)
(* bad data are passed over.  Elf64 keeps a reader at the first section.   *)
FindStringTable ==
  LET section == NextItem(sections, SectionSize)
      found == section # None /\ IsStringTable
  IN  /\ pc = "string_table"
      /\ pc' = CASE section = None -> "MissingStringTable"
                 [] found -> IF section.kind = "ok" THEN "ready" ELSE "Eof"
                 [] OTHER -> pc
      /\ string_table' = IF found THEN section ELSE string_table
      /\ i' = IF section = None \/ found THEN i ELSE i + 1
      /\ sections' = IF found THEN Iterator(file.sections) ELSE NextIter(sections, SectionSize)
      /\ UNCHANGED <<file, programs, items, ended, name>>

(* program_segments() and a call of its next; the caller may call it again *)
(* after None, which FusedIterator allows.                                 *)
NextProgram ==
  LET item == NextItem(programs, ProgramSize)
  IN  /\ pc = "ready"
      /\ programs' = NextIter(programs, ProgramSize)
      /\ items' = IF item = None THEN items ELSE Append(items, item)
      /\ ended' = (item = None)
      /\ UNCHANGED <<file, pc, i, sections, string_table, name>>

(* The loop of ElfSection64::name. *)
NameEnd(start) ==
  CHOOSE end \in start .. start + string_table.size :
    /\ end >= string_table.size \/ string_table.offset + end \in Nul
    /\ \A k \in start .. end - 1 :
         k < string_table.size /\ string_table.offset + k \notin Nul

(* A call of next of sections(), and name() of the section it returns, as  *)
(* KERNEL_BOOTINFO_ADDRESS does: the slice is a panic when the name would  *)
(* start behind the string table.                                          *)
NextSection ==
  LET section == NextItem(sections, SectionSize)
      named == section # None /\ section.kind = "ok"
      inside == section.name <= string_table.size
  IN  /\ pc = "ready"
      /\ sections' = NextIter(sections, SectionSize)
      /\ pc' = IF named /\ ~inside THEN "panic" ELSE pc
      /\ name' = IF named /\ inside THEN <<section.name, NameEnd(section.name)>> ELSE name
      /\ UNCHANGED <<file, i, string_table, programs, items, ended>>

Next ==
  \/ ReadPrologue
  \/ ReadHeader
  \/ FindStringTable
  \/ NextProgram
  \/ NextSection

Spec == Init /\ [][Next]_vars

-----------------------------------------------------------------------------
TypeOK ==
  /\ pc \in {"prologue", "header", "string_table", "ready", "Eof", "InvalidMagic", "InvalidArch",
             "MissingStringTable", "panic"}
  /\ i \in Nat
  /\ sections \in [len : Nat, stride : Nat, reader : Nat]
  /\ programs \in [len : Nat, stride : Nat, reader : Nat]
  /\ ended \in BOOLEAN

(* The string table is the section that the header names.                  *)
StringTableFound ==
  (pc = "ready" /\ file.sections.offset + file.sections.len * file.sections.stride <= file.len)
    => string_table.at = file.sections.offset + file.string_table_index * file.sections.stride

(* A name is a piece of the string table without a NUL in it, and the      *)
(* bytes that follow it are a NUL or the end of the table.                 *)
NameInStringTable ==
  name # <<0, 0>> =>
    /\ name[1] <= name[2]
    /\ name[2] <= string_table.size
    /\ \A k \in name[1] .. name[2] - 1 : string_table.offset + k \notin Nul
    /\ name[2] = string_table.size \/ string_table.offset + name[2] \in Nul

(* Every slice that is handed out lies inside the file, however the header *)
(* that names it was made: the data of a segment, the string table, which  *)
(* is the one the header names, the names in it, and the readers           *)
(* themselves.                                                             *)
SlicesInsideFile ==
  /\ TypeOK
  /\ StringTableFound
  /\ NameInStringTable
  /\ \A k \in DOMAIN items : items[k].kind = "ok" => items[k].offset + items[k].size <= file.len
  /\ pc = "ready" => string_table.offset + string_table.size <= file.len
  /\ pc = "ready" => programs.reader <= file.len /\ sections.reader <= file.len

(* How KERNEL_SEGMENTS of the boot loader uses the iterator: it must yield *)
(* as many segments as program_header_count(), each from its own header,   *)
(* whenever the table fits the file; and, as FusedIterator promises, never *)
(* another one after None, not even when the table was cut off.            *)
TableFits == /\ file.programs.offset + file.programs.len * file.programs.stride <= file.len
             /\ file.programs.stride >= ProgramSize
EveryHeaderOnce ==
  /\ TableFits =>
       /\ \A k \in DOMAIN items : items[k].at = file.programs.offset + (k - 1) * file.programs.stride
       /\ ended => Len(items) = file.programs.len
  /\ ended => NextItem(programs, ProgramSize) = None
=============================================================================
