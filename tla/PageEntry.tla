------------------------------ MODULE PageEntry ------------------------------
(***************************************************************************)
(* The words of an x86-64 page table, as bootinfo/src/vaddr/x86_64/phys.rs *)
(* builds and reads them.  A 64-bit word, and a physical address, is the   *)
(* set of its bits that are 1: `|` is union, `&` is intersection and       *)
(* `& !m` is set difference, so every operator below is the code's         *)
(* expression at its real width.                                           *)
(***************************************************************************)
EXTENDS Integers

Word == SUBSET (0 .. 63)

(* VFlags, the caller's flags (bootinfo/src/lib.rs). *)
V_WRITABLE       == {0}
V_USER_MODE      == {1}
V_WRITE_THROUGH  == {2}
V_CACHE_DISABLED == {3}
V_ACCESSED       == {4}
V_GLOBAL         == {5}
VFlags           == SUBSET (0 .. 5)

(* Entry, the bits of the hardware word that phys.rs names. *)
PRESENT        == {0}
WRITABLE       == {1}
USER_MODE      == {2}
WRITE_THROUGH  == {3}
CACHE_DISABLED == {4}
ACCESSED       == {5}
UNION_IS_LEAF  == {7}
PT_GLOBAL      == {8}

(* ADDRESS_MASK of NodeEntry and PtEntry, and of the two large leaves. *)
ADDRESS_MASK      == 12 .. 51
PD_ADDRESS_MASK   == 21 .. 51
PDPT_ADDRESS_MASK == 30 .. 51

(* bitflags: every bit of `flag` is in `value`. *)
contains(value, flag) == flag \subseteq value

(* A page-aligned physical address that an entry can hold. *)
PageAddr == SUBSET ADDRESS_MASK

(* impl From<VFlags> for Entry: GLOBAL has no counterpart in Entry. *)
EntryFrom(f) ==
  UNION { IF contains(f, V_WRITABLE)       THEN WRITABLE       ELSE {},
          IF contains(f, V_USER_MODE)      THEN USER_MODE      ELSE {},
          IF contains(f, V_WRITE_THROUGH)  THEN WRITE_THROUGH  ELSE {},
          IF contains(f, V_CACHE_DISABLED) THEN CACHE_DISABLED ELSE {},
          IF contains(f, V_ACCESSED)       THEN ACCESSED       ELSE {} }

(* Mutant: a node entry built with the large-page bit. *)
NodeEntryLarge(entry, addr) ==
  ((entry \cup PRESENT \cup UNION_IS_LEAF) \ ADDRESS_MASK) \cup (addr \cap ADDRESS_MASK)

(* NodeEntry::new: the address replaces bits 12..51 and nothing else. *)
NodeEntry(entry, addr) ==
  ((entry \cup PRESENT) \ ADDRESS_MASK) \cup (addr \cap ADDRESS_MASK)

(* PtEntry::new. *)
PtEntry(entry, addr) ==
  ((entry \cup PRESENT) \ ADDRESS_MASK) \cup (addr \cap ADDRESS_MASK)

(* The word VirtualMap::map stores in a page table. *)
LeafEntry(f, p_addr) ==
  PtEntry(EntryFrom(f), p_addr) \cup (IF contains(f, V_GLOBAL) THEN PT_GLOBAL ELSE {})

(* NodeEntry::child_addr and PtEntry::addr. *)
child_addr(word) == word \cap ADDRESS_MASK

is_present(word) == word \cap PRESENT # {}

(* PdptEntry::kind and PdEntry::kind: the word is a large page. *)
is_leaf(word) == word \cap UNION_IS_LEAF # {}
=============================================================================
