------------------------------ MODULE VirtualMap ------------------------------
(***************************************************************************)
(* The four-level page tables of bootinfo/src/vaddr/x86_64/virt.rs.        *)
(*                                                                         *)
(* A VirtualMapBuilder keeps the PML4 table in a local variable and        *)
(* reaches the lower tables by physical address (LocalMapper); `finish`    *)
(* copies the PML4 table into a page of its own, whose recursion slot      *)
(* points to itself, and from then on every table is reached through the   *)
(* MMU (RecursiveMapper).  `map` is the same code for both.  It is         *)
(* modelled one table access at a time, since the test of an entry, the    *)
(* allocation of a table and the write of the entry are separate steps.    *)
(***************************************************************************)
EXTENDS PageEntry

CONSTANTS
  Slots,           \* indices into a table, 0..511 in the code
  RecursionIndex,  \* the slot of the PML4 table that points to itself
  LocalPml4,       \* the address of the table inside the LocalMapper
  TablePages,      \* pages that new_page_table may hand out
  Offered(_),      \* those of the free ones it may choose from at a call
  Junk,            \* what an entry of such a page holds beforehand
  VAddrs,          \* the virtual pages that callers ask to map
  PAddrs,          \* the physical addresses that they map them to
  Flags            \* the VFlags that they pass

(* VAddrInfo without page_offset, which `map` never reads. *)
VAddrInfo == [pml4_index : Slots, pdpt_index : Slots, pd_index : Slots, pt_index : Slots]

ASSUME ConstantsAssumption ==
  /\ RecursionIndex \in Slots
  /\ TablePages \subseteq PageAddr
  /\ LocalPml4 \in PageAddr \ TablePages
  /\ Junk \in Word
  /\ \A pages \in SUBSET TablePages : Offered(pages) \subseteq pages
  /\ VAddrs \subseteq VAddrInfo
  /\ PAddrs \subseteq Word
  /\ Flags \subseteq VFlags

VARIABLES
  mem,     \* the contents of the table pages
  kind,    \* the type a page is used as: 4 Pml4Table .. 1 PtTable, 0 none
  root,    \* the PML4 table in use
  mapper,  \* which VirtualMapper there is; "none" once `finish` has failed
  free,    \* pages not yet handed out by new_page_table
  pc,      \* where the caller of `map` is
  level,   \* the kind of the table it works on
  req,     \* its arguments
  at,      \* the table that holds the entry it has a reference to
  new,     \* the table page it has just been given
  ret,     \* what the last call of `map` returned
  done     \* every mapping that a call of `map` returned Ok for

vars == <<mem, kind, root, mapper, free, pc, level, req, at, new, ret, done>>
callVars == <<pc, level, req, at, new>>

Pages == TablePages \cup {LocalPml4}
Table == [Slots -> Word]
Zeroed == [s \in Slots |-> {}]

Request == [p_addr : PAddrs, v_addr : VAddrs, flags : Flags]
NoResult == <<"none", {}>>
Results  == {"none", "ok", "reserved", "page_table", "already_mapped"} \X Word

(* Err(VirtualMapError::..): AlreadyMapped carries the existing address. *)
Err(tag, existing) == <<tag, existing>>
Ok == <<"ok", {}>>

(***************************************************************************)
(* The MMU: the entry of the last table on a walk from CR3, or a word that *)
(* is not present when an entry on the way is not.                         *)
(***************************************************************************)
MmuWalk(i4, i3, i2, i1) ==
  LET e4 == mem[root][i4]
      e3 == mem[child_addr(e4)][i3]
      e2 == mem[child_addr(e3)][i2]
      e1 == mem[child_addr(e2)][i1]
  IN  IF is_present(e4) /\ is_present(e3) /\ is_present(e2) THEN e1 ELSE {}

Translate(v) == MmuWalk(v.pml4_index, v.pdpt_index, v.pd_index, v.pt_index)

(* VirtualMapper::reserved, the same in both mappers. *)
reserved(v) == v.pml4_index = RecursionIndex

(* LocalMapper::pml4, pdpt, pd and pt: follow the physical addresses. *)
LocalTable(v) ==
  LET pdpt == child_addr(mem[root][v.pml4_index])
      pd   == child_addr(mem[pdpt][v.pdpt_index])
      pt   == child_addr(mem[pd][v.pd_index])
  IN  CASE level = 4 -> root
        [] level = 3 -> pdpt
        [] level = 2 -> pd
        [] level = 1 -> pt

(* Mutant: `pd` passes its two indices in the wrong order. *)
RecursiveTableSwapped(v) ==
  LET R == RecursionIndex
  IN  child_addr(
        CASE level = 4 -> MmuWalk(R, R, R, R)
          [] level = 3 -> MmuWalk(R, R, R, v.pml4_index)
          [] level = 2 -> MmuWalk(R, R, v.pdpt_index, v.pml4_index)
          [] level = 1 -> MmuWalk(R, v.pml4_index, v.pdpt_index, v.pd_index))

(* RecursiveMapper::pml4, pdpt, pd and pt: each lets the MMU go round the  *)
(* recursion slot as often as needed to stop one level early.              *)
RecursiveTable(v) ==
  LET R == RecursionIndex
  IN  child_addr(
        CASE level = 4 -> MmuWalk(R, R, R, R)
          [] level = 3 -> MmuWalk(R, R, R, v.pml4_index)
          [] level = 2 -> MmuWalk(R, R, v.pml4_index, v.pdpt_index)
          [] level = 1 -> MmuWalk(R, v.pml4_index, v.pdpt_index, v.pd_index))

MapperTable(v) == IF mapper = "local" THEN LocalTable(v) ELSE RecursiveTable(v)

(* The index that `map` uses in the table of this level. *)
IndexAt(v) == CASE level = 4 -> v.pml4_index
                [] level = 3 -> v.pdpt_index
                [] level = 2 -> v.pd_index
                [] level = 1 -> v.pt_index

(* A table the MMU has no path to: the access would be a page fault, for   *)
(* which the kernel has no handler, so the caller goes no further.         *)
Accessible == MapperTable(req.v_addr) \in Pages

(* The entry the next step of `map` examines. *)
EntryAt == mem[MapperTable(req.v_addr)][IndexAt(req.v_addr)]

(* PdptLeafEntry::addr and PdLeafEntry::addr. *)
LeafAddr(word) == word \cap (IF level = 3 THEN PDPT_ADDRESS_MASK ELSE PD_ADDRESS_MASK)

(* The locals go out of scope; the arguments stay as a record of the call. *)
Return(result) == /\ pc' = "idle"
                  /\ ret' = result
                  /\ level' = 4
                  /\ at' = LocalPml4
                  /\ new' = LocalPml4
                  /\ UNCHANGED req

-----------------------------------------------------------------------------
(* VirtualMapBuilder::new. *)
Init ==
  /\ mem = [p \in Pages |-> IF p = LocalPml4 THEN Zeroed ELSE [s \in Slots |-> Junk]]
  /\ kind = [p \in Pages |-> IF p = LocalPml4 THEN 4 ELSE 0]
  /\ root = LocalPml4
  /\ mapper = "local"
  /\ free = TablePages
  /\ pc = "idle"
  /\ level = 4
  /\ req \in Request
  /\ at = LocalPml4
  /\ new = LocalPml4
  /\ ret = NoResult
  /\ done = {}

(* map: the early return for an address in the recursion slot. *)
MapReserved(p, v, f) ==
  /\ pc = "idle"
  /\ mapper # "none"
  /\ reserved(v)
  /\ ret' = Err("reserved", {})
  /\ UNCHANGED <<mem, kind, root, mapper, free, callVars, done>>

(* map: past the check, the PML4 table comes first. *)
MapBegin(p, v, f) ==
  /\ pc = "idle"
  /\ mapper # "none"
  /\ ~reserved(v)
  /\ pc' = "probe"
  /\ level' = 4
  /\ req' = [p_addr |-> p, v_addr |-> v, flags |-> f]
  /\ ret' = NoResult
  /\ UNCHANGED <<mem, kind, root, mapper, free, at, new, done>>

(* Mutant: the walk goes on below the page table. *)
DescendBelowPt ==
  /\ pc = "probe"
  /\ Accessible
  /\ is_present(EntryAt)
  /\ level' = level - 1
  /\ UNCHANGED <<mem, kind, root, mapper, free, pc, req, at, new, ret, done>>

(* Mutant: entries on the way get the access rights of the new page. *)
DescendWidening ==
  /\ pc = "probe"
  /\ level > 1
  /\ Accessible
  /\ is_present(EntryAt)
  /\ mem' = [mem EXCEPT ![MapperTable(req.v_addr)][IndexAt(req.v_addr)] = @ \cup USER_MODE]
  /\ level' = level - 1
  /\ UNCHANGED <<kind, root, mapper, free, pc, req, at, new, ret, done>>

(* The entry is there: use the table it points to, unless it is a large    *)
(* page (never so in the PML4 table, whose entries are not a union).       *)
Descend ==
  /\ pc = "probe"
  /\ level > 1
  /\ Accessible
  /\ is_present(EntryAt)
  /\ IF level < 4 /\ is_leaf(EntryAt)
       THEN Return(Err("already_mapped", LeafAddr(EntryAt)))
       ELSE level' = level - 1 /\ UNCHANGED <<pc, req, at, new, ret>>
  /\ UNCHANGED <<mem, kind, root, mapper, free, done>>

(* Mutant: the page is handed out as it was. *)
NewPageTableUncleared(page) ==
  /\ free' = free \ {page}
  /\ UNCHANGED mem

(* The allocator's promise to new_page_table's caller, kept by the         *)
(* bootloader's closure: a page that nobody owns, completely zeroed.       *)
NewPageTable(page) ==
  /\ free' = free \ {page}
  /\ mem' = [mem EXCEPT ![page] = Zeroed]

(* Mutant: a table is allocated without looking at the entry. *)
AllocateAlways ==
  /\ pc = "probe"
  /\ level > 1
  /\ Accessible
  /\ \E page \in Offered(free) : NewPageTable(page) /\ new' = page
  /\ at' = MapperTable(req.v_addr)
  /\ pc' = "link"
  /\ UNCHANGED <<kind, root, mapper, level, req, ret, done>>

(* The entry is missing: new_page_table() is called for it. *)
Allocate ==
  /\ pc = "probe"
  /\ level > 1
  /\ Accessible
  /\ ~is_present(EntryAt)
  /\ \E page \in Offered(free) : NewPageTable(page) /\ new' = page
  /\ at' = MapperTable(req.v_addr)
  /\ pc' = "link"
  /\ UNCHANGED <<kind, root, mapper, level, req, ret, done>>

(* new_page_table() returned None: tables linked so far stay linked. *)
AllocateFails ==
  /\ pc = "probe"
  /\ level > 1
  /\ Accessible
  /\ ~is_present(EntryAt)
  /\ Return(Err("page_table", {}))
  /\ UNCHANGED <<mem, kind, root, mapper, free, done>>

(* *e = NodeEntry::new(Entry::WRITABLE, page), through the reference taken *)
(* before new_page_table was called.                                       *)
Link ==
  /\ pc = "link"
  /\ mem' = [mem EXCEPT ![at][IndexAt(req.v_addr)] = NodeEntry(WRITABLE, new)]
  /\ kind' = [kind EXCEPT ![new] = level - 1]
  /\ pc' = "probe"
  /\ level' = level - 1
  /\ UNCHANGED <<root, mapper, free, req, at, new, ret, done>>

(* Mutant: the error names the frame asked for, not the existing one. *)
AlreadyMappedAsked ==
  /\ pc = "probe"
  /\ level = 1
  /\ Accessible
  /\ is_present(EntryAt)
  /\ Return(Err("already_mapped", child_addr(req.p_addr)))
  /\ UNCHANGED <<mem, kind, root, mapper, free, done>>

(* The page table has the entry already. *)
AlreadyMapped ==
  /\ pc = "probe"
  /\ level = 1
  /\ Accessible
  /\ is_present(EntryAt)
  /\ Return(Err("already_mapped", child_addr(EntryAt)))
  /\ UNCHANGED <<mem, kind, root, mapper, free, done>>

(* Mutant: the page table is indexed with the index of the level above. *)
WriteLeafByPdIndex ==
  LET word == LeafEntry(req.flags, req.p_addr)
  IN  /\ pc = "probe"
      /\ level = 1
      /\ Accessible
      /\ ~is_present(EntryAt)
      /\ mem' = [mem EXCEPT ![MapperTable(req.v_addr)][req.v_addr.pd_index] = word]
      /\ done' = done \cup {<<req.v_addr, word>>}
      /\ Return(Ok)
      /\ UNCHANGED <<kind, root, mapper, free>>

(* *e = PtEntry::new(flags.into(), p_addr) | GLOBAL if asked for; Ok(()). *)
WriteLeaf ==
  LET word == LeafEntry(req.flags, req.p_addr)
  IN  /\ pc = "probe"
      /\ level = 1
      /\ Accessible
      /\ ~is_present(EntryAt)
      /\ mem' = [mem EXCEPT ![MapperTable(req.v_addr)][req.v_addr.pt_index] = word]
      /\ done' = done \cup {<<req.v_addr, word>>}
      /\ Return(Ok)
      /\ UNCHANGED <<kind, root, mapper, free>>

(* Mutant: the new PML4 table holds nothing but its recursion slot. *)
FinishEmpty ==
  /\ pc = "idle"
  /\ mapper = "local"
  /\ \E page \in Offered(free) :
       /\ free' = free \ {page}
       /\ mem' = [mem EXCEPT ![page] =
                    [Zeroed EXCEPT ![RecursionIndex] = NodeEntry(WRITABLE, page)]]
       /\ kind' = [kind EXCEPT ![page] = 4, ![root] = 0]
       /\ root' = page
  /\ mapper' = "recursive"
  /\ UNCHANGED <<callVars, ret, done>>

(* VirtualMapBuilder::finish: the PML4 table moves to a page of its own    *)
(* with its recursion slot set, and the recursive mapper takes over.       *)
Finish ==
  /\ pc = "idle"
  /\ mapper = "local"
  /\ \E page \in Offered(free) :
       /\ free' = free \ {page}
       /\ mem' = [mem EXCEPT ![page] =
                    [mem[root] EXCEPT ![RecursionIndex] = NodeEntry(WRITABLE, page)]]
       /\ kind' = [kind EXCEPT ![page] = 4, ![root] = 0]
       /\ root' = page
  /\ mapper' = "recursive"
  /\ UNCHANGED <<callVars, ret, done>>

(* finish: Err(PageTable); the builder is consumed, so there is no map. *)
FinishFails ==
  /\ pc = "idle"
  /\ mapper = "local"
  /\ mapper' = "none"
  /\ UNCHANGED <<mem, kind, root, free, callVars, ret, done>>

MapStep == Descend \/ Allocate \/ AllocateFails \/ Link \/ AlreadyMapped \/ WriteLeaf

Next ==
  \/ \E p \in PAddrs, v \in VAddrs, f \in Flags : MapReserved(p, v, f)
  \/ \E p \in PAddrs, v \in VAddrs, f \in Flags : MapBegin(p, v, f)
  \/ MapStep
  \/ Finish
  \/ FinishFails

Spec == Init /\ [][Next]_vars

-----------------------------------------------------------------------------
(* Virtual pages outside the recursion slot: the ones `map` may serve. *)
UserPages == {v \in VAddrInfo : ~reserved(v)}

(* The one entry that points back at the table it is in. *)
SelfSlot(p, s) == mapper = "recursive" /\ p = root /\ s = RecursionIndex

(* A slot that points from a table to a table one level below. *)
Node(p, s) == kind[p] \in 2 .. 4 /\ is_present(mem[p][s]) /\ ~SelfSlot(p, s)

(* The slots that point to a table. *)
Parents(child) ==
  {x \in Pages \X Slots : Node(x[1], x[2]) /\ child_addr(mem[x[1]][x[2]]) = child}

TypeOK ==
  /\ mem \in [Pages -> Table]
  /\ kind \in [Pages -> 0 .. 4]
  /\ root \in Pages
  /\ mapper \in {"local", "recursive", "none"}
  /\ free \subseteq TablePages
  /\ pc \in {"idle", "probe", "link"}
  /\ level \in 1 .. 4
  /\ req \in Request
  /\ at \in Pages
  /\ new \in Pages
  /\ ret \in Results
  /\ done \subseteq (VAddrInfo \X Word)

(* Once `map` has returned Ok, the MMU translates the page as asked, for   *)
(* ever: through later calls, failed ones included, and through `finish`.  *)
MapDurable == \A m \in done : Translate(m[1]) = m[2]

(* The MMU translates no page that `map` has not returned Ok for: tables   *)
(* are never shared by two paths, and a new table maps nothing.            *)
NothingElseMapped ==
  \A v \in UserPages : is_present(Translate(v)) => <<v, Translate(v)>> \in done

(* What the unreachable! of `finish` and the Safety section of             *)
(* RecursiveMapper::new rely on: the recursion slot is empty until finish  *)
(* and from then on points to the very table it is in.                     *)
RecursionSlot ==
  IF mapper = "recursive" THEN mem[root][RecursionIndex] = NodeEntry(WRITABLE, root)
                          ELSE ~is_present(mem[root][RecursionIndex])

(* What the unreachable_unchecked of LocalMapper::pd and pt rely on: an    *)
(* entry above the page tables is a node and points to a table of the      *)
(* next level, so no walk takes a data page or a table of another level    *)
(* for the table it wants.                                                 *)
NodesPointDown ==
  \A p \in Pages, s \in Slots :
    Node(p, s) => /\ ~is_leaf(mem[p][s])
                  /\ child_addr(mem[p][s]) \in TablePages
                  /\ kind[child_addr(mem[p][s])] = kind[p] - 1

(* The page tables are a tree that has lost no page: every page handed out *)
(* by new_page_table has one parent entry, whatever calls failed half-way. *)
TablesFormTree ==
  \A page \in TablePages :
    IF page \in free \/ page = root \/ (pc = "link" /\ page = new)
      THEN Parents(page) = {}
      ELSE \E x \in Pages \X Slots : Parents(page) = {x}

(* The table that a mapper hands to `map` is the table on the MMU's path,  *)
(* although the recursive mapper goes round the recursion slot to find it; *)
(* in particular no access of `map` is a page fault.                       *)
MapperFindsTable ==
  pc = "probe" => Accessible /\ MapperTable(req.v_addr) = LocalTable(req.v_addr)

(* A present entry of a table in use is never overwritten or cleared.      *)
EntriesWriteOnce ==
  [][\A p \in Pages, s \in Slots :
       (kind[p] # 0 /\ kind'[p] # 0 /\ is_present(mem[p][s])) => mem'[p][s] = mem[p][s]]_vars

-----------------------------------------------------------------------------
(***************************************************************************)
(* The inductive invariant behind these properties.                        *)
(***************************************************************************)

(* The tables of v's path, and whether it reaches them. *)
PdptOf(v) == child_addr(mem[root][v.pml4_index])
PdOf(v)   == child_addr(mem[PdptOf(v)][v.pdpt_index])
PtOf(v)   == child_addr(mem[PdOf(v)][v.pd_index])
HasPdpt(v) == is_present(mem[root][v.pml4_index])
HasPd(v)   == HasPdpt(v) /\ is_present(mem[PdptOf(v)][v.pdpt_index])
HasPt(v)   == HasPd(v) /\ is_present(mem[PdOf(v)][v.pd_index])

RootIsPml4 == kind[root] = 4 /\ \A p \in Pages : kind[p] = 4 => p = root

(* Pages in no table yet: the free ones and the one about to be linked. *)
FreshPages ==
  /\ \A p \in free : kind[p] = 0
  /\ pc = "link" => new \in TablePages \ free /\ kind[new] = 0 /\ mem[new] = Zeroed

(* Two slots never point to the same table. *)
SoleParent ==
  \A p, q \in Pages, s, t \in Slots :
    (Node(p, s) /\ Node(q, t) /\ child_addr(mem[p][s]) = child_addr(mem[q][t]))
      => p = q /\ s = t

(* Until `finish` the PML4 table is the one inside the LocalMapper. *)
LocalRoot == mapper # "recursive" => root = LocalPml4

(* A page handed out is a table with a parent slot, or about to be one. *)
NotLost(page) ==
  \/ page \in free \/ page = root \/ (pc = "link" /\ page = new)
  \/ \E p \in Pages, s \in Slots : Node(p, s) /\ child_addr(mem[p][s]) = page
NoPageLost == \A page \in TablePages : NotLost(page)

(* How far a call has come: the tables above `level` are there. *)
CallPath ==
  pc # "idle" =>
    /\ mapper # "none"
    /\ ~reserved(req.v_addr)
    /\ level <= 3 => HasPdpt(req.v_addr)
    /\ level <= 2 => HasPd(req.v_addr)
    /\ level <= 1 => HasPt(req.v_addr)

LinkTarget ==
  pc = "link" => /\ level >= 2
                 /\ at = LocalTable(req.v_addr)
                 /\ ~is_present(mem[at][IndexAt(req.v_addr)])

DoneIsMapped == \A m \in done : m[1] \in UserPages /\ is_present(m[2])

TreeInv == /\ TypeOK /\ RootIsPml4 /\ FreshPages /\ NodesPointDown /\ SoleParent
           /\ RecursionSlot /\ CallPath /\ LinkTarget

Inv == TreeInv /\ DoneIsMapped /\ MapDurable /\ NothingElseMapped

-----------------------------------------------------------------------------
(* What callers may rely on: VirtualMap implements an address space.       *)
Served == {v \in VAddrs : ~reserved(v)}

Space == INSTANCE AddressSpace WITH
           Pages   <- VAddrs,
           Reserved <- {v \in VAddrs : reserved(v)},
           vmap    <- [v \in Served |-> Translate(v)],
           busy    <- pc # "idle",
           call    <- req,
           result  <- ret

(* Every step of the four-level walk is a step of the address space or     *)
(* changes nothing a caller can see.                                       *)
ImplementsAddressSpace == Space!Spec
=============================================================================
