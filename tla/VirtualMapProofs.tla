--------------------------- MODULE VirtualMapProofs ---------------------------
(***************************************************************************)
(* Proofs about VirtualMap, for every number of slots, every recursion     *)
(* index, every set of table pages and every allocator.                    *)
(***************************************************************************)
EXTENDS VirtualMap, TLAPS

-----------------------------------------------------------------------------
(* The words that `map` stores, as far as the walk tells them apart.       *)

(* NodeEntry::new gives a present node whose child is the page it got.     *)
LEMMA NodeEntryFacts ==
  ASSUME NEW page \in PageAddr
  PROVE  /\ NodeEntry(WRITABLE, page) \in Word
         /\ is_present(NodeEntry(WRITABLE, page))
         /\ ~is_leaf(NodeEntry(WRITABLE, page))
         /\ child_addr(NodeEntry(WRITABLE, page)) = page
<1>0. /\ page \cap ADDRESS_MASK = page
      /\ 0 \notin ADDRESS_MASK /\ 1 \notin ADDRESS_MASK
  <2>1. page \cap ADDRESS_MASK = page
    BY DEF PageAddr
  <2> QED BY <2>1 DEF ADDRESS_MASK
<1>1. NodeEntry(WRITABLE, page) = {0, 1} \cup page
  BY <1>0, Zenon DEF NodeEntry, WRITABLE, PRESENT
<1>2. {0, 1} \cup page \in Word
  BY DEF Word, PageAddr, ADDRESS_MASK
<1>3. is_present({0, 1} \cup page)
  BY DEF is_present, PRESENT
<1>4. ~is_leaf({0, 1} \cup page)
  BY DEF is_leaf, UNION_IS_LEAF, PageAddr, ADDRESS_MASK
<1>5. child_addr({0, 1} \cup page) = page
  BY <1>0, Zenon DEF child_addr
<1> QED BY <1>1, <1>2, <1>3, <1>4, <1>5

(* A leaf is present whatever the flags and however the address is aligned. *)
LEMMA LeafEntryFacts ==
  ASSUME NEW f \in VFlags, NEW p_addr \in Word
  PROVE  LeafEntry(f, p_addr) \in Word /\ is_present(LeafEntry(f, p_addr))
<1>1. EntryFrom(f) \in Word
  BY DEF EntryFrom, Word, WRITABLE, USER_MODE, WRITE_THROUGH, CACHE_DISABLED, ACCESSED
<1>2. PtEntry(EntryFrom(f), p_addr) \in Word /\ 0 \in PtEntry(EntryFrom(f), p_addr)
  BY <1>1 DEF PtEntry, Word, PRESENT, ADDRESS_MASK
<1>3. LeafEntry(f, p_addr) \in Word /\ 0 \in LeafEntry(f, p_addr)
  BY <1>2 DEF LeafEntry, Word, PT_GLOBAL
<1> QED BY <1>3 DEF is_present, PRESENT

(* An entry of a zeroed table is not present. *)
LEMMA ZeroNotPresent == ~is_present({}) /\ {} \in Word
BY DEF is_present, Word

(* The address in an entry is the address of a page. *)
LEMMA ChildAddrIsPage == ASSUME NEW w PROVE child_addr(w) \in PageAddr
BY DEF child_addr, PageAddr

-----------------------------------------------------------------------------
LEMMA TablePageIsPage ==
  /\ Pages \subseteq PageAddr
  /\ TablePages \subseteq Pages
  /\ LocalPml4 \in Pages
  /\ LocalPml4 \notin TablePages
BY ConstantsAssumption DEF Pages

LEMMA IndexAtIsSlot ==
  ASSUME TypeOK
  PROVE  IndexAt(req.v_addr) \in Slots
BY ConstantsAssumption DEF TypeOK, IndexAt, Request, VAddrInfo

LEMMA InitTypes == Init => TypeOK
<1> SUFFICES ASSUME Init PROVE TypeOK
  OBVIOUS
<1>1. mem \in [Pages -> Table]
  BY ConstantsAssumption, ZeroNotPresent DEF Init, Table, Zeroed
<1>2. kind \in [Pages -> 0 .. 4]
  BY DEF Init
<1>3. ret \in Results
  BY ZeroNotPresent DEF Init, NoResult, Results
<1> QED BY <1>1, <1>2, <1>3, TablePageIsPage DEF Init, TypeOK

(* Returning from `map` leaves the caller's locals well typed.             *)
LEMMA ReturnTypes ==
  ASSUME TypeOK, NEW tag \in {"ok", "reserved", "page_table", "already_mapped"}, NEW x \in Word,
       Return(<<tag, x>>)
  PROVE  /\ pc' \in {"idle", "probe", "link"} /\ level' \in 1 .. 4 /\ req' \in Request
         /\ at' \in Pages /\ new' \in Pages /\ ret' \in Results
BY TablePageIsPage DEF TypeOK, Return, Results

(* Every step preserves the types: no access leaves the table pages.       *)
LEMMA TypesPreserved == TypeOK /\ LinkTarget /\ [Next]_vars => TypeOK'
<1> SUFFICES ASSUME TypeOK, LinkTarget, [Next]_vars PROVE TypeOK'
  OBVIOUS
<1> USE TablePageIsPage, ZeroNotPresent
<1>0. Zeroed \in Table
  BY DEF Zeroed, Table
<1>a. \A page \in Offered(free) : page \in free
  BY ConstantsAssumption DEF TypeOK
<1>1. ASSUME NEW p \in PAddrs, NEW v \in VAddrs, NEW f \in Flags, MapReserved(p, v, f) PROVE TypeOK'
  BY <1>1 DEF TypeOK, MapReserved, callVars, Err, Results
<1>2. ASSUME NEW p \in PAddrs, NEW v \in VAddrs, NEW f \in Flags, MapBegin(p, v, f) PROVE TypeOK'
  <2>1. req' \in Request
    BY <1>2 DEF MapBegin, Request
  <2>2. ret' \in Results
    BY <1>2 DEF MapBegin, NoResult, Results
  <2> QED BY <1>2, <2>1, <2>2 DEF TypeOK, MapBegin
<1>3. CASE Descend
  <2>1. LeafAddr(EntryAt) \in Word
    BY <1>3, IndexAtIsSlot DEF Descend, LeafAddr, EntryAt, Accessible, TypeOK, Table, Word
  <2>2. CASE level < 4 /\ is_leaf(EntryAt)
    BY <1>3, <2>1, <2>2, ReturnTypes DEF TypeOK, Descend, Err
  <2>3. CASE ~(level < 4 /\ is_leaf(EntryAt))
    BY <1>3, <2>3 DEF TypeOK, Descend
  <2> QED BY <2>2, <2>3
<1>4. CASE Allocate
  <2> PICK page \in Offered(free) : NewPageTable(page) /\ new' = page
    BY <1>4 DEF Allocate
  <2>1. page \in TablePages
    BY <1>a DEF TypeOK
  <2>2. mem' \in [Pages -> Table]
    BY <2>1, <1>0 DEF TypeOK, NewPageTable
  <2> QED BY <1>4, <2>1, <2>2 DEF TypeOK, Allocate, NewPageTable, Accessible
<1>5. CASE AllocateFails
  BY <1>5, ReturnTypes DEF TypeOK, AllocateFails, Err
<1>6. CASE Link
  <2>1. NodeEntry(WRITABLE, new) \in Word
    BY NodeEntryFacts DEF TypeOK
  <2>2. mem' \in [Pages -> Table]
    <3>1. [mem[at] EXCEPT ![IndexAt(req.v_addr)] = NodeEntry(WRITABLE, new)] \in Table
      BY <2>1 DEF TypeOK, Table
    <3> QED BY <1>6, <3>1 DEF TypeOK, Link
  <2>3. level - 1 \in 0 .. 4 /\ kind' \in [Pages -> 0 .. 4]
    BY <1>6 DEF TypeOK, Link
  <2> QED BY <1>6, <2>2, <2>3 DEF TypeOK, Link, LinkTarget
<1>7. CASE AlreadyMapped
  <2>1. child_addr(EntryAt) \in Word
    BY ChildAddrIsPage DEF PageAddr, Word, ADDRESS_MASK
  <2> QED BY <1>7, <2>1, ReturnTypes DEF TypeOK, AlreadyMapped, Err
<1>8. CASE WriteLeaf
  <2> DEFINE word == LeafEntry(req.flags, req.p_addr)
  <2>1. word \in Word
    BY LeafEntryFacts, ConstantsAssumption DEF TypeOK, Request
  <2>2. req.v_addr \in VAddrInfo /\ req.v_addr.pt_index \in Slots
    BY ConstantsAssumption DEF TypeOK, Request, VAddrInfo
  <2> HIDE DEF word
  <2>3. mem' \in [Pages -> Table]
    BY <1>8, <2>1, <2>2 DEF TypeOK, WriteLeaf, Table, word, Accessible
  <2>4. done' \subseteq VAddrInfo \X Word
    BY <1>8, <2>1, <2>2 DEF TypeOK, WriteLeaf, word
  <2> QED BY <1>8, <2>3, <2>4, ReturnTypes DEF TypeOK, WriteLeaf, Ok
<1>9. CASE Finish
  <2> PICK page \in Offered(free) :
           /\ free' = free \ {page}
           /\ mem' = [mem EXCEPT ![page] =
                      [mem[root] EXCEPT ![RecursionIndex] = NodeEntry(WRITABLE, page)]]
           /\ kind' = [kind EXCEPT ![page] = 4, ![root] = 0]
           /\ root' = page
    BY <1>9 DEF Finish
  <2>1. page \in TablePages
    BY <1>a DEF TypeOK
  <2>2. [mem[root] EXCEPT ![RecursionIndex] = NodeEntry(WRITABLE, page)] \in Table
    BY <2>1, NodeEntryFacts, ConstantsAssumption DEF TypeOK, Table
  <2>3. mem' \in [Pages -> Table]
    BY <2>1, <2>2 DEF TypeOK
  <2>4. kind' \in [Pages -> 0 .. 4]
    BY <2>1 DEF TypeOK
  <2> QED BY <1>9, <2>1, <2>3, <2>4 DEF TypeOK, Finish, callVars
<1>10. CASE FinishFails
  BY <1>10 DEF TypeOK, FinishFails, callVars
<1>11. CASE UNCHANGED vars
  BY <1>11 DEF TypeOK, vars
<1> QED BY <1>1, <1>2, <1>3, <1>4, <1>5, <1>6, <1>7, <1>8, <1>9, <1>10, <1>11 DEF Next, MapStep

-----------------------------------------------------------------------------
(* The walk.                                                               *)

(* MmuWalk in terms of the tables on the path.                             *)
LEMMA TranslateIs ==
  ASSUME NEW v
  PROVE  Translate(v) = IF HasPt(v) THEN mem[PtOf(v)][v.pt_index] ELSE {}
BY DEF Translate, MmuWalk, HasPt, HasPd, HasPdpt, PtOf, PdOf, PdptOf

LEMMA TranslateIsNext ==
  ASSUME NEW v
  PROVE  Translate(v)' = IF HasPt(v)' THEN mem'[PtOf(v)'][v.pt_index] ELSE {}
BY DEF Translate, MmuWalk, HasPt, HasPd, HasPdpt, PtOf, PdOf, PdptOf

LEMMA UserPageIndices ==
  ASSUME NEW v \in UserPages
  PROVE  /\ v \in VAddrInfo /\ ~reserved(v)
         /\ v.pml4_index \in Slots /\ v.pml4_index # RecursionIndex
         /\ v.pdpt_index \in Slots /\ v.pd_index \in Slots /\ v.pt_index \in Slots
BY DEF UserPages, VAddrInfo, reserved

(* A path outside the recursion slot goes down one level at a time.        *)
LEMMA PathKinds ==
  ASSUME TypeOK, RootIsPml4, NodesPointDown, NEW v \in UserPages
  PROVE  /\ HasPdpt(v) => PdptOf(v) \in TablePages /\ kind[PdptOf(v)] = 3
         /\ HasPd(v) => PdOf(v) \in TablePages /\ kind[PdOf(v)] = 2
         /\ HasPt(v) => PtOf(v) \in TablePages /\ kind[PtOf(v)] = 1
<1> USE UserPageIndices, TablePageIsPage
<1>1. ASSUME HasPdpt(v) PROVE PdptOf(v) \in TablePages /\ kind[PdptOf(v)] = 3
  <2>1. Node(root, v.pml4_index)
    BY <1>1 DEF HasPdpt, Node, RootIsPml4, SelfSlot
  <2> QED BY <2>1 DEF NodesPointDown, RootIsPml4, PdptOf, TypeOK
<1>2. ASSUME HasPd(v) PROVE PdOf(v) \in TablePages /\ kind[PdOf(v)] = 2
  <2>1. PdptOf(v) \in TablePages /\ kind[PdptOf(v)] = 3
    BY <1>1, <1>2 DEF HasPd
  <2>2. Node(PdptOf(v), v.pdpt_index)
    BY <1>2, <2>1 DEF HasPd, Node, RootIsPml4, SelfSlot
  <2> QED BY <2>1, <2>2 DEF NodesPointDown, PdOf
<1>3. ASSUME HasPt(v) PROVE PtOf(v) \in TablePages /\ kind[PtOf(v)] = 1
  <2>1. PdOf(v) \in TablePages /\ kind[PdOf(v)] = 2
    BY <1>2, <1>3 DEF HasPt
  <2>2. Node(PdOf(v), v.pd_index)
    BY <1>3, <2>1 DEF HasPt, Node, RootIsPml4, SelfSlot
  <2> QED BY <2>1, <2>2 DEF NodesPointDown, PtOf
<1> QED BY <1>1, <1>2, <1>3

LEMMA CallServesUserPage ==
  ASSUME TypeOK, CallPath, pc # "idle"
  PROVE  req.v_addr \in UserPages
BY ConstantsAssumption DEF TypeOK, CallPath, UserPages, Request

LEMMA LocalTableCases ==
  ASSUME NEW v
  PROVE  /\ level = 4 => LocalTable(v) = root
         /\ level = 3 => LocalTable(v) = PdptOf(v)
         /\ level = 2 => LocalTable(v) = PdOf(v)
         /\ level = 1 => LocalTable(v) = PtOf(v)
<1>1. level = 4 => LocalTable(v) = root
  BY DEF LocalTable
<1>2. level = 3 => LocalTable(v) = PdptOf(v)
  BY DEF LocalTable, PdptOf
<1>3. level = 2 => LocalTable(v) = PdOf(v)
  BY DEF LocalTable, PdptOf, PdOf
<1>4. level = 1 => LocalTable(v) = PtOf(v)
  BY DEF LocalTable, PdptOf, PdOf, PtOf
<1> QED BY <1>1, <1>2, <1>3, <1>4

LEMMA LocalTableCasesNext ==
  ASSUME NEW v
  PROVE  /\ level' = 4 => LocalTable(v)' = root'
         /\ level' = 3 => LocalTable(v)' = PdptOf(v)'
         /\ level' = 2 => LocalTable(v)' = PdOf(v)'
<1>1. level' = 4 => LocalTable(v)' = root'
  BY DEF LocalTable
<1>2. level' = 3 => LocalTable(v)' = PdptOf(v)'
  BY DEF LocalTable, PdptOf
<1>3. level' = 2 => LocalTable(v)' = PdOf(v)'
  BY DEF LocalTable, PdptOf, PdOf
<1> QED BY <1>1, <1>2, <1>3

(* The table a call works on, found by following physical addresses.       *)
LEMMA LocalTableKind ==
  ASSUME TypeOK, RootIsPml4, NodesPointDown, CallPath, pc # "idle"
  PROVE  LocalTable(req.v_addr) \in Pages /\ kind[LocalTable(req.v_addr)] = level
<1> DEFINE v == req.v_addr
<1>0. v \in UserPages
  BY CallServesUserPage
<1>1. /\ level = 4 => LocalTable(v) = root
      /\ level = 3 => LocalTable(v) = PdptOf(v)
      /\ level = 2 => LocalTable(v) = PdOf(v)
      /\ level = 1 => LocalTable(v) = PtOf(v)
  BY LocalTableCases
<1>2. level \in {1, 2, 3, 4}
  BY DEF TypeOK
<1>3. CASE level = 4
  BY <1>1, <1>3 DEF TypeOK, RootIsPml4
<1>4. CASE level = 3
  BY <1>0, <1>1, <1>4, PathKinds, TablePageIsPage DEF CallPath
<1>5. CASE level = 2
  BY <1>0, <1>1, <1>5, PathKinds, TablePageIsPage DEF CallPath
<1>6. CASE level = 1
  BY <1>0, <1>1, <1>6, PathKinds, TablePageIsPage DEF CallPath
<1> QED BY <1>2, <1>3, <1>4, <1>5, <1>6

(* The recursive mapper finds the same table.                              *)
LEMMA MapperTableIsLocal ==
  ASSUME TypeOK, RootIsPml4, NodesPointDown, RecursionSlot, CallPath, pc # "idle"
  PROVE  MapperTable(req.v_addr) = LocalTable(req.v_addr)
<1> DEFINE v == req.v_addr
           R == RecursionIndex
<1>1. CASE mapper = "local"
  BY <1>1 DEF MapperTable
<1>2. CASE mapper # "local"
  <2>1. mapper = "recursive"
    BY <1>2 DEF CallPath, TypeOK
  <2>2. /\ mem[root][R] = NodeEntry(WRITABLE, root)
        /\ is_present(mem[root][R]) /\ child_addr(mem[root][R]) = root
    BY <2>1, NodeEntryFacts, TablePageIsPage DEF RecursionSlot, TypeOK
  <2>3. /\ MmuWalk(R, R, R, R) = mem[root][R]
        /\ MmuWalk(R, R, R, v.pml4_index) = mem[root][v.pml4_index]
        /\ HasPdpt(v) => MmuWalk(R, R, v.pml4_index, v.pdpt_index) = mem[PdptOf(v)][v.pdpt_index]
        /\ HasPd(v) => MmuWalk(R, v.pml4_index, v.pdpt_index, v.pd_index)
                         = mem[PdOf(v)][v.pd_index]
    BY <2>2 DEF MmuWalk, PdptOf, PdOf, HasPdpt, HasPd
  <2>4. /\ level = 4 => RecursiveTable(v) = child_addr(MmuWalk(R, R, R, R))
        /\ level = 3 => RecursiveTable(v) = child_addr(MmuWalk(R, R, R, v.pml4_index))
        /\ level = 2 => RecursiveTable(v) = child_addr(MmuWalk(R, R, v.pml4_index, v.pdpt_index))
        /\ level = 1 => RecursiveTable(v)
                         = child_addr(MmuWalk(R, v.pml4_index, v.pdpt_index, v.pd_index))
    BY DEF RecursiveTable
  <2>5. level \in {1, 2, 3, 4}
    BY DEF TypeOK
  <2>6. (level = 2 => HasPdpt(v)) /\ (level = 1 => HasPd(v))
    BY DEF CallPath
  <2>7. RecursiveTable(v) = LocalTable(v)
    BY <2>2, <2>3, <2>4, <2>5, <2>6, LocalTableCases DEF PdptOf, PdOf, PtOf
  <2> QED BY <1>2, <2>7 DEF MapperTable
<1> QED BY <1>1, <1>2

-----------------------------------------------------------------------------
(* What a step leaves alone.                                               *)

(* A path that is there stays where it is if present entries are kept.     *)
LEMMA PathsKept ==
  ASSUME TypeOK, RootIsPml4, NodesPointDown, NEW v \in UserPages,
         \A s \in Slots : (s # RecursionIndex /\ is_present(mem[root][s]))
                           => mem'[root'][s] = mem[root][s],
         \A p \in Pages, s \in Slots : (kind[p] \in 2 .. 3 /\ is_present(mem[p][s]))
                           => mem'[p][s] = mem[p][s]
  PROVE  /\ HasPdpt(v) => HasPdpt(v)' /\ PdptOf(v)' = PdptOf(v)
         /\ HasPd(v) => HasPd(v)' /\ PdOf(v)' = PdOf(v)
         /\ HasPt(v) => HasPt(v)' /\ PtOf(v)' = PtOf(v)
<1> USE UserPageIndices, PathKinds, TablePageIsPage
<1>1. ASSUME HasPdpt(v) PROVE HasPdpt(v)' /\ PdptOf(v)' = PdptOf(v)
  BY <1>1 DEF HasPdpt, PdptOf
<1>2. ASSUME HasPd(v) PROVE HasPd(v)' /\ PdOf(v)' = PdOf(v)
  <2>1. HasPdpt(v)
    BY <1>2 DEF HasPd
  <2>2. mem'[PdptOf(v)][v.pdpt_index] = mem[PdptOf(v)][v.pdpt_index]
    BY <1>2, <2>1 DEF HasPd
  <2> QED BY <1>1, <1>2, <2>1, <2>2 DEF HasPd, PdOf
<1>3. ASSUME HasPt(v) PROVE HasPt(v)' /\ PtOf(v)' = PtOf(v)
  <2>1. HasPd(v)
    BY <1>3 DEF HasPt
  <2>2. mem'[PdOf(v)][v.pd_index] = mem[PdOf(v)][v.pd_index]
    BY <1>3, <2>1 DEF HasPt
  <2> QED BY <1>2, <1>3, <2>1, <2>2 DEF HasPt, PtOf
<1> QED BY <1>1, <1>2, <1>3

(* No path appears either if the tables above the page tables are kept.    *)
LEMMA PathsSame ==
  ASSUME TypeOK, RootIsPml4, NodesPointDown, NEW v \in UserPages,
         root' = root,
         \A p \in Pages : kind[p] \in 2 .. 4 => mem'[p] = mem[p]
  PROVE  /\ HasPdpt(v)' = HasPdpt(v) /\ HasPd(v)' = HasPd(v) /\ HasPt(v)' = HasPt(v)
         /\ PdptOf(v)' = PdptOf(v)
         /\ HasPdpt(v) => PdOf(v)' = PdOf(v)
         /\ HasPd(v) => PtOf(v)' = PtOf(v)
<1> USE PathKinds, TablePageIsPage
<1>1. mem'[root] = mem[root]
  BY DEF TypeOK, RootIsPml4
<1>2. HasPdpt(v)' = HasPdpt(v) /\ PdptOf(v)' = PdptOf(v)
  BY <1>1 DEF HasPdpt, PdptOf
<1>3. HasPdpt(v) => mem'[PdptOf(v)] = mem[PdptOf(v)]
  OBVIOUS
<1>4. HasPd(v)' = HasPd(v) /\ (HasPdpt(v) => PdOf(v)' = PdOf(v))
  BY <1>2, <1>3 DEF HasPd, PdOf
<1>5. HasPd(v) => mem'[PdOf(v)] = mem[PdOf(v)]
  OBVIOUS
<1>6. HasPd(v) => HasPdpt(v)
  BY DEF HasPd
<1>7. HasPt(v)' = HasPt(v) /\ (HasPd(v) => PtOf(v)' = PtOf(v))
  BY <1>4, <1>5, <1>6 DEF HasPt, PtOf
<1> QED BY <1>2, <1>4, <1>7

(* The state of the tables. *)
TableVars == <<mem, kind, root>>

(* Steps that write to no table keep the tree as it is.                    *)
LEMMA TreeUntouched ==
  ASSUME TreeInv, UNCHANGED TableVars, free' = free,
         mapper' = mapper \/ (mapper = "local" /\ mapper' = "none")
  PROVE  /\ RootIsPml4' /\ NodesPointDown' /\ SoleParent' /\ RecursionSlot'
         /\ \A p \in free' : kind'[p] = 0
         /\ \A v \in UserPages : /\ HasPdpt(v)' = HasPdpt(v) /\ HasPd(v)' = HasPd(v)
                                 /\ HasPt(v)' = HasPt(v) /\ Translate(v)' = Translate(v)
<1> USE DEF TreeInv, TableVars
<1>1. \A p, s : Node(p, s)' = Node(p, s)
  BY DEF Node, SelfSlot
<1>2. RootIsPml4' /\ NodesPointDown' /\ SoleParent'
  BY <1>1 DEF RootIsPml4, NodesPointDown, SoleParent
<1>3. RecursionSlot'
  BY DEF RecursionSlot
<1>4. ASSUME NEW v \in UserPages
      PROVE  /\ HasPdpt(v)' = HasPdpt(v) /\ HasPd(v)' = HasPd(v)
             /\ HasPt(v)' = HasPt(v) /\ Translate(v)' = Translate(v)
  BY DEF HasPdpt, HasPd, HasPt, PdptOf, PdOf, PtOf, Translate, MmuWalk
<1> QED BY <1>2, <1>3, <1>4 DEF FreshPages

-----------------------------------------------------------------------------
(* One lemma per action: the tree survives it.                             *)

(* A present entry takes the call one level further.                       *)
LEMMA PresentEntryLeadsDown ==
  ASSUME TypeOK, CallPath, pc # "idle", NEW v, v = req.v_addr,
         is_present(mem[LocalTable(v)][IndexAt(v)])
  PROVE  /\ level = 4 => HasPdpt(v)
         /\ level = 3 => HasPd(v)
         /\ level = 2 => HasPt(v)
<1>1. /\ level = 4 => IndexAt(v) = v.pml4_index
      /\ level = 3 => IndexAt(v) = v.pdpt_index
      /\ level = 2 => IndexAt(v) = v.pd_index
  BY DEF IndexAt
<1> QED BY <1>1, LocalTableCases DEF CallPath, HasPdpt, HasPd, HasPt

LEMMA ReserveAndBeginKeepTree ==
  ASSUME TreeInv, TypeOK', NEW p \in PAddrs, NEW v \in VAddrs, NEW f \in Flags,
         MapReserved(p, v, f) \/ MapBegin(p, v, f)
  PROVE  TreeInv'
<1>1. /\ UNCHANGED TableVars /\ free' = free /\ mapper' = mapper
      /\ pc = "idle" /\ pc' # "link"
  BY DEF MapReserved, MapBegin, TableVars, callVars, TreeInv, TypeOK
<1>2. CallPath'
  BY DEF MapReserved, MapBegin, CallPath, callVars, reserved
<1>3. FreshPages' /\ LinkTarget'
  BY <1>1, TreeUntouched DEF FreshPages, LinkTarget
<1> QED BY <1>1, <1>2, <1>3, TreeUntouched DEF TreeInv

LEMMA ReturnKeepsTree ==
  ASSUME TreeInv, TypeOK', NEW result, Return(result),
         UNCHANGED <<mem, kind, root, mapper, free>>
  PROVE  TreeInv'
<1>1. UNCHANGED TableVars /\ pc' = "idle"
  BY DEF Return, TableVars
<1>2. FreshPages' /\ LinkTarget' /\ CallPath'
  BY <1>1, TreeUntouched DEF FreshPages, LinkTarget, CallPath
<1> QED BY <1>1, <1>2, TreeUntouched DEF TreeInv

LEMMA DescendKeepsTree ==
  ASSUME TreeInv, TypeOK', Descend
  PROVE  TreeInv'
<1> DEFINE v == req.v_addr
<1>1. CASE level < 4 /\ is_leaf(EntryAt)
  BY <1>1, ReturnKeepsTree DEF Descend
<1>2. CASE ~(level < 4 /\ is_leaf(EntryAt))
  <2>1. /\ UNCHANGED TableVars /\ free' = free /\ mapper' = mapper /\ req' = req
        /\ pc = "probe" /\ pc' = pc /\ level' = level - 1 /\ level > 1
        /\ is_present(EntryAt)
    BY <1>2 DEF Descend, TableVars
  <2>2. is_present(mem[LocalTable(v)][IndexAt(v)])
    BY <2>1, MapperTableIsLocal DEF EntryAt, TreeInv
  <2>3. v \in UserPages
    BY <2>1, CallServesUserPage DEF TreeInv
  <2>4. level \in {2, 3, 4}
    BY <2>1 DEF TreeInv, TypeOK
  <2>5. /\ level' <= 3 => HasPdpt(v)
        /\ level' <= 2 => HasPd(v)
        /\ level' <= 1 => HasPt(v)
    BY <2>1, <2>2, <2>4, PresentEntryLeadsDown DEF TreeInv, CallPath
  <2>6. CallPath'
    BY <2>1, <2>3, <2>5, TreeUntouched DEF CallPath, TreeInv, reserved
  <2>7. FreshPages' /\ LinkTarget'
    BY <2>1, TreeUntouched DEF FreshPages, LinkTarget
  <2> QED BY <2>1, <2>6, <2>7, TreeUntouched DEF TreeInv
<1> QED BY <1>1, <1>2

LEMMA FinishFailsKeepsTree ==
  ASSUME TreeInv, TypeOK', FinishFails
  PROVE  TreeInv'
<1>1. UNCHANGED TableVars /\ pc = "idle" /\ pc' = "idle"
  BY DEF FinishFails, TableVars, callVars
<1>2. FreshPages' /\ LinkTarget' /\ CallPath'
  BY <1>1, TreeUntouched DEF FreshPages, LinkTarget, CallPath, FinishFails
<1> QED BY <1>1, <1>2, TreeUntouched DEF TreeInv, FinishFails

LEMMA AllocateKeepsTree ==
  ASSUME TreeInv, TypeOK', Allocate
  PROVE  /\ TreeInv'
         /\ \A u \in UserPages : Translate(u)' = Translate(u)
<1> DEFINE v == req.v_addr
<1> USE TablePageIsPage
<1>1. PICK page \in Offered(free) : NewPageTable(page) /\ new' = page
  BY DEF Allocate
<1>2. page \in free /\ page \in TablePages /\ kind[page] = 0
  BY ConstantsAssumption DEF TreeInv, TypeOK, FreshPages
<1>3. /\ pc = "probe" /\ pc' = "link" /\ level > 1
      /\ UNCHANGED <<kind, root, mapper, level, req>>
      /\ at' = MapperTable(v) /\ ~is_present(EntryAt)
  BY DEF Allocate
<1>4. \A p \in Pages : kind[p] # 0 => mem'[p] = mem[p]
  BY <1>1, <1>2 DEF NewPageTable, TreeInv, TypeOK
<1>5. mem'[page] = Zeroed
  BY <1>1, <1>2 DEF NewPageTable, TreeInv, TypeOK
<1>6. v \in UserPages
  BY <1>3, CallServesUserPage DEF TreeInv
<1>7. \A u \in UserPages : /\ HasPdpt(u)' = HasPdpt(u) /\ HasPd(u)' = HasPd(u)
                           /\ HasPt(u)' = HasPt(u) /\ PdptOf(u)' = PdptOf(u)
                           /\ HasPdpt(u) => PdOf(u)' = PdOf(u)
                           /\ HasPd(u) => PtOf(u)' = PtOf(u)
  BY <1>3, <1>4, PathsSame DEF TreeInv
<1>8. \A p \in Pages, s \in Slots : Node(p, s)' = Node(p, s) /\ (Node(p, s) => mem'[p] = mem[p])
  BY <1>3, <1>4 DEF Node, SelfSlot
<1>9. RootIsPml4' /\ NodesPointDown' /\ SoleParent'
  BY <1>3, <1>8 DEF TreeInv, RootIsPml4, NodesPointDown, SoleParent
<1>10. RecursionSlot'
  BY <1>3, <1>4 DEF TreeInv, RecursionSlot, RootIsPml4, TypeOK
<1>11. FreshPages'
  BY <1>1, <1>2, <1>3, <1>5 DEF TreeInv, FreshPages, NewPageTable
<1>12. CallPath'
  BY <1>3, <1>6, <1>7 DEF TreeInv, CallPath, reserved
<1>13. LinkTarget'
  <2>1. LocalTable(v) \in Pages /\ kind[LocalTable(v)] = level /\ at' = LocalTable(v)
    BY <1>3, LocalTableKind, MapperTableIsLocal DEF TreeInv
  <2>2. ~is_present(mem[LocalTable(v)][IndexAt(v)])
    BY <1>3, MapperTableIsLocal DEF EntryAt, TreeInv
  <2>3. mem'[at'] = mem[at']
    BY <1>3, <1>4, <2>1
  <2>4. LocalTable(v)' = LocalTable(v)
    <3>1. /\ level = 4 => LocalTable(v)' = root'
          /\ level = 3 => LocalTable(v)' = PdptOf(v)'
          /\ level = 2 => LocalTable(v)' = PdOf(v)'
      BY <1>3, LocalTableCasesNext
    <3>2. level \in {2, 3, 4}
      BY <1>3 DEF TreeInv, TypeOK
    <3>3. level = 2 => HasPdpt(v)
      BY <1>3 DEF TreeInv, CallPath
    <3> QED BY <1>3, <1>6, <1>7, <3>1, <3>2, <3>3, LocalTableCases
  <2>5. IndexAt(v)' = IndexAt(v)
    BY <1>3 DEF IndexAt
  <2> QED BY <1>3, <2>1, <2>2, <2>3, <2>4, <2>5 DEF LinkTarget, TreeInv, TypeOK
<1>14. ASSUME NEW u \in UserPages PROVE Translate(u)' = Translate(u)
  <2>1. HasPt(u) => mem'[PtOf(u)] = mem[PtOf(u)]
    BY <1>4, PathKinds DEF TreeInv
  <2>2. HasPt(u) => HasPd(u)
    BY DEF HasPt
  <2>3. Translate(u)' = IF HasPt(u)' THEN mem'[PtOf(u)'][u.pt_index] ELSE {}
    BY TranslateIsNext
  <2> QED BY <1>7, <2>1, <2>2, <2>3, TranslateIs
<1> QED BY <1>9, <1>10, <1>11, <1>12, <1>13, <1>14 DEF TreeInv

(* Linking a zeroed table extends the path of the call and no other.       *)
LEMMA LinkKeepsTree ==
  ASSUME TreeInv, TypeOK', Link
  PROVE  /\ TreeInv'
         /\ \A u \in UserPages : Translate(u)' = Translate(u)
<1> DEFINE v == req.v_addr
           x == IndexAt(v)
           e == NodeEntry(WRITABLE, new)
<1> USE TablePageIsPage
<1>1. /\ pc = "link" /\ pc' = "probe" /\ level' = level - 1
      /\ UNCHANGED <<root, mapper, free, req>>
      /\ mem' = [mem EXCEPT ![at][x] = e]
      /\ kind' = [kind EXCEPT ![new] = level - 1]
  BY DEF Link
<1>2. level \in {2, 3, 4}
  BY <1>1 DEF TreeInv, TypeOK, LinkTarget
<1>3. v \in UserPages
  BY <1>1, CallServesUserPage DEF TreeInv
<1>4. /\ at \in Pages /\ kind[at] = level /\ at = LocalTable(v)
      /\ ~is_present(mem[at][x]) /\ x \in Slots
  BY <1>1, LocalTableKind, IndexAtIsSlot DEF TreeInv, LinkTarget
<1>5. new \in TablePages /\ new \notin free /\ kind[new] = 0 /\ mem[new] = Zeroed /\ new # at /\ new # root
  BY <1>1, <1>2, <1>4 DEF TreeInv, FreshPages, RootIsPml4
<1>6. is_present(e) /\ ~is_leaf(e) /\ child_addr(e) = new
  BY <1>5, NodeEntryFacts
<1> HIDE DEF e, x
<1>7. mem'[at][x] = e
  BY <1>1, <1>4 DEF TreeInv, TypeOK, Table
<1>8. \A p \in Pages, s \in Slots : (p # at \/ s # x) => mem'[p][s] = mem[p][s]
  BY <1>1, <1>4 DEF TreeInv, TypeOK, Table
<1>9. \A p \in Pages : p # at => mem'[p] = mem[p]
  BY <1>1, <1>4 DEF TreeInv, TypeOK
<1>10. \A s \in Slots : ~is_present(mem'[new][s])
  BY <1>5, <1>9, ZeroNotPresent DEF Zeroed
<1>11. kind'[new] = level - 1 /\ \A p \in Pages : p # new => kind'[p] = kind[p]
  BY <1>1, <1>5 DEF TreeInv, TypeOK
<1>12. \A p \in Pages, s \in Slots : is_present(mem[p][s]) => mem'[p][s] = mem[p][s]
  BY <1>4, <1>8
<1>13. RootIsPml4'
  BY <1>1, <1>2, <1>5, <1>11 DEF TreeInv, RootIsPml4, TypeOK
<1>14. RecursionSlot'
  <2>1. at = root => x # RecursionIndex
    <3>1. at = root => level = 4
      BY <1>4 DEF TreeInv, RootIsPml4
    <3> QED BY <1>3, <3>1, UserPageIndices DEF x, IndexAt
  <2>2. mem'[root][RecursionIndex] = mem[root][RecursionIndex]
    BY <1>8, <2>1, ConstantsAssumption DEF TreeInv, TypeOK
  <2> QED BY <1>1, <2>2 DEF TreeInv, RecursionSlot
<1>15. FreshPages'
  BY <1>1, <1>5, <1>11 DEF TreeInv, FreshPages, TypeOK
<1>16. ASSUME NEW p \in Pages, NEW s \in Slots, Node(p, s)'
       PROVE  \/ p = at /\ s = x
              \/ /\ Node(p, s) /\ mem'[p][s] = mem[p][s] /\ kind'[p] = kind[p]
                 /\ child_addr(mem[p][s]) # new
  <2>1. p # new
    BY <1>10, <1>16 DEF Node
  <2>2. CASE ~(p = at /\ s = x)
    <3>1. Node(p, s) /\ mem'[p][s] = mem[p][s] /\ kind'[p] = kind[p]
      BY <1>1, <1>8, <1>11, <1>16, <2>1, <2>2 DEF Node, SelfSlot
    <3>2. kind[child_addr(mem[p][s])] = kind[p] - 1 /\ kind[p] \in 2 .. 4
      BY <3>1 DEF TreeInv, NodesPointDown, Node
    <3> QED BY <1>5, <3>1, <3>2
  <2> QED BY <2>2
<1>17. NodesPointDown'
  <2> SUFFICES ASSUME NEW p \in Pages, NEW s \in Slots, Node(p, s)'
               PROVE  /\ ~is_leaf(mem'[p][s])
                      /\ child_addr(mem'[p][s]) \in TablePages
                      /\ kind'[child_addr(mem'[p][s])] = kind'[p] - 1
    BY DEF NodesPointDown
  <2>1. CASE p = at /\ s = x
    BY <1>4, <1>5, <1>6, <1>7, <1>11, <2>1
  <2>2. CASE ~(p = at /\ s = x)
    BY <1>11, <1>16, <2>2 DEF TreeInv, NodesPointDown
  <2> QED BY <2>1, <2>2
<1>18. SoleParent'
  <2> SUFFICES ASSUME NEW p \in Pages, NEW q \in Pages, NEW s \in Slots, NEW t \in Slots,
                      Node(p, s)', Node(q, t)', child_addr(mem'[p][s]) = child_addr(mem'[q][t])
               PROVE  p = q /\ s = t
    BY DEF SoleParent
  <2> QED BY <1>6, <1>7, <1>16 DEF TreeInv, SoleParent
<1>19. \A u \in UserPages : /\ HasPdpt(u) => HasPdpt(u)' /\ PdptOf(u)' = PdptOf(u)
                            /\ HasPd(u) => HasPd(u)' /\ PdOf(u)' = PdOf(u)
                            /\ HasPt(u) => HasPt(u)' /\ PtOf(u)' = PtOf(u)
  BY <1>1, <1>12, PathsKept DEF TreeInv, TypeOK
<1>20. CallPath'
  <2>1. /\ level = 4 => x = v.pml4_index /\ at = root
        /\ level = 3 => x = v.pdpt_index /\ at = PdptOf(v)
        /\ level = 2 => x = v.pd_index /\ at = PdOf(v)
    BY <1>4, LocalTableCases DEF x, IndexAt
  <2>2. /\ level <= 3 => HasPdpt(v)
        /\ level <= 2 => HasPd(v)
    BY <1>1 DEF TreeInv, CallPath
  <2>3. level = 4 => HasPdpt(v)'
    BY <1>1, <1>6, <1>7, <2>1 DEF HasPdpt
  <2>4. level = 3 => HasPd(v)'
    BY <1>1, <1>3, <1>6, <1>7, <1>19, <2>1, <2>2 DEF HasPd
  <2>5. level = 2 => HasPt(v)'
    BY <1>1, <1>3, <1>6, <1>7, <1>19, <2>1, <2>2 DEF HasPt
  <2>6. /\ level' <= 3 => HasPdpt(v)'
        /\ level' <= 2 => HasPd(v)'
        /\ level' <= 1 => HasPt(v)'
    BY <1>1, <1>2, <1>3, <1>19, <2>2, <2>3, <2>4, <2>5
  <2> QED BY <1>1, <2>6 DEF TreeInv, CallPath, reserved
<1>21. LinkTarget'
  BY <1>1 DEF LinkTarget
<1>22. ASSUME NEW u \in UserPages PROVE Translate(u)' = Translate(u)
  <2> USE UserPageIndices, PathKinds DEF TreeInv
  <2>0. /\ Translate(u)' = IF HasPt(u)' THEN mem'[PtOf(u)'][u.pt_index] ELSE {}
        /\ Translate(u) = IF HasPt(u) THEN mem[PtOf(u)][u.pt_index] ELSE {}
    BY TranslateIs, TranslateIsNext
  <2>1. CASE HasPt(u)
    <3>1. PtOf(u) # at /\ PtOf(u) \in Pages
      BY <1>2, <1>4, <2>1
    <3> QED BY <1>9, <1>19, <2>0, <2>1, <3>1
  <2>2. CASE ~HasPdpt(u)
    <3>1. HasPdpt(u)' => PdptOf(u)' = new
      BY <1>1, <1>6, <1>7, <1>8, <2>2 DEF HasPdpt, PdptOf, TypeOK
    <3>2. ~HasPd(u)'
      BY <1>10, <3>1 DEF HasPd
    <3> QED BY <2>0, <2>2, <3>2 DEF HasPt, HasPd
  <2>3. CASE HasPdpt(u) /\ ~HasPd(u)
    <3>1. HasPd(u)' => PdOf(u)' = new
      BY <1>6, <1>7, <1>8, <1>19, <2>3 DEF HasPd, PdOf
    <3>2. ~HasPt(u)'
      BY <1>10, <3>1 DEF HasPt
    <3> QED BY <2>0, <2>3, <3>2 DEF HasPt
  <2>4. CASE HasPd(u) /\ ~HasPt(u)
    <3>1. HasPt(u)' => PtOf(u)' = new
      BY <1>6, <1>7, <1>8, <1>19, <2>4 DEF HasPt, PtOf
    <3>2. mem'[new][u.pt_index] = {}
      BY <1>5, <1>9 DEF Zeroed
    <3> QED BY <2>0, <2>4, <3>1, <3>2
  <2>5. (HasPt(u) => HasPd(u)) /\ (HasPd(u) => HasPdpt(u))
    BY DEF HasPt, HasPd
  <2> QED BY <2>1, <2>2, <2>3, <2>4, <2>5
<1> QED BY <1>13, <1>14, <1>15, <1>17, <1>18, <1>20, <1>21, <1>22 DEF TreeInv

(* Writing the leaf changes the translation of the page asked for, and     *)
(* since no two paths share a page table, of no other page.                *)
LEMMA WriteLeafKeepsTree ==
  ASSUME TreeInv, TypeOK', WriteLeaf
  PROVE  /\ TreeInv'
         /\ req.v_addr \in UserPages
         /\ ~is_present(Translate(req.v_addr))
         /\ \A u \in UserPages :
              Translate(u)' = IF u = req.v_addr THEN LeafEntry(req.flags, req.p_addr)
                                                ELSE Translate(u)
<1> DEFINE v == req.v_addr
           e == LeafEntry(req.flags, req.p_addr)
           pt == PtOf(v)
<1> USE TablePageIsPage
<1>1. /\ pc = "probe" /\ pc' = "idle" /\ level = 1
      /\ UNCHANGED <<kind, root, mapper, free>>
      /\ mem' = [mem EXCEPT ![MapperTable(v)][v.pt_index] = e]
      /\ ~is_present(EntryAt)
  BY DEF WriteLeaf, Return
<1>2. v \in UserPages
  BY <1>1, CallServesUserPage DEF TreeInv
<1>3. HasPt(v) /\ pt \in Pages /\ kind[pt] = 1
  BY <1>1, <1>2, PathKinds DEF TreeInv, CallPath
<1>4. MapperTable(v) = pt
  BY <1>1, MapperTableIsLocal, LocalTableCases DEF TreeInv
<1>5. ~is_present(mem[pt][v.pt_index])
  BY <1>1, <1>4 DEF EntryAt, IndexAt
<1> HIDE DEF e
<1>6. \A p \in Pages : p # pt => mem'[p] = mem[p]
  BY <1>1, <1>3, <1>4 DEF TreeInv, TypeOK
<1>7. /\ mem'[pt][v.pt_index] = e
      /\ \A s \in Slots : s # v.pt_index => mem'[pt][s] = mem[pt][s]
  BY <1>1, <1>2, <1>3, <1>4, UserPageIndices DEF TreeInv, TypeOK, Table
<1>8. \A p \in Pages : kind[p] # 1 => mem'[p] = mem[p]
  BY <1>3, <1>6
<1>9. \A p \in Pages, s \in Slots : Node(p, s)' = Node(p, s) /\ (Node(p, s) => mem'[p] = mem[p])
  BY <1>1, <1>8 DEF Node, SelfSlot
<1>10. RootIsPml4' /\ NodesPointDown' /\ SoleParent'
  BY <1>1, <1>9 DEF TreeInv, RootIsPml4, NodesPointDown, SoleParent
<1>11. RecursionSlot'
  BY <1>1, <1>8 DEF TreeInv, RecursionSlot, RootIsPml4, TypeOK
<1>12. FreshPages' /\ CallPath' /\ LinkTarget'
  BY <1>1 DEF TreeInv, FreshPages, CallPath, LinkTarget
<1>13. ~is_present(Translate(v))
  BY <1>3, <1>5, TranslateIs
<1>14. ASSUME NEW u \in UserPages
       PROVE  Translate(u)' = IF u = v THEN e ELSE Translate(u)
  <2>0. /\ Translate(u)' = IF HasPt(u)' THEN mem'[PtOf(u)'][u.pt_index] ELSE {}
        /\ Translate(u) = IF HasPt(u) THEN mem[PtOf(u)][u.pt_index] ELSE {}
    BY TranslateIs, TranslateIsNext
  <2>1. HasPt(u)' = HasPt(u) /\ (HasPt(u) => PtOf(u)' = PtOf(u))
    BY <1>1, <1>8, PathsSame DEF TreeInv, HasPt
  <2>2. CASE u = v
    BY <1>3, <1>7, <2>0, <2>1, <2>2
  <2>3. CASE u # v /\ ~HasPt(u)
    BY <2>0, <2>1, <2>3
  <2>4. CASE u # v /\ HasPt(u) /\ PtOf(u) # pt
    BY <1>6, <2>0, <2>1, <2>4, PathKinds DEF TreeInv
  <2>5. CASE u # v /\ HasPt(u) /\ PtOf(u) = pt
    <3> USE UserPageIndices, PathKinds DEF TreeInv
    <3>1. /\ HasPd(u) /\ HasPd(v) /\ HasPdpt(u) /\ HasPdpt(v)
      BY <1>3, <2>5 DEF HasPt, HasPd
    <3>2. Node(PdOf(u), u.pd_index) /\ Node(PdOf(v), v.pd_index)
      BY <1>2, <1>3, <2>5, <3>1 DEF Node, HasPt, SelfSlot, RootIsPml4
    <3>3. PdOf(u) = PdOf(v) /\ u.pd_index = v.pd_index
      BY <1>2, <2>5, <3>1, <3>2 DEF SoleParent, PtOf
    <3>4. Node(PdptOf(u), u.pdpt_index) /\ Node(PdptOf(v), v.pdpt_index)
      BY <1>2, <3>1 DEF Node, HasPd, SelfSlot, RootIsPml4
    <3>5. PdptOf(u) = PdptOf(v) /\ u.pdpt_index = v.pdpt_index
      BY <1>2, <3>1, <3>3, <3>4 DEF SoleParent, PdOf
    <3>6. Node(root, u.pml4_index) /\ Node(root, v.pml4_index)
      BY <1>2, <3>1 DEF Node, HasPdpt, SelfSlot, RootIsPml4
    <3>7. u.pml4_index = v.pml4_index
      BY <1>2, <3>5, <3>6 DEF SoleParent, PdptOf, TypeOK
    <3>8. u.pt_index # v.pt_index
      BY <1>2, <2>5, <3>3, <3>5, <3>7 DEF VAddrInfo
    <3> QED BY <1>7, <2>0, <2>1, <2>5, <3>8
  <2> QED BY <2>2, <2>3, <2>4, <2>5
<1> QED BY <1>2, <1>10, <1>11, <1>12, <1>13, <1>14 DEF TreeInv, e

(* Moving the PML4 table to its own page translates every page as before.  *)
LEMMA FinishKeepsTree ==
  ASSUME TreeInv, TypeOK', Finish
  PROVE  /\ TreeInv'
         /\ \A u \in UserPages : Translate(u)' = Translate(u)
<1> DEFINE R == RecursionIndex
<1> USE TablePageIsPage, ConstantsAssumption
<1>1. PICK page \in Offered(free) :
         /\ free' = free \ {page}
         /\ mem' = [mem EXCEPT ![page] =
                      [mem[root] EXCEPT ![RecursionIndex] = NodeEntry(WRITABLE, page)]]
         /\ kind' = [kind EXCEPT ![page] = 4, ![root] = 0]
         /\ root' = page
  BY DEF Finish
<1>2. /\ pc = "idle" /\ pc' = "idle" /\ mapper = "local" /\ mapper' = "recursive"
  BY DEF Finish, callVars
<1>3. page \in free /\ page \in TablePages /\ kind[page] = 0 /\ page # root /\ root \in Pages
  BY DEF TreeInv, TypeOK, FreshPages, RootIsPml4
<1>4. /\ mem'[page][R] = NodeEntry(WRITABLE, page)
      /\ \A s \in Slots : s # R => mem'[page][s] = mem[root][s]
      /\ \A p \in Pages : p # page => mem'[p] = mem[p]
  BY <1>1, <1>3 DEF TreeInv, TypeOK, Table
<1>5. /\ kind'[page] = 4 /\ kind'[root] = 0
      /\ \A p \in Pages : p # page /\ p # root => kind'[p] = kind[p]
  BY <1>1, <1>3 DEF TreeInv, TypeOK
<1>6. RootIsPml4'
  <2>1. \A p \in Pages : kind[p] = 4 => p = root
    BY DEF TreeInv, RootIsPml4
  <2>2. \A p \in Pages : kind'[p] = 4 => p = page
    BY <1>5, <2>1
  <2> QED BY <1>1, <1>5, <2>2 DEF RootIsPml4
<1>7. RecursionSlot'
  BY <1>1, <1>2, <1>4 DEF RecursionSlot
<1>8. FreshPages' /\ CallPath' /\ LinkTarget'
  BY <1>1, <1>2, <1>3, <1>5 DEF TreeInv, TypeOK, FreshPages, CallPath, LinkTarget, RootIsPml4
(* Where an entry of the new tables was before. *)
<1> DEFINE Old(p) == IF p = page THEN root ELSE p
<1>9. ASSUME NEW p \in Pages, NEW s \in Slots, Node(p, s)'
      PROVE  /\ Node(Old(p), s) /\ mem'[p][s] = mem[Old(p)][s] /\ kind'[p] = kind[Old(p)]
             /\ p # root
  <2>1. p # root
    BY <1>5, <1>9 DEF Node
  <2>2. CASE p = page
    <3>1. s # R
      BY <1>1, <1>2, <1>9, <2>2 DEF Node, SelfSlot
    <3> QED BY <1>2, <1>4, <1>5, <1>9, <2>1, <2>2, <3>1 DEF Node, SelfSlot, TreeInv, RootIsPml4
  <2>3. CASE p # page
    BY <1>2, <1>4, <1>5, <1>9, <2>1, <2>3 DEF Node, SelfSlot
  <2> QED BY <2>1, <2>2, <2>3
<1>10. NodesPointDown'
  <2> SUFFICES ASSUME NEW p \in Pages, NEW s \in Slots, Node(p, s)'
               PROVE  /\ ~is_leaf(mem'[p][s])
                      /\ child_addr(mem'[p][s]) \in TablePages
                      /\ kind'[child_addr(mem'[p][s])] = kind'[p] - 1
    BY DEF NodesPointDown
  <2> DEFINE c == child_addr(mem'[p][s])
  <2>1. /\ ~is_leaf(mem'[p][s]) /\ c \in TablePages /\ kind[c] = kind'[p] - 1
        /\ kind'[p] \in 2 .. 4
    BY <1>3, <1>9 DEF TreeInv, NodesPointDown, Node
  <2>2. c # page /\ c # root
    BY <1>3, <2>1 DEF TreeInv, RootIsPml4
  <2> QED BY <1>5, <2>1, <2>2
<1>11. SoleParent'
  <2> SUFFICES ASSUME NEW p \in Pages, NEW q \in Pages, NEW s \in Slots, NEW t \in Slots,
                      Node(p, s)', Node(q, t)', child_addr(mem'[p][s]) = child_addr(mem'[q][t])
               PROVE  p = q /\ s = t
    BY DEF SoleParent
  <2>1. Old(p) = Old(q) /\ s = t
    BY <1>3, <1>9 DEF TreeInv, SoleParent
  <2> QED BY <1>9, <2>1
<1>12. ASSUME NEW u \in UserPages PROVE Translate(u)' = Translate(u)
  <2> USE UserPageIndices, PathKinds DEF TreeInv
  <2>0. /\ Translate(u)' = IF HasPt(u)' THEN mem'[PtOf(u)'][u.pt_index] ELSE {}
        /\ Translate(u) = IF HasPt(u) THEN mem[PtOf(u)][u.pt_index] ELSE {}
    BY TranslateIs, TranslateIsNext
  <2>1. HasPdpt(u)' = HasPdpt(u) /\ PdptOf(u)' = PdptOf(u)
    BY <1>1, <1>4 DEF HasPdpt, PdptOf
  <2>2. HasPdpt(u) => mem'[PdptOf(u)] = mem[PdptOf(u)]
    BY <1>3, <1>4
  <2>3. HasPd(u)' = HasPd(u) /\ (HasPdpt(u) => PdOf(u)' = PdOf(u))
    BY <2>1, <2>2 DEF HasPd, PdOf
  <2>4. HasPd(u) => HasPdpt(u) /\ mem'[PdOf(u)] = mem[PdOf(u)]
    BY <1>3, <1>4 DEF HasPd
  <2>5. HasPt(u)' = HasPt(u) /\ (HasPd(u) => PtOf(u)' = PtOf(u))
    BY <2>3, <2>4 DEF HasPt, PtOf
  <2>6. HasPt(u) => HasPd(u) /\ mem'[PtOf(u)] = mem[PtOf(u)]
    BY <1>3, <1>4 DEF HasPt
  <2> QED BY <2>0, <2>5, <2>6
<1> QED BY <1>6, <1>7, <1>8, <1>10, <1>11, <1>12 DEF TreeInv

-----------------------------------------------------------------------------
(* The theorems.                                                           *)

(* Mappings are kept and none appears when translations do not change.     *)
LEMMA TranslationsKept ==
  ASSUME Inv, done' = done, \A u \in UserPages : Translate(u)' = Translate(u)
  PROVE  DoneIsMapped' /\ MapDurable' /\ NothingElseMapped'
BY DEF Inv, DoneIsMapped, MapDurable, NothingElseMapped

LEMMA InitInv == Init => Inv
<1> SUFFICES ASSUME Init PROVE Inv
  OBVIOUS
<1> USE TablePageIsPage, ConstantsAssumption
<1>1. TypeOK
  BY InitTypes
<1>2. /\ root = LocalPml4 /\ mapper = "local" /\ pc = "idle" /\ done = {} /\ free = TablePages
      /\ \A s \in Slots : mem[root][s] = {}
      /\ \A p \in Pages : kind[p] = IF p = root THEN 4 ELSE 0
  BY DEF Init, Zeroed
<1>3. ASSUME NEW p \in Pages, NEW s \in Slots PROVE ~Node(p, s)
  <2>1. CASE p = root
    <3>1. mem[p][s] = {}
      BY <1>2, <2>1
    <3> QED BY <3>1, ZeroNotPresent DEF Node
  <2>2. CASE p # root
    <3>1. kind[p] = 0
      BY <1>2, <2>2
    <3> QED BY <3>1 DEF Node
  <2> QED BY <2>1, <2>2
<1>4. NodesPointDown /\ SoleParent
  BY <1>3 DEF NodesPointDown, SoleParent
<1>5. RootIsPml4 /\ FreshPages /\ RecursionSlot /\ CallPath /\ LinkTarget
  BY <1>2, ZeroNotPresent DEF RootIsPml4, FreshPages, RecursionSlot, CallPath, LinkTarget
<1>6. ASSUME NEW u \in UserPages PROVE ~is_present(Translate(u))
  <2>1. ~HasPdpt(u)
    BY <1>2, ZeroNotPresent, UserPageIndices DEF HasPdpt
  <2> QED BY <2>1, ZeroNotPresent, TranslateIs DEF HasPt, HasPd
<1> QED BY <1>1, <1>2, <1>4, <1>5, <1>6
        DEF Inv, TreeInv, DoneIsMapped, MapDurable, NothingElseMapped

LEMMA NextInv == Inv /\ [Next]_vars => Inv'
<1> SUFFICES ASSUME Inv, [Next]_vars PROVE Inv'
  OBVIOUS
<1>0. TreeInv /\ TypeOK'
  BY TypesPreserved DEF Inv, TreeInv
<1> USE DEF Inv
<1>1. ASSUME NEW p \in PAddrs, NEW v \in VAddrs, NEW f \in Flags,
             MapReserved(p, v, f) \/ MapBegin(p, v, f)
      PROVE  Inv'
  <2>1. UNCHANGED TableVars /\ free' = free /\ mapper' = mapper /\ done' = done
    BY <1>1 DEF MapReserved, MapBegin, TableVars
  <2> QED BY <1>0, <1>1, <2>1, ReserveAndBeginKeepTree, TreeUntouched, TranslationsKept
<1>2. CASE Descend
  <2>1. UNCHANGED TableVars /\ free' = free /\ mapper' = mapper /\ done' = done
    BY <1>2 DEF Descend, TableVars
  <2> QED BY <1>0, <1>2, <2>1, DescendKeepsTree, TreeUntouched, TranslationsKept
<1>3. CASE Allocate
  BY <1>0, <1>3, AllocateKeepsTree, TranslationsKept DEF Allocate
<1>4. CASE AllocateFails
  <2>1. UNCHANGED TableVars /\ free' = free /\ mapper' = mapper /\ done' = done
    BY <1>4 DEF AllocateFails, TableVars
  <2>2. TreeInv'
    BY <1>0, <1>4, ReturnKeepsTree DEF AllocateFails
  <2> QED BY <1>0, <2>1, <2>2, TreeUntouched, TranslationsKept
<1>5. CASE Link
  BY <1>0, <1>5, LinkKeepsTree, TranslationsKept DEF Link
<1>6. CASE AlreadyMapped
  <2>1. UNCHANGED TableVars /\ free' = free /\ mapper' = mapper /\ done' = done
    BY <1>6 DEF AlreadyMapped, TableVars
  <2>2. TreeInv'
    BY <1>0, <1>6, ReturnKeepsTree DEF AlreadyMapped
  <2> QED BY <1>0, <2>1, <2>2, TreeUntouched, TranslationsKept
<1>7. CASE WriteLeaf
  <2> DEFINE v == req.v_addr
             e == LeafEntry(req.flags, req.p_addr)
  <2>1. /\ TreeInv' /\ v \in UserPages /\ ~is_present(Translate(v))
        /\ \A u \in UserPages : Translate(u)' = IF u = v THEN e ELSE Translate(u)
    BY <1>0, <1>7, WriteLeafKeepsTree
  <2>2. is_present(e)
    BY <1>0, LeafEntryFacts, ConstantsAssumption DEF TreeInv, TypeOK, Request
  <2>3. done' = done \cup {<<v, e>>}
    BY <1>7 DEF WriteLeaf
  <2> HIDE DEF v, e
  <2>4. DoneIsMapped'
    BY <2>1, <2>2, <2>3 DEF DoneIsMapped
  <2>5. MapDurable'
    BY <2>1, <2>3 DEF MapDurable, DoneIsMapped
  <2>6. NothingElseMapped'
    BY <2>1, <2>3 DEF NothingElseMapped
  <2> QED BY <2>1, <2>4, <2>5, <2>6
<1>8. CASE Finish
  BY <1>0, <1>8, FinishKeepsTree, TranslationsKept DEF Finish
<1>9. CASE FinishFails
  <2>1. UNCHANGED TableVars /\ free' = free /\ mapper = "local" /\ mapper' = "none" /\ done' = done
    BY <1>9 DEF FinishFails, TableVars
  <2> QED BY <1>0, <1>9, <2>1, FinishFailsKeepsTree, TreeUntouched, TranslationsKept
<1>10. CASE UNCHANGED vars
  <2>1. UNCHANGED TableVars /\ free' = free /\ mapper' = mapper /\ done' = done
        /\ UNCHANGED <<pc, level, req, at, new>>
    BY <1>10 DEF vars, TableVars
  <2>2. FreshPages' /\ LinkTarget' /\ CallPath'
    BY <1>0, <2>1 DEF TreeInv, TableVars, FreshPages, LinkTarget, CallPath, LocalTable, IndexAt,
       reserved, HasPdpt, HasPd, HasPt, PdptOf, PdOf
  <2> QED BY <1>0, <2>1, <2>2, TreeUntouched, TranslationsKept DEF TreeInv
<1> QED BY <1>1, <1>2, <1>3, <1>4, <1>5, <1>6, <1>7, <1>8, <1>9, <1>10 DEF Next, MapStep

(* The inductive invariant of VirtualMap.                                  *)
THEOREM Invariance == Spec => []Inv
<1> QED BY InitInv, NextInv, PTL DEF Spec

(* Type correctness: no access of `map` leaves the table pages.            *)
THEOREM TypeCorrect == Spec => []TypeOK
<1>1. Inv => TypeOK
  BY DEF Inv, TreeInv
<1> QED BY <1>1, Invariance, PTL

(* A page for which `map` returned Ok stays mapped as asked, for ever.     *)
THEOREM Durability == Spec => []MapDurable
<1>1. Inv => MapDurable
  BY DEF Inv
<1> QED BY <1>1, Invariance, PTL

(* The MMU translates no page that was not mapped.                         *)
THEOREM Exactness == Spec => []NothingElseMapped
<1>1. Inv => NothingElseMapped
  BY DEF Inv
<1> QED BY <1>1, Invariance, PTL

(* The unreachable! of `finish` is unreachable, and the recursion slot of  *)
(* a finished map points to the PML4 table itself.                         *)
THEOREM RecursionSlotSound == Spec => []RecursionSlot
<1>1. Inv => RecursionSlot
  BY DEF Inv, TreeInv
<1> QED BY <1>1, Invariance, PTL

(* The unreachable_unchecked of LocalMapper::pd and pt are unreachable.    *)
THEOREM NodesSound == Spec => []NodesPointDown
<1>1. Inv => NodesPointDown
  BY DEF Inv, TreeInv
<1> QED BY <1>1, Invariance, PTL

LEMMA InvFindsTable == Inv => MapperFindsTable
BY LocalTableKind, MapperTableIsLocal DEF Inv, TreeInv, MapperFindsTable, Accessible

(* Both mappers hand `map` the table on the MMU's path: no page fault.     *)
THEOREM MappersAgree == Spec => []MapperFindsTable
BY InvFindsTable, Invariance, PTL

(* The PML4 table leaves the LocalMapper only when the mapper does.        *)
LEMMA LocalRootStep == LocalRoot /\ [Next]_vars => LocalRoot'
BY DEF LocalRoot, Next, MapStep, MapReserved, MapBegin, Descend, Allocate, AllocateFails, Link,
       AlreadyMapped, WriteLeaf, Finish, FinishFails, vars

(* Linked tables stay linked, and a page handed out is linked by the call  *)
(* that was given it: nothing comes between Allocate and Link.             *)
LEMMA NotLostStep ==
  ASSUME Inv, LocalRoot, [Next]_vars, NEW lost \in TablePages, NotLost(lost)
  PROVE  NotLost(lost)'
<1> USE TablePageIsPage DEF Inv, TreeInv
<1>1. ASSUME UNCHANGED TableVars, free' = free, pc # "link",
             mapper' = mapper \/ (mapper = "local" /\ mapper' = "none")
      PROVE  NotLost(lost)'
  <2>1. \A p, s : Node(p, s)' = Node(p, s)
    BY <1>1 DEF Node, SelfSlot, TableVars
  <2> QED BY <1>1, <2>1 DEF NotLost, TableVars
<1>2. CASE Allocate
  <2>1. PICK page \in Offered(free) : NewPageTable(page) /\ new' = page
    BY <1>2 DEF Allocate
  <2>2. page \in free /\ kind[page] = 0 /\ page \in Pages
    BY ConstantsAssumption DEF TypeOK, FreshPages
  <2>3. /\ pc = "probe" /\ pc' = "link" /\ UNCHANGED <<kind, root, mapper>>
        /\ free' = free \ {page} /\ new' = page
    BY <1>2, <2>1 DEF Allocate, NewPageTable
  <2>4. \A p \in Pages : kind[p] # 0 => mem'[p] = mem[p]
    BY <2>1, <2>2 DEF NewPageTable, TypeOK
  <2>5. \A p \in Pages, s \in Slots : Node(p, s) => Node(p, s)' /\ mem'[p] = mem[p]
    BY <2>3, <2>4 DEF Node, SelfSlot
  <2> QED BY <2>3, <2>5 DEF NotLost
<1>3. CASE Link
  <2> DEFINE x == IndexAt(req.v_addr)
             e == NodeEntry(WRITABLE, new)
  <2>1. /\ pc = "link" /\ pc' = "probe" /\ UNCHANGED <<root, mapper, free>>
        /\ mem' = [mem EXCEPT ![at][x] = e]
        /\ kind' = [kind EXCEPT ![new] = level - 1]
    BY <1>3 DEF Link
  <2>2. /\ at \in Pages /\ kind[at] = level /\ level \in 2 .. 4
        /\ ~is_present(mem[at][x]) /\ x \in Slots
    BY <2>1, LocalTableKind, IndexAtIsSlot DEF LinkTarget, TypeOK
  <2>3. /\ new \in TablePages /\ kind[new] = 0 /\ new # at
        /\ \A s \in Slots : ~is_present(mem[new][s])
    <3>1. new \in TablePages /\ kind[new] = 0 /\ mem[new] = Zeroed
      BY <2>1 DEF FreshPages
    <3>2. \A s \in Slots : mem[new][s] = {}
      BY <3>1 DEF Zeroed
    <3>3. \A s \in Slots : ~is_present(mem[new][s])
      BY <3>2, ZeroNotPresent
    <3>4. new # at
      BY <2>2, <3>1
    <3> QED BY <3>1, <3>3, <3>4
  <2>4. is_present(e) /\ child_addr(e) = new
    BY <2>3, NodeEntryFacts
  <2> HIDE DEF e, x
  <2>5. mem'[at][x] = e
    BY <2>1, <2>2 DEF TypeOK, Table
  <2>6. \A p \in Pages, s \in Slots : is_present(mem[p][s]) => mem'[p][s] = mem[p][s]
    BY <2>1, <2>2 DEF TypeOK, Table
  <2>7. \A p \in Pages : p # new => kind'[p] = kind[p]
    BY <2>1, <2>3 DEF TypeOK
  <2>8. \A p \in Pages, s \in Slots :
          Node(p, s) => Node(p, s)' /\ mem'[p][s] = mem[p][s]
    BY <2>1, <2>3, <2>6, <2>7 DEF Node, SelfSlot
  <2>9. \E p \in Pages, s \in Slots : Node(p, s)' /\ child_addr(mem'[p][s]) = new
    <3>0. PICK p \in Pages, s \in Slots : p = at /\ s = x
      BY <2>2
    <3>1. kind'[p] \in 2 .. 4
      BY <2>2, <2>3, <2>7, <3>0
    <3>2. ~(at = root /\ x = RecursionIndex)
      <4>1. req.v_addr \in UserPages
        BY <2>1, CallServesUserPage
      <4>2. at = root => level = 4
        BY <2>2 DEF RootIsPml4
      <4> QED BY <4>1, <4>2, UserPageIndices DEF x, IndexAt
    <3> QED BY <2>1, <2>4, <2>5, <3>0, <3>1, <3>2 DEF Node, SelfSlot
  <2> QED BY <2>1, <2>8, <2>9 DEF NotLost
<1>4. CASE WriteLeaf
  <2> DEFINE pt == MapperTable(req.v_addr)
  <2>1. /\ pc = "probe" /\ level = 1 /\ UNCHANGED <<kind, root, mapper, free>> /\ pc' = "idle"
        /\ \E w : mem' = [mem EXCEPT ![pt][req.v_addr.pt_index] = w]
    BY <1>4 DEF WriteLeaf, Return
  <2>2. pt \in Pages /\ kind[pt] = 1
    BY <2>1, LocalTableKind, MapperTableIsLocal
  <2> HIDE DEF pt
  <2>3. \A p \in Pages : kind[p] # 1 => mem'[p] = mem[p]
    BY <2>1, <2>2 DEF TypeOK
  <2>4. \A p \in Pages, s \in Slots : Node(p, s) => Node(p, s)' /\ mem'[p] = mem[p]
    BY <2>1, <2>3 DEF Node, SelfSlot
  <2> QED BY <2>1, <2>4 DEF NotLost
<1>5. CASE Finish
  <2>1. PICK page \in Offered(free) :
           /\ free' = free \ {page}
           /\ mem' = [mem EXCEPT ![page] =
                        [mem[root] EXCEPT ![RecursionIndex] = NodeEntry(WRITABLE, page)]]
           /\ kind' = [kind EXCEPT ![page] = 4, ![root] = 0]
           /\ root' = page
    BY <1>5 DEF Finish
  <2>2. pc = "idle" /\ pc' = "idle" /\ mapper = "local" /\ mapper' = "recursive"
    BY <1>5 DEF Finish, callVars
  <2>3. page \in free /\ page \in Pages /\ kind[page] = 0 /\ page # root /\ root \in Pages
    BY ConstantsAssumption DEF TypeOK, FreshPages, RootIsPml4
  <2>4. /\ \A s \in Slots : s # RecursionIndex => mem'[page][s] = mem[root][s]
        /\ \A p \in Pages : p # page => mem'[p] = mem[p]
        /\ kind'[page] = 4
        /\ \A p \in Pages : p # page /\ p # root => kind'[p] = kind[p]
    BY <2>1, <2>3, ConstantsAssumption DEF TypeOK, Table
  <2>5. ASSUME NEW p \in Pages, NEW s \in Slots, Node(p, s)
        PROVE  \E q \in Pages : Node(q, s)' /\ mem'[q][s] = mem[p][s]
    <3>1. kind[p] \in 2 .. 4 /\ is_present(mem[p][s])
      BY <2>5 DEF Node
    <3>2. CASE p = root
      <4>1. s # RecursionIndex
        BY <2>2, <3>1, <3>2 DEF RecursionSlot
      <4>2. Node(page, s)' /\ mem'[page][s] = mem[p][s]
        BY <2>1, <2>4, <3>1, <3>2, <4>1 DEF Node, SelfSlot
      <4> QED BY <2>3, <4>2
    <3>3. CASE p # root
      <4>1. p # page
        BY <2>3, <3>1
      <4> QED BY <2>1, <2>4, <3>1, <3>3, <4>1 DEF Node, SelfSlot
    <3> QED BY <3>2, <3>3
  <2>6. root \notin TablePages
    BY <2>2 DEF LocalRoot
  <2> QED BY <2>1, <2>2, <2>5, <2>6 DEF NotLost
<1>6. CASE AllocateFails \/ AlreadyMapped \/ Descend
  <2>1. UNCHANGED TableVars /\ free' = free /\ pc # "link" /\ mapper' = mapper
    BY <1>6 DEF AllocateFails, AlreadyMapped, Descend, TableVars
  <2> QED BY <1>1, <2>1
<1>7. CASE FinishFails
  BY <1>1, <1>7 DEF FinishFails, TableVars
<1>8. ASSUME NEW p \in PAddrs, NEW v \in VAddrs, NEW f \in Flags,
             MapReserved(p, v, f) \/ MapBegin(p, v, f)
      PROVE  NotLost(lost)'
  <2>1. UNCHANGED TableVars /\ free' = free /\ pc # "link" /\ mapper' = mapper
    BY <1>8 DEF MapReserved, MapBegin, TableVars
  <2> QED BY <1>1, <2>1
<1>9. CASE UNCHANGED vars
  <2>1. \A p, s : Node(p, s)' = Node(p, s)
    BY <1>9 DEF Node, SelfSlot, vars
  <2> QED BY <1>9, <2>1 DEF NotLost, vars
<1> QED BY <1>2, <1>3, <1>4, <1>5, <1>6, <1>7, <1>8, <1>9 DEF Next, MapStep

LEMMA OneParent ==
  ASSUME Inv, NEW page, NEW p \in Pages, NEW s \in Slots, Node(p, s), child_addr(mem[p][s]) = page
  PROVE  \E x \in Pages \X Slots : Parents(page) = {x}
<1>1. Parents(page) = {<<p, s>>}
  BY DEF Parents, SoleParent, Inv, TreeInv
<1> QED BY <1>1

(* The tables are a tree that has lost no page, whatever calls of `map`    *)
(* failed half-way: a page handed out by new_page_table has one parent.    *)
THEOREM TreeOfTables == Spec => []TablesFormTree
<1>1. Init => LocalRoot /\ NoPageLost
  BY DEF Init, LocalRoot, NoPageLost, NotLost
<1>2. Inv /\ NoPageLost => TablesFormTree
  <2> SUFFICES ASSUME Inv, NoPageLost, NEW page \in TablePages
               PROVE  IF page \in free \/ page = root \/ (pc = "link" /\ page = new)
                        THEN Parents(page) = {}
                        ELSE \E x \in Pages \X Slots : Parents(page) = {x}
    BY DEF TablesFormTree
  <2> USE DEF Inv, TreeInv
  <2>1. ASSUME NEW p \in Pages, NEW s \in Slots, Node(p, s), child_addr(mem[p][s]) = page
        PROVE  kind[page] \in 1 .. 3
    BY <2>1 DEF NodesPointDown, Node
  <2>2. CASE page \in free \/ page = root \/ (pc = "link" /\ page = new)
    <3>1. kind[page] \notin 1 .. 3
      BY <2>2 DEF FreshPages, RootIsPml4
    <3>2. Parents(page) = {}
      BY <2>1, <3>1 DEF Parents
    <3> QED BY <2>2, <3>2
  <2>3. CASE ~(page \in free \/ page = root \/ (pc = "link" /\ page = new))
    <3>1. PICK p \in Pages, s \in Slots : Node(p, s) /\ child_addr(mem[p][s]) = page
      BY <2>3 DEF NoPageLost, NotLost
    <3> QED BY <2>3, <3>1, OneParent
  <2> QED BY <2>2, <2>3
<1>3. Inv /\ LocalRoot /\ NoPageLost /\ [Next]_vars => NoPageLost'
  BY NotLostStep DEF NoPageLost
<1> QED BY <1>1, <1>2, <1>3, Invariance, LocalRootStep, PTL DEF Spec

(* A present entry of a table in use is never overwritten.                 *)
THEOREM WriteOnce == Spec => EntriesWriteOnce
<1> DEFINE Kept == \A p \in Pages, s \in Slots :
             (kind[p] # 0 /\ kind'[p] # 0 /\ is_present(mem[p][s])) => mem'[p][s] = mem[p][s]
<1>1. Inv /\ [Next]_vars => Kept
  <2> SUFFICES ASSUME Inv, [Next]_vars,
                      NEW p \in Pages, NEW s \in Slots, kind[p] # 0, is_present(mem[p][s])
               PROVE  mem'[p][s] = mem[p][s]
    OBVIOUS
  <2> USE TablePageIsPage DEF Inv, TreeInv
  <2>1. CASE Allocate
    <3>1. PICK page \in Offered(free) : NewPageTable(page)
      BY <2>1 DEF Allocate
    <3>2. page \in free
      BY ConstantsAssumption DEF TypeOK
    <3> QED BY <3>1, <3>2 DEF TypeOK, NewPageTable, FreshPages
  <2>2. CASE Link
    BY <2>2, IndexAtIsSlot DEF Link, LinkTarget, TypeOK, Table
  <2>3. CASE WriteLeaf
    <3>1. IndexAt(req.v_addr) = req.v_addr.pt_index
      BY <2>3 DEF WriteLeaf, IndexAt
    <3> QED BY <2>3, <3>1, IndexAtIsSlot DEF WriteLeaf, EntryAt, Accessible, TypeOK, Table
  <2>4. CASE Finish
    <3>1. PICK page \in Offered(free) :
             mem' = [mem EXCEPT ![page] =
                      [mem[root] EXCEPT ![RecursionIndex] = NodeEntry(WRITABLE, page)]]
      BY <2>4 DEF Finish
    <3>2. page \in free
      BY ConstantsAssumption DEF TypeOK
    <3> QED BY <3>1, <3>2 DEF TypeOK, FreshPages
  <2>5. CASE UNCHANGED mem
    BY <2>5
  <2> QED BY <2>1, <2>2, <2>3, <2>4, <2>5
          DEF Next, MapStep, MapReserved, MapBegin, Descend, AllocateFails, AlreadyMapped,
              FinishFails, vars
<1> QED BY <1>1, Invariance, PTL DEF Spec, EntriesWriteOnce

-----------------------------------------------------------------------------
(* What one call does to another on the same tables.                       *)

(* A step of `map` writes to the slot that it works on and to free pages,  *)
(* and gives a kind to the page that it links.                             *)
LEMMA StepWritesAt ==
  ASSUME Inv, MapStep
  PROVE  /\ root' = root /\ mapper' = mapper /\ free' \subseteq free
         /\ pc # "idle" /\ req' = req /\ (pc' = "link" => new' \in free)
         /\ \A p \in Pages, s \in Slots :
              \/ mem'[p][s] = mem[p][s] \/ p \in free
              \/ /\ p = LocalTable(req.v_addr) /\ s = IndexAt(req.v_addr)
                 /\ ~is_present(mem[p][s])
         /\ \A p \in Pages : kind'[p] = kind[p] \/ (pc = "link" /\ p = new)
<1> USE TablePageIsPage DEF Inv, TreeInv
<1>1. CASE Allocate
  <2>1. PICK page \in Offered(free) : NewPageTable(page) /\ new' = page
    BY <1>1 DEF Allocate
  <2>2. page \in free /\ page \in Pages
    BY ConstantsAssumption DEF TypeOK
  <2>3. \A p \in Pages : p # page => mem'[p] = mem[p]
    BY <2>1, <2>2 DEF NewPageTable, TypeOK
  <2>4. root' = root /\ mapper' = mapper /\ kind' = kind /\ req' = req /\ pc = "probe"
        /\ free' \subseteq free
    BY <1>1, <2>1 DEF Allocate, NewPageTable
  <2> QED BY <2>1, <2>2, <2>3, <2>4
<1>2. CASE Link
  <2>1. /\ pc = "link" /\ pc' = "probe" /\ root' = root /\ mapper' = mapper /\ free' = free /\ req' = req
        /\ mem' = [mem EXCEPT ![at][IndexAt(req.v_addr)] = NodeEntry(WRITABLE, new)]
        /\ kind' = [kind EXCEPT ![new] = level - 1]
    BY <1>2 DEF Link
  <2>2. at = LocalTable(req.v_addr) /\ ~is_present(mem[at][IndexAt(req.v_addr)])
    BY <2>1 DEF LinkTarget
  <2>3. \A p \in Pages, s \in Slots :
          (p # at \/ s # IndexAt(req.v_addr)) => mem'[p][s] = mem[p][s]
    BY <2>1 DEF TypeOK, Table
  <2>4. \A p \in Pages : p # new => kind'[p] = kind[p]
    BY <2>1 DEF TypeOK
  <2> QED BY <2>1, <2>2, <2>3, <2>4
<1>3. CASE WriteLeaf
  <2> DEFINE e == LeafEntry(req.flags, req.p_addr)
  <2>1. /\ pc = "probe" /\ pc' = "idle" /\ level = 1 /\ root' = root /\ mapper' = mapper
        /\ free' = free /\ req' = req /\ kind' = kind /\ ~is_present(EntryAt)
        /\ mem' = [mem EXCEPT ![MapperTable(req.v_addr)][req.v_addr.pt_index] = e]
    BY <1>3 DEF WriteLeaf, Return
  <2> HIDE DEF e
  <2>2. MapperTable(req.v_addr) = LocalTable(req.v_addr)
    BY <2>1, MapperTableIsLocal
  <2>3. IndexAt(req.v_addr) = req.v_addr.pt_index
    BY <2>1 DEF IndexAt
  <2>4. mem' = [mem EXCEPT ![LocalTable(req.v_addr)][IndexAt(req.v_addr)] = e]
    BY <2>1, <2>2, <2>3
  <2>5. \A p \in Pages, s \in Slots :
          (p # LocalTable(req.v_addr) \/ s # IndexAt(req.v_addr)) => mem'[p][s] = mem[p][s]
    BY <2>4 DEF TypeOK, Table
  <2>6. ~is_present(mem[LocalTable(req.v_addr)][IndexAt(req.v_addr)])
    BY <2>1, <2>2 DEF EntryAt
  <2> QED BY <2>1, <2>5, <2>6
<1>4. CASE Descend \/ AllocateFails \/ AlreadyMapped
  BY <1>4 DEF Descend, AllocateFails, AlreadyMapped, Return
<1> QED BY <1>1, <1>2, <1>3, <1>4 DEF MapStep

(* The slots of v's path, as far as it reaches. *)
OnPath(v, p, s) ==
  \/ p = root /\ s = v.pml4_index
  \/ HasPdpt(v) /\ p = PdptOf(v)
  \/ HasPd(v) /\ p = PdOf(v)
  \/ HasPt(v) /\ p = PtOf(v)

(* What a step of a call for v may do to the tables: fill in an entry on   *)
(* the path of v, take a free page, and make pages in `linked` tables.     *)
StepFor(v, linked) ==
  /\ root' = root /\ mapper' = mapper /\ free' \subseteq free
  /\ \A p \in Pages, s \in Slots :
       mem'[p][s] = mem[p][s] \/ p \in free \/ (OnPath(v, p, s) /\ ~is_present(mem[p][s]))
  /\ \A p \in Pages : kind'[p] = kind[p] \/ p \in linked

LEMMA StepWrites ==
  ASSUME Inv, MapStep
  PROVE  /\ pc # "idle" /\ req' = req /\ (pc' = "link" => new' \in free)
         /\ req.v_addr \in UserPages
         /\ StepFor(req.v_addr, {page \in {new} : pc = "link"})
<1> DEFINE v == req.v_addr
<1>1. pc # "idle"
  BY StepWritesAt
<1>2. v \in UserPages
  BY <1>1, CallServesUserPage DEF Inv, TreeInv
<1>3. OnPath(v, LocalTable(v), IndexAt(v))
  <2>1. level \in {1, 2, 3, 4}
    BY DEF Inv, TreeInv, TypeOK
  <2>2. CASE level = 4
    BY <2>2, LocalTableCases DEF OnPath, IndexAt
  <2>3. CASE level # 4
    BY <1>1, <2>1, <2>3, LocalTableCases DEF OnPath, CallPath, Inv, TreeInv
  <2> QED BY <2>2, <2>3
<1> QED BY <1>1, <1>2, <1>3, StepWritesAt DEF StepFor

(* A call is not disturbed by what keeps the present entries, the page it  *)
(* is about to link, and the slot it is about to link it into.             *)
LEMMA CallUndisturbed ==
  ASSUME Inv, TypeOK', UNCHANGED <<pc, level, req, at, new>>, root' = root, mapper' = mapper,
         \A p \in free' : kind'[p] = 0,
         free' \subseteq free,
         \A p \in Pages, s \in Slots : kind[p] # 0 /\ is_present(mem[p][s]) => mem'[p][s] = mem[p][s],
         pc = "link" => /\ mem'[new] = mem[new] /\ kind'[new] = kind[new]
                        /\ ~is_present(mem'[at][IndexAt(req.v_addr)])
  PROVE  FreshPages' /\ CallPath' /\ LinkTarget'
<1> DEFINE v == req.v_addr
<1> USE DEF Inv, TreeInv
<1>1. pc' = pc /\ level' = level /\ req' = req /\ at' = at /\ new' = new
  OBVIOUS
<1>2. FreshPages'
  BY <1>1 DEF FreshPages
<1>3. ASSUME NEW u \in UserPages
      PROVE  /\ HasPdpt(u) => HasPdpt(u)' /\ PdptOf(u)' = PdptOf(u)
             /\ HasPd(u) => HasPd(u)' /\ PdOf(u)' = PdOf(u)
             /\ HasPt(u) => HasPt(u)' /\ PtOf(u)' = PtOf(u)
  <2>1. root \in Pages /\ kind[root] = 4
    BY DEF TypeOK, RootIsPml4
  <2>2. \A s \in Slots : (s # RecursionIndex /\ is_present(mem[root][s]))
                           => mem'[root'][s] = mem[root][s]
    BY <2>1
  <2>3. \A p \in Pages, s \in Slots : (kind[p] \in 2 .. 3 /\ is_present(mem[p][s]))
                           => mem'[p][s] = mem[p][s]
    OBVIOUS
  <2> QED BY <2>2, <2>3, PathsKept
<1>4. pc # "idle" => v \in UserPages
  BY CallServesUserPage
<1>5. CallPath'
  BY <1>1, <1>3, <1>4 DEF CallPath, reserved
<1>6. LinkTarget'
  <2> SUFFICES ASSUME pc = "link" PROVE LinkTarget'
    BY <1>1 DEF LinkTarget
  <2>1. level \in {2, 3, 4} /\ at = LocalTable(v)
    BY DEF LinkTarget, TypeOK
  <2>2. (level = 3 => HasPdpt(v)) /\ (level = 2 => HasPd(v))
    BY DEF CallPath
  <2>3. LocalTable(v)' = LocalTable(v)
    <3>1. /\ level = 4 => LocalTable(v)' = root
          /\ level = 3 => LocalTable(v)' = PdptOf(v)'
          /\ level = 2 => LocalTable(v)' = PdOf(v)'
      BY <1>1, LocalTableCasesNext
    <3> QED BY <1>3, <1>4, <2>1, <2>2, <3>1, LocalTableCases
  <2>4. IndexAt(v)' = IndexAt(v)
    BY <1>1 DEF IndexAt
  <2> QED BY <1>1, <2>1, <2>3, <2>4 DEF LinkTarget
<1> QED BY <1>2, <1>5, <1>6

(* Pages below different entries of the PML4 table share no other table.   *)
LEMMA RegionsApart ==
  ASSUME Inv, NEW u \in UserPages, NEW v \in UserPages, u.pml4_index # v.pml4_index
  PROVE  /\ HasPdpt(u) /\ HasPdpt(v) => PdptOf(u) # PdptOf(v)
         /\ HasPd(u) /\ HasPd(v) => PdOf(u) # PdOf(v)
         /\ HasPt(u) /\ HasPt(v) => PtOf(u) # PtOf(v)
<1> USE UserPageIndices, PathKinds, TablePageIsPage DEF Inv, TreeInv
<1>1. ASSUME HasPdpt(u), HasPdpt(v) PROVE PdptOf(u) # PdptOf(v)
  <2>1. Node(root, u.pml4_index) /\ Node(root, v.pml4_index)
    BY <1>1 DEF Node, HasPdpt, SelfSlot, RootIsPml4
  <2> QED BY <2>1 DEF SoleParent, PdptOf, TypeOK
<1>2. ASSUME HasPd(u), HasPd(v) PROVE PdOf(u) # PdOf(v)
  <2>1. HasPdpt(u) /\ HasPdpt(v)
    BY <1>2 DEF HasPd
  <2>2. Node(PdptOf(u), u.pdpt_index) /\ Node(PdptOf(v), v.pdpt_index)
    BY <1>2, <2>1 DEF Node, HasPd, SelfSlot, RootIsPml4
  <2> QED BY <1>1, <2>1, <2>2 DEF SoleParent, PdOf
<1>3. ASSUME HasPt(u), HasPt(v) PROVE PtOf(u) # PtOf(v)
  <2>1. HasPd(u) /\ HasPd(v)
    BY <1>3 DEF HasPt
  <2>2. Node(PdOf(u), u.pd_index) /\ Node(PdOf(v), v.pd_index)
    BY <1>3, <2>1 DEF Node, HasPt, SelfSlot, RootIsPml4
  <2> QED BY <1>2, <2>1, <2>2 DEF SoleParent, PtOf
<1> QED BY <1>1, <1>2, <1>3

(* A call keeps its place while another one takes a step for a page below  *)
(* another entry of the PML4 table.                                        *)
LEMMA OtherCallKept ==
  ASSUME Inv, TypeOK', \A p \in free' : kind'[p] = 0, UNCHANGED <<pc, level, req, at, new>>,
         NEW v \in UserPages, NEW linked, StepFor(v, linked),
         pc # "idle" => v.pml4_index # req.v_addr.pml4_index,
         pc = "link" => new \notin linked
  PROVE  FreshPages' /\ CallPath' /\ LinkTarget'
<1> DEFINE u == req.v_addr
<1> USE TablePageIsPage DEF Inv, TreeInv
<1>1. \A p \in Pages, s \in Slots : OnPath(v, p, s) => kind[p] # 0
  BY PathKinds DEF OnPath, RootIsPml4
<1>2. \A p \in Pages, s \in Slots : kind[p] # 0 /\ is_present(mem[p][s]) => mem'[p][s] = mem[p][s]
  BY DEF StepFor, FreshPages
<1>3. ASSUME pc = "link"
      PROVE  /\ mem'[new] = mem[new] /\ kind'[new] = kind[new]
             /\ ~is_present(mem'[at][IndexAt(u)])
  <2>1. new \in Pages /\ new \notin free /\ kind[new] = 0
    BY <1>3 DEF FreshPages
  <2>2. \A s \in Slots : mem'[new][s] = mem[new][s]
    BY <1>1, <2>1 DEF StepFor
  <2>3. mem'[new] = mem[new]
    <3>1. mem[new] \in Table /\ mem'[new] \in Table
      BY <2>1 DEF TypeOK
    <3> QED BY <2>2, <3>1 DEF Table
  <2>4. kind'[new] = kind[new]
    BY <1>3, <2>1 DEF StepFor
  <2>5. u \in UserPages /\ u.pml4_index # v.pml4_index
    BY <1>3, CallServesUserPage
  <2>6. at = LocalTable(u) /\ level \in {2, 3, 4} /\ ~is_present(mem[at][IndexAt(u)])
    BY <1>3 DEF LinkTarget, TypeOK
  <2>7. IndexAt(u) \in Slots /\ at \in Pages /\ kind[at] = level
    BY <1>3, <2>5, <2>6, LocalTableKind, UserPageIndices DEF IndexAt
  <2>8. at \notin free
    BY <2>6, <2>7 DEF FreshPages
  <2>9. ~OnPath(v, at, IndexAt(u))
    <3>1. (level = 3 => HasPdpt(u)) /\ (level = 2 => HasPd(u))
      BY <1>3 DEF CallPath
    <3>2. /\ HasPdpt(v) => kind[PdptOf(v)] = 3
          /\ HasPd(v) => kind[PdOf(v)] = 2
          /\ HasPt(v) => kind[PtOf(v)] = 1
      BY PathKinds
    <3>3. CASE level = 4
      BY <2>5, <2>7, <3>2, <3>3 DEF OnPath, IndexAt
    <3>4. CASE level = 3
      BY <2>5, <2>6, <2>7, <3>1, <3>2, <3>4, RegionsApart, LocalTableCases DEF OnPath, RootIsPml4
    <3>5. CASE level = 2
      BY <2>5, <2>6, <2>7, <3>1, <3>2, <3>5, RegionsApart, LocalTableCases DEF OnPath, RootIsPml4
    <3> QED BY <2>6, <3>3, <3>4, <3>5
  <2>10. mem'[at][IndexAt(u)] = mem[at][IndexAt(u)]
    BY <2>7, <2>8, <2>9 DEF StepFor
  <2> QED BY <2>3, <2>4, <2>6, <2>10
<1>4. root' = root /\ mapper' = mapper /\ free' \subseteq free
  BY DEF StepFor
<1> QED BY <1>2, <1>3, <1>4, CallUndisturbed

-----------------------------------------------------------------------------
(* Refinement.                                                             *)

LEMMA ServedPages ==
  /\ Served \subseteq UserPages
  /\ Served = VAddrs \ {v \in VAddrs : reserved(v)}
BY ConstantsAssumption DEF Served, UserPages

(* The entry a call looks at in the page table is the page's translation.  *)
LEMMA LeafIsTranslation ==
  ASSUME Inv, pc = "probe", level = 1
  PROVE  EntryAt = Translate(req.v_addr)
<1>1. HasPt(req.v_addr)
  BY DEF Inv, TreeInv, CallPath
<1>2. MapperTable(req.v_addr) = PtOf(req.v_addr)
  BY MapperTableIsLocal, LocalTableCases DEF Inv, TreeInv
<1>3. IndexAt(req.v_addr) = req.v_addr.pt_index
  BY DEF IndexAt
<1> QED BY <1>1, <1>2, <1>3, TranslateIs DEF EntryAt

(* A call that finds an entry missing is for a page that is not mapped,    *)
(* and a call never meets a large page.                                    *)
LEMMA ProbedEntry ==
  ASSUME Inv, pc = "probe", level > 1
  PROVE  /\ ~is_present(EntryAt) => ~is_present(Translate(req.v_addr))
         /\ is_present(EntryAt) => ~is_leaf(EntryAt)
<1> DEFINE v == req.v_addr
<1> USE DEF Inv, TreeInv
<1>0. v \in UserPages
  BY CallServesUserPage
<1>1. EntryAt = mem[LocalTable(v)][IndexAt(v)]
  BY MapperTableIsLocal DEF EntryAt
<1>2. level \in {2, 3, 4}
  BY DEF TypeOK
<1>3. /\ level = 4 => IndexAt(v) = v.pml4_index
      /\ level = 3 => IndexAt(v) = v.pdpt_index
      /\ level = 2 => IndexAt(v) = v.pd_index
  BY DEF IndexAt
<1>4. /\ level = 4 => EntryAt = mem[root][v.pml4_index]
      /\ level = 3 => EntryAt = mem[PdptOf(v)][v.pdpt_index]
      /\ level = 2 => EntryAt = mem[PdOf(v)][v.pd_index]
  BY <1>1, <1>3, LocalTableCases
<1>5. ASSUME ~is_present(EntryAt) PROVE ~is_present(Translate(v))
  <2>1. ~HasPt(v)
    BY <1>2, <1>4, <1>5 DEF HasPt, HasPd, HasPdpt
  <2> QED BY <2>1, TranslateIs, ZeroNotPresent
<1>6. ASSUME is_present(EntryAt) PROVE ~is_leaf(EntryAt)
  <2>1. LocalTable(v) \in Pages /\ kind[LocalTable(v)] = level
    BY LocalTableKind
  <2>2. IndexAt(v) \in Slots
    BY IndexAtIsSlot
  <2>3. ~SelfSlot(LocalTable(v), IndexAt(v))
    <3>1. LocalTable(v) = root => level = 4
      BY <2>1 DEF RootIsPml4
    <3> QED BY <1>0, <1>3, <3>1, UserPageIndices DEF SelfSlot
  <2>4. Node(LocalTable(v), IndexAt(v))
    BY <1>1, <1>2, <1>6, <2>1, <2>3 DEF Node
  <2> QED BY <1>1, <2>1, <2>2, <2>4 DEF NodesPointDown
<1> QED BY <1>5, <1>6

(* The abstract map after a step, from the translations of served pages.   *)
LEMMA AbstractMapKept ==
  ASSUME \A u \in UserPages : Translate(u)' = Translate(u)
  PROVE  [v \in Served |-> Translate(v)]' = [v \in Served |-> Translate(v)]
BY ServedPages DEF Served, reserved

LEMMA InitRefines == Init => Space!Init
<1> SUFFICES ASSUME Init PROVE Space!Init
  OBVIOUS
<1>1. ASSUME NEW v \in Served PROVE Translate(v) = {}
  <2>1. ~HasPdpt(v)
    BY ServedPages, UserPageIndices, TablePageIsPage, ZeroNotPresent DEF Init, HasPdpt, Zeroed
  <2> QED BY <2>1, TranslateIs DEF HasPt, HasPd
<1>2. [v \in Served |-> Translate(v)] = [v \in VAddrs \ {u \in VAddrs : reserved(u)} |-> {}]
  BY <1>1, ServedPages
<1>3. req \in Space!Call
  BY DEF Init, Request, Space!Call
<1> QED BY <1>2, <1>3 DEF Init, Space!Init, NoResult

(* The address space reads and builds its words as the page tables do.     *)
LEMMA SameWords ==
  /\ \A w : Space!is_present(w) <=> is_present(w)
  /\ \A w : Space!child_addr(w) = child_addr(w)
  /\ \A f, p : Space!LeafEntry(f, p) = LeafEntry(f, p)
<1>1. \A w : Space!is_present(w) <=> is_present(w)
  BY DEF Space!is_present, is_present, Space!PRESENT, PRESENT
<1>2. \A w : Space!child_addr(w) = child_addr(w)
  BY DEF Space!child_addr, child_addr, Space!ADDRESS_MASK, ADDRESS_MASK
<1>3. \A f : Space!EntryFrom(f) = EntryFrom(f)
  BY Zenon DEF Space!EntryFrom, EntryFrom, Space!contains, contains,
     Space!V_WRITABLE, V_WRITABLE, Space!V_USER_MODE, V_USER_MODE,
     Space!V_WRITE_THROUGH, V_WRITE_THROUGH, Space!V_CACHE_DISABLED, V_CACHE_DISABLED,
     Space!V_ACCESSED, V_ACCESSED, Space!WRITABLE, WRITABLE, Space!USER_MODE, USER_MODE,
     Space!WRITE_THROUGH, WRITE_THROUGH, Space!CACHE_DISABLED, CACHE_DISABLED,
     Space!ACCESSED, ACCESSED
<1>4. \A x, p : Space!PtEntry(x, p) = PtEntry(x, p)
  BY DEF Space!PtEntry, PtEntry, Space!PRESENT, PRESENT, Space!ADDRESS_MASK, ADDRESS_MASK
<1>5. \A f, p : Space!LeafEntry(f, p) = LeafEntry(f, p)
  BY <1>3, <1>4 DEF Space!LeafEntry, LeafEntry, Space!contains, contains,
     Space!V_GLOBAL, V_GLOBAL, Space!PT_GLOBAL, PT_GLOBAL
<1> QED BY <1>1, <1>2, <1>5

LEMMA StepRefines == Inv /\ Inv' /\ [Next]_vars => [Space!Next]_(Space!vars)
<1> SUFFICES ASSUME Inv, Inv', [Next]_vars PROVE [Space!Next]_(Space!vars)
  OBVIOUS
<1> DEFINE vm == [v \in Served |-> Translate(v)]
<1>0. TreeInv /\ TypeOK' /\ TypeOK
  BY DEF Inv, TreeInv
<1>s. ASSUME vm' = vm, (pc # "idle")' = (pc # "idle"), req' = req, ret' = ret
      PROVE  [Space!Next]_(Space!vars)
  BY <1>s DEF Space!vars
<1>t. ASSUME UNCHANGED TableVars, free' = free, mapper' = mapper PROVE vm' = vm
  BY <1>0, <1>t, TreeUntouched, AbstractMapKept
<1>r. ASSUME pc # "idle" PROVE req.v_addr \in Served /\ vm[req.v_addr] = Translate(req.v_addr)
  BY <1>0, <1>r DEF TreeInv, CallPath, TypeOK, Request, Served
<1>1. ASSUME NEW p \in PAddrs, NEW v \in VAddrs, NEW f \in Flags, MapReserved(p, v, f)
      PROVE  [Space!Next]_(Space!vars)
  <2> DEFINE c == [p_addr |-> p, v_addr |-> v, flags |-> f]
  <2>1. vm' = vm
    BY <1>1, <1>t DEF MapReserved, TableVars
  <2>2. Space!Reject(c)
    BY <1>1, <2>1 DEF MapReserved, Space!Reject, callVars, Err
  <2>3. c \in Space!Call
    BY DEF Space!Call
  <2> QED BY <2>2, <2>3 DEF Space!Next
<1>2. ASSUME NEW p \in PAddrs, NEW v \in VAddrs, NEW f \in Flags, MapBegin(p, v, f)
      PROVE  [Space!Next]_(Space!vars)
  <2> DEFINE c == [p_addr |-> p, v_addr |-> v, flags |-> f]
  <2>1. vm' = vm
    BY <1>2, <1>t DEF MapBegin, TableVars
  <2>2. Space!Begin(c)
    BY <1>2, <2>1 DEF MapBegin, Space!Begin, NoResult
  <2>3. c \in Space!Call
    BY DEF Space!Call
  <2> QED BY <2>2, <2>3 DEF Space!Next
<1>3. CASE Descend
  <2>1. ~is_leaf(EntryAt)
    BY <1>3, ProbedEntry DEF Descend
  <2>2. vm' = vm
    BY <1>3, <1>t DEF Descend, TableVars
  <2> QED BY <1>3, <1>s, <2>1, <2>2 DEF Descend
<1>4. CASE Allocate
  <2>1. vm' = vm
    BY <1>0, <1>4, AllocateKeepsTree, AbstractMapKept
  <2> QED BY <1>4, <1>s, <2>1 DEF Allocate
<1>5. CASE AllocateFails
  <2>1. vm' = vm
    BY <1>5, <1>t DEF AllocateFails, TableVars
  <2>2. ~is_present(vm[req.v_addr])
    BY <1>5, <1>r, ProbedEntry DEF AllocateFails
  <2>3. /\ pc # "idle" /\ (pc # "idle")' = FALSE
        /\ ret' = <<"page_table", {}>> /\ req' = req
    BY <1>5 DEF AllocateFails, Return, Err
  <2>4. Space!OutOfTables
    BY SameWords, <2>1, <2>2, <2>3 DEF Space!OutOfTables
  <2> QED BY <2>4 DEF Space!Next
<1>6. CASE Link
  <2>1. vm' = vm
    BY <1>0, <1>6, LinkKeepsTree, AbstractMapKept
  <2> QED BY <1>6, <1>s, <2>1 DEF Link
<1>7. CASE AlreadyMapped
  <2>1. vm' = vm
    BY <1>7, <1>t DEF AlreadyMapped, TableVars
  <2>2. EntryAt = vm[req.v_addr]
    BY <1>7, <1>r, LeafIsTranslation DEF AlreadyMapped
  <2>3. /\ pc # "idle" /\ (pc # "idle")' = FALSE
        /\ ret' = <<"already_mapped", child_addr(EntryAt)>> /\ req' = req
        /\ is_present(EntryAt)
    BY <1>7 DEF AlreadyMapped, Return, Err
  <2>4. Space!AlreadyMapped
    BY SameWords, <2>1, <2>2, <2>3 DEF Space!AlreadyMapped
  <2> QED BY <2>4 DEF Space!Next
<1>8. CASE WriteLeaf
  <2> DEFINE w == req.v_addr
             e == LeafEntry(req.flags, req.p_addr)
  <2>1. /\ ~is_present(Translate(w))
        /\ \A u \in UserPages : Translate(u)' = IF u = w THEN e ELSE Translate(u)
    BY <1>0, <1>8, WriteLeafKeepsTree
  <2>2. w \in Served /\ vm[w] = Translate(w)
    BY <1>8, <1>r DEF WriteLeaf
  <2>3. vm' = [vm EXCEPT ![w] = e]
    <3>1. vm' = [u \in Served |-> Translate(u)']
      BY DEF Served, reserved
    <3> HIDE DEF e
    <3>2. \A u \in Served : Translate(u)' = IF u = w THEN e ELSE Translate(u)
      BY <2>1, ServedPages
    <3> QED BY <2>2, <3>1, <3>2
  <2>4. /\ pc # "idle" /\ (pc # "idle")' = FALSE
        /\ ret' = <<"ok", {}>> /\ req' = req
    BY <1>8 DEF WriteLeaf, Return, Ok
  <2>5. Space!Map
    BY SameWords, <2>1, <2>2, <2>3, <2>4 DEF Space!Map
  <2> QED BY <2>5 DEF Space!Next
<1>9. CASE Finish
  <2>1. vm' = vm
    BY <1>0, <1>9, FinishKeepsTree, AbstractMapKept
  <2> QED BY <1>9, <1>s, <2>1 DEF Finish, callVars
<1>10. CASE FinishFails
  <2>1. vm' = vm
    BY <1>0, <1>10, TreeUntouched, AbstractMapKept DEF FinishFails, TableVars
  <2> QED BY <1>10, <1>s, <2>1 DEF FinishFails, callVars
<1>11. CASE UNCHANGED vars
  <2>1. vm' = vm
    BY <1>11, <1>t DEF vars, TableVars
  <2> QED BY <1>11, <1>s, <2>1 DEF vars
<1> QED BY <1>1, <1>2, <1>3, <1>4, <1>5, <1>6, <1>7, <1>8, <1>9, <1>10, <1>11 DEF Next, MapStep

(* The page tables implement the address space: a caller of `map` cannot   *)
(* tell them from a table of single translations that only grows.          *)
THEOREM Refinement == Spec => ImplementsAddressSpace
<1> QED BY InitRefines, StepRefines, Invariance, PTL
        DEF Spec, ImplementsAddressSpace, Space!Spec
=============================================================================
