------------------------- MODULE ConcurrentMapProofs -------------------------
(***************************************************************************)
(* Two callers of `map` that never work below the same entry of the PML4   *)
(* table at the same time keep the tables sound, for every memory and      *)
(* every allocator.  Each caller sees the shared tables through an         *)
(* instance of VirtualMapProofs: its own steps are steps of that module,   *)
(* and the other's are shown to leave its call alone.                      *)
(***************************************************************************)
EXTENDS ConcurrentMap, TLAPS

AP == INSTANCE VirtualMapProofs WITH pc <- pcA, level <- levelA, req <- reqA,
                                     at <- atA, new <- newA, ret <- retA
BP == INSTANCE VirtualMapProofs WITH pc <- pcB, level <- levelB, req <- reqB,
                                     at <- atB, new <- newB, ret <- retB

-----------------------------------------------------------------------------
(* The instances of VirtualMap are instances of the same module: what they *)
(* say of constants, and of the tables the callers share, is the same.     *)

LEMMA Constants == AP!ConstantsAssumption /\ BP!ConstantsAssumption
BY TablesAssumption
   DEF A!ConstantsAssumption, A!VAddrInfo, A!Word, A!VFlags, A!PageAddr, A!ADDRESS_MASK,
       AP!ConstantsAssumption, AP!VAddrInfo, AP!Word, AP!VFlags, AP!PageAddr, AP!ADDRESS_MASK,
       BP!ConstantsAssumption, BP!VAddrInfo, BP!Word, BP!VFlags, BP!PageAddr, BP!ADDRESS_MASK

LEMMA StepsOfA ==
  /\ A!MapStep <=> AP!MapStep
  /\ A!Finish <=> AP!Finish
  /\ \A p, v, f : A!MapBegin(p, v, f) <=> AP!MapBegin(p, v, f)
<1>1. A!MapStep <=> AP!MapStep
  BY DEF A!MapStep, A!Descend, A!Allocate, A!AllocateFails, A!Link, A!AlreadyMapped, A!WriteLeaf,
       A!NewPageTable, A!Return, A!Accessible, A!EntryAt, A!LeafAddr, A!MapperTable, A!LocalTable,
       A!RecursiveTable, A!MmuWalk, A!IndexAt, A!Pages, A!Zeroed, A!Err, A!Ok, A!PRESENT,
       A!WRITABLE, A!USER_MODE, A!WRITE_THROUGH, A!CACHE_DISABLED, A!ACCESSED, A!UNION_IS_LEAF,
       A!PT_GLOBAL, A!ADDRESS_MASK, A!PD_ADDRESS_MASK, A!PDPT_ADDRESS_MASK, A!V_WRITABLE,
       A!V_USER_MODE, A!V_WRITE_THROUGH, A!V_CACHE_DISABLED, A!V_ACCESSED, A!V_GLOBAL, A!contains,
       A!EntryFrom, A!NodeEntry, A!PtEntry, A!LeafEntry, A!child_addr, A!is_present, A!is_leaf,
       AP!MapStep, AP!Descend, AP!Allocate, AP!AllocateFails, AP!Link, AP!AlreadyMapped,
       AP!WriteLeaf, AP!NewPageTable, AP!Return, AP!Accessible, AP!EntryAt, AP!LeafAddr,
       AP!MapperTable, AP!LocalTable, AP!RecursiveTable, AP!MmuWalk, AP!IndexAt, AP!Pages,
       AP!Zeroed, AP!Err, AP!Ok, AP!PRESENT, AP!WRITABLE, AP!USER_MODE, AP!WRITE_THROUGH,
       AP!CACHE_DISABLED, AP!ACCESSED, AP!UNION_IS_LEAF, AP!PT_GLOBAL, AP!ADDRESS_MASK,
       AP!PD_ADDRESS_MASK, AP!PDPT_ADDRESS_MASK, AP!V_WRITABLE, AP!V_USER_MODE, AP!V_WRITE_THROUGH,
       AP!V_CACHE_DISABLED, AP!V_ACCESSED, AP!V_GLOBAL, AP!contains, AP!EntryFrom, AP!NodeEntry,
       AP!PtEntry, AP!LeafEntry, AP!child_addr, AP!is_present, AP!is_leaf
<1>2. A!Finish <=> AP!Finish
  BY DEF A!Finish, A!callVars, A!NodeEntry, A!WRITABLE, A!PRESENT, A!ADDRESS_MASK, AP!Finish,
       AP!callVars, AP!NodeEntry, AP!WRITABLE, AP!PRESENT, AP!ADDRESS_MASK
<1>3. \A p, v, f : A!MapBegin(p, v, f) <=> AP!MapBegin(p, v, f)
  BY DEF A!MapBegin, AP!MapBegin, A!reserved, AP!reserved, A!NoResult, AP!NoResult
<1> QED BY <1>1, <1>2, <1>3

LEMMA StepsOfB ==
  /\ B!MapStep <=> BP!MapStep
  /\ \A p, v, f : B!MapBegin(p, v, f) <=> BP!MapBegin(p, v, f)
<1>1. B!MapStep <=> BP!MapStep
  BY DEF B!MapStep, B!Descend, B!Allocate, B!AllocateFails, B!Link, B!AlreadyMapped, B!WriteLeaf,
       B!NewPageTable, B!Return, B!Accessible, B!EntryAt, B!LeafAddr, B!MapperTable, B!LocalTable,
       B!RecursiveTable, B!MmuWalk, B!IndexAt, B!Pages, B!Zeroed, B!Err, B!Ok, B!PRESENT,
       B!WRITABLE, B!USER_MODE, B!WRITE_THROUGH, B!CACHE_DISABLED, B!ACCESSED, B!UNION_IS_LEAF,
       B!PT_GLOBAL, B!ADDRESS_MASK, B!PD_ADDRESS_MASK, B!PDPT_ADDRESS_MASK, B!V_WRITABLE,
       B!V_USER_MODE, B!V_WRITE_THROUGH, B!V_CACHE_DISABLED, B!V_ACCESSED, B!V_GLOBAL, B!contains,
       B!EntryFrom, B!NodeEntry, B!PtEntry, B!LeafEntry, B!child_addr, B!is_present, B!is_leaf,
       BP!MapStep, BP!Descend, BP!Allocate, BP!AllocateFails, BP!Link, BP!AlreadyMapped,
       BP!WriteLeaf, BP!NewPageTable, BP!Return, BP!Accessible, BP!EntryAt, BP!LeafAddr,
       BP!MapperTable, BP!LocalTable, BP!RecursiveTable, BP!MmuWalk, BP!IndexAt, BP!Pages,
       BP!Zeroed, BP!Err, BP!Ok, BP!PRESENT, BP!WRITABLE, BP!USER_MODE, BP!WRITE_THROUGH,
       BP!CACHE_DISABLED, BP!ACCESSED, BP!UNION_IS_LEAF, BP!PT_GLOBAL, BP!ADDRESS_MASK,
       BP!PD_ADDRESS_MASK, BP!PDPT_ADDRESS_MASK, BP!V_WRITABLE, BP!V_USER_MODE, BP!V_WRITE_THROUGH,
       BP!V_CACHE_DISABLED, BP!V_ACCESSED, BP!V_GLOBAL, BP!contains, BP!EntryFrom, BP!NodeEntry,
       BP!PtEntry, BP!LeafEntry, BP!child_addr, BP!is_present, BP!is_leaf
<1>2. \A p, v, f : B!MapBegin(p, v, f) <=> BP!MapBegin(p, v, f)
  BY DEF B!MapBegin, BP!MapBegin, B!reserved, BP!reserved, B!NoResult, BP!NoResult
<1> QED BY <1>1, <1>2

(* What both callers see of the tables. *)
Tables ==
  /\ AP!RootIsPml4 /\ AP!NodesPointDown /\ AP!SoleParent /\ AP!RecursionSlot
  /\ AP!DoneIsMapped /\ AP!MapDurable /\ AP!NothingElseMapped
TablesOfB ==
  /\ BP!RootIsPml4 /\ BP!NodesPointDown /\ BP!SoleParent /\ BP!RecursionSlot
  /\ BP!DoneIsMapped /\ BP!MapDurable /\ BP!NothingElseMapped

LEMMA SameTables == (Tables <=> TablesOfB) /\ (Tables' <=> TablesOfB')
<1>1. Tables <=> TablesOfB
  BY DEF Tables, TablesOfB,
      AP!RootIsPml4, AP!NodesPointDown, AP!SoleParent, AP!RecursionSlot, AP!DoneIsMapped,
       AP!MapDurable, AP!NothingElseMapped, AP!Translate, AP!MmuWalk, AP!UserPages, AP!VAddrInfo,
       AP!reserved, AP!Pages, AP!Node, AP!SelfSlot, AP!NodeEntry, AP!WRITABLE, AP!PRESENT,
       AP!UNION_IS_LEAF, AP!ADDRESS_MASK, AP!child_addr, AP!is_present, AP!is_leaf, BP!RootIsPml4,
       BP!NodesPointDown, BP!SoleParent, BP!RecursionSlot, BP!DoneIsMapped, BP!MapDurable,
       BP!NothingElseMapped, BP!Translate, BP!MmuWalk, BP!UserPages, BP!VAddrInfo, BP!reserved,
       BP!Pages, BP!Node, BP!SelfSlot, BP!NodeEntry, BP!WRITABLE, BP!PRESENT, BP!UNION_IS_LEAF,
       BP!ADDRESS_MASK, BP!child_addr, BP!is_present, BP!is_leaf
<1>2. Tables' <=> TablesOfB'
  BY DEF Tables, TablesOfB,
      AP!RootIsPml4, AP!NodesPointDown, AP!SoleParent, AP!RecursionSlot, AP!DoneIsMapped,
       AP!MapDurable, AP!NothingElseMapped, AP!Translate, AP!MmuWalk, AP!UserPages, AP!VAddrInfo,
       AP!reserved, AP!Pages, AP!Node, AP!SelfSlot, AP!NodeEntry, AP!WRITABLE, AP!PRESENT,
       AP!UNION_IS_LEAF, AP!ADDRESS_MASK, AP!child_addr, AP!is_present, AP!is_leaf, BP!RootIsPml4,
       BP!NodesPointDown, BP!SoleParent, BP!RecursionSlot, BP!DoneIsMapped, BP!MapDurable,
       BP!NothingElseMapped, BP!Translate, BP!MmuWalk, BP!UserPages, BP!VAddrInfo, BP!reserved,
       BP!Pages, BP!Node, BP!SelfSlot, BP!NodeEntry, BP!WRITABLE, BP!PRESENT, BP!UNION_IS_LEAF,
       BP!ADDRESS_MASK, BP!child_addr, BP!is_present, BP!is_leaf
<1> QED BY <1>1, <1>2

LEMMA SameTypes ==
  /\ AP!TypeOK' /\ BP!TypeOK /\ UNCHANGED callB => BP!TypeOK'
  /\ BP!TypeOK' /\ AP!TypeOK /\ UNCHANGED callA => AP!TypeOK'
BY DEF callA, callB, AP!TypeOK, AP!Pages, AP!Table, AP!Request, AP!Results, AP!VAddrInfo, AP!Word, AP!VFlags,
       AP!PageAddr, AP!ADDRESS_MASK, BP!TypeOK, BP!Pages, BP!Table, BP!Request, BP!Results,
       BP!VAddrInfo, BP!Word, BP!VFlags, BP!PageAddr, BP!ADDRESS_MASK

LEMMA SameSteps ==
  ASSUME NEW v, NEW linked
  PROVE  AP!StepFor(v, linked) <=> BP!StepFor(v, linked)
BY DEF AP!StepFor, AP!OnPath, AP!HasPdpt, AP!HasPd, AP!HasPt, AP!PdptOf, AP!PdOf, AP!PtOf, AP!Pages,
       AP!UserPages, AP!VAddrInfo, AP!reserved, AP!child_addr, AP!is_present, AP!PRESENT,
       AP!ADDRESS_MASK, BP!StepFor, BP!OnPath, BP!HasPdpt, BP!HasPd, BP!HasPt, BP!PdptOf, BP!PdOf,
       BP!PtOf, BP!Pages, BP!UserPages, BP!VAddrInfo, BP!reserved, BP!child_addr, BP!is_present,
       BP!PRESENT, BP!ADDRESS_MASK

LEMMA Views ==
  /\ AP!Inv <=> Tables /\ AP!TypeOK /\ AP!FreshPages /\ AP!CallPath /\ AP!LinkTarget
  /\ BP!Inv <=> TablesOfB /\ BP!TypeOK /\ BP!FreshPages /\ BP!CallPath /\ BP!LinkTarget
BY DEF Tables, TablesOfB, AP!Inv, AP!TreeInv, BP!Inv, BP!TreeInv

LEMMA ViewsNext ==
  /\ AP!Inv' <=> Tables' /\ AP!TypeOK' /\ AP!FreshPages' /\ AP!CallPath' /\ AP!LinkTarget'
  /\ BP!Inv' <=> TablesOfB' /\ BP!TypeOK' /\ BP!FreshPages' /\ BP!CallPath' /\ BP!LinkTarget'
BY DEF Tables, TablesOfB, AP!Inv, AP!TreeInv, BP!Inv, BP!TreeInv

-----------------------------------------------------------------------------
(* The invariant: each caller finds the tables as if it were alone, their  *)
(* calls are for different regions and about to link different pages, and  *)
(* no page is lost to both.                                                *)
ConcurrentInv ==
  /\ AP!Inv /\ BP!Inv /\ AP!LocalRoot /\ BP!LocalRoot
  /\ pcA = "link" /\ pcB = "link" => newA # newB
  /\ pcA # "idle" /\ pcB # "idle" => reqA.v_addr.pml4_index # reqB.v_addr.pml4_index
  /\ pcA # "idle" \/ pcB # "idle" => mapper = "recursive"
  /\ \A page \in TablePages : AP!NotLost(page) \/ BP!NotLost(page)

LEMMA ConcurrentInit == Init => ConcurrentInv
<1> SUFFICES ASSUME Init PROVE ConcurrentInv
  OBVIOUS
<1>1. AP!Init /\ BP!Init
  BY DEF Init, A!Init, A!Pages, A!Zeroed, A!Request, A!NoResult, B!Init, B!Pages, B!Zeroed, B!Request,
       B!NoResult, AP!Init, AP!Pages, AP!Zeroed, AP!Request, AP!NoResult, BP!Init, BP!Pages,
       BP!Zeroed, BP!Request, BP!NoResult
<1>2. AP!Inv /\ BP!Inv
  BY <1>1, Constants, AP!InitInv, BP!InitInv
<1>3. AP!LocalRoot /\ BP!LocalRoot /\ pcA = "idle" /\ pcB = "idle" /\ free = TablePages
  BY <1>1 DEF AP!Init, BP!Init, AP!LocalRoot, BP!LocalRoot
<1>4. \A page \in TablePages : AP!NotLost(page)
  BY <1>3 DEF AP!NotLost
<1> QED BY <1>2, <1>3, <1>4 DEF ConcurrentInv

(* A step of one call leaves the other where it is. *)
LEMMA StepAKeepsB ==
  ASSUME ConcurrentInv, AP!MapStep, UNCHANGED callB, AP!Inv'
  PROVE  BP!Inv'
<1> DEFINE linked == {page \in {newA} : pcA = "link"}
<1>1. /\ pcA # "idle" /\ reqA.v_addr \in AP!UserPages
      /\ AP!StepFor(reqA.v_addr, linked)
  BY Constants, AP!StepWrites DEF ConcurrentInv
<1>2. reqA.v_addr \in BP!UserPages /\ BP!StepFor(reqA.v_addr, linked)
  <2>1. AP!UserPages = BP!UserPages
    BY DEF AP!UserPages, BP!UserPages, AP!VAddrInfo, BP!VAddrInfo, AP!reserved, BP!reserved
  <2> QED BY <1>1, <2>1, SameSteps
<1>3. BP!TypeOK'
  BY SameTypes, Views, ViewsNext DEF ConcurrentInv
<1>4. \A p \in free' : kind'[p] = 0
  BY ViewsNext DEF AP!FreshPages
<1>5. pcB # "idle" => reqA.v_addr.pml4_index # reqB.v_addr.pml4_index
  BY <1>1 DEF ConcurrentInv
<1>6. pcB = "link" => newB \notin linked
  BY DEF ConcurrentInv
<1>7. BP!Inv /\ UNCHANGED <<pcB, levelB, reqB, atB, newB>>
  BY DEF ConcurrentInv, callB
<1> HIDE DEF linked
<1>8. BP!FreshPages' /\ BP!CallPath' /\ BP!LinkTarget'
  BY <1>2, <1>3, <1>4, <1>5, <1>6, <1>7, Constants, BP!OtherCallKept
<1> QED BY <1>3, <1>8, SameTables, ViewsNext

LEMMA StepBKeepsA ==
  ASSUME ConcurrentInv, BP!MapStep, UNCHANGED callA, BP!Inv'
  PROVE  AP!Inv'
<1> DEFINE linked == {page \in {newB} : pcB = "link"}
<1>1. /\ pcB # "idle" /\ reqB.v_addr \in BP!UserPages
      /\ BP!StepFor(reqB.v_addr, linked)
  BY Constants, BP!StepWrites DEF ConcurrentInv
<1>2. reqB.v_addr \in AP!UserPages /\ AP!StepFor(reqB.v_addr, linked)
  <2>1. AP!UserPages = BP!UserPages
    BY DEF AP!UserPages, BP!UserPages, AP!VAddrInfo, BP!VAddrInfo, AP!reserved, BP!reserved
  <2> QED BY <1>1, <2>1, SameSteps
<1>3. AP!TypeOK'
  BY SameTypes, Views, ViewsNext DEF ConcurrentInv
<1>4. \A p \in free' : kind'[p] = 0
  BY ViewsNext DEF BP!FreshPages
<1>5. pcA # "idle" => reqB.v_addr.pml4_index # reqA.v_addr.pml4_index
  BY <1>1 DEF ConcurrentInv
<1>6. pcA = "link" => newA \notin linked
  BY DEF ConcurrentInv
<1>7. AP!Inv /\ UNCHANGED <<pcA, levelA, reqA, atA, newA>>
  BY DEF ConcurrentInv, callA
<1> HIDE DEF linked
<1>8. AP!FreshPages' /\ AP!CallPath' /\ AP!LinkTarget'
  BY <1>2, <1>3, <1>4, <1>5, <1>6, <1>7, Constants, AP!OtherCallKept
<1> QED BY <1>3, <1>8, SameTables, ViewsNext

(* A page is lost to neither call by a step of A. *)
LEMMA NothingLostByA ==
  ASSUME ConcurrentInv, [AP!Next]_AP!vars, UNCHANGED callB
  PROVE  (\A page \in TablePages : AP!NotLost(page) \/ BP!NotLost(page))'
<1> SUFFICES ASSUME NEW page \in TablePages
             PROVE  (AP!NotLost(page) \/ BP!NotLost(page))'
  OBVIOUS
<1>1. CASE AP!NotLost(page)
  BY <1>1, Constants, AP!NotLostStep DEF ConcurrentInv
<1>2. CASE pcB = "link" /\ page = newB
  BY <1>2 DEF BP!NotLost, callB
<1>3. BP!NotLost(page) => AP!NotLost(page) \/ (pcB = "link" /\ page = newB)
  BY DEF AP!NotLost, AP!Node, AP!SelfSlot, AP!Pages, AP!child_addr, AP!is_present, AP!PRESENT,
       AP!ADDRESS_MASK, BP!NotLost, BP!Node, BP!SelfSlot, BP!Pages, BP!child_addr, BP!is_present,
       BP!PRESENT, BP!ADDRESS_MASK
<1> QED BY <1>1, <1>2, <1>3 DEF ConcurrentInv

(* A page is lost to neither call by a step of B. *)
LEMMA NothingLostByB ==
  ASSUME ConcurrentInv, [BP!Next]_BP!vars, UNCHANGED callA
  PROVE  (\A page \in TablePages : AP!NotLost(page) \/ BP!NotLost(page))'
<1> SUFFICES ASSUME NEW page \in TablePages
             PROVE  (AP!NotLost(page) \/ BP!NotLost(page))'
  OBVIOUS
<1>1. CASE BP!NotLost(page)
  BY <1>1, Constants, BP!NotLostStep DEF ConcurrentInv
<1>2. CASE pcA = "link" /\ page = newA
  BY <1>2 DEF AP!NotLost, callA
<1>3. AP!NotLost(page) => BP!NotLost(page) \/ (pcA = "link" /\ page = newA)
  BY DEF AP!NotLost, AP!Node, AP!SelfSlot, AP!Pages, AP!child_addr, AP!is_present, AP!PRESENT,
       AP!ADDRESS_MASK, BP!NotLost, BP!Node, BP!SelfSlot, BP!Pages, BP!child_addr, BP!is_present,
       BP!PRESENT, BP!ADDRESS_MASK
<1> QED BY <1>1, <1>2, <1>3 DEF ConcurrentInv

LEMMA ConcurrentStep ==
  ASSUME RegionContract, ConcurrentInv, [Next]_vars
  PROVE  ConcurrentInv'
<1> USE Constants
<1>1. /\ AP!Inv /\ BP!Inv /\ AP!LocalRoot /\ BP!LocalRoot
      /\ pcA # "idle" \/ pcB # "idle" => mapper = "recursive"
      /\ pcA = "link" /\ pcB = "link" => newA # newB
      /\ pcA # "idle" /\ pcB # "idle" => reqA.v_addr.pml4_index # reqB.v_addr.pml4_index
  BY DEF ConcurrentInv
<1>2. CASE BuilderFinish
  <2>1. AP!Finish /\ UNCHANGED callB
    BY <1>2, StepsOfA DEF BuilderFinish
  <2>2. /\ pcA = "idle" /\ mapper = "local" /\ mapper' = "recursive" /\ pcB = "idle"
        /\ pcA' = pcA /\ pcB' = pcB
    BY <1>1, <2>1 DEF AP!Finish, AP!callVars, callB
  <2>3. BP!Finish
    BY <2>1, <2>2
    DEF callB, AP!Finish, AP!callVars, AP!NodeEntry, AP!WRITABLE, AP!PRESENT, AP!ADDRESS_MASK, BP!Finish,
       BP!callVars, BP!NodeEntry, BP!WRITABLE, BP!PRESENT, BP!ADDRESS_MASK
  <2>4. AP!Next /\ BP!Next
    BY <2>1, <2>3 DEF AP!Next, BP!Next
  <2>5. AP!Inv' /\ BP!Inv' /\ AP!LocalRoot' /\ BP!LocalRoot'
    BY <1>1, <2>4, AP!NextInv, BP!NextInv, AP!LocalRootStep, BP!LocalRootStep
  <2>6. (\A page \in TablePages : AP!NotLost(page) \/ BP!NotLost(page))'
    BY <2>1, <2>4, NothingLostByA
  <2> QED BY <2>2, <2>5, <2>6 DEF ConcurrentInv
<1>3. ASSUME NEW p \in PAddrs, NEW v \in VAddrs, NEW f \in Flags, BeginA(p, v, f)
      PROVE  ConcurrentInv'
  <2>1. AP!MapBegin(p, v, f) /\ UNCHANGED callB /\ mapper = "recursive" /\ MayCall(v, pcB, reqB)
    BY <1>3, StepsOfA DEF BeginA
  <2>2. /\ pcA' = "probe" /\ reqA'.v_addr = v /\ mapper' = mapper
        /\ pcB' = pcB /\ reqB' = reqB /\ newB' = newB
        /\ UNCHANGED <<mem, kind, root, mapper, free, done>>
    BY <2>1 DEF AP!MapBegin, callB
  <2>3. AP!Next
    BY <2>1 DEF AP!Next
  <2>4. UNCHANGED BP!vars
    BY <2>1, <2>2 DEF BP!vars, callB
  <2>5. AP!Inv' /\ BP!Inv' /\ AP!LocalRoot' /\ BP!LocalRoot'
    BY <1>1, <2>3, <2>4, AP!NextInv, BP!NextInv, AP!LocalRootStep, BP!LocalRootStep
  <2>6. (\A page \in TablePages : AP!NotLost(page) \/ BP!NotLost(page))'
    BY <2>1, <2>3, NothingLostByA
  <2>7. pcB # "idle" => v.pml4_index # reqB.v_addr.pml4_index
    <3>1. reqB.v_addr \in VAddrs
      BY <1>1, Views DEF BP!TypeOK, BP!Request
    <3> QED BY <2>1, <3>1 DEF MayCall, RegionContract
  <2> QED BY <2>1, <2>2, <2>5, <2>6, <2>7 DEF ConcurrentInv
<1>4. ASSUME NEW p \in PAddrs, NEW v \in VAddrs, NEW f \in Flags, BeginB(p, v, f)
      PROVE  ConcurrentInv'
  <2>1. BP!MapBegin(p, v, f) /\ UNCHANGED callA /\ mapper = "recursive" /\ MayCall(v, pcA, reqA)
    BY <1>4, StepsOfB DEF BeginB
  <2>2. /\ pcB' = "probe" /\ reqB'.v_addr = v /\ mapper' = mapper
        /\ pcA' = pcA /\ reqA' = reqA /\ newA' = newA
        /\ UNCHANGED <<mem, kind, root, mapper, free, done>>
    BY <2>1 DEF BP!MapBegin, callA
  <2>3. BP!Next
    BY <2>1 DEF BP!Next
  <2>4. UNCHANGED AP!vars
    BY <2>1, <2>2 DEF AP!vars, callA
  <2>5. BP!Inv' /\ AP!Inv' /\ BP!LocalRoot' /\ AP!LocalRoot'
    BY <1>1, <2>3, <2>4, BP!NextInv, AP!NextInv, BP!LocalRootStep, AP!LocalRootStep
  <2>6. (\A page \in TablePages : AP!NotLost(page) \/ BP!NotLost(page))'
    BY <2>1, <2>3, NothingLostByB
  <2>7. pcA # "idle" => v.pml4_index # reqA.v_addr.pml4_index
    <3>1. reqA.v_addr \in VAddrs
      BY <1>1, Views DEF AP!TypeOK, AP!Request
    <3> QED BY <2>1, <3>1 DEF MayCall, RegionContract
  <2> QED BY <2>1, <2>2, <2>5, <2>6, <2>7 DEF ConcurrentInv
<1>5. CASE StepA
  <2>1. AP!MapStep /\ UNCHANGED callB
    BY <1>5, StepsOfA DEF StepA
  <2>2. AP!Next
    BY <2>1 DEF AP!Next
  <2>3. AP!Inv' /\ AP!LocalRoot'
    BY <1>1, <2>2, AP!NextInv, AP!LocalRootStep
  <2>4. BP!Inv'
    BY <2>1, <2>3, StepAKeepsB
  <2>5. BP!LocalRoot'
    BY <2>3 DEF AP!LocalRoot, BP!LocalRoot
  <2>6. (\A page \in TablePages : AP!NotLost(page) \/ BP!NotLost(page))'
    BY <2>1, <2>2, NothingLostByA
  <2>7. pcA # "idle" /\ reqA' = reqA /\ (pcA' = "link" => newA' \in free) /\ mapper' = mapper
    BY <1>1, <2>1, AP!StepWrites DEF AP!StepFor
  <2>8. pcB' = pcB /\ reqB' = reqB /\ newB' = newB
    BY <2>1 DEF callB
  <2>9. pcB = "link" => newB \notin free
    BY <1>1, Views DEF BP!FreshPages
  <2> QED BY <1>1, <2>3, <2>4, <2>5, <2>6, <2>7, <2>8, <2>9 DEF ConcurrentInv
<1>6. CASE StepB
  <2>1. BP!MapStep /\ UNCHANGED callA
    BY <1>6, StepsOfB DEF StepB
  <2>2. BP!Next
    BY <2>1 DEF BP!Next
  <2>3. BP!Inv' /\ BP!LocalRoot'
    BY <1>1, <2>2, BP!NextInv, BP!LocalRootStep
  <2>4. AP!Inv'
    BY <2>1, <2>3, StepBKeepsA
  <2>5. AP!LocalRoot'
    BY <2>3 DEF BP!LocalRoot, AP!LocalRoot
  <2>6. (\A page \in TablePages : AP!NotLost(page) \/ BP!NotLost(page))'
    BY <2>1, <2>2, NothingLostByB
  <2>7. pcB # "idle" /\ reqB' = reqB /\ (pcB' = "link" => newB' \in free) /\ mapper' = mapper
    BY <1>1, <2>1, BP!StepWrites DEF BP!StepFor
  <2>8. pcA' = pcA /\ reqA' = reqA /\ newA' = newA
    BY <2>1 DEF callA
  <2>9. pcA = "link" => newA \notin free
    BY <1>1, Views DEF AP!FreshPages
  <2> QED BY <1>1, <2>3, <2>4, <2>5, <2>6, <2>7, <2>8, <2>9 DEF ConcurrentInv
<1>7. CASE UNCHANGED vars
  <2>1. UNCHANGED AP!vars /\ UNCHANGED BP!vars /\ UNCHANGED callB
    BY <1>7 DEF vars, callA, callB, AP!vars, BP!vars
  <2>2. AP!Inv' /\ BP!Inv' /\ AP!LocalRoot' /\ BP!LocalRoot'
    BY <1>1, <2>1, AP!NextInv, BP!NextInv, AP!LocalRootStep, BP!LocalRootStep
  <2>3. (\A page \in TablePages : AP!NotLost(page) \/ BP!NotLost(page))'
    BY <2>1, NothingLostByA
  <2>4. pcA' = pcA /\ pcB' = pcB /\ reqA' = reqA /\ reqB' = reqB /\ newA' = newA /\ newB' = newB
        /\ mapper' = mapper
    BY <1>7 DEF vars, callA, callB
  <2> QED BY <1>1, <2>2, <2>3, <2>4 DEF ConcurrentInv
<1> QED BY <1>2, <1>3, <1>4, <1>5, <1>6, <1>7 DEF Next

-----------------------------------------------------------------------------
(* Under the contract of regions each of two callers finds the tables as   *)
(* if it were alone, whatever the interleaving of their accesses.          *)
THEOREM ConcurrentInvariance == ASSUME RegionContract PROVE Spec => []ConcurrentInv
<1>1. ConcurrentInv /\ [Next]_vars => ConcurrentInv'
  BY ConcurrentStep
<1> QED BY <1>1, ConcurrentInit, PTL DEF Spec

(* Two threads may call VirtualMap::map at the same time for pages below   *)
(* different entries of the PML4 table: what either mapped stays mapped,   *)
(* neither walks into a page fault, and no table page is lost or linked    *)
(* twice.                                                                  *)
THEOREM RegionsSuffice == ASSUME RegionContract PROVE Spec => []ConcurrentMapSound
<1>1. ConcurrentInv => ConcurrentMapSound
  <2> SUFFICES ASSUME ConcurrentInv PROVE ConcurrentMapSound
    OBVIOUS
  <2> USE Constants
  <2>1. ConcurrentMapDurable
    <3>1. AP!MapDurable
      BY DEF ConcurrentInv, AP!Inv
    <3> QED BY <3>1 DEF ConcurrentMapDurable, A!MapDurable, A!Translate, A!MmuWalk, A!child_addr, A!is_present, A!PRESENT, A!ADDRESS_MASK,
       AP!MapDurable, AP!Translate, AP!MmuWalk, AP!child_addr, AP!is_present, AP!PRESENT,
       AP!ADDRESS_MASK
  <2>2. ConcurrentNoPageFault
    <3>1. AP!MapperFindsTable /\ BP!MapperFindsTable
      BY AP!InvFindsTable, BP!InvFindsTable DEF ConcurrentInv
    <3>2. AP!Accessible <=> A!Accessible
      BY DEF A!Accessible, A!MapperTable, A!LocalTable, A!RecursiveTable, A!MmuWalk, A!Pages,
       A!child_addr, A!is_present, A!PRESENT, A!ADDRESS_MASK, AP!Accessible, AP!MapperTable,
       AP!LocalTable, AP!RecursiveTable, AP!MmuWalk, AP!Pages, AP!child_addr, AP!is_present,
       AP!PRESENT, AP!ADDRESS_MASK
    <3>3. BP!Accessible <=> B!Accessible
      BY DEF B!Accessible, B!MapperTable, B!LocalTable, B!RecursiveTable, B!MmuWalk, B!Pages,
       B!child_addr, B!is_present, B!PRESENT, B!ADDRESS_MASK, BP!Accessible, BP!MapperTable,
       BP!LocalTable, BP!RecursiveTable, BP!MmuWalk, BP!Pages, BP!child_addr, BP!is_present,
       BP!PRESENT, BP!ADDRESS_MASK
    <3> QED BY <3>1, <3>2, <3>3 DEF ConcurrentNoPageFault, AP!MapperFindsTable, BP!MapperFindsTable
  <2>3. ASSUME NEW page \in TablePages
        PROVE  \/ page \in free \/ page = root
               \/ pcA = "link" /\ page = newA
               \/ pcB = "link" /\ page = newB
               \/ \E x \in A!Pages \X Slots : A!Parents(page) = {x}
    <3>1. ASSUME NEW p \in AP!Pages, NEW s \in Slots, AP!Node(p, s), AP!child_addr(mem[p][s]) = page
          PROVE  \E x \in AP!Pages \X Slots : AP!Parents(page) = {x}
      BY <3>1, AP!OneParent DEF ConcurrentInv
    <3>2. AP!Parents(page) = A!Parents(page) /\ AP!Pages = A!Pages
      BY DEF A!Parents, A!Node, A!SelfSlot, A!Pages, A!child_addr, A!is_present, A!PRESENT,
       A!ADDRESS_MASK, AP!Parents, AP!Node, AP!SelfSlot, AP!Pages, AP!child_addr, AP!is_present,
       AP!PRESENT, AP!ADDRESS_MASK
    <3>3. \/ page \in free \/ page = root
          \/ pcA = "link" /\ page = newA
          \/ pcB = "link" /\ page = newB
          \/ \E p \in AP!Pages, s \in Slots : AP!Node(p, s) /\ AP!child_addr(mem[p][s]) = page
      BY DEF ConcurrentInv, AP!NotLost, AP!Node, AP!SelfSlot, AP!Pages, AP!child_addr, AP!is_present, AP!PRESENT,
       AP!ADDRESS_MASK, BP!NotLost, BP!Node, BP!SelfSlot, BP!Pages, BP!child_addr, BP!is_present,
       BP!PRESENT, BP!ADDRESS_MASK
    <3> QED BY <3>1, <3>2, <3>3
  <2> QED BY <2>1, <2>2, <2>3 DEF ConcurrentMapSound, ConcurrentTablesFormTree
<1> QED BY <1>1, ConcurrentInvariance, PTL
=============================================================================
