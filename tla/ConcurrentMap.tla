---------------------------- MODULE ConcurrentMap ----------------------------
(***************************************************************************)
(* Two threads call VirtualMap::map on the same finished map.  The method  *)
(* takes &self and the type is Sync, so nothing but the Safety section of  *)
(* `map` keeps the calls apart.  Each caller is an instance of VirtualMap  *)
(* with its own program counter and locals; the tables are shared.         *)
(***************************************************************************)
EXTENDS PageEntry

CONSTANTS Slots, RecursionIndex, LocalPml4, TablePages, Offered(_), Junk,
          VAddrs, PAddrs, Flags,
          Conflict  \* pairs of pages for which calls may not overlap

VARIABLES mem, kind, root, mapper, free, done,
          pcA, levelA, reqA, atA, newA, retA,
          pcB, levelB, reqB, atB, newB, retB

callA == <<pcA, levelA, reqA, atA, newA, retA>>
callB == <<pcB, levelB, reqB, atB, newB, retB>>
vars == <<mem, kind, root, mapper, free, done, callA, callB>>

A == INSTANCE VirtualMap WITH pc <- pcA, level <- levelA, req <- reqA,
                              at <- atA, new <- newA, ret <- retA
B == INSTANCE VirtualMap WITH pc <- pcB, level <- levelB, req <- reqB,
                              at <- atB, new <- newB, ret <- retB

ASSUME TablesAssumption == A!ConstantsAssumption
ASSUME ConflictAssumption == Conflict \subseteq VAddrs \X VAddrs

Init == A!Init /\ B!Init /\ reqB = reqA

(* Building the map takes the builder by value or &mut: one thread. *)
BuilderFinish == A!Finish /\ UNCHANGED callB

(* The caller's side of the contract. *)
MayCall(v, pcOther, reqOther) ==
  pcOther = "idle" \/ <<v, reqOther.v_addr>> \notin Conflict

BeginA(p, v, f) ==
  /\ mapper = "recursive"
  /\ MayCall(v, pcB, reqB)
  /\ A!MapBegin(p, v, f)
  /\ UNCHANGED callB

BeginB(p, v, f) ==
  /\ mapper = "recursive"
  /\ MayCall(v, pcA, reqA)
  /\ B!MapBegin(p, v, f)
  /\ UNCHANGED callA

StepA == A!MapStep /\ UNCHANGED callB
StepB == B!MapStep /\ UNCHANGED callA

Next ==
  \/ BuilderFinish
  \/ \E p \in PAddrs, v \in VAddrs, f \in Flags : BeginA(p, v, f)
  \/ \E p \in PAddrs, v \in VAddrs, f \in Flags : BeginB(p, v, f)
  \/ StepA
  \/ StepB

Spec == Init /\ [][Next]_vars

(* A contract that suffices: no two calls below the same PML4 entry. *)
RegionContract == \A v, w \in VAddrs : v.pml4_index = w.pml4_index => <<v, w>> \in Conflict

-----------------------------------------------------------------------------
(* Concurrent or not, a page for which `map` returned Ok stays translated  *)
(* as asked: the other thread's call must not unlink the tables it is in.  *)
ConcurrentMapDurable == A!MapDurable

(* Neither thread's walk runs into an entry that the other is about to     *)
(* fill in or has replaced.                                                *)
ConcurrentNoPageFault == (pcA = "probe" => A!Accessible) /\ (pcB = "probe" => B!Accessible)

(* No interleaving loses a table page or links one in two places, nor lets *)
(* a thread walk into memory that is no table.                             *)
ConcurrentTablesFormTree ==
  /\ ConcurrentNoPageFault
  /\ \A page \in TablePages :
       \/ page \in free \/ page = root
       \/ pcA = "link" /\ page = newA
       \/ pcB = "link" /\ page = newB
       \/ \E x \in A!Pages \X Slots : A!Parents(page) = {x}

(* Both: what was mapped stays mapped, and the tables stay a tree. *)
ConcurrentMapSound == ConcurrentMapDurable /\ ConcurrentTablesFormTree
=============================================================================
