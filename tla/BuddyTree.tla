------------------------------ MODULE BuddyTree ------------------------------
(***************************************************************************)
(* BinaryBuddyTree of kernel/src/page_alloc_tree.rs: a region of 2^Levels  *)
(* pages as a complete binary tree in an array, node n with the children   *)
(* 2n+1 and 2n+2, two flags per node.  The recursive functions of the      *)
(* source are unrolled: one action is one call of them or one round of a   *)
(* loop, and `pending` holds the calls of find_fitting_leaf_ still to be   *)
(* made.  Addresses are counted in pages from `base`.                      *)
(***************************************************************************)
EXTENDS Integers, Sequences

CONSTANTS
  Levels,   \* the region has 2^Levels pages
  Garbage,  \* what the memory of the array may hold beforehand
  Request   \* the calls that callers make

HAS_CHILDREN_FLAG == "has_children"
IS_OCCUPIED_FLAG == "is_occupied"

Pages == 2^Levels
Nodes == 0 .. 2 * Pages - 2
MAX == 2 * Pages  \* usize::MAX

ASSUME TreeAssumption ==
  /\ Levels \in Nat
  /\ Garbage \subseteq [Nodes -> SUBSET {HAS_CHILDREN_FLAG, IS_OCCUPIED_FLAG}]
  /\ \A r \in Request : \/ r.op = "alloc" /\ r.arg \in Nat
                        \/ r.op = "free" /\ r.arg \in Int

VARIABLES
  children,  \* the flags of every node
  pc,        \* the function that is running
  request,   \* the call in progress
  answer,    \* what it returns
  node,      \* the node that alloc, find_node_ or try_merge has come to
  pending,   \* nodes that find_fitting_leaf_ has still to visit
  found,     \* found_node, or -1
  min_pages  \* size_to_beat

vars == <<children, pc, request, answer, node, pending, found, min_pages>>

Left(n) == 2 * n + 1
Right(n) == 2 * n + 2
Parent(n) == (n - 1) \div 2

(* get_child_start_and_pages. *)
LevelOf(n) == CHOOSE k \in 0 .. Levels : 2^k <= n + 1 /\ n + 1 < 2^(k + 1)
PagesOf(n) == 2^(Levels - LevelOf(n))
StartOf(n) == (n - (2^LevelOf(n) - 1)) * PagesOf(n)

HasChildren(n) == HAS_CHILDREN_FLAG \in children[n]
Occupied(n) == IS_OCCUPIED_FLAG \in children[n]

(* Nodes that a walk from the root meets, and the blocks in use. *)
Reached[n \in Nodes] == n = 0 \/ (Reached[Parent(n)] /\ HasChildren(Parent(n)))
Leaves == {n \in Nodes : Reached[n] /\ ~HasChildren(n)}
live == {[start |-> StartOf(n), len |-> PagesOf(n)] : n \in {l \in Leaves : Occupied(l)}}

Allocator == INSTANCE PageAllocator
Idle == Allocator!Idle

(* BinaryBuddyTree::new: only the root is written. *)
Init ==
  /\ \E g \in Garbage : children = [g EXCEPT ![0] = {}]
  /\ pc = "idle"
  /\ request = Idle
  /\ answer = Allocator!None
  /\ node = 0
  /\ pending = <<>>
  /\ found = -1
  /\ min_pages = MAX

(* A call ends, and with it its locals. *)
Return(a) ==
  /\ pc' = "idle" /\ request' = Idle /\ answer' = a
  /\ node' = 0 /\ pending' = <<>> /\ found' = -1 /\ min_pages' = MAX

-----------------------------------------------------------------------------
Alloc(r) ==
  /\ pc = "idle"
  /\ r.op = "alloc"
  /\ request' = r
  /\ pc' = "find"
  /\ pending' = <<0>>
  /\ answer' = Allocator!None
  /\ UNCHANGED <<children, node, found, min_pages>>

AllocNothing ==
  /\ pc = "find"
  /\ request.arg = 0
  /\ Return(Allocator!None)
  /\ UNCHANGED children

(* find_fitting_leaf_ at an inner node: the left half, then the right. *)
SearchBelow ==
  /\ pc = "find" /\ request.arg # 0 /\ pending # <<>>
  /\ HasChildren(Head(pending))
  /\ pending' = <<Left(Head(pending)), Right(Head(pending))>> \o Tail(pending)
  /\ UNCHANGED <<children, pc, request, answer, node, found, min_pages>>

(* Mutant: the size to beat is not carried from one leaf to the next. *)
FitsAnyhow(n) == ~Occupied(n) /\ PagesOf(n) >= request.arg

Fits(n) == ~Occupied(n) /\ PagesOf(n) >= request.arg /\ PagesOf(n) < min_pages

(* find_fitting_leaf_ at a leaf. *)
ConsiderLeaf ==
  /\ pc = "find" /\ request.arg # 0 /\ pending # <<>>
  /\ ~HasChildren(Head(pending))
  /\ pending' = Tail(pending)
  /\ IF Fits(Head(pending))
       THEN found' = Head(pending) /\ min_pages' = PagesOf(Head(pending))
       ELSE UNCHANGED <<found, min_pages>>
  /\ UNCHANGED <<children, pc, request, answer, node>>

LeafChosen ==
  /\ pc = "find" /\ request.arg # 0 /\ pending = <<>>
  /\ IF found = -1 THEN Return(Allocator!None)
     ELSE /\ pc' = "split" /\ node' = found /\ found' = -1 /\ min_pages' = MAX
          /\ UNCHANGED <<request, answer, pending>>
  /\ UNCHANGED children

(* The loop of alloc, with split_node. *)
Split ==
  /\ pc = "split"
  /\ PagesOf(node) \div 2 >= request.arg
  /\ children' = [children EXCEPT ![node] = @ \cup {HAS_CHILDREN_FLAG},
                                  ![Left(node)] = {}, ![Right(node)] = {}]
  /\ node' = Left(node)
  /\ UNCHANGED <<pc, request, answer, pending, found, min_pages>>

Take ==
  /\ pc = "split"
  /\ PagesOf(node) \div 2 < request.arg
  /\ children' = [children EXCEPT ![node] = @ \cup {IS_OCCUPIED_FLAG}]
  /\ Return(Allocator!Some(StartOf(node)))

-----------------------------------------------------------------------------
Free(r) ==
  /\ pc = "idle"
  /\ r.op = "free"
  /\ request' = r
  /\ pc' = "locate"
  /\ answer' = Allocator!None
  /\ UNCHANGED <<children, node, pending, found, min_pages>>

(* page - base is computed before page is compared with base: with overflow *)
(* checks that is a panic.                                                 *)
FreeUnderflows ==
  /\ pc = "locate"
  /\ request.arg < 0
  /\ pc' = "panic"
  /\ answer' = Allocator!Panicked
  /\ UNCHANGED <<children, request, node, pending, found, min_pages>>

InRegion == request.arg \in 0 .. Pages - 1
FreeOutside ==
  /\ pc = "locate"
  /\ ~InRegion
  /\ Return(Allocator!Err)
  /\ UNCHANGED children

(* find_node_ at an inner node. *)
Locate ==
  /\ pc = "locate" /\ InRegion
  /\ HasChildren(node)
  /\ node' = IF request.arg < StartOf(node) + PagesOf(node) \div 2 THEN Left(node) ELSE Right(node)
  /\ UNCHANGED <<children, pc, request, answer, pending, found, min_pages>>

(* find_node_ at a leaf, and what free does with it.  The result is known  *)
(* before try_merge runs.                                                  *)
Located ==
  /\ pc = "locate" /\ InRegion
  /\ ~HasChildren(node)
  /\ IF StartOf(node) = request.arg /\ Occupied(node)
       THEN /\ children' = [children EXCEPT ![node] = @ \ {IS_OCCUPIED_FLAG}]
            /\ pc' = "merge" /\ request' = Idle /\ answer' = Allocator!Ok
            /\ UNCHANGED <<node, pending, found, min_pages>>
       ELSE Return(Allocator!Err) /\ UNCHANGED children

Sibling(n) == IF n % 2 = 1 THEN n + 1 ELSE n - 1

(* Mutant: an inner node counts as free. *)
BothOpen(n) == n # 0 /\ ~Occupied(n) /\ ~Occupied(Sibling(n))

(* Two halves that are neither divided nor in use. *)
BothFree(n) == n # 0 /\ children[n] = {} /\ children[Sibling(n)] = {}

(* try_merge. *)
Merge ==
  /\ pc = "merge"
  /\ IF BothFree(node)
       THEN /\ children' = [children EXCEPT ![Parent(node)] = @ \ {HAS_CHILDREN_FLAG}]
            /\ node' = Parent(node)
            /\ UNCHANGED <<pc, request, answer, pending, found, min_pages>>
       ELSE Return(answer) /\ UNCHANGED children

Next ==
  \/ \E r \in Request : Alloc(r) \/ Free(r)
  \/ AllocNothing \/ SearchBelow \/ ConsiderLeaf \/ LeafChosen \/ Split \/ Take
  \/ FreeUnderflows \/ FreeOutside \/ Locate \/ Located \/ Merge

Spec == Init /\ [][Next]_vars

-----------------------------------------------------------------------------
(* The promise of alloc and free, for any sequence of calls and whatever   *)
(* the array held before: no page is given out twice, a request is refused *)
(* only when no aligned block for it is left, and free gives back exactly  *)
(* the block that starts at its argument.                                  *)
ImplementsPageAllocator == Allocator!Spec

(* find_fitting_leaf: alloc takes the smallest free block that is large    *)
(* enough, so that large ones stay whole.                                  *)
BestFit ==
  [][(pc = "find" /\ pc' = "split") =>
       \A l \in Leaves : ~Occupied(l) /\ PagesOf(l) >= request.arg => PagesOf(node') <= PagesOf(l)]_vars
=============================================================================
