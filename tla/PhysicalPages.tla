---------------------------- MODULE PhysicalPages ----------------------------
(***************************************************************************)
(* PhysicalPageAllocator of kernel/src/page_alloc.rs: it puts buddy trees  *)
(* into the free memory that the firmware reports, each in front of the    *)
(* pages it manages, and allocates from the first tree that has room.  A   *)
(* tree is taken at what PageAllocator promises of it.  Addresses are page *)
(* numbers; a tree's flags take one byte per node.                         *)
(***************************************************************************)
EXTENDS Blocks, Sequences

CONSTANTS
  MemoryMaps,               \* sequences of entries: start, pages, valid
  PAGE_SIZE, HEADER_SIZE,   \* in bytes; size_of::<BinaryBuddyTree>()
  POINTER_SIZE,             \* in bytes, of a pointer and of a usize
  MINIMUM_PAGES_TO_MANAGE,
  PAGES_RESERVED_FOR_TREE_POINTERS,
  Sizes                     \* numbers of pages that are asked for

VARIABLES memory_map, next, allocator, rest, trees, answer

vars == <<memory_map, next, allocator, rest, trees, answer>>

NULL == -1
Nothing == [start |-> 0, pages |-> 0]

(* A firmware lists no page twice. *)
MapsAssumption ==
  /\ {PAGE_SIZE, HEADER_SIZE, POINTER_SIZE, MINIMUM_PAGES_TO_MANAGE,
      PAGES_RESERVED_FOR_TREE_POINTERS} \subseteq Nat \ {0}
  /\ Sizes \subseteq Nat
  /\ \A map \in MemoryMaps :
       /\ map \in Seq([start : Nat, pages : Nat, valid : BOOLEAN])
       /\ \A i, j \in DOMAIN map : i # j =>
            \/ map[i].start + map[i].pages <= map[j].start
            \/ map[j].start + map[j].pages <= map[i].start

Init ==
  /\ memory_map \in MemoryMaps
  /\ next = 1
  /\ allocator = NULL
  /\ rest = Nothing
  /\ trees = <<>>
  /\ answer = "none"

(* One round of the loop of `new` up to create_trees_.  The array of       *)
(* pointers is put into the first valid entry of exactly its size.         *)
Visit ==
  LET entry == memory_map[next]
      place == entry.valid /\ allocator = NULL /\ entry.pages = PAGES_RESERVED_FOR_TREE_POINTERS
      taken == IF place THEN PAGES_RESERVED_FOR_TREE_POINTERS ELSE 0
      usable == [start |-> entry.start + taken, pages |-> entry.pages - taken]
  IN  /\ next <= Len(memory_map)
      /\ rest = Nothing
      /\ allocator' = IF place THEN entry.start ELSE allocator
      /\ rest' = IF entry.valid /\ allocator' # NULL /\ usable.pages >= MINIMUM_PAGES_TO_MANAGE
                   THEN usable ELSE Nothing
      /\ next' = next + 1
      /\ UNCHANGED <<memory_map, trees, answer>>

required_pages_for_tree(pages) == (HEADER_SIZE + 2 * pages - 1 + PAGE_SIZE - 1) \div PAGE_SIZE

(* The largest power of two that is at most `pages`: 1 << pages.ilog2().   *)
FirstSize(pages) == CHOOSE p \in PowersUpTo(pages) : \A q \in PowersUpTo(pages) : q <= p

(* Halved until the tree fits into the pages above the first size; that    *)
(* number is not computed again when the region shrinks.                   *)
RegionSizes(pages) ==
  LET first == FirstSize(pages)
  IN  {p \in PowersUpTo(pages) : /\ MINIMUM_PAGES_TO_MANAGE <= p
                                 /\ required_pages_for_tree(p) <= pages - first}

(* Mutant: the pages of the tree itself are counted as left. *)
PagesLeftWithTree(pages, size) == pages - size

PagesLeft(pages, size) == pages - size - required_pages_for_tree(size)

(* push_tree writes behind `size` and the pointers already there, and asks *)
(* for no limit.  The bytes of PhysicalPageAllocator that are written:     *)
PointersEnd == (1 + Len(trees)) * POINTER_SIZE
PointersFit == PointersEnd <= PAGES_RESERVED_FOR_TREE_POINTERS * PAGE_SIZE

(* One call of create_trees_.  Its error is ignored: what was made stays.  *)
(* push_tree(tree) is the Append.                                          *)
CreateTree ==
  LET sizes == RegionSizes(rest.pages)
      size == CHOOSE p \in sizes : \A q \in sizes : q <= p
      base == rest.start + required_pages_for_tree(size)
  IN  /\ rest # Nothing
      /\ IF rest.pages < MINIMUM_PAGES_TO_MANAGE \/ sizes = {}
           THEN rest' = Nothing /\ UNCHANGED trees
           ELSE /\ trees' = Append(trees, [tree |-> rest.start, base |-> base, pages |-> size, used |-> {}])
                /\ rest' = [start |-> base + size, pages |-> PagesLeft(rest.pages, size)]
      /\ UNCHANGED <<memory_map, next, allocator, answer>>

Ready == next > Len(memory_map) /\ rest = Nothing /\ allocator # NULL

(* What a tree can serve a request from. *)
FreeIn(i, pages) == Fitting(trees[i].pages, trees[i].used, pages)

(* alloc: the first tree that can serve the request. *)
Alloc(pages) ==
  /\ Ready
  /\ \E i \in DOMAIN trees :
       /\ \A j \in 1 .. i - 1 : FreeIn(j, pages) = {}
       /\ \E b \in FreeIn(i, pages) : trees' = [trees EXCEPT ![i].used = @ \cup {b}]
  /\ answer' = "some"
  /\ UNCHANGED <<memory_map, next, allocator, rest>>

AllocFails(pages) ==
  /\ Ready
  /\ \A i \in DOMAIN trees : FreeIn(i, pages) = {}
  /\ answer' = "none"
  /\ UNCHANGED <<memory_map, next, allocator, rest, trees>>

(* free reports success and does nothing. *)
Free ==
  /\ Ready
  /\ answer' = "ok"
  /\ UNCHANGED <<memory_map, next, allocator, rest, trees>>

(* A pointer behind the reserved pages has been written over whatever is   *)
(* there, be it a tree: nothing is known of what happens then.             *)
Next ==
  /\ PointersFit
  /\ Visit \/ CreateTree \/ Free \/ \E p \in Sizes : Alloc(p) \/ AllocFails(p)

Spec == Init /\ [][Next]_vars

-----------------------------------------------------------------------------
(* What is in use, as extents of pages: the array of pointers as far as it *)
(* is written, the trees and the blocks that were handed out, each with a  *)
(* name of its own.                                                        *)
PointerPages == (PointersEnd + PAGE_SIZE - 1) \div PAGE_SIZE
Extents ==
  (IF allocator = NULL THEN {} ELSE {[start |-> allocator, len |-> PointerPages, of |-> 0]})
    \cup {[start |-> trees[i].tree, len |-> trees[i].base - trees[i].tree, of |-> i] : i \in DOMAIN trees}
    \cup UNION {{[start |-> trees[i].base + b.start, len |-> b.len, of |-> i] : b \in trees[i].used} : i \in DOMAIN trees}

(* However the firmware has cut up memory, up to the last pointer that     *)
(* fits the pages reserved for pointers: everything in use lies in a valid *)
(* entry, nothing overlaps anything, and the flags of a tree end before    *)
(* the pages it manages.  The code lets the next tree be made too, and     *)
(* then none of this need hold.                                            *)
ManagedPagesApart ==
  PointersFit =>
    /\ \A x, y \in Extents : x = y \/ Apart(x, y)
    /\ \A x \in Extents : \E k \in DOMAIN memory_map :
         /\ memory_map[k].valid
         /\ memory_map[k].start <= x.start
         /\ x.start + x.len <= memory_map[k].start + memory_map[k].pages
    /\ \A i \in DOMAIN trees :
         HEADER_SIZE + 2 * trees[i].pages - 1 <= (trees[i].base - trees[i].tree) * PAGE_SIZE
=============================================================================
