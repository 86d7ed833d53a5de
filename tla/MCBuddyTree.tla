---------------------------- MODULE MCBuddyTree ----------------------------
(* Eight pages, so that blocks of four lengths split and merge; requests for *)
(* sizes that are and are not powers of two, for none and for too many     *)
(* pages; every page freed, whether it starts a block or not, and one on   *)
(* either side of the region.  The memory of the tree is clear, or every   *)
(* flag in it is set.                                                      *)
EXTENDS BuddyTree

Of(op, args) == {[op |-> op, arg |-> a] : a \in args}
MCRequest == Of("alloc", {0, 1, 2, 3, 5, 9}) \cup Of("free", -1 .. 8)
MCGarbage == {[n \in Nodes |-> g] : g \in {{}, {HAS_CHILDREN_FLAG, IS_OCCUPIED_FLAG}}}
=============================================================================
