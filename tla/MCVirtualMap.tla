---------------------------- MODULE MCVirtualMap ----------------------------
(* Bounded instances of VirtualMap: three slots per table, the last of     *)
(* them recursive, and virtual pages that share tables down to each level. *)
EXTENDS VirtualMap

(* A virtual page from its four indices. *)
V(i4, i3, i2, i1) ==
  [pml4_index |-> i4, pdpt_index |-> i3, pd_index |-> i2, pt_index |-> i1]

MCSlots == 0 .. 2
MCRecursionIndex == 2
MCLocalPml4 == {40}
MCTablePages == {{12}, {13}, {14}, {12, 13}, {12, 14}, {13, 14}, {12, 13, 14}}
(* Free pages differ only in their address: one choice is enough. *)
MCOffered(pages) == IF pages = {} THEN {} ELSE {CHOOSE page \in pages : TRUE}
(* Present, a large page, and pointing at another table page. *)
MCJunk == {0, 1, 7, 12}
MCVAddrs == {V(0, 0, 0, 0), V(0, 0, 2, 2), V(0, 2, 2, 2), V(2, 2, 2, 0)}
(* The second one is not page-aligned. *)
MCPAddrs == {{20}, {3, 21}}
MCFlags == {{0, 5}}
=============================================================================
