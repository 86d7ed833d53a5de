--------------------------- MODULE MCConcurrentMap ---------------------------
(* Two callers, three slots per table, the last one recursive. *)
EXTENDS ConcurrentMap

V(i4, i3, i2, i1) ==
  [pml4_index |-> i4, pdpt_index |-> i3, pd_index |-> i2, pt_index |-> i1]

MCSlots == 0 .. 2
MCRecursionIndex == 2
MCLocalPml4 == {40}
MCTablePages == {{12}, {13}, {14}, {12, 13}, {12, 14}, {13, 14}, {12, 13, 14}}
(* Free pages differ only in their address: one choice is enough. *)
MCOffered(pages) == IF pages = {} THEN {} ELSE {CHOOSE page \in pages : TRUE}
MCJunk == {0, 1, 7, 12}
MCPAddrs == {{20}}
MCFlags == {{0}}

(* Two pages with every table in common, and one with only the PML4. *)
NeighbourPages == {V(0, 0, 0, 0), V(0, 0, 0, 1)}
RegionPages == NeighbourPages \cup {V(1, 0, 0, 0)}

(* The contract that the Safety section of `map` states. *)
SamePage == {x \in NeighbourPages \X NeighbourPages : x[1] = x[2]}

(* The weakest Conflict for which RegionContract holds. *)
SameRegion == {x \in RegionPages \X RegionPages : x[1].pml4_index = x[2].pml4_index}
=============================================================================
