---------------------------- MODULE MCKernelImage ----------------------------
(* Programs of one or two segments of at most two pages of two bytes.      *)
EXTENDS KernelImage

MCPageSize == 2
MCTopAddress == 15
MCSizes == {x \in (0 .. 4) \X (1 .. 4) : x[1] <= x[2]}

Seg(t, va, x) ==
  [segment_type |-> t, virtual_address |-> va, data |-> x[1], memory_size |-> x[2]]
After(s) == next_multiple_of(s.virtual_address + s.memory_size, MCPageSize)

(* As kernel/src/linker.ld lays them out: page-aligned and ascending. *)
One(va) == {<<Seg("Load", va, x)>> : x \in MCSizes}
Two(t) == UNION {{<<p[1], Seg(t, After(p[1]), x)>> : x \in MCSizes} : p \in One(2)}
LinkedPrograms == One(2) \cup Two("Load")

(* Those that are not aligned, those that descend, and one whose segments  *)
(* share a page.                                                           *)
OddPrograms ==
  One(3) \cup {<<Seg("Load", 2, <<1, 1>>), Seg("Load", 3, <<1, 1>>)>>}
  \cup {<<Seg("Load", 2, <<1, 1>>), Seg("Load", 5, x)>> : x \in MCSizes}
  \cup {<<Seg("Load", 6, x), Seg("Load", 2, y)>> : x, y \in MCSizes}
AllPrograms == LinkedPrograms \cup OddPrograms

(* A program with an entry that is not to be loaded. *)
ProgramsWithNull == Two("Null")
=============================================================================
