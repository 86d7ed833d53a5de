-------------------------------- MODULE VAddr --------------------------------
(***************************************************************************)
(* VAddr::info and VAddr::from_info of bootinfo/src/vaddr/x86_64/virt.rs,  *)
(* at their real width: an address is the set of its bits that are 1, and  *)
(* so is an index.  RecursiveMapper builds the address of every table with *)
(* from_info and the MMU takes it apart again, which is what allows        *)
(* VirtualMap to speak of indices only.                                    *)
(***************************************************************************)
EXTENDS PageEntry

CONSTANTS
  Samples,         \* addresses to take apart
  RecursionIndex   \* a PML4 index

Index == SUBSET (0 .. 8)
Offset == SUBSET (0 .. 11)
VAddrInfo == [page_offset : Offset, pt_index : Index, pd_index : Index,
              pdpt_index : Index, pml4_index : Index]

VAddrAssumption == Samples \subseteq Word /\ RecursionIndex \in Index

(* (addr >> n) & 0x1ff, and (index & 0x1ff) << n. *)
Field(addr, n) == {b \in 0 .. 8 : b + n \in addr}
Shift(index, n) == {b \in n .. n + 8 : b - n \in index}

info(addr) ==
  [page_offset |-> addr \cap (0 .. 11),
   pt_index    |-> Field(addr, 12),
   pd_index    |-> Field(addr, 21),
   pdpt_index  |-> Field(addr, 30),
   pml4_index  |-> Field(addr, 39)]

(* Mutant: the shifts are unsigned. *)
SignExtendNot(addr) == addr \cap (0 .. 47)

(* cast_signed() << 16 >> 16: the bits from 48 on are copies of bit 47. *)
SignExtend(addr) == (addr \cap (0 .. 47)) \cup (IF 47 \in addr THEN 48 .. 63 ELSE {})

from_info(i) ==
  SignExtend((i.page_offset \cap (0 .. 11))
             \cup Shift(i.pt_index, 12) \cup Shift(i.pd_index, 21)
             \cup Shift(i.pdpt_index, 30) \cup Shift(i.pml4_index, 39))

(* An address inside a table's window. *)
Window(i4, i3, i2, i1) ==
  from_info([page_offset |-> {}, pt_index |-> i1, pd_index |-> i2,
             pdpt_index |-> i3, pml4_index |-> i4])
(* RecursiveMapper::pml4, pdpt, pd and pt: where the tables of v's path    *)
(* are to be found.                                                        *)
pml4_window    == Window(RecursionIndex, RecursionIndex, RecursionIndex, RecursionIndex)
pdpt_window(v) == Window(RecursionIndex, RecursionIndex, RecursionIndex, v.pml4_index)
pd_window(v)   == Window(RecursionIndex, RecursionIndex, v.pml4_index, v.pdpt_index)
pt_window(v)   == Window(RecursionIndex, v.pml4_index, v.pdpt_index, v.pd_index)

VARIABLES addr, fields, back, pc
vars == <<addr, fields, back, pc>>

Init == /\ addr \in Samples
        /\ fields = info({})
        /\ back = {}
        /\ pc = "info"

Decode == /\ pc = "info"
          /\ fields' = info(addr)
          /\ pc' = "from_info"
          /\ UNCHANGED <<addr, back>>

Encode == /\ pc = "from_info"
          /\ back' = from_info(fields)
          /\ pc' = "done"
          /\ UNCHANGED <<addr, fields>>

Next == Decode \/ Encode
Spec == Init /\ [][Next]_vars

-----------------------------------------------------------------------------
(* An address that the processor accepts. *)
Canonical(a) == ((47 .. 63) \subseteq a) \/ (a \cap (47 .. 63) = {})

TypeOK == /\ addr \in Word
          /\ fields \in VAddrInfo
          /\ back \in Word
          /\ pc \in {"info", "from_info", "done"}

(* from_info undoes info on every canonical address, and on the others it  *)
(* gives the canonical address that shares their tables.  The indices are  *)
(* below 512, so that no table is indexed out of its bounds.               *)
RoundTrip == /\ TypeOK
             /\ pc = "done" =>
                            /\ Canonical(back)
                            /\ info(back) = info(addr)
                            /\ (Canonical(addr) => back = addr)

(* The addresses of the four tables of a page that is not itself in the    *)
(* recursion slot are four different pages, all of them in the recursion   *)
(* slot, where `map` lets nobody else map anything.                        *)
WindowsApart ==
  LET v == fields
      windows == <<pml4_window, pdpt_window(v), pd_window(v), pt_window(v)>>
  IN  pc # "info" =>
        /\ \A k \in 1 .. 4 : Canonical(windows[k])
        /\ \A k \in 1 .. 4 : info(windows[k]).pml4_index = RecursionIndex
        /\ v.pml4_index # RecursionIndex =>
             \A j, k \in 1 .. 4 : j # k => windows[j] # windows[k]

(* Taking an address apart and putting it together lose nothing, and the   *)
(* windows built that way do not coincide.                                 *)
AddressesExact == RoundTrip /\ WindowsApart
=============================================================================
