---------------------------- MODULE MemoryRegions ----------------------------
(***************************************************************************)
(* The loop of bootloader/src/main.rs that turns the UEFI memory map into  *)
(* the regions of BootInfo: runs of usable entries that touch are joined,  *)
(* short runs are thrown away, and what is left is sorted by size.         *)
(* Addresses are counted in pages.                                         *)
(***************************************************************************)
EXTENDS Integers, Sequences, FiniteSets

CONSTANTS
  MemoryMaps,         \* the memory maps that UEFI may return
  MinPages,           \* 8 in the code
  MAX_MEMORY_REGIONS  \* 128 in the code

Region == [base : Nat, pages : Nat]
(* A memory descriptor: `usable` is the test of entry.ty.  UEFI forbids    *)
(* descriptors of no page; with one, LongEntriesKept would not hold.       *)
Descriptor == [base : Nat, pages : Nat \ {0}, usable : BOOLEAN]

PagesOf(r) == r.base .. r.base + r.pages - 1

(* UEFI promises that descriptors do not overlap, and nothing about order. *)
Disjoint(map) ==
  \A i, j \in DOMAIN map : i # j => PagesOf(map[i]) \cap PagesOf(map[j]) = {}

MapsAssumption ==
  /\ MemoryMaps \subseteq {map \in Seq(Descriptor) : Disjoint(map)}
  /\ MinPages \in Nat
  /\ MAX_MEMORY_REGIONS \in Nat \ {0}

VARIABLES
  memory_map,  \* what exit_boot_services returned
  next,        \* the entry the loop looks at next
  region,      \* the run it is collecting, or None
  regions,     \* memory_regions_base[0 .. len]
  pc           \* "loop", "last", "sort" or "done"

vars == <<memory_map, next, region, regions, pc>>

(* The Option that holds no region. *)
None == [base |-> -1, pages |-> 0]
Usable(k) == memory_map[k].usable
AsRegion(entry) == [base |-> entry.base, pages |-> entry.pages]
End(r) == r.base + r.pages

Init ==
  /\ memory_map \in MemoryMaps
  /\ next = 1
  /\ region = None
  /\ regions = <<>>
  /\ pc = "loop"

(* The head of the for loop: take the entry, or leave when there is none. *)
At(k) == pc = "loop" /\ next = k /\ k \in DOMAIN memory_map
(* The end of the loop's body. *)
Advance == next' = next + 1 /\ UNCHANGED <<memory_map, pc>>

(* `continue`: the memory is not the kernel's to use. *)
Skip ==
  /\ At(next)
  /\ ~Usable(next)
  /\ Advance
  /\ UNCHANGED <<region, regions>>

(* None => region = Some(..). *)
Open ==
  /\ At(next)
  /\ Usable(next)
  /\ region = None
  /\ region' = AsRegion(memory_map[next])
  /\ Advance
  /\ UNCHANGED regions

(* Mutant: a run is extended across a gap. *)
ExtendAcrossGap ==
  /\ At(next)
  /\ Usable(next)
  /\ region # None
  /\ region' = [region EXCEPT !.pages = @ + memory_map[next].pages]
  /\ Advance
  /\ UNCHANGED regions

(* reg.pages += count. *)
Extend ==
  /\ At(next)
  /\ Usable(next)
  /\ region # None
  /\ End(region) = memory_map[next].base
  /\ region' = [region EXCEPT !.pages = @ + memory_map[next].pages]
  /\ Advance
  /\ UNCHANGED regions

(* The entry does not touch the run. *)
RunEnds ==
  /\ At(next)
  /\ Usable(next)
  /\ region # None
  /\ End(region) # memory_map[next].base

(* Mutant: the new entry is forgotten. *)
StoreForgetsEntry ==
  /\ RunEnds
  /\ region.pages >= MinPages
  /\ regions' = Append(regions, region)
  /\ region' = None
  /\ next' = next + 1
  /\ pc' = IF Len(regions) + 1 = MAX_MEMORY_REGIONS THEN "last" ELSE "loop"
  /\ UNCHANGED memory_map

(* The run is over: store it, collect from this entry on, and leave the    *)
(* loop when the array is full.                                            *)
Store ==
  /\ RunEnds
  /\ region.pages >= MinPages
  /\ regions' = Append(regions, region)
  /\ region' = AsRegion(memory_map[next])
  /\ next' = next + 1
  /\ pc' = IF Len(regions) + 1 = MAX_MEMORY_REGIONS THEN "last" ELSE "loop"
  /\ UNCHANGED memory_map

(* The run is too short: region = None, and this entry is not looked at    *)
(* again either.                                                           *)
Discard ==
  /\ RunEnds
  /\ region.pages < MinPages
  /\ region' = None
  /\ Advance
  /\ UNCHANGED regions

LoopEnds ==
  /\ pc = "loop"
  /\ next \notin DOMAIN memory_map
  /\ pc' = "last"
  /\ UNCHANGED <<memory_map, next, region, regions>>

(* The run being collected is stored too if there is room, however short. *)
StoreLast ==
  /\ pc = "last"
  /\ regions' = IF Len(regions) < MAX_MEMORY_REGIONS /\ region # None
                  THEN Append(regions, region) ELSE regions
  /\ pc' = "sort"
  /\ UNCHANGED <<memory_map, next, region>>

(* sort_unstable_by: some order of the same regions, largest first. *)
IsSorted(s) == \A i, j \in DOMAIN s : i < j => s[i].pages >= s[j].pages
Occurrences(s, r) == Cardinality({i \in DOMAIN s : s[i] = r})
IsOrderOf(s, t) ==
  /\ DOMAIN s = DOMAIN t
  /\ \A i \in DOMAIN t : Occurrences(s, t[i]) = Occurrences(t, t[i])

Sort ==
  /\ pc = "sort"
  /\ \E s \in [DOMAIN regions -> {regions[i] : i \in DOMAIN regions}] :
       /\ IsOrderOf(s, regions)
       /\ IsSorted(s)
       /\ regions' = s
  /\ pc' = "done"
  /\ UNCHANGED <<memory_map, next, region>>

Next == Skip \/ Open \/ Extend \/ Store \/ Discard \/ LoopEnds \/ StoreLast \/ Sort

Spec == Init /\ [][Next]_vars

-----------------------------------------------------------------------------
UsablePages == UNION {PagesOf(memory_map[k]) : k \in {j \in DOMAIN memory_map : Usable(j)}}
Reported == UNION {PagesOf(regions[i]) : i \in DOMAIN regions}
InRegions(k) == PagesOf(memory_map[k]) \subseteq Reported

TypeOK ==
  /\ memory_map \in MemoryMaps
  /\ next \in 1 .. Len(memory_map) + 1
  /\ region \in Region \cup {None}
  /\ regions \in Seq(Region)
  /\ pc \in {"loop", "last", "sort", "done"}

(* The kernel is never told that memory it must not touch is free: every   *)
(* page of a region belongs to an entry of a usable type.                  *)
RegionsAreUsable ==
  /\ Reported \subseteq UsablePages
  /\ region # None => PagesOf(region) \subseteq UsablePages

(* No page is reported in two regions, so none can be handed out twice.    *)
RegionsDisjoint ==
  \A i, j \in DOMAIN regions : i # j => PagesOf(regions[i]) \cap PagesOf(regions[j]) = {}

(* The writes stay inside memory_regions_base. *)
RegionsFit == Len(regions) <= MAX_MEMORY_REGIONS

(* What the kernel's allocator builds on: the regions fit their array, no  *)
(* page is in two of them, and at the end they are sorted with at most one *)
(* that is shorter than the minimum (the run the loop ended in), the last. *)
RegionsWellFormed ==
  /\ TypeOK
  /\ RegionsFit
  /\ RegionsDisjoint
  /\ pc = "done" =>
       /\ IsSorted(regions)
       /\ \A i \in DOMAIN regions : regions[i].pages < MinPages => i = Len(regions)

(* However the firmware orders its entries: the regions are well-formed    *)
(* and made of usable memory only.                                         *)
RegionsSound == RegionsWellFormed /\ RegionsAreUsable

(* What the loop loses.  A usable entry that is itself long enough is      *)
(* missing from the regions only if the array was full, or if it came      *)
(* right after a short run, with which it is discarded.                    *)
PreviousUsable(k) == {j \in 1 .. k - 1 : Usable(j) /\ \A i \in j + 1 .. k - 1 : ~Usable(i)}
LongEntriesKept ==
  pc = "done" =>
    \A k \in DOMAIN memory_map :
      (Usable(k) /\ memory_map[k].pages >= MinPages /\ ~InRegions(k))
        => \/ Len(regions) = MAX_MEMORY_REGIONS
           \/ \E j \in PreviousUsable(k) : ~InRegions(j)
=============================================================================
