-------------------------- MODULE AlgorithmsProofs --------------------------
(***************************************************************************)
(* Proofs about the sequential algorithms, for inputs of every size: each  *)
(* part has an inductive invariant of its own, and `part` says which of    *)
(* them holds.                                                             *)
(***************************************************************************)
EXTENDS Algorithms, FiniteSetTheorems, SequenceTheorems, TLAPS

-----------------------------------------------------------------------------
(* MemoryRegions.                                                          *)

(* The pages that are in the array or in the run.                          *)
Held == Regions!Reported \cup Regions!PagesOf(region)

(* What is held comes from the entries that the loop has passed.           *)
HeldFromBefore ==
  \A x \in Held : \E k \in DOMAIN memory_map :
    k < next /\ Regions!Usable(k) /\ x \in Regions!PagesOf(memory_map[k])

Collecting == pc \in {"loop", "last"}

(* The array has room in the loop; only what is stored behind the loop may *)
(* be short.                                                               *)
ArrayInv ==
  /\ Len(regions) <= MAX_MEMORY_REGIONS
  /\ pc = "loop" => Len(regions) < MAX_MEMORY_REGIONS
  /\ Collecting => \A i1 \in DOMAIN regions : regions[i1].pages >= MinPages
  /\ pc \in {"sort", "done"} =>
       \A i1 \in DOMAIN regions : regions[i1].pages < MinPages => i1 = Len(regions)
  /\ pc = "done" => Regions!IsSorted(regions)

RunApart ==
  Collecting => \A i1 \in DOMAIN regions : Regions!PagesOf(regions[i1]) \cap Regions!PagesOf(region) = {}

(* The entry before the next one is in the run, if there is a run.         *)
RunIsLatest ==
  (pc = "loop" /\ region # Regions!None) =>
    \E j \in Regions!PreviousUsable(next) : Regions!PagesOf(memory_map[j]) \subseteq Regions!PagesOf(region)

(* A long entry that has been passed is in the array or in the run, or it  *)
(* came right after one that is lost.                                      *)
Kept(k, stored, run) ==
  \/ Regions!PagesOf(memory_map[k]) \subseteq stored
  \/ Regions!PagesOf(memory_map[k]) \subseteq run
  \/ \E j \in Regions!PreviousUsable(k) :
       j \in DOMAIN memory_map /\ Regions!PagesOf(memory_map[j]) \cap (stored \cup run) = {}
Long(k) == Regions!Usable(k) /\ memory_map[k].pages >= MinPages
LongKept ==
  /\ Collecting => \A k \in DOMAIN memory_map : k < next /\ Long(k) =>
       Kept(k, Regions!Reported, Regions!PagesOf(region))
  /\ pc \in {"sort", "done"} =>
       \/ Len(regions) = MAX_MEMORY_REGIONS
       \/ \A k \in DOMAIN memory_map : Long(k) => Kept(k, Regions!Reported, {})
  /\ pc = "last" => Len(regions) = MAX_MEMORY_REGIONS \/ next = Len(memory_map) + 1

RegionsInv ==
  /\ Regions!TypeOK
  /\ HeldFromBefore
  /\ ArrayInv
  /\ Regions!RegionsDisjoint
  /\ RunApart
  /\ RunIsLatest
  /\ LongKept

LEMMA MapEntry ==
  ASSUME memory_map \in MemoryMaps
  PROVE  /\ Len(memory_map) \in Nat /\ DOMAIN memory_map = 1 .. Len(memory_map)
         /\ \A k \in DOMAIN memory_map :
              memory_map[k].base \in Nat /\ memory_map[k].pages \in Nat \ {0}
         /\ \A k, l \in DOMAIN memory_map :
              k # l => Regions!PagesOf(memory_map[k]) \cap Regions!PagesOf(memory_map[l]) = {}
<1>1. memory_map \in Seq(Regions!Descriptor) /\ Regions!Disjoint(memory_map)
  BY RegionsAssumption DEF Regions!MapsAssumption
<1>2. \A k \in DOMAIN memory_map : memory_map[k] \in Regions!Descriptor
  BY <1>1
<1> QED BY <1>1, <1>2 DEF Regions!Descriptor, Regions!Disjoint

(* What the loop has still to look at is not held.                         *)
LEMMA AheadNotHeld ==
  ASSUME memory_map \in MemoryMaps, HeldFromBefore, NEW k \in DOMAIN memory_map, k >= next, next \in Nat
  PROVE  Regions!PagesOf(memory_map[k]) \cap Held = {}
<1> SUFFICES ASSUME NEW x \in Held, x \in Regions!PagesOf(memory_map[k]) PROVE FALSE
  OBVIOUS
<1>1. PICK l \in DOMAIN memory_map : l < next /\ x \in Regions!PagesOf(memory_map[l])
  BY DEF HeldFromBefore
<1>2. k # l
  BY <1>1, MapEntry
<1> QED BY <1>1, <1>2, MapEntry

LEMMA RegionsBounds == MinPages \in Nat /\ MAX_MEMORY_REGIONS \in Nat \ {0}
BY RegionsAssumption DEF Regions!MapsAssumption

LEMMA NoRun == Regions!PagesOf(Regions!None) = {}
BY DEF Regions!PagesOf, Regions!None

LEMMA RunHasPages ==
  ASSUME NEW r \in Regions!Region
  PROVE  r # Regions!None /\ r.base \in Nat /\ r.pages \in Nat
BY DEF Regions!Region, Regions!None

LEMMA EntryAsRegion ==
  ASSUME memory_map \in MemoryMaps, NEW k \in DOMAIN memory_map
  PROVE  /\ Regions!AsRegion(memory_map[k]) \in Regions!Region
         /\ Regions!PagesOf(Regions!AsRegion(memory_map[k])) = Regions!PagesOf(memory_map[k])
BY MapEntry DEF Regions!AsRegion, Regions!Region, Regions!PagesOf

LEMMA StoredReported ==
  ASSUME NEW s \in Seq(Regions!Region), NEW r \in Regions!Region
  PROVE  /\ Append(s, r) \in Seq(Regions!Region)
         /\ DOMAIN s = 1 .. Len(s) /\ Len(s) \in Nat
         /\ Len(Append(s, r)) = Len(s) + 1 /\ DOMAIN Append(s, r) = 1 .. Len(s) + 1
         /\ \A i1 \in 1 .. Len(s) : Append(s, r)[i1] = s[i1]
         /\ Append(s, r)[Len(s) + 1] = r
OBVIOUS

LEMMA ReportedAppended ==
  ASSUME regions \in Seq(Regions!Region), NEW r \in Regions!Region, regions' = Append(regions, r)
  PROVE  Regions!Reported' = Regions!Reported \cup Regions!PagesOf(r)
<1>1. /\ DOMAIN regions = 1 .. Len(regions) /\ Len(regions) \in Nat
      /\ DOMAIN regions' = 1 .. Len(regions) + 1
      /\ \A i1 \in 1 .. Len(regions) : regions'[i1] = regions[i1]
      /\ regions'[Len(regions) + 1] = r
  BY StoredReported
<1>2. Regions!Reported' \subseteq Regions!Reported \cup Regions!PagesOf(r)
  <2> SUFFICES ASSUME NEW j \in DOMAIN regions'
               PROVE  Regions!PagesOf(regions'[j]) \subseteq Regions!Reported \cup Regions!PagesOf(r)
    BY DEF Regions!Reported
  <2>1. CASE j = Len(regions) + 1
    BY <1>1, <2>1
  <2>2. CASE j # Len(regions) + 1
    BY <1>1, <2>2 DEF Regions!Reported
  <2> QED BY <2>1, <2>2
<1>3. Regions!Reported \subseteq Regions!Reported'
  BY <1>1 DEF Regions!Reported
<1>4. Regions!PagesOf(r) \subseteq Regions!Reported'
  BY <1>1 DEF Regions!Reported
<1> QED BY <1>2, <1>3, <1>4

LEMMA ReportedSame ==
  ASSUME regions' = regions
  PROVE  Regions!Reported' = Regions!Reported
BY DEF Regions!Reported

LEMMA RegionsStarts == Regions!Init => RegionsInv
<1> SUFFICES ASSUME Regions!Init PROVE RegionsInv
  OBVIOUS
<1>1. memory_map \in MemoryMaps /\ next = 1 /\ region = Regions!None /\ regions = <<>> /\ pc = "loop"
  BY DEF Regions!Init
<1>2. Len(regions) = 0 /\ DOMAIN regions = {} /\ regions \in Seq(Regions!Region)
  BY <1>1
<1>3. Held = {}
  BY <1>1, <1>2, NoRun DEF Held, Regions!Reported
<1>4. Regions!TypeOK
  BY <1>1, <1>2, MapEntry DEF Regions!TypeOK
<1>5. HeldFromBefore /\ Regions!RegionsDisjoint /\ RunApart /\ RunIsLatest
  BY <1>1, <1>2, <1>3 DEF HeldFromBefore, Regions!RegionsDisjoint, RunApart, RunIsLatest
<1>6. ArrayInv
  BY <1>1, <1>2, RegionsBounds DEF ArrayInv
<1>7. LongKept
  BY <1>1, MapEntry DEF LongKept
<1> QED BY <1>4, <1>5, <1>6, <1>7 DEF RegionsInv

(* An entry whose neighbours before it cannot be used has no other         *)
(* predecessor.                                                            *)
LEMMA PreviousMoves ==
  ASSUME next \in Nat, memory_map' = memory_map, ~Regions!Usable(next)
  PROVE  Regions!PreviousUsable(next) \subseteq Regions!PreviousUsable(next + 1)
BY DEF Regions!PreviousUsable

LEMMA PreviousIsNext ==
  ASSUME next \in Nat \ {0}, Regions!Usable(next)
  PROVE  next \in Regions!PreviousUsable(next + 1)
BY DEF Regions!PreviousUsable

LEMMA PreviousBefore ==
  ASSUME memory_map \in MemoryMaps, NEW k \in 1 .. Len(memory_map) + 1, NEW j \in Regions!PreviousUsable(k)
  PROVE  j \in DOMAIN memory_map /\ j < k /\ Regions!Usable(j)
BY MapEntry DEF Regions!PreviousUsable

(* What stays kept when more is held of what lies ahead.                   *)
LEMMA KeptGrows ==
  ASSUME memory_map \in MemoryMaps, HeldFromBefore, next \in 1 .. Len(memory_map) + 1,
         NEW k \in DOMAIN memory_map, k < next, Kept(k, Regions!Reported, Regions!PagesOf(region)),
         NEW stored, NEW run, Regions!Reported \subseteq stored,
         Regions!PagesOf(region) \subseteq stored \/ Regions!PagesOf(region) \subseteq run,
         \A x \in stored \cup run :
           x \in Held \/ (next \in DOMAIN memory_map /\ x \in Regions!PagesOf(memory_map[next]))
  PROVE  Kept(k, stored, run)
<1>1. CASE \/ Regions!PagesOf(memory_map[k]) \subseteq Regions!Reported
           \/ Regions!PagesOf(memory_map[k]) \subseteq Regions!PagesOf(region)
  BY <1>1 DEF Kept
<1>2. CASE \E j \in Regions!PreviousUsable(k) :
             j \in DOMAIN memory_map /\ Regions!PagesOf(memory_map[j]) \cap Held = {}
  <2>1. PICK j \in Regions!PreviousUsable(k) :
          j \in DOMAIN memory_map /\ Regions!PagesOf(memory_map[j]) \cap Held = {}
    BY <1>2
  <2>2. j < k /\ k \in 1 .. Len(memory_map) + 1
    <3>1. k \in 1 .. Len(memory_map) + 1
      BY MapEntry
    <3> QED BY <3>1, PreviousBefore
  <2>3. next \in DOMAIN memory_map => Regions!PagesOf(memory_map[j]) \cap Regions!PagesOf(memory_map[next]) = {}
    <3>1. j # next
      BY <2>1, <2>2, MapEntry
    <3> QED BY <2>1, <3>1, MapEntry
  <2>4. Regions!PagesOf(memory_map[j]) \cap (stored \cup run) = {}
    BY <2>1, <2>3
  <2> QED BY <2>1, <2>4 DEF Kept
<1> QED BY <1>1, <1>2 DEF Kept, Held

LEMMA LongKeptNext ==
  ASSUME memory_map' = memory_map,
         Collecting' => \A k \in DOMAIN memory_map : k < next' /\ Long(k) =>
           Kept(k, Regions!Reported', Regions!PagesOf(region')),
         pc' \in {"sort", "done"} =>
           \/ Len(regions') = MAX_MEMORY_REGIONS
           \/ \A k \in DOMAIN memory_map : Long(k) => Kept(k, Regions!Reported', {}),
         pc' = "last" => Len(regions') = MAX_MEMORY_REGIONS \/ next' = Len(memory_map) + 1
  PROVE  LongKept'
BY DEF LongKept, Kept, Long, Regions!PreviousUsable, Regions!Usable, Held, Regions!Reported

LEMMA RegionsInvNext ==
  ASSUME Regions!TypeOK', HeldFromBefore', ArrayInv', Regions!RegionsDisjoint', RunApart', RunIsLatest', LongKept'
  PROVE  RegionsInv'
BY DEF RegionsInv

(* A round of the loop that stores nothing: the run is as it was, has the  *)
(* entry in addition, or is given up.                                      *)
LEMMA RoundStep ==
  ASSUME RegionsInv, pc = "loop", next \in DOMAIN memory_map,
         memory_map' = memory_map, pc' = pc, next' = next + 1, regions' = regions,
         region' \in Regions!Region \cup {Regions!None},
         \A x \in Regions!PagesOf(region') :
           x \in Regions!PagesOf(region) \/ (Regions!Usable(next) /\ x \in Regions!PagesOf(memory_map[next])),
         region' # Regions!None => \E j \in Regions!PreviousUsable(next + 1) :
           Regions!PagesOf(memory_map[j]) \subseteq Regions!PagesOf(region'),
         \A k \in DOMAIN memory_map : k < next + 1 /\ Long(k) => Kept(k, Regions!Reported', Regions!PagesOf(region'))
  PROVE  RegionsInv'
<1>1. Regions!TypeOK /\ HeldFromBefore /\ ArrayInv /\ Regions!RegionsDisjoint /\ RunApart
  BY DEF RegionsInv
<1>2. memory_map \in MemoryMaps /\ next \in 1 .. Len(memory_map) + 1 /\ regions \in Seq(Regions!Region)
  BY <1>1 DEF Regions!TypeOK
<1>3. next \in Nat /\ next <= Len(memory_map) /\ Len(memory_map) \in Nat
  BY <1>2, MapEntry
<1>4. Regions!TypeOK'
  BY <1>1, <1>2, <1>3 DEF Regions!TypeOK
<1>5. Regions!Reported' = Regions!Reported
  BY ReportedSame
<1>6. HeldFromBefore'
  <2> SUFFICES ASSUME NEW x \in Held'
               PROVE  \E k \in DOMAIN memory_map :
                        k < next' /\ Regions!Usable(k) /\ x \in Regions!PagesOf(memory_map[k])
    BY DEF HeldFromBefore, Regions!Usable
  <2>1. x \in Held \/ (Regions!Usable(next) /\ x \in Regions!PagesOf(memory_map[next]))
    BY <1>5 DEF Held
  <2>2. CASE x \in Held
    <3>1. PICK k \in DOMAIN memory_map : k < next /\ Regions!Usable(k) /\ x \in Regions!PagesOf(memory_map[k])
      BY <1>1, <2>2 DEF HeldFromBefore
    <3>2. k < next'
      BY <1>2, <1>3, <3>1, MapEntry
    <3> QED BY <3>1, <3>2
  <2>3. CASE Regions!Usable(next) /\ x \in Regions!PagesOf(memory_map[next])
    <3>1. next < next'
      BY <1>3
    <3> QED BY <2>3, <3>1
  <2> QED BY <2>1, <2>2, <2>3
<1>7. ArrayInv' /\ Regions!RegionsDisjoint'
  BY <1>1 DEF ArrayInv, Regions!RegionsDisjoint, Regions!IsSorted, Collecting
<1>8. RunApart'
  <2> SUFFICES ASSUME NEW i1 \in DOMAIN regions
               PROVE  Regions!PagesOf(regions[i1]) \cap Regions!PagesOf(region') = {}
    BY DEF RunApart
  <2>1. Regions!PagesOf(regions[i1]) \cap Regions!PagesOf(region) = {}
    BY <1>1 DEF RunApart, Collecting
  <2>2. Regions!PagesOf(memory_map[next]) \cap Held = {}
    BY <1>1, <1>2, <1>3, AheadNotHeld
  <2>3. Regions!PagesOf(regions[i1]) \subseteq Held
    BY DEF Held, Regions!Reported
  <2> QED BY <2>1, <2>2, <2>3
<1>9. RunIsLatest'
  BY DEF RunIsLatest, Regions!PreviousUsable, Regions!Usable
<1>10. LongKept'
  BY LongKeptNext DEF Collecting
<1> QED BY <1>4, <1>6, <1>7, <1>8, <1>9, <1>10, RegionsInvNext

(* Before a round, what has been passed is kept.                           *)
LEMMA KeptBefore ==
  ASSUME RegionsInv, pc = "loop", NEW k \in DOMAIN memory_map, k < next, Long(k)
  PROVE  Kept(k, Regions!Reported, Regions!PagesOf(region))
BY DEF RegionsInv, LongKept, Collecting

LEMMA SkipStep == RegionsInv /\ Regions!Skip => RegionsInv'
<1> SUFFICES ASSUME RegionsInv, Regions!Skip PROVE RegionsInv'
  OBVIOUS
<1>1. /\ pc = "loop" /\ next \in DOMAIN memory_map /\ ~Regions!Usable(next)
      /\ memory_map' = memory_map /\ pc' = pc /\ next' = next + 1
      /\ region' = region /\ regions' = regions
  BY DEF Regions!Skip, Regions!At, Regions!Advance
<1>2. /\ memory_map \in MemoryMaps /\ next \in 1 .. Len(memory_map) + 1
      /\ region \in Regions!Region \cup {Regions!None}
  BY DEF RegionsInv, Regions!TypeOK
<1>3. Len(memory_map) \in Nat /\ DOMAIN memory_map = 1 .. Len(memory_map)
  BY <1>2, MapEntry
<1>4. Regions!Reported' = Regions!Reported /\ region' = region
  BY <1>1, ReportedSame
<1>5. \A k \in DOMAIN memory_map : k < next + 1 /\ Long(k) => Kept(k, Regions!Reported', Regions!PagesOf(region'))
  <2> SUFFICES ASSUME NEW k \in DOMAIN memory_map, k < next + 1, Long(k) PROVE Kept(k, Regions!Reported, Regions!PagesOf(region))
    BY <1>4
  <2>1. k # next
    BY <1>1 DEF Long
  <2>2. k < next
    BY <1>2, <1>3, <2>1
  <2> QED BY <1>1, <2>2, KeptBefore
<1>6. region # Regions!None => \E j \in Regions!PreviousUsable(next + 1) :
        Regions!PagesOf(memory_map[j]) \subseteq Regions!PagesOf(region)
  <2>1. Regions!PreviousUsable(next) \subseteq Regions!PreviousUsable(next + 1)
    BY <1>1, <1>2, <1>3, PreviousMoves
  <2> QED BY <1>1, <2>1 DEF RegionsInv, RunIsLatest
<1> QED BY <1>1, <1>2, <1>5, <1>6, RoundStep

(* The round in which the run takes in the entry, or starts with it.       *)
LEMMA TakeStep ==
  ASSUME RegionsInv, pc = "loop", next \in DOMAIN memory_map, Regions!Usable(next),
         memory_map' = memory_map, pc' = pc, next' = next + 1, regions' = regions,
         region' \in Regions!Region,
         Regions!PagesOf(region') = Regions!PagesOf(region) \cup Regions!PagesOf(memory_map[next])
  PROVE  RegionsInv'
<1>1. memory_map \in MemoryMaps /\ next \in 1 .. Len(memory_map) + 1 /\ HeldFromBefore
  BY DEF RegionsInv, Regions!TypeOK
<1>2. Len(memory_map) \in Nat /\ DOMAIN memory_map = 1 .. Len(memory_map)
  BY <1>1, MapEntry
<1>3. Regions!Reported' = Regions!Reported
  BY ReportedSame
<1>4. \A k \in DOMAIN memory_map : k < next + 1 /\ Long(k) => Kept(k, Regions!Reported', Regions!PagesOf(region'))
  <2> SUFFICES ASSUME NEW k \in DOMAIN memory_map, k < next + 1, Long(k)
               PROVE  Kept(k, Regions!Reported, Regions!PagesOf(region'))
    BY <1>3
  <2>1. CASE k = next
    BY <2>1 DEF Kept
  <2>2. CASE k # next
    <3>1. k < next
      BY <1>1, <1>2, <2>2
    <3>2. Kept(k, Regions!Reported, Regions!PagesOf(region))
      BY <3>1, KeptBefore
    <3> QED BY <1>1, <3>1, <3>2, KeptGrows DEF Held
  <2> QED BY <2>1, <2>2
<1>5. next \in Regions!PreviousUsable(next + 1)
  BY <1>1, <1>2, PreviousIsNext
<1> QED BY <1>4, <1>5, RoundStep

LEMMA OpenStep == RegionsInv /\ Regions!Open => RegionsInv'
<1> SUFFICES ASSUME RegionsInv, Regions!Open PROVE RegionsInv'
  OBVIOUS
<1>1. /\ pc = "loop" /\ next \in DOMAIN memory_map /\ Regions!Usable(next)
      /\ memory_map' = memory_map /\ pc' = pc /\ next' = next + 1
      /\ region = Regions!None /\ regions' = regions
      /\ region' = Regions!AsRegion(memory_map[next])
  BY DEF Regions!Open, Regions!At, Regions!Advance
<1>2. memory_map \in MemoryMaps
  BY DEF RegionsInv, Regions!TypeOK
<1>3. /\ region' \in Regions!Region
      /\ Regions!PagesOf(region') = Regions!PagesOf(memory_map[next])
  BY <1>1, <1>2, EntryAsRegion
<1>4. Regions!PagesOf(region') = Regions!PagesOf(region) \cup Regions!PagesOf(memory_map[next])
  BY <1>1, <1>3, NoRun
<1> QED BY <1>1, <1>3, <1>4, TakeStep

LEMMA ExtendStep == RegionsInv /\ Regions!Extend => RegionsInv'
<1> SUFFICES ASSUME RegionsInv, Regions!Extend PROVE RegionsInv'
  OBVIOUS
<1>1. /\ pc = "loop" /\ next \in DOMAIN memory_map /\ Regions!Usable(next)
      /\ memory_map' = memory_map /\ pc' = pc /\ next' = next + 1
      /\ region # Regions!None /\ regions' = regions
      /\ region.base + region.pages = memory_map[next].base
      /\ region' = [region EXCEPT !.pages = @ + memory_map[next].pages]
  BY DEF Regions!Extend, Regions!At, Regions!Advance, Regions!End
<1>2. memory_map \in MemoryMaps /\ region \in Regions!Region
  BY <1>1 DEF RegionsInv, Regions!TypeOK
<1>3. /\ memory_map[next].base \in Nat /\ memory_map[next].pages \in Nat
      /\ region.base \in Nat /\ region.pages \in Nat
  BY <1>1, <1>2, MapEntry, RunHasPages
<1>4. region' \in Regions!Region /\ region'.base = region.base
      /\ region'.pages = region.pages + memory_map[next].pages
  BY <1>1, <1>2, <1>3 DEF Regions!Region
<1>5. Regions!PagesOf(region') = Regions!PagesOf(region) \cup Regions!PagesOf(memory_map[next])
  BY <1>1, <1>3, <1>4 DEF Regions!PagesOf
<1> QED BY <1>1, <1>4, <1>5, TakeStep

LEMMA DiscardStep == RegionsInv /\ Regions!Discard => RegionsInv'
<1> SUFFICES ASSUME RegionsInv, Regions!Discard PROVE RegionsInv'
  OBVIOUS
<1>1. /\ pc = "loop" /\ next \in DOMAIN memory_map /\ Regions!Usable(next)
      /\ memory_map' = memory_map /\ pc' = pc /\ next' = next + 1
      /\ region # Regions!None /\ regions' = regions
      /\ region.pages < MinPages /\ region' = Regions!None
  BY DEF Regions!Discard, Regions!RunEnds, Regions!At, Regions!Advance
<1>2. /\ memory_map \in MemoryMaps /\ region \in Regions!Region /\ next \in 1 .. Len(memory_map) + 1
      /\ HeldFromBefore /\ RunApart /\ RunIsLatest
  BY <1>1 DEF RegionsInv, Regions!TypeOK
<1>3. Len(memory_map) \in Nat /\ DOMAIN memory_map = 1 .. Len(memory_map)
  BY <1>2, MapEntry
<1>4. Regions!Reported' = Regions!Reported /\ Regions!PagesOf(region') = {}
  BY <1>1, ReportedSame, NoRun
<1>5. Regions!Reported \cap Regions!PagesOf(region) = {}
  BY <1>1, <1>2 DEF RunApart, Collecting, Regions!Reported
<1>6. ASSUME NEW k \in DOMAIN memory_map, k < next + 1, Long(k) PROVE Kept(k, Regions!Reported, {})
  <2>1. CASE k = next
    <3>1. PICK j \in Regions!PreviousUsable(next) : Regions!PagesOf(memory_map[j]) \subseteq Regions!PagesOf(region)
      BY <1>1, <1>2 DEF RunIsLatest
    <3>2. j \in DOMAIN memory_map
      BY <1>2, PreviousBefore
    <3>3. Regions!PagesOf(memory_map[j]) \cap Regions!Reported = {}
      BY <1>5, <3>1
    <3> QED BY <2>1, <3>1, <3>2, <3>3 DEF Kept
  <2>2. CASE k # next
    <3>1. k < next
      BY <1>2, <1>3, <1>6, <2>2
    <3>2. Kept(k, Regions!Reported, Regions!PagesOf(region))
      BY <1>1, <1>6, <3>1, KeptBefore
    <3>3. CASE Regions!PagesOf(memory_map[k]) \subseteq Regions!PagesOf(region)
      <4>1. memory_map[k].base \in Nat /\ memory_map[k].pages \in Nat \ {0} /\ memory_map[k].pages >= MinPages
        BY <1>2, <1>6, MapEntry DEF Long
      <4>2. region.base \in Nat /\ region.pages \in Nat
        BY <1>2, RunHasPages
      <4>3. PICK x \in Regions!PagesOf(memory_map[k]) : x \notin Regions!PagesOf(region)
        <5>1. CASE memory_map[k].base \in Regions!PagesOf(region)
          <6>1. memory_map[k].base >= region.base
            BY <4>1, <4>2, <5>1 DEF Regions!PagesOf
          <6>2. memory_map[k].base + memory_map[k].pages - 1 \in Regions!PagesOf(memory_map[k])
            BY <4>1 DEF Regions!PagesOf
          <6>3. memory_map[k].base + memory_map[k].pages - 1 \notin Regions!PagesOf(region)
            BY <1>1, <4>1, <4>2, <6>1, RegionsBounds DEF Regions!PagesOf
          <6> QED BY <6>2, <6>3
        <5>2. CASE memory_map[k].base \notin Regions!PagesOf(region)
          BY <4>1, <5>2 DEF Regions!PagesOf
        <5> QED BY <5>1, <5>2
      <4> QED BY <3>3, <4>3
    <3>4. CASE \E j \in Regions!PreviousUsable(k) :
                 j \in DOMAIN memory_map
                 /\ Regions!PagesOf(memory_map[j]) \cap (Regions!Reported \cup Regions!PagesOf(region)) = {}
      BY <3>4 DEF Kept
    <3> QED BY <3>2, <3>3, <3>4 DEF Kept
  <2> QED BY <2>1, <2>2
<1> QED BY <1>1, <1>4, <1>6, RoundStep

(* The array with one region more, of pages that no other region has.      *)
LEMMA AppendApart ==
  ASSUME regions \in Seq(Regions!Region), NEW r \in Regions!Region, regions' = Append(regions, r),
         Regions!RegionsDisjoint,
         \A i1 \in DOMAIN regions : Regions!PagesOf(regions[i1]) \cap Regions!PagesOf(r) = {}
  PROVE  Regions!RegionsDisjoint'
<1>1. /\ DOMAIN regions = 1 .. Len(regions) /\ Len(regions) \in Nat
      /\ DOMAIN regions' = 1 .. Len(regions) + 1
      /\ \A i1 \in 1 .. Len(regions) : regions'[i1] = regions[i1]
      /\ regions'[Len(regions) + 1] = r
  BY StoredReported
<1> SUFFICES ASSUME NEW j1 \in DOMAIN regions', NEW j2 \in DOMAIN regions', j1 # j2
             PROVE  Regions!PagesOf(regions'[j1]) \cap Regions!PagesOf(regions'[j2]) = {}
  BY DEF Regions!RegionsDisjoint
<1>2. CASE j1 = Len(regions) + 1
  <2>1. j2 \in DOMAIN regions /\ regions'[j2] = regions[j2] /\ regions'[j1] = r
    BY <1>1, <1>2
  <2> QED BY <2>1
<1>3. CASE j2 = Len(regions) + 1
  <2>1. j1 \in DOMAIN regions /\ regions'[j1] = regions[j1] /\ regions'[j2] = r
    BY <1>1, <1>3
  <2> QED BY <2>1
<1>4. CASE j1 # Len(regions) + 1 /\ j2 # Len(regions) + 1
  <2>1. /\ j1 \in DOMAIN regions /\ regions'[j1] = regions[j1]
        /\ j2 \in DOMAIN regions /\ regions'[j2] = regions[j2]
    BY <1>1, <1>4
  <2> QED BY <2>1 DEF Regions!RegionsDisjoint
<1> QED BY <1>2, <1>3, <1>4

LEMMA StoreStep == RegionsInv /\ Regions!Store => RegionsInv'
<1> SUFFICES ASSUME RegionsInv, Regions!Store PROVE RegionsInv'
  OBVIOUS
<1>1. /\ pc = "loop" /\ next \in DOMAIN memory_map /\ Regions!Usable(next)
      /\ memory_map' = memory_map /\ next' = next + 1
      /\ pc' = IF Len(regions) + 1 = MAX_MEMORY_REGIONS THEN "last" ELSE "loop"
      /\ region # Regions!None /\ regions' = Append(regions, region)
      /\ region.pages >= MinPages /\ region' = Regions!AsRegion(memory_map[next])
  BY DEF Regions!Store, Regions!RunEnds, Regions!At
<1>2. Regions!TypeOK /\ HeldFromBefore /\ ArrayInv /\ Regions!RegionsDisjoint /\ RunApart
  BY DEF RegionsInv
<1>3. /\ memory_map \in MemoryMaps /\ next \in 1 .. Len(memory_map) + 1
      /\ region \in Regions!Region /\ regions \in Seq(Regions!Region)
  BY <1>1, <1>2 DEF Regions!TypeOK
<1>4. Len(memory_map) \in Nat /\ DOMAIN memory_map = 1 .. Len(memory_map)
  BY <1>3, MapEntry
<1>5. region' \in Regions!Region /\ Regions!PagesOf(region') = Regions!PagesOf(memory_map[next])
  BY <1>1, <1>3, EntryAsRegion
<1>6. /\ regions' \in Seq(Regions!Region)
      /\ DOMAIN regions = 1 .. Len(regions) /\ Len(regions) \in Nat
      /\ Len(regions') = Len(regions) + 1 /\ DOMAIN regions' = 1 .. Len(regions) + 1
      /\ \A i1 \in 1 .. Len(regions) : regions'[i1] = regions[i1]
      /\ regions'[Len(regions) + 1] = region
  BY <1>1, <1>3, StoredReported
<1>7. Regions!Reported' = Regions!Reported \cup Regions!PagesOf(region)
  BY <1>1, <1>3, ReportedAppended
<1>8. Held' = Held \cup Regions!PagesOf(memory_map[next])
  BY <1>5, <1>7 DEF Held
<1>9. Regions!PagesOf(memory_map[next]) \cap Held = {}
  BY <1>1, <1>2, <1>3, <1>4, AheadNotHeld
<1>10. next' \in 1 .. Len(memory_map') + 1
  BY <1>1, <1>3, <1>4
<1>11. Regions!TypeOK'
  BY <1>1, <1>3, <1>5, <1>6, <1>10 DEF Regions!TypeOK
<1>12. HeldFromBefore'
  <2> SUFFICES ASSUME NEW x \in Held'
               PROVE  \E k \in DOMAIN memory_map :
                        k < next' /\ Regions!Usable(k) /\ x \in Regions!PagesOf(memory_map[k])
    BY <1>1 DEF HeldFromBefore, Regions!Usable
  <2>1. CASE x \in Held
    <3>1. PICK k \in DOMAIN memory_map : k < next /\ Regions!Usable(k) /\ x \in Regions!PagesOf(memory_map[k])
      BY <1>2, <2>1 DEF HeldFromBefore
    <3>2. k < next'
      BY <1>1, <1>3, <1>4, <3>1
    <3> QED BY <3>1, <3>2
  <2>2. CASE x \in Regions!PagesOf(memory_map[next])
    <3>1. next < next'
      BY <1>1, <1>3, <1>4
    <3> QED BY <1>1, <2>2, <3>1
  <2> QED BY <1>8, <2>1, <2>2
<1>13. ArrayInv'
  <2>1. Len(regions) < MAX_MEMORY_REGIONS /\ \A i1 \in DOMAIN regions : regions[i1].pages >= MinPages
    BY <1>1, <1>2 DEF ArrayInv, Collecting
  <2>2. Len(regions') <= MAX_MEMORY_REGIONS /\ (pc' = "loop" => Len(regions') < MAX_MEMORY_REGIONS)
    BY <1>1, <1>6, <2>1, RegionsBounds
  <2>3. ASSUME NEW i1 \in DOMAIN regions' PROVE regions'[i1].pages >= MinPages
    <3>1. CASE i1 = Len(regions) + 1
      BY <1>1, <1>6, <3>1
    <3>2. CASE i1 # Len(regions) + 1
      <4>1. i1 \in DOMAIN regions /\ regions'[i1] = regions[i1]
        BY <1>6, <3>2
      <4> QED BY <2>1, <4>1
    <3> QED BY <3>1, <3>2
  <2>4. pc' \notin {"sort", "done"}
    BY <1>1
  <2> QED BY <2>2, <2>3, <2>4 DEF ArrayInv
<1>14. Regions!RegionsDisjoint'
  BY <1>1, <1>2, <1>3, AppendApart DEF RunApart, Collecting
<1>15. RunApart'
  <2>1. Regions!Reported' \cap Regions!PagesOf(region') = {}
    BY <1>5, <1>7, <1>9 DEF Held
  <2> QED BY <2>1 DEF RunApart, Regions!Reported
<1>16. RunIsLatest'
  <2>1. next \in Regions!PreviousUsable(next + 1)
    BY <1>1, <1>3, <1>4, PreviousIsNext
  <2> QED BY <1>1, <1>5, <2>1 DEF RunIsLatest, Regions!PreviousUsable, Regions!Usable
<1>17. LongKept'
  <2>1. ASSUME NEW k \in DOMAIN memory_map, k < next', Long(k)
        PROVE  Kept(k, Regions!Reported', Regions!PagesOf(region'))
    <3>1. CASE k = next
      BY <1>5, <3>1 DEF Kept
    <3>2. CASE k # next
      <4>1. k < next
        BY <1>1, <1>3, <1>4, <2>1, <3>2
      <4>2. Kept(k, Regions!Reported, Regions!PagesOf(region))
        BY <1>1, <2>1, <4>1, KeptBefore
      <4> QED BY <1>1, <1>2, <1>3, <1>5, <1>7, <4>1, <4>2, KeptGrows DEF Held
    <3> QED BY <3>1, <3>2
  <2>2. pc' = "last" => Len(regions') = MAX_MEMORY_REGIONS
    BY <1>1, <1>6
  <2>3. pc' \notin {"sort", "done"}
    BY <1>1
  <2> QED BY <1>1, <2>1, <2>2, <2>3, LongKeptNext
<1> QED BY <1>11, <1>12, <1>13, <1>14, <1>15, <1>16, <1>17, RegionsInvNext

LEMMA LoopEndsStep == RegionsInv /\ Regions!LoopEnds => RegionsInv'
<1> SUFFICES ASSUME RegionsInv, Regions!LoopEnds PROVE RegionsInv'
  OBVIOUS
<1>1. /\ pc = "loop" /\ pc' = "last" /\ next \notin DOMAIN memory_map
      /\ memory_map' = memory_map /\ next' = next /\ region' = region /\ regions' = regions
  BY DEF Regions!LoopEnds
<1>2. Regions!TypeOK /\ HeldFromBefore /\ ArrayInv /\ Regions!RegionsDisjoint /\ RunApart /\ LongKept
  BY DEF RegionsInv
<1>3. next = Len(memory_map) + 1
  <2>1. memory_map \in MemoryMaps /\ next \in 1 .. Len(memory_map) + 1
    BY <1>2 DEF Regions!TypeOK
  <2> QED BY <1>1, <2>1, MapEntry
<1>4. Regions!TypeOK'
  BY <1>1, <1>2 DEF Regions!TypeOK
<1>5. HeldFromBefore'
  BY <1>1, <1>2 DEF HeldFromBefore, Held, Regions!Reported, Regions!Usable
<1>6. ArrayInv' /\ Regions!RegionsDisjoint' /\ RunApart' /\ RunIsLatest'
  BY <1>1, <1>2 DEF ArrayInv, Regions!RegionsDisjoint, RunApart, RunIsLatest, Collecting
<1>7. LongKept'
  <2>1. Regions!Reported' = Regions!Reported
    BY <1>1, ReportedSame
  <2>2. \A k \in DOMAIN memory_map : k < next /\ Long(k) =>
          Kept(k, Regions!Reported, Regions!PagesOf(region))
    BY <1>1, <1>2 DEF LongKept, Collecting
  <2> QED BY <1>1, <1>3, <2>1, <2>2, LongKeptNext
<1> QED BY <1>4, <1>5, <1>6, <1>7, RegionsInvNext

LEMMA StoreLastStep == RegionsInv /\ Regions!StoreLast => RegionsInv'
<1> SUFFICES ASSUME RegionsInv, Regions!StoreLast PROVE RegionsInv'
  OBVIOUS
<1>1. /\ pc = "last" /\ pc' = "sort"
      /\ memory_map' = memory_map /\ next' = next /\ region' = region
      /\ regions' = IF Len(regions) < MAX_MEMORY_REGIONS /\ region # Regions!None
                      THEN Append(regions, region) ELSE regions
  BY DEF Regions!StoreLast
<1>2. Regions!TypeOK /\ HeldFromBefore /\ ArrayInv /\ Regions!RegionsDisjoint /\ RunApart /\ LongKept
  BY DEF RegionsInv
<1>3. /\ memory_map \in MemoryMaps /\ next \in 1 .. Len(memory_map) + 1
      /\ region \in Regions!Region \cup {Regions!None} /\ regions \in Seq(Regions!Region)
  BY <1>2 DEF Regions!TypeOK
<1>4. Len(memory_map) \in Nat /\ DOMAIN memory_map = 1 .. Len(memory_map)
  BY <1>3, MapEntry
<1>5. /\ Len(regions) <= MAX_MEMORY_REGIONS
      /\ \A i1 \in DOMAIN regions : regions[i1].pages >= MinPages /\ regions[i1].pages \in Nat
  <2>1. \A i1 \in DOMAIN regions : regions[i1] \in Regions!Region
    BY <1>3
  <2> QED BY <1>1, <1>2, <2>1 DEF ArrayInv, Collecting, Regions!Region
<1>6. \A k \in DOMAIN memory_map : k < next /\ Long(k) =>
        Kept(k, Regions!Reported, Regions!PagesOf(region))
  BY <1>1, <1>2 DEF LongKept, Collecting
<1>7. CASE Len(regions) < MAX_MEMORY_REGIONS /\ region # Regions!None
  <2>1. region \in Regions!Region /\ regions' = Append(regions, region)
    BY <1>1, <1>3, <1>7
  <2>2. /\ regions' \in Seq(Regions!Region)
        /\ DOMAIN regions = 1 .. Len(regions) /\ Len(regions) \in Nat
        /\ Len(regions') = Len(regions) + 1 /\ DOMAIN regions' = 1 .. Len(regions) + 1
        /\ \A i1 \in 1 .. Len(regions) : regions'[i1] = regions[i1]
        /\ regions'[Len(regions) + 1] = region
    BY <1>3, <2>1, StoredReported
  <2>3. Regions!Reported' = Regions!Reported \cup Regions!PagesOf(region)
    BY <1>3, <2>1, ReportedAppended
  <2>4. Held' = Held
    BY <1>1, <2>3 DEF Held
  <2>5. Regions!TypeOK'
    BY <1>1, <1>2, <1>3, <2>2 DEF Regions!TypeOK
  <2>6. HeldFromBefore'
    BY <1>1, <1>2, <2>4 DEF HeldFromBefore, Regions!Usable
  <2>7. ArrayInv'
    <3>1. Len(regions') <= MAX_MEMORY_REGIONS
      BY <1>7, <2>2, RegionsBounds
    <3>2. ASSUME NEW i1 \in DOMAIN regions', regions'[i1].pages < MinPages PROVE i1 = Len(regions')
      <4> SUFFICES ASSUME i1 # Len(regions) + 1 PROVE FALSE
        BY <2>2
      <4>1. i1 \in DOMAIN regions /\ regions'[i1] = regions[i1]
        BY <2>2
      <4>2. regions[i1].pages \in Nat /\ regions[i1].pages >= MinPages
        BY <1>5, <4>1
      <4> QED BY <3>2, <4>1, <4>2, RegionsBounds
    <3> QED BY <1>1, <3>1, <3>2 DEF ArrayInv, Collecting
  <2>8. Regions!RegionsDisjoint'
    BY <1>1, <1>2, <1>3, <2>1, AppendApart DEF RunApart, Collecting
  <2>9. RunApart' /\ RunIsLatest'
    BY <1>1 DEF RunApart, RunIsLatest, Collecting
  <2>10. LongKept'
    <3>1. next = Len(memory_map) + 1
      <4>1. Len(regions) # MAX_MEMORY_REGIONS
        BY <1>7, RegionsBounds
      <4> QED BY <1>1, <1>2, <4>1 DEF LongKept
    <3>2. ASSUME NEW k \in DOMAIN memory_map, Long(k) PROVE Kept(k, Regions!Reported', {})
      <4>1. k < next
        BY <1>4, <3>1
      <4>2. Kept(k, Regions!Reported, Regions!PagesOf(region))
        BY <1>6, <3>2, <4>1
      <4> QED BY <2>3, <4>2 DEF Kept
    <3> QED BY <1>1, <3>2, LongKeptNext DEF Collecting
  <2> QED BY <2>5, <2>6, <2>7, <2>8, <2>9, <2>10, RegionsInvNext
<1>8. CASE ~(Len(regions) < MAX_MEMORY_REGIONS /\ region # Regions!None)
  <2>1. regions' = regions
    BY <1>1, <1>8
  <2>2. Regions!Reported' = Regions!Reported
    BY <2>1, ReportedSame
  <2>3. Regions!TypeOK'
    BY <1>1, <1>2, <2>1 DEF Regions!TypeOK
  <2>4. HeldFromBefore'
    BY <1>1, <1>2, <2>2 DEF HeldFromBefore, Held, Regions!Usable
  <2>5. ArrayInv'
    <3>1. ASSUME NEW i1 \in DOMAIN regions PROVE ~(regions[i1].pages < MinPages)
      BY <1>5, RegionsBounds
    <3> QED BY <1>1, <1>5, <2>1, <3>1 DEF ArrayInv, Collecting
  <2>6. Regions!RegionsDisjoint' /\ RunApart' /\ RunIsLatest'
    BY <1>1, <1>2, <2>1 DEF Regions!RegionsDisjoint, RunApart, RunIsLatest, Collecting
  <2>7. LongKept'
    <3>1. CASE Len(regions) < MAX_MEMORY_REGIONS
      <4>1. region = Regions!None /\ Regions!PagesOf(region) = {}
        BY <1>8, <3>1, NoRun
      <4>2. next = Len(memory_map) + 1
        <5>1. Len(regions) # MAX_MEMORY_REGIONS
          BY <3>1, RegionsBounds
        <5> QED BY <1>1, <1>2, <5>1 DEF LongKept
      <4>3. ASSUME NEW k \in DOMAIN memory_map, Long(k) PROVE Kept(k, Regions!Reported', {})
        <5>1. k < next
          BY <1>4, <4>2
        <5> QED BY <1>6, <2>2, <4>1, <4>3, <5>1
      <4> QED BY <1>1, <4>3, LongKeptNext DEF Collecting
    <3>2. CASE ~(Len(regions) < MAX_MEMORY_REGIONS)
      <4>1. Len(regions') = MAX_MEMORY_REGIONS
        <5>1. Len(regions) \in Nat
          BY <1>3
        <5> QED BY <1>5, <2>1, <3>2, <5>1, RegionsBounds
      <4> QED BY <1>1, <4>1, LongKeptNext DEF Collecting
    <3> QED BY <3>1, <3>2
  <2> QED BY <2>3, <2>4, <2>5, <2>6, <2>7, RegionsInvNext
<1> QED BY <1>7, <1>8

LEMMA Counted ==
  ASSUME NEW s, NEW r
  PROVE  Regions!Occurrences(s, r) = Cardinality({i1 \in DOMAIN s : s[i1] = r})
BY DEF Regions!Occurrences, Regions!Cardinality, Cardinality

(* Two places of a reordered sequence hold what two places of the sequence *)
(* hold, and what one of the sequence holds is somewhere.                  *)
Covers(s, t) == \A a \in DOMAIN s : \E c \in DOMAIN t : s[a] = t[c]
CoversPairs(s, t) ==
  \A a, b \in DOMAIN s : a # b => \E c, d \in DOMAIN t : c # d /\ s[a] = t[c] /\ s[b] = t[d]

LEMMA OrderPairs ==
  ASSUME NEW s, NEW t, NEW m \in Nat, DOMAIN t = 1 .. m, Regions!IsOrderOf(s, t), Covers(s, t)
  PROVE  CoversPairs(s, t) /\ Covers(t, s)
<1> DEFINE Places(u, r) == {i1 \in DOMAIN u : u[i1] = r}
<1>1. DOMAIN s = 1 .. m /\ \A d \in DOMAIN t : Cardinality(Places(s, t[d])) = Cardinality(Places(t, t[d]))
  BY Counted DEF Regions!IsOrderOf
<1>2. \A r : /\ IsFiniteSet(Places(s, r)) /\ IsFiniteSet(Places(t, r))
             /\ Cardinality(Places(s, r)) \in Nat /\ Cardinality(Places(t, r)) \in Nat
  <2> SUFFICES ASSUME NEW r PROVE /\ IsFiniteSet(Places(s, r)) /\ IsFiniteSet(Places(t, r))
                                  /\ Cardinality(Places(s, r)) \in Nat /\ Cardinality(Places(t, r)) \in Nat
    OBVIOUS
  <2>1. Places(s, r) \in SUBSET (1 .. m) /\ Places(t, r) \in SUBSET (1 .. m)
    BY <1>1
  <2>2. IsFiniteSet(1 .. m)
    BY FS_Interval
  <2>3. IsFiniteSet(Places(s, r)) /\ IsFiniteSet(Places(t, r))
    BY <2>1, <2>2, FS_Subset
  <2> QED BY <2>3, FS_CardinalityType
<1>3. ASSUME NEW d \in DOMAIN t PROVE \E a \in DOMAIN s : s[a] = t[d]
  <2>1. d \in Places(t, t[d])
    OBVIOUS
  <2>2. Places(t, t[d]) # {}
    BY <2>1
  <2> HIDE DEF Places
  <2>3. Cardinality(Places(t, t[d])) # 0
    BY <1>2, <2>2, FS_EmptySet
  <2>4. Cardinality(Places(s, t[d])) # 0
    BY <1>1, <2>3
  <2>5. Places(s, t[d]) # {}
    BY <1>2, <2>4, FS_EmptySet
  <2> QED BY <2>5 DEF Places
<1>4. ASSUME NEW a \in DOMAIN s, NEW b \in DOMAIN s, a # b
      PROVE  \E c, d \in DOMAIN t : c # d /\ s[a] = t[c] /\ s[b] = t[d]
  <2>1. PICK c \in DOMAIN t : s[a] = t[c]
    BY DEF Covers
  <2>2. PICK d \in DOMAIN t : s[b] = t[d]
    BY DEF Covers
  <2>3. CASE s[a] # s[b]
    BY <2>1, <2>2, <2>3
  <2>4. CASE s[a] = s[b]
    <3>1. a \in Places(s, t[c]) /\ b \in Places(s, t[c])
      BY <2>1, <2>4
    <3>2. c \in Places(t, t[c])
      OBVIOUS
    <3>3. PICK e \in Places(t, t[c]) : e # c
      <4> SUFFICES ASSUME \A e \in Places(t, t[c]) : e = c PROVE FALSE
        OBVIOUS
      <4>1. Places(t, t[c]) = {c}
        BY <3>2
      <4> HIDE DEF Places
      <4>2. Cardinality(Places(t, t[c])) = 1
        BY <4>1, FS_Singleton
      <4>3. Cardinality(Places(s, t[c])) = 1
        BY <1>1, <4>2
      <4>4. PICK x : Places(s, t[c]) = {x}
        BY <1>2, <4>3, FS_Singleton
      <4> QED BY <1>4, <3>1, <4>4
    <3>4. e \in DOMAIN t /\ t[e] = t[c]
      BY <3>3
    <3> QED BY <2>1, <2>4, <3>3, <3>4
  <2> QED BY <2>3, <2>4
<1> QED BY <1>3, <1>4 DEF Covers, CoversPairs

LEMMA SortStep == RegionsInv /\ Regions!Sort => RegionsInv'
<1> SUFFICES ASSUME RegionsInv, Regions!Sort PROVE RegionsInv'
  OBVIOUS
<1>1. /\ pc = "sort" /\ pc' = "done"
      /\ memory_map' = memory_map /\ next' = next /\ region' = region
  BY DEF Regions!Sort
<1>2. PICK s \in [DOMAIN regions -> {regions[i1] : i1 \in DOMAIN regions}] :
        Regions!IsOrderOf(s, regions) /\ Regions!IsSorted(s) /\ regions' = s
  BY DEF Regions!Sort
<1>3. Regions!TypeOK /\ HeldFromBefore /\ ArrayInv /\ Regions!RegionsDisjoint /\ LongKept
  BY DEF RegionsInv
<1>4. /\ memory_map \in MemoryMaps /\ next \in 1 .. Len(memory_map) + 1
      /\ region \in Regions!Region \cup {Regions!None} /\ regions \in Seq(Regions!Region)
  BY <1>3 DEF Regions!TypeOK
<1>5. DOMAIN regions = 1 .. Len(regions) /\ Len(regions) \in Nat /\ DOMAIN regions' = DOMAIN regions
  BY <1>2, <1>4
<1>6. \A i1 \in DOMAIN regions : regions[i1] \in Regions!Region
  BY <1>4
<1>7. regions' \in Seq(Regions!Region) /\ Len(regions') = Len(regions)
  <2>1. regions' \in [1 .. Len(regions) -> Regions!Region]
    BY <1>2, <1>5, <1>6
  <2> QED BY <1>5, <2>1
<1>8. CoversPairs(regions', regions) /\ Covers(regions, regions')
  <2>1. Covers(s, regions)
    BY <1>2 DEF Covers
  <2>2. CoversPairs(s, regions) /\ Covers(regions, s)
    BY <1>2, <1>5, <2>1, OrderPairs
  <2> QED BY <1>2, <2>2
<1>9. Regions!Reported' = Regions!Reported
  <2>1. Regions!Reported' \subseteq Regions!Reported
    BY <1>2, <1>5 DEF Regions!Reported
  <2>2. Regions!Reported \subseteq Regions!Reported'
    BY <1>5, <1>8 DEF Regions!Reported, Covers
  <2> QED BY <2>1, <2>2
<1>10. Regions!TypeOK'
  BY <1>1, <1>4, <1>7 DEF Regions!TypeOK
<1>11. HeldFromBefore'
  BY <1>1, <1>3, <1>9 DEF HeldFromBefore, Held, Regions!Usable
<1>12. ArrayInv'
  <2>1. Len(regions) <= MAX_MEMORY_REGIONS
        /\ \A i1 \in DOMAIN regions : regions[i1].pages < MinPages => i1 = Len(regions)
    BY <1>1, <1>3 DEF ArrayInv
  <2>2. Regions!IsSorted(regions')
    BY <1>2
  <2>3. ASSUME NEW i1 \in DOMAIN regions', regions'[i1].pages < MinPages PROVE i1 = Len(regions')
    <3> SUFFICES ASSUME i1 # Len(regions) PROVE FALSE
      BY <1>7
    <3>1. i1 < Len(regions) /\ Len(regions) \in DOMAIN regions /\ i1 \in DOMAIN regions
      BY <1>5
    <3>2. regions'[i1].pages >= regions'[Len(regions)].pages
      BY <1>5, <2>2, <3>1 DEF Regions!IsSorted
    <3>3. PICK c \in DOMAIN regions, d \in DOMAIN regions :
            c # d /\ regions'[i1] = regions[c] /\ regions'[Len(regions)] = regions[d]
      BY <1>5, <1>8, <3>1 DEF CoversPairs
    <3>4. regions[c].pages \in Nat /\ regions[d].pages \in Nat
      BY <1>6 DEF Regions!Region
    <3>5. regions[c].pages < MinPages /\ regions[d].pages < MinPages
      BY <2>3, <3>2, <3>3, <3>4, RegionsBounds
    <3> QED BY <2>1, <3>3, <3>5
  <2>4. pc' = "done" /\ Len(regions') <= MAX_MEMORY_REGIONS
    BY <1>1, <1>7, <2>1
  <2> QED BY <2>2, <2>3, <2>4 DEF ArrayInv, Collecting
<1>13. Regions!RegionsDisjoint'
  <2> SUFFICES ASSUME NEW a \in DOMAIN regions, NEW b \in DOMAIN regions, a # b
               PROVE  Regions!PagesOf(regions'[a]) \cap Regions!PagesOf(regions'[b]) = {}
    BY <1>5 DEF Regions!RegionsDisjoint
  <2>1. PICK c \in DOMAIN regions, d \in DOMAIN regions :
          c # d /\ regions'[a] = regions[c] /\ regions'[b] = regions[d]
    BY <1>5, <1>8 DEF CoversPairs
  <2> QED BY <1>3, <2>1 DEF Regions!RegionsDisjoint
<1>14. RunApart' /\ RunIsLatest'
  BY <1>1 DEF RunApart, RunIsLatest, Collecting
<1>15. LongKept'
  <2>1. \/ Len(regions) = MAX_MEMORY_REGIONS
        \/ \A k \in DOMAIN memory_map : Long(k) => Kept(k, Regions!Reported, {})
    BY <1>1, <1>3 DEF LongKept
  <2> QED BY <1>1, <1>7, <1>9, <2>1, LongKeptNext DEF Collecting
<1> QED BY <1>10, <1>11, <1>12, <1>13, <1>14, <1>15, RegionsInvNext

LEMMA RegionsStep == RegionsInv /\ Regions!Next => RegionsInv'
BY SkipStep, OpenStep, ExtendStep, StoreStep, DiscardStep, LoopEndsStep, StoreLastStep, SortStep
DEF Regions!Next

LEMMA RegionsUnchanged ==
  ASSUME RegionsInv, memory_map' = memory_map, next' = next, region' = region, regions' = regions, pc' = pc
  PROVE  RegionsInv'
<1>1. Regions!Reported' = Regions!Reported
  BY ReportedSame
<1>2. Regions!TypeOK' /\ ArrayInv' /\ Regions!RegionsDisjoint' /\ RunApart'
  BY DEF RegionsInv, Regions!TypeOK, ArrayInv, Regions!RegionsDisjoint, RunApart, Collecting, Regions!IsSorted
<1>3. HeldFromBefore' /\ RunIsLatest'
  BY <1>1 DEF RegionsInv, HeldFromBefore, Held, RunIsLatest, Regions!PreviousUsable, Regions!Usable
<1>4. LongKept'
  BY <1>1, LongKeptNext DEF RegionsInv, LongKept, Collecting
<1> QED BY <1>2, <1>3, <1>4, RegionsInvNext

LEMMA RegionsSuffice == RegionsInv => Regions!RegionsSound /\ Regions!LongEntriesKept
<1> SUFFICES ASSUME RegionsInv PROVE Regions!RegionsSound /\ Regions!LongEntriesKept
  OBVIOUS
<1>1. Regions!TypeOK /\ HeldFromBefore /\ ArrayInv /\ Regions!RegionsDisjoint /\ LongKept
  BY DEF RegionsInv
<1>2. Regions!RegionsWellFormed
  BY <1>1 DEF Regions!RegionsWellFormed, Regions!RegionsFit, ArrayInv
<1>3. Held \subseteq Regions!UsablePages
  BY <1>1 DEF HeldFromBefore, Regions!UsablePages
<1>4. Regions!RegionsAreUsable
  BY <1>3 DEF Held, Regions!RegionsAreUsable
<1>5. Regions!LongEntriesKept
  <2> SUFFICES ASSUME pc = "done", NEW k \in DOMAIN memory_map, Long(k), ~Regions!InRegions(k),
                      Len(regions) # MAX_MEMORY_REGIONS
               PROVE  \E j \in Regions!PreviousUsable(k) : ~Regions!InRegions(j)
    BY DEF Regions!LongEntriesKept, Long
  <2>1. Kept(k, Regions!Reported, {})
    BY <1>1 DEF LongKept
  <2>2. memory_map \in MemoryMaps
    BY <1>1 DEF Regions!TypeOK
  <2>3. \A j \in DOMAIN memory_map : Regions!PagesOf(memory_map[j]) # {}
    <3> SUFFICES ASSUME NEW j \in DOMAIN memory_map PROVE memory_map[j].base \in Regions!PagesOf(memory_map[j])
      OBVIOUS
    <3>1. memory_map[j].base \in Nat /\ memory_map[j].pages \in Nat \ {0}
      BY <2>2, MapEntry
    <3> QED BY <3>1 DEF Regions!PagesOf
  <2>4. PICK j \in Regions!PreviousUsable(k) :
          j \in DOMAIN memory_map /\ Regions!PagesOf(memory_map[j]) \cap Regions!Reported = {}
    BY <2>1, <2>3 DEF Kept, Regions!InRegions
  <2>5. ~Regions!InRegions(j)
    BY <2>3, <2>4 DEF Regions!InRegions
  <2> QED BY <2>4, <2>5
<1> QED BY <1>2, <1>4, <1>5 DEF Regions!RegionsSound

-----------------------------------------------------------------------------
(* Syscall.                                                                *)

(* A function that has been derived calls its variant, with a driver for   *)
(* as many arguments as the variant has.                                   *)
FunctionOf(k) ==
  /\ functions[k].number = data[k].number
  /\ functions[k].arity \in 0 .. 5 /\ functions[k].driver = functions[k].arity
  /\ data[k].unit /\ data[k].attrs \in {<<>>, <<functions[k].arity>>}

Function == [number : Nat, arity : Nat, driver : Nat]
Inside == pc \in {"syscall", "kernel"}
CallsInv ==
  /\ data \in Seq(Calls!Variant)
  /\ functions \in Seq(Function)
  /\ Len(functions) <= Len(data)
  /\ \A k \in DOMAIN functions : FunctionOf(k)
  /\ pc \in {"ready", "syscall", "kernel"} => Len(functions) = Len(data)
  /\ DOMAIN regs = Calls!Registers
  /\ Inside =>
       /\ call.function \in DOMAIN functions
       /\ DOMAIN call.args = 1 .. functions[call.function].arity
       /\ regs["rax"] = functions[call.function].number
       /\ \A k \in DOMAIN call.args : regs[Calls!ArgumentRegisters[k]] = call.args[k]

LEMMA CallsStarts == Calls!Init => CallsInv
BY CallsAssumption DEF Calls!Init, Calls!EnumsAssumption, CallsInv, Inside

LEMMA SeqOfOne ==
  ASSUME NEW S, NEW s \in Seq(S)
  PROVE  /\ Len(s) \in Nat
         /\ s # <<>> /\ Len(s) <= 1 => s = <<s[1]>> /\ s[1] \in S
<1>1. Len(s) \in Nat
  OBVIOUS
<1>2. ASSUME s # <<>>, Len(s) <= 1 PROVE s = <<s[1]>> /\ s[1] \in S
  <2>1. Len(s) = 1
    <3>1. Len(s) \in Nat \ {0}
      BY <1>2, EmptySeq, Zenon
    <3>2. Len(s) <= 1
      BY <1>2
    <3>3. \A l \in Nat \ {0} : l <= 1 => l = 1
      OBVIOUS
    <3> QED BY <3>1, <3>2, <3>3, Zenon
  <2>2. s \in [1 .. 1 -> S]
    BY <2>1, LenProperties
  <2>4. s[1] \in S
    BY <2>2
  <2> QED BY <2>2, <2>4
<1> QED BY <1>1, <1>2

LEMMA SeqDomain ==
  ASSUME NEW S, NEW s \in Seq(S)
  PROVE  Len(s) \in Nat /\ DOMAIN s = 1 .. Len(s) /\ \A k \in DOMAIN s : s[k] \in S
OBVIOUS

LEMMA DeriveStep == CallsInv /\ Calls!Derive => CallsInv'
<1> SUFFICES ASSUME CallsInv, Calls!Derive PROVE CallsInv'
  OBVIOUS
<1> DEFINE variant == data[Len(functions) + 1]
           m == IF variant.attrs = <<>> THEN 0 ELSE variant.attrs[1]
           function == [number |-> variant.number, arity |-> m, driver |-> Calls!driver(m)]
<1>0. /\ data \in Seq(Calls!Variant) /\ functions \in Seq(Function)
      /\ \A k \in DOMAIN functions : FunctionOf(k)
  BY DEF CallsInv
<1>1. /\ pc = "derive" /\ Len(functions) < Len(data)
      /\ data' = data /\ call' = call /\ regs' = regs
      /\ \/ pc' \in {"only unit-variant", "duplicate args", "too many arguments"} /\ functions' = functions
         \/ /\ pc' = pc /\ functions' = Append(functions, function)
            /\ variant.unit /\ Len(variant.attrs) <= 1 /\ Calls!driver(m) # Calls!Unspecified
  <2>1. pc = "derive" /\ Len(functions) < Len(data) /\ data' = data /\ call' = call /\ regs' = regs
    BY DEF Calls!Derive
  <2>2. variant.attrs \in Seq(Nat)
    <3>1. Len(functions) + 1 \in 1 .. Len(data)
      BY <1>0, <2>1, SeqDomain
    <3>2. variant \in Calls!Variant
      BY <1>0, <3>1, SeqDomain
    <3> QED BY <3>2 DEF Calls!Variant
  <2>3. Len(variant.attrs) \in Nat
    BY <2>2, SeqOfOne
  <2>4. CASE ~variant.unit
    BY <2>1, <2>4 DEF Calls!Derive
  <2>5. CASE variant.unit /\ Len(variant.attrs) > 1
    BY <2>1, <2>3, <2>5 DEF Calls!Derive
  <2>6. CASE variant.unit /\ Len(variant.attrs) <= 1 /\ Calls!driver(m) = Calls!Unspecified
    BY <2>1, <2>3, <2>6 DEF Calls!Derive
  <2>7. CASE variant.unit /\ Len(variant.attrs) <= 1 /\ Calls!driver(m) # Calls!Unspecified
    BY <2>1, <2>3, <2>7 DEF Calls!Derive
  <2>8. Len(variant.attrs) <= 1 \/ Len(variant.attrs) > 1
    BY <2>3
  <2> HIDE DEF variant, m, function
  <2> QED BY <2>1, <2>4, <2>5, <2>6, <2>7, <2>8
<1>2. CASE pc' \in {"only unit-variant", "duplicate args", "too many arguments"} /\ functions' = functions
  BY <1>1, <1>2 DEF CallsInv, Inside, FunctionOf
<1>3. CASE /\ pc' = pc /\ functions' = Append(functions, function)
           /\ variant.unit /\ Len(variant.attrs) <= 1 /\ Calls!driver(m) # Calls!Unspecified
  <2>1. /\ data \in Seq(Calls!Variant) /\ functions \in Seq(Function)
        /\ \A k \in DOMAIN functions : FunctionOf(k)
    BY <1>0
  <2>2. /\ Len(functions) \in Nat /\ Len(data) \in Nat /\ DOMAIN functions = 1 .. Len(functions)
        /\ Len(functions) + 1 \in 1 .. Len(data) /\ DOMAIN data = 1 .. Len(data)
    <3>1. /\ Len(functions) \in Nat /\ DOMAIN functions = 1 .. Len(functions)
          /\ Len(data) \in Nat /\ DOMAIN data = 1 .. Len(data)
      BY <2>1, SeqDomain
    <3>2. Len(functions) < Len(data)
      BY <1>1
    <3> HIDE DEF variant, m, function
    <3> QED BY <3>1, <3>2
  <2>3. variant.number \in Nat /\ variant.attrs \in Seq(Nat)
    <3>1. variant \in Calls!Variant
      BY <2>1, <2>2
    <3> QED BY <3>1 DEF Calls!Variant
  <2>4. m \in Nat /\ variant.attrs \in {<<>>, <<m>>}
    <3>1. CASE variant.attrs = <<>>
      BY <3>1
    <3>2. CASE variant.attrs # <<>>
      <4>1. variant.attrs = <<variant.attrs[1]>> /\ variant.attrs[1] \in Nat
        BY <1>3, <2>3, <3>2, SeqOfOne
      <4> QED BY <3>2, <4>1
    <3> QED BY <3>1, <3>2
  <2> HIDE DEF m
  <2>5. m \in 0 .. 5 /\ Calls!driver(m) = m
    BY <1>3, <2>4 DEF Calls!driver, Calls!Unspecified
  <2>6. /\ function \in Function
        /\ function.number = variant.number /\ function.arity = m /\ function.driver = m
    BY <2>3, <2>5 DEF Function
  <2> HIDE DEF function
  <2>7. /\ functions' \in Seq(Function)
        /\ Len(functions') = Len(functions) + 1 /\ DOMAIN functions' = 1 .. Len(functions) + 1
        /\ \A k \in 1 .. Len(functions) : functions'[k] = functions[k]
        /\ functions'[Len(functions) + 1] = function
    BY <1>3, <2>1, <2>2, <2>6
  <2>8. ASSUME NEW k \in DOMAIN functions' PROVE FunctionOf(k)'
    <3>1. CASE k = Len(functions) + 1
      <4>1. functions'[k] = function /\ data'[k] = variant
        BY <1>1, <2>7, <3>1
      <4> QED BY <1>3, <2>4, <2>5, <2>6, <4>1 DEF FunctionOf
    <3>2. CASE k # Len(functions) + 1
      <4>1. k \in DOMAIN functions /\ functions'[k] = functions[k] /\ data' = data
        <5>1. k \in 1 .. Len(functions)
          BY <2>2, <2>7, <3>2
        <5> QED BY <1>1, <2>2, <2>7, <5>1
      <4> QED BY <2>1, <4>1 DEF FunctionOf
    <3> QED BY <3>1, <3>2
  <2>9. Len(functions') <= Len(data') /\ pc' = "derive" /\ data' = data /\ regs' = regs
    BY <1>1, <1>3, <2>2, <2>7
  <2> QED BY <2>7, <2>8, <2>9 DEF CallsInv, Inside
<1> QED BY <1>1, <1>2, <1>3

LEMMA EnterStep ==
  ASSUME CallsInv, NEW f \in DOMAIN functions, NEW args \in [1 .. functions[f].arity -> Words],
         Calls!Enter(f, args)
  PROVE  CallsInv'
<1> DEFINE In(r) == {k \in 1 .. functions[f].driver : Calls!ArgumentRegisters[k] = r}
<1>1. /\ pc = "ready" /\ pc' = "syscall" /\ data' = data /\ functions' = functions
      /\ call' = [function |-> f, args |-> args]
      /\ regs' = [r \in Calls!Registers |->
                    CASE r = "rax" -> functions[f].number
                      [] r # "rax" /\ In(r) # {} -> args[CHOOSE k \in In(r) : TRUE]
                      [] OTHER -> Calls!Unspecified]
  BY DEF Calls!Enter
<1>2. functions[f].arity \in 0 .. 5 /\ functions[f].driver = functions[f].arity
  BY DEF CallsInv, FunctionOf
<1>3. DOMAIN regs' = Calls!Registers /\ regs'["rax"] = functions[f].number
  BY <1>1 DEF Calls!Registers
<1>4. ASSUME NEW k \in 1 .. functions[f].arity PROVE regs'[Calls!ArgumentRegisters[k]] = args[k]
  <2> DEFINE r == Calls!ArgumentRegisters[k]
  <2>1. k \in 1 .. 5 /\ k \in 1 .. functions[f].driver
    BY <1>2
  <2>2. \A l \in 1 .. 5 : Calls!ArgumentRegisters[l] = r => l = k
    BY <2>1 DEF Calls!ArgumentRegisters
  <2>3. r \in Calls!Registers /\ r # "rax"
    BY <2>1 DEF Calls!ArgumentRegisters, Calls!Registers
  <2>4. In(r) = {k}
    BY <1>2, <2>1, <2>2
  <2>5. regs'[r] = args[CHOOSE l \in In(r) : TRUE]
    <3> HIDE DEF In, r
    <3> QED BY <1>1, <2>3, <2>4
  <2>6. (CHOOSE l \in In(r) : TRUE) = k
    BY <2>4
  <2> QED BY <2>5, <2>6
<1>5. call'.function = f /\ call'.args = args /\ DOMAIN args = 1 .. functions[f].arity
  BY <1>1
<1>6. /\ data \in Seq(Calls!Variant) /\ functions \in Seq(Function)
      /\ Len(functions) <= Len(data) /\ Len(functions) = Len(data)
      /\ \A k \in DOMAIN functions : FunctionOf(k)
  BY <1>1 DEF CallsInv
<1>7. \A k \in DOMAIN functions' : FunctionOf(k)'
  BY <1>1, <1>6 DEF FunctionOf
<1>8. /\ call'.function \in DOMAIN functions'
      /\ DOMAIN call'.args = 1 .. functions'[call'.function].arity
      /\ regs'["rax"] = functions'[call'.function].number
  BY <1>1, <1>3, <1>5
<1>9. \A k \in DOMAIN call'.args : regs'[Calls!ArgumentRegisters[k]] = call'.args[k]
  BY <1>4, <1>5
<1>10. data' = data /\ functions' = functions
  BY <1>1
<1> QED BY <1>3, <1>6, <1>7, <1>8, <1>9, <1>10 DEF CallsInv

LEMMA InstructionStep == CallsInv /\ Calls!Instruction => CallsInv'
<1> SUFFICES ASSUME CallsInv, Calls!Instruction PROVE CallsInv'
  OBVIOUS
<1>1. /\ pc = "syscall" /\ pc' = "kernel" /\ data' = data /\ functions' = functions /\ call' = call
      /\ regs' = [regs EXCEPT !["rcx"] = Calls!Unspecified, !["r11"] = Calls!Unspecified]
  BY DEF Calls!Instruction
<1>2. DOMAIN regs = Calls!Registers
  BY DEF CallsInv
<1>3. DOMAIN regs' = Calls!Registers /\ \A r \in Calls!Registers : r \notin {"rcx", "r11"} => regs'[r] = regs[r]
  BY <1>1, <1>2
<1>4. regs'["rax"] = regs["rax"]
  BY <1>3 DEF Calls!Registers
<1>5. /\ call.function \in DOMAIN functions
      /\ DOMAIN call.args = 1 .. functions[call.function].arity
      /\ functions[call.function].arity \in 0 .. 5
      /\ regs["rax"] = functions[call.function].number
      /\ \A k \in DOMAIN call.args : regs[Calls!ArgumentRegisters[k]] = call.args[k]
  BY <1>1 DEF CallsInv, Inside, FunctionOf
<1>6. ASSUME NEW k \in DOMAIN call.args PROVE regs'[Calls!ArgumentRegisters[k]] = call.args[k]
  <2>1. k \in 1 .. 5
    BY <1>5
  <2>2. Calls!ArgumentRegisters[k] \in Calls!Registers \ {"rcx", "r11"}
    BY <2>1 DEF Calls!ArgumentRegisters, Calls!Registers
  <2> QED BY <1>3, <1>5, <2>2
<1>7. /\ data \in Seq(Calls!Variant) /\ functions \in Seq(Function)
      /\ Len(functions) <= Len(data) /\ Len(functions) = Len(data)
      /\ \A k \in DOMAIN functions : FunctionOf(k)
  BY <1>1 DEF CallsInv
<1>8. \A k \in DOMAIN functions' : FunctionOf(k)'
  BY <1>1, <1>7 DEF FunctionOf
<1> QED BY <1>1, <1>3, <1>4, <1>5, <1>6, <1>7, <1>8 DEF CallsInv

LEMMA CallsStep == CallsInv /\ Calls!Next => CallsInv'
<1> SUFFICES ASSUME CallsInv, Calls!Next PROVE CallsInv'
  OBVIOUS
<1>1. CASE Calls!Derived
  BY <1>1 DEF Calls!Derived, CallsInv, Inside, FunctionOf
<1>2. CASE Calls!Return
  <2>1. /\ pc' = "ready" /\ pc = "kernel" /\ data' = data /\ functions' = functions
        /\ DOMAIN regs' = DOMAIN regs
    BY <1>2 DEF Calls!Return
  <2> QED BY <2>1 DEF CallsInv, Inside, FunctionOf
<1>3. CASE \E f \in DOMAIN functions : \E args \in [1 .. functions[f].arity -> Words] : Calls!Enter(f, args)
  BY <1>3, EnterStep
<1> QED BY <1>1, <1>2, <1>3, DeriveStep, InstructionStep DEF Calls!Next

LEMMA CallsUnchanged ==
  ASSUME CallsInv, data' = data, functions' = functions, call' = call, regs' = regs, pc' = pc
  PROVE  CallsInv'
BY DEF CallsInv, Inside, FunctionOf

LEMMA CallsSuffice == CallsInv => Calls!ArgumentsSurvive
<1> SUFFICES ASSUME CallsInv PROVE Calls!ArgumentsSurvive
  OBVIOUS
<1>1. DOMAIN functions = 1 .. Len(functions) /\ DOMAIN data = 1 .. Len(data)
  BY DEF CallsInv
<1> QED BY <1>1 DEF CallsInv, Inside, FunctionOf, Calls!ArgumentsSurvive

-----------------------------------------------------------------------------
(* VAddr.                                                                  *)

(* The bits of an index that has been shifted into its field, and what is  *)
(* found in the field and in the others.                                   *)
LEMMA FieldOfShift ==
  ASSUME NEW index \in Addresses!Index, NEW m \in Nat
  PROVE  /\ Addresses!Field(Addresses!Shift(index, m), m) = index
         /\ Addresses!Shift(index, m) \subseteq m .. m + 8
<1>1. \A b \in 0 .. 8 : b \in Addresses!Field(Addresses!Shift(index, m), m) <=> b \in index
  BY DEF Addresses!Field, Addresses!Shift
<1>2. index \subseteq 0 .. 8
  BY DEF Addresses!Index
<1> QED BY <1>1, <1>2 DEF Addresses!Field, Addresses!Shift

LEMMA ShiftOfField ==
  ASSUME NEW a \in Addresses!Word, NEW m \in Nat
  PROVE  Addresses!Shift(Addresses!Field(a, m), m) = a \cap (m .. m + 8)
BY DEF Addresses!Field, Addresses!Shift

(* A field sees the bits below 48 only.                                    *)
LEMMA FieldOfExtended ==
  ASSUME NEW a, NEW m \in 0 .. 39
  PROVE  Addresses!Field(Addresses!SignExtend(a), m) = Addresses!Field(a, m)
<1>1. \A b \in 0 .. 8 : b + m \in 0 .. 47
  OBVIOUS
<1> QED BY <1>1 DEF Addresses!Field, Addresses!SignExtend

LEMMA FieldOfUnion ==
  ASSUME NEW a, NEW b, NEW m, Addresses!Field(b, m) = {}
  PROVE  Addresses!Field(a \cup b, m) = Addresses!Field(a, m)
BY DEF Addresses!Field

LEMMA FieldElsewhere ==
  ASSUME NEW a, NEW m \in Nat, \A b \in m .. m + 8 : b \notin a
  PROVE  Addresses!Field(a, m) = {}
BY DEF Addresses!Field

LEMMA ExtendedCanonical ==
  ASSUME NEW a
  PROVE  /\ Addresses!SignExtend(a) \in Addresses!Word
         /\ Addresses!Canonical(Addresses!SignExtend(a))
         /\ a \in Addresses!Word /\ Addresses!Canonical(a) => Addresses!SignExtend(a) = a
BY DEF Addresses!SignExtend, Addresses!Canonical, Addresses!Word

LEMMA InfoType ==
  ASSUME NEW a PROVE Addresses!info(a) \in Addresses!VAddrInfo
BY DEF Addresses!info, Addresses!VAddrInfo, Addresses!Field, Addresses!Index, Addresses!Offset

(* from_info makes an address that the processor accepts and takes apart   *)
(* into the same fields.                                                   *)
LEMMA InfoOfFromInfo ==
  ASSUME NEW v \in Addresses!VAddrInfo
  PROVE  /\ Addresses!from_info(v) \in Addresses!Word
         /\ Addresses!Canonical(Addresses!from_info(v))
         /\ Addresses!info(Addresses!from_info(v)) = v
<1> DEFINE o == v.page_offset \cap (0 .. 11)
           s1 == Addresses!Shift(v.pt_index, 12)
           s2 == Addresses!Shift(v.pd_index, 21)
           s3 == Addresses!Shift(v.pdpt_index, 30)
           s4 == Addresses!Shift(v.pml4_index, 39)
           a == o \cup s1 \cup s2 \cup s3 \cup s4
<1>1. Addresses!from_info(v) = Addresses!SignExtend(a)
  BY DEF Addresses!from_info
<1>2. /\ v.page_offset \subseteq 0 .. 11
      /\ v.pt_index \in Addresses!Index /\ v.pd_index \in Addresses!Index
      /\ v.pdpt_index \in Addresses!Index /\ v.pml4_index \in Addresses!Index
      /\ v = [page_offset |-> v.page_offset, pt_index |-> v.pt_index, pd_index |-> v.pd_index,
              pdpt_index |-> v.pdpt_index, pml4_index |-> v.pml4_index]
  BY DEF Addresses!VAddrInfo, Addresses!Offset
<1>3. /\ o \subseteq 0 .. 11 /\ s1 \subseteq 12 .. 20 /\ s2 \subseteq 21 .. 29
      /\ s3 \subseteq 30 .. 38 /\ s4 \subseteq 39 .. 47
  BY <1>2, FieldOfShift
<1>4. /\ Addresses!Field(s1, 12) = v.pt_index /\ Addresses!Field(s2, 21) = v.pd_index
      /\ Addresses!Field(s3, 30) = v.pdpt_index /\ Addresses!Field(s4, 39) = v.pml4_index
  BY <1>2, FieldOfShift
<1> HIDE DEF s1, s2, s3, s4
<1>5. Addresses!Field(a, 12) = v.pt_index
  <2> DEFINE others == o \cup s2 \cup s3 \cup s4
  <2>1. Addresses!Field(others, 12) = {}
    BY <1>3, FieldElsewhere
  <2>2. a = s1 \cup others
    OBVIOUS
  <2> HIDE DEF a, others
  <2> QED BY <1>4, <2>1, <2>2, FieldOfUnion
<1>6. Addresses!Field(a, 21) = v.pd_index
  <2> DEFINE others == o \cup s1 \cup s3 \cup s4
  <2>1. Addresses!Field(others, 21) = {}
    BY <1>3, FieldElsewhere
  <2>2. a = s2 \cup others
    OBVIOUS
  <2> HIDE DEF a, others
  <2> QED BY <1>4, <2>1, <2>2, FieldOfUnion
<1>7. Addresses!Field(a, 30) = v.pdpt_index
  <2> DEFINE others == o \cup s1 \cup s2 \cup s4
  <2>1. Addresses!Field(others, 30) = {}
    BY <1>3, FieldElsewhere
  <2>2. a = s3 \cup others
    OBVIOUS
  <2> HIDE DEF a, others
  <2> QED BY <1>4, <2>1, <2>2, FieldOfUnion
<1>8. Addresses!Field(a, 39) = v.pml4_index
  <2> DEFINE others == o \cup s1 \cup s2 \cup s3
  <2>1. Addresses!Field(others, 39) = {}
    BY <1>3, FieldElsewhere
  <2>2. a = s4 \cup others
    OBVIOUS
  <2> HIDE DEF a, others
  <2> QED BY <1>4, <2>1, <2>2, FieldOfUnion
<1>9. Addresses!SignExtend(a) \cap (0 .. 11) = v.page_offset
  BY <1>2, <1>3 DEF Addresses!SignExtend
<1> HIDE DEF a
<1>10. Addresses!info(Addresses!SignExtend(a)) = v
  BY <1>2, <1>5, <1>6, <1>7, <1>8, <1>9, FieldOfExtended DEF Addresses!info
<1> QED BY <1>1, <1>10, ExtendedCanonical

LEMMA FromInfoOfInfo ==
  ASSUME NEW a \in Addresses!Word
  PROVE  Addresses!from_info(Addresses!info(a)) = Addresses!SignExtend(a)
<1> DEFINE v == Addresses!info(a)
<1>1. /\ v.page_offset = a \cap (0 .. 11)
      /\ Addresses!Shift(v.pt_index, 12) = a \cap (12 .. 20)
      /\ Addresses!Shift(v.pd_index, 21) = a \cap (21 .. 29)
      /\ Addresses!Shift(v.pdpt_index, 30) = a \cap (30 .. 38)
      /\ Addresses!Shift(v.pml4_index, 39) = a \cap (39 .. 47)
  <2>1. /\ v.page_offset = a \cap (0 .. 11) /\ v.pt_index = Addresses!Field(a, 12)
        /\ v.pd_index = Addresses!Field(a, 21) /\ v.pdpt_index = Addresses!Field(a, 30)
        /\ v.pml4_index = Addresses!Field(a, 39)
    BY DEF Addresses!info
  <2>2. /\ Addresses!Shift(Addresses!Field(a, 12), 12) = a \cap (12 .. 12 + 8)
        /\ Addresses!Shift(Addresses!Field(a, 21), 21) = a \cap (21 .. 21 + 8)
        /\ Addresses!Shift(Addresses!Field(a, 30), 30) = a \cap (30 .. 30 + 8)
        /\ Addresses!Shift(Addresses!Field(a, 39), 39) = a \cap (39 .. 39 + 8)
    BY ShiftOfField
  <2>3. 12 + 8 = 20 /\ 21 + 8 = 29 /\ 30 + 8 = 38 /\ 39 + 8 = 47
    OBVIOUS
  <2> HIDE DEF v
  <2> QED BY <2>1, <2>2, <2>3
<1>2. (v.page_offset \cap (0 .. 11)) \cup Addresses!Shift(v.pt_index, 12) \cup Addresses!Shift(v.pd_index, 21)
        \cup Addresses!Shift(v.pdpt_index, 30) \cup Addresses!Shift(v.pml4_index, 39) = a \cap (0 .. 47)
  BY <1>1
<1>3. Addresses!from_info(v) = Addresses!SignExtend(a \cap (0 .. 47))
  BY <1>2 DEF Addresses!from_info
<1>4. Addresses!SignExtend(a \cap (0 .. 47)) = Addresses!SignExtend(a)
  BY DEF Addresses!SignExtend
<1> QED BY <1>3, <1>4

AddressesInv ==
  /\ addr \in Samples
  /\ pc \in {"info", "from_info", "done"}
  /\ fields = IF pc = "info" THEN Addresses!info({}) ELSE Addresses!info(addr)
  /\ back = IF pc = "done" THEN Addresses!from_info(fields) ELSE {}

LEMMA AddressesStart == Addresses!Init => AddressesInv
BY DEF Addresses!Init, AddressesInv

LEMMA AddressesStep == AddressesInv /\ Addresses!Next => AddressesInv'
BY DEF Addresses!Next, Addresses!Decode, Addresses!Encode, AddressesInv

LEMMA AddressesSuffice == AddressesInv => Addresses!AddressesExact
<1> SUFFICES ASSUME AddressesInv PROVE Addresses!AddressesExact
  OBVIOUS
<1>0. addr \in Addresses!Word /\ RecursionIndex \in Addresses!Index
  BY AddressesAssumption DEF AddressesInv, Addresses!VAddrAssumption
<1>1. fields \in Addresses!VAddrInfo
  BY InfoType DEF AddressesInv
<1>2. back \in Addresses!Word
  BY <1>1, InfoOfFromInfo DEF AddressesInv, Addresses!Word
<1>3. Addresses!TypeOK
  BY <1>0, <1>1, <1>2 DEF AddressesInv, Addresses!TypeOK
<1>4. ASSUME pc = "done"
      PROVE  /\ Addresses!Canonical(back) /\ Addresses!info(back) = Addresses!info(addr)
             /\ Addresses!Canonical(addr) => back = addr
  <2>1. fields = Addresses!info(addr) /\ back = Addresses!from_info(fields)
    BY <1>4 DEF AddressesInv
  <2>2. back = Addresses!SignExtend(addr)
    BY <1>0, <2>1, FromInfoOfInfo
  <2> QED BY <1>0, <1>1, <2>1, <2>2, InfoOfFromInfo, ExtendedCanonical
<1>5. Addresses!WindowsApart
  <2>1. /\ fields.pml4_index \in Addresses!Index /\ fields.pdpt_index \in Addresses!Index
        /\ fields.pd_index \in Addresses!Index
    BY <1>1 DEF Addresses!VAddrInfo
  <2> DEFINE R == RecursionIndex
             Info(i4, i3, i2, i1) == [page_offset |-> {}, pt_index |-> i1, pd_index |-> i2,
                                      pdpt_index |-> i3, pml4_index |-> i4]
  <2>2. ASSUME NEW i1 \in Addresses!Index, NEW i2 \in Addresses!Index,
               NEW i3 \in Addresses!Index, NEW i4 \in Addresses!Index
        PROVE  /\ Addresses!Canonical(Addresses!Window(i4, i3, i2, i1))
               /\ Addresses!info(Addresses!Window(i4, i3, i2, i1)) = Info(i4, i3, i2, i1)
    <3>1. Info(i4, i3, i2, i1) \in Addresses!VAddrInfo
      BY DEF Addresses!VAddrInfo, Addresses!Offset
    <3>2. Addresses!Window(i4, i3, i2, i1) = Addresses!from_info(Info(i4, i3, i2, i1))
      BY DEF Addresses!Window
    <3> HIDE DEF Info
    <3> QED BY <3>1, <3>2, InfoOfFromInfo
  <2>3. /\ Addresses!Canonical(Addresses!pml4_window)
        /\ Addresses!info(Addresses!pml4_window) = Info(R, R, R, R)
    BY <1>0, <2>2 DEF Addresses!pml4_window
  <2>4. /\ Addresses!Canonical(Addresses!pdpt_window(fields))
        /\ Addresses!info(Addresses!pdpt_window(fields)) = Info(R, R, R, fields.pml4_index)
    <3>1. Addresses!pdpt_window(fields) = Addresses!Window(R, R, R, fields.pml4_index)
      BY DEF Addresses!pdpt_window
    <3> HIDE DEF Info
    <3> QED BY <1>0, <2>1, <2>2, <3>1
  <2>5. /\ Addresses!Canonical(Addresses!pd_window(fields))
        /\ Addresses!info(Addresses!pd_window(fields)) = Info(R, R, fields.pml4_index, fields.pdpt_index)
    <3>1. Addresses!pd_window(fields) = Addresses!Window(R, R, fields.pml4_index, fields.pdpt_index)
      BY DEF Addresses!pd_window
    <3> HIDE DEF Info
    <3> QED BY <1>0, <2>1, <2>2, <3>1
  <2>6. /\ Addresses!Canonical(Addresses!pt_window(fields))
        /\ Addresses!info(Addresses!pt_window(fields))
             = Info(R, fields.pml4_index, fields.pdpt_index, fields.pd_index)
    <3>1. Addresses!pt_window(fields)
            = Addresses!Window(R, fields.pml4_index, fields.pdpt_index, fields.pd_index)
      BY DEF Addresses!pt_window
    <3> HIDE DEF Info
    <3> QED BY <1>0, <2>1, <2>2, <3>1
  <2> DEFINE windows == <<Addresses!pml4_window, Addresses!pdpt_window(fields),
                          Addresses!pd_window(fields), Addresses!pt_window(fields)>>
  <2>7. /\ \A k \in 1 .. 4 : Addresses!Canonical(windows[k])
        /\ \A k \in 1 .. 4 : Addresses!info(windows[k]).pml4_index = R
    BY <2>3, <2>4, <2>5, <2>6
  <2>8. ASSUME fields.pml4_index # R PROVE \A j, k \in 1 .. 4 : j # k => windows[j] # windows[k]
    <3>1. /\ Info(R, R, R, R) # Info(R, R, R, fields.pml4_index)
          /\ Info(R, R, R, R) # Info(R, R, fields.pml4_index, fields.pdpt_index)
          /\ Info(R, R, R, R) # Info(R, fields.pml4_index, fields.pdpt_index, fields.pd_index)
          /\ Info(R, R, R, fields.pml4_index) # Info(R, R, fields.pml4_index, fields.pdpt_index)
          /\ Info(R, R, R, fields.pml4_index) # Info(R, fields.pml4_index, fields.pdpt_index, fields.pd_index)
          /\ Info(R, R, fields.pml4_index, fields.pdpt_index)
               # Info(R, fields.pml4_index, fields.pdpt_index, fields.pd_index)
      BY <2>8
    <3>2. /\ windows[1] # windows[2] /\ windows[1] # windows[3] /\ windows[1] # windows[4]
          /\ windows[2] # windows[3] /\ windows[2] # windows[4] /\ windows[3] # windows[4]
      <4> HIDE DEF Info
      <4> QED BY <2>3, <2>4, <2>5, <2>6, <3>1
    <3> HIDE DEF windows
    <3> QED BY <3>2
  <2> QED BY <2>7, <2>8 DEF Addresses!WindowsApart
<1> QED BY <1>3, <1>4, <1>5 DEF Addresses!AddressesExact, Addresses!RoundTrip

-----------------------------------------------------------------------------
(* Products and least elements.                                            *)

LEMMA ProductMonotone ==
  ASSUME NEW a \in Nat, NEW b \in Nat, NEW c \in Nat, a <= b
  PROVE  a * c \in Nat /\ b * c \in Nat /\ a * c <= b * c
BY SMT

LEMMA ProductNext ==
  ASSUME NEW a \in Nat, NEW c \in Nat
  PROVE  a * c \in Nat /\ (a + 1) * c = a * c + c
BY SMT

(* A set of naturals that is not empty has a least element.                *)
LEMMA LeastNatural ==
  ASSUME NEW S \in SUBSET Nat, S # {}
  PROVE  \E x \in S : \A y \in S : x <= y
<1>1. PICK x \in S : \A y \in S : <<y, x>> \notin OpToRel(<, Nat)
  BY WFMin, NatLessThanWellFounded, Zenon
<1>2. ASSUME NEW y \in S PROVE x <= y
  <2>1. x \in Nat /\ y \in Nat
    OBVIOUS
  <2>2. ~(y < x)
    BY <1>1, <2>1 DEF OpToRel
  <2> QED BY <2>1, <2>2
<1> QED BY <1>2

-----------------------------------------------------------------------------
(* Elf.                                                                    *)

Item == [offset : Nat, size : Nat, name : Nat, at : Int, kind : {"none", "ok", "eof"}]
Iter == [len : Nat, stride : Nat, reader : Nat]

LEMMA FileFacts ==
  ASSUME file \in Files
  PROVE  /\ file.len \in Nat /\ file.string_table_index \in Nat
         /\ file.ident \in {"bad_magic", "class1", "class2", "class_other"}
         /\ file.programs.offset \in Nat /\ file.programs.len \in Nat /\ file.programs.stride \in Nat
         /\ file.sections.offset \in Nat /\ file.sections.len \in Nat /\ file.sections.stride \in Nat
         /\ \A o \in 0 .. file.len - 1 : Headers[o] \in Reader!Extent
BY ReaderAssumption DEF Reader!FilesAssumption, Reader!Table

LEMMA SizesPositive ==
  /\ PrologueSize \in Nat \ {0} /\ HeaderSize \in Nat \ {0}
  /\ ProgramSize \in Nat \ {0} /\ SectionSize \in Nat \ {0}
BY ReaderAssumption DEF Reader!FilesAssumption

(* The data of a header that lies inside the file.                         *)
LEMMA DataFacts ==
  ASSUME file \in Files, NEW o \in 0 .. file.len - 1
  PROVE  /\ Reader!Data(o) \in Item
         /\ Reader!Data(o).at = o /\ Reader!Data(o) # Reader!None
         /\ Reader!Data(o).kind = "ok" => Reader!Data(o).offset + Reader!Data(o).size <= file.len
<1>1. /\ Headers[o].offset \in Nat /\ Headers[o].size \in Nat /\ Headers[o].name \in Nat
      /\ file.len \in Nat /\ o \in Nat
  BY FileFacts DEF Reader!Extent
<1>2. Reader!Data(o).at = o /\ Reader!None.at = -1
  BY DEF Reader!Data, Reader!None
<1>3. Reader!Data(o) # Reader!None
  BY <1>1, <1>2
<1> QED BY <1>1, <1>2, <1>3 DEF Reader!Data, Reader!CanFork, Reader!CanTake, Item

(* What a call of an iterator returns and leaves.                          *)
LEMMA IterFacts ==
  ASSUME file \in Files, NEW iter \in Iter, NEW size \in Nat \ {0}
  PROVE  /\ Reader!NextIter(iter, size) \in Iter
         /\ Reader!NextIter(iter, size).stride = iter.stride
         /\ iter.reader <= file.len => Reader!NextIter(iter, size).reader <= file.len
         /\ Reader!NextItem(iter, size) \in Item
         /\ Reader!NextItem(iter, size) = Reader!None <=> ~(iter.len > 0 /\ iter.reader + size <= file.len)
         /\ Reader!NextItem(iter, size) = Reader!None =>
              Reader!NextItem(Reader!NextIter(iter, size), size) = Reader!None
         /\ Reader!NextItem(iter, size) # Reader!None =>
              /\ Reader!NextItem(iter, size).at = iter.reader
              /\ Reader!NextItem(iter, size).kind = "ok" =>
                   Reader!NextItem(iter, size).offset + Reader!NextItem(iter, size).size <= file.len
              /\ Reader!NextIter(iter, size).len = iter.len - 1
              /\ iter.reader + iter.stride <= file.len =>
                   Reader!NextIter(iter, size).reader = iter.reader + iter.stride
<1>0. file.len \in Nat /\ iter.len \in Nat /\ iter.stride \in Nat /\ iter.reader \in Nat
  BY FileFacts DEF Iter
<1> DEFINE item == Reader!NextItem(iter, size)
           iter2 == Reader!NextIter(iter, size)
           taken == iter.len > 0 /\ iter.reader + size <= file.len
           counted == [iter EXCEPT !.len = @ - 1]
           skipped == [counted EXCEPT !.reader = @ + counted.stride]
<1>1. Reader!None \in Item
  BY DEF Reader!None, Item
<1>2. iter.len # 0 => /\ counted \in Iter /\ counted.stride = iter.stride /\ counted.reader = iter.reader
                      /\ counted.len = iter.len - 1
                      /\ skipped \in Iter /\ skipped.stride = iter.stride /\ skipped.len = iter.len - 1
                      /\ skipped.reader = iter.reader + iter.stride
  <2> SUFFICES ASSUME iter.len # 0
               PROVE  /\ counted \in Iter /\ counted.stride = iter.stride /\ counted.reader = iter.reader
                      /\ counted.len = iter.len - 1
                      /\ skipped \in Iter /\ skipped.stride = iter.stride /\ skipped.len = iter.len - 1
                      /\ skipped.reader = iter.reader + iter.stride
    OBVIOUS
  <2>1. iter.len - 1 \in Nat /\ iter.reader + iter.stride \in Nat
    BY <1>0
  <2>2. /\ counted \in Iter /\ counted.stride = iter.stride /\ counted.reader = iter.reader
        /\ counted.len = iter.len - 1
    BY <2>1 DEF Iter
  <2> HIDE DEF counted
  <2> QED BY <2>1, <2>2 DEF Iter
<1>3. CASE taken
  <2>1. iter.reader \in 0 .. file.len - 1 /\ iter.len # 0
    BY <1>0, <1>3
  <2>2. item = Reader!Data(iter.reader)
    BY <1>3 DEF Reader!NextItem, Reader!CanTake
  <2>3. iter2 = IF iter.reader + iter.stride <= file.len THEN skipped ELSE counted
    <3>1. iter2 = Reader!SkipEntry(counted)
      BY <1>3, <2>1 DEF Reader!NextIter, Reader!CanTake
    <3> QED BY <1>2, <2>1, <3>1 DEF Reader!SkipEntry, Reader!CanTake
  <2> HIDE DEF item, iter2, counted, skipped
  <2>4. /\ item \in Item /\ item # Reader!None /\ item.at = iter.reader
        /\ item.kind = "ok" => item.offset + item.size <= file.len
    BY <2>1, <2>2, DataFacts
  <2>5. iter2 \in Iter /\ iter2.stride = iter.stride /\ iter2.len = iter.len - 1
        /\ (iter.reader <= file.len => iter2.reader <= file.len)
        /\ (iter.reader + iter.stride <= file.len => iter2.reader = iter.reader + iter.stride)
    BY <1>2, <2>1, <2>3
  <2> QED BY <1>3, <2>4, <2>5 DEF item, iter2
<1>4. CASE ~taken
  <2>1. item = Reader!None
    BY <1>4 DEF Reader!NextItem, Reader!CanTake
  <2>2. iter2 = IF iter.len = 0 THEN iter ELSE counted
    <3>1. iter.len = 0 \/ ~(iter.reader + size <= file.len)
      BY <1>0, <1>4
    <3> QED BY <3>1 DEF Reader!NextIter, Reader!CanTake
  <2> HIDE DEF item, counted, skipped
  <2>3. /\ iter2 \in Iter /\ iter2.stride = iter.stride /\ iter2.reader = iter.reader
        /\ iter2.len = IF iter.len = 0 THEN 0 ELSE iter.len - 1
    BY <1>2, <2>2
  <2> HIDE DEF iter2
  <2>4. ~(iter2.len > 0 /\ iter2.reader + size <= file.len)
    BY <1>0, <1>4, <2>3
  <2>5. Reader!NextItem(iter2, size) = Reader!None
    BY <2>4 DEF Reader!NextItem, Reader!CanTake
  <2> QED BY <1>1, <1>4, <2>1, <2>3, <2>5 DEF item, iter2
<1> QED BY <1>3, <1>4

(* The name that starts inside the string table ends at a NUL or with it.  *)
LEMMA NameEndFacts ==
  ASSUME string_table \in Item, NEW start \in Nat, start <= string_table.size
  PROVE  LET end == Reader!NameEnd(start)
         IN  /\ end \in Nat /\ start <= end /\ end <= string_table.size
             /\ \A k \in start .. end - 1 : string_table.offset + k \notin Nul
             /\ end = string_table.size \/ string_table.offset + end \in Nul
<1> DEFINE size == string_table.size
           Stop(e) == e >= size \/ string_table.offset + e \in Nul
           Good(e) == /\ Stop(e)
                      /\ \A k \in start .. e - 1 : k < size /\ string_table.offset + k \notin Nul
           Stops == {e \in start .. size : Stop(e)}
<1>0. size \in Nat /\ string_table.offset \in Nat
  BY DEF Item
<1>1. size \in Stops /\ Stops \in SUBSET Nat
  BY <1>0
<1>2. PICK e \in Stops : \A y \in Stops : e <= y
  BY <1>1, LeastNatural
<1>3. e \in start .. start + size /\ Good(e)
  <2>1. e \in Nat /\ start <= e /\ e <= size /\ Stop(e)
    BY <1>0, <1>2
  <2>2. ASSUME NEW k \in start .. e - 1 PROVE k < size /\ string_table.offset + k \notin Nul
    <3>1. k \in start .. size /\ ~(e <= k)
      BY <1>0, <2>1
    <3>2. k \notin Stops
      BY <1>2, <3>1
    <3> QED BY <1>0, <3>1, <3>2
  <2> QED BY <1>0, <2>1, <2>2
<1> DEFINE end == Reader!NameEnd(start)
<1>4. end = CHOOSE x \in start .. start + size : Good(x)
  BY DEF Reader!NameEnd
<1>5. end \in start .. start + size /\ Good(end)
  <2> HIDE DEF Good, size, end
  <2> QED BY <1>3, <1>4
<1> HIDE DEF end
<1>6. end \in Nat /\ start <= end
  BY <1>0, <1>5
<1>7. end <= size
  <2> SUFFICES ASSUME ~(end <= size) PROVE FALSE
    OBVIOUS
  <2>1. size \in start .. end - 1
    BY <1>0, <1>6
  <2> QED BY <1>0, <1>5, <2>1
<1>8. end = size \/ string_table.offset + end \in Nul
  BY <1>0, <1>5, <1>6, <1>7
<1> QED BY <1>5, <1>6, <1>7, <1>8 DEF end

(* Before the string table has been found.                                 *)
Beginning == pc \in {"prologue", "header"}
Searching == pc \in {"prologue", "header", "string_table"}
SectionsFit == file.sections.offset + file.sections.len * file.sections.stride <= file.len

ReaderTypes ==
  /\ file \in Files
  /\ Reader!TypeOK
  /\ string_table \in Item
  /\ items \in Seq(Item)

SearchInv ==
  /\ Beginning => programs = Reader!Iterator(file.programs) /\ sections = Reader!Iterator(file.sections)
  /\ Searching =>
       /\ name = <<0, 0>>
       /\ i + sections.len = file.sections.len
       /\ sections.stride = file.sections.stride
       /\ SectionsFit => sections.reader = file.sections.offset + i * file.sections.stride
  /\ pc \in {"string_table", "ready"} =>
       file.sections.offset <= file.len /\ sections.reader <= file.len /\ programs.reader <= file.len

FoundInv ==
  /\ pc = "ready" => string_table.offset + string_table.size <= file.len
  /\ Reader!StringTableFound
  /\ Reader!NameInStringTable

(* The items that the iterator has returned, and where it is.              *)
ProgramsInv ==
  /\ \A k \in DOMAIN items : items[k].kind = "ok" => items[k].offset + items[k].size <= file.len
  /\ programs.stride = file.programs.stride
  /\ Reader!TableFits =>
       /\ Len(items) + programs.len = file.programs.len
       /\ programs.reader = file.programs.offset + Len(items) * file.programs.stride
       /\ \A k \in DOMAIN items : items[k].at = file.programs.offset + (k - 1) * file.programs.stride
  /\ ended => Reader!NextItem(programs, ProgramSize) = Reader!None

ReaderInv == ReaderTypes /\ SearchInv /\ FoundInv /\ ProgramsInv

LEMMA ReaderStarts == Reader!Init => ReaderInv
<1> SUFFICES ASSUME Reader!Init PROVE ReaderInv
  OBVIOUS
<1>1. /\ file \in Files /\ pc = "prologue" /\ i = 0 /\ sections = Reader!Iterator(file.sections)
      /\ string_table = Reader!None /\ programs = Reader!Iterator(file.programs)
      /\ items = <<>> /\ ended = FALSE /\ name = <<0, 0>>
  BY DEF Reader!Init
<1>2. /\ sections \in Iter /\ sections.len = file.sections.len /\ sections.stride = file.sections.stride
      /\ sections.reader = file.sections.offset
      /\ programs \in Iter /\ programs.len = file.programs.len /\ programs.stride = file.programs.stride
      /\ programs.reader = file.programs.offset
  BY <1>1, FileFacts DEF Reader!Iterator, Iter
<1>3. string_table \in Item /\ items \in Seq(Item) /\ Len(items) = 0 /\ DOMAIN items = {}
  BY <1>1 DEF Reader!None, Item
<1>4. ReaderTypes
  BY <1>1, <1>2, <1>3 DEF ReaderTypes, Reader!TypeOK, Iter
<1>5. 0 * file.sections.stride = 0 /\ 0 * file.programs.stride = 0
  BY <1>1, FileFacts
<1>6. SearchInv
  BY <1>1, <1>2, <1>5, FileFacts DEF SearchInv, Beginning, Searching
<1>7. FoundInv
  BY <1>1 DEF FoundInv, Reader!StringTableFound, Reader!NameInStringTable
<1>8. ProgramsInv
  BY <1>1, <1>2, <1>3, <1>5, FileFacts DEF ProgramsInv
<1> QED BY <1>4, <1>6, <1>7, <1>8 DEF ReaderInv

LEMMA ReaderIters ==
  ASSUME ReaderTypes
  PROVE  file \in Files /\ sections \in Iter /\ programs \in Iter /\ i \in Nat /\ ended \in BOOLEAN
         /\ string_table \in Item /\ items \in Seq(Item)
BY DEF ReaderTypes, Reader!TypeOK, Iter

(* The two steps that only look at the front of the file.                  *)
LEMMA FrontStep ==
  ASSUME ReaderInv, Beginning, pc' # pc,
         pc' \in {"header", "string_table", "Eof", "InvalidMagic", "InvalidArch", "panic"},
         pc' = "string_table" =>
           file.sections.offset <= file.len /\ file.programs.offset <= file.len,
         file' = file, i' = i, sections' = sections, string_table' = string_table, programs' = programs,
         items' = items, ended' = ended, name' = name
  PROVE  ReaderInv'
<1>1. ReaderTypes /\ SearchInv /\ FoundInv /\ ProgramsInv
  BY DEF ReaderInv
<1>2. ReaderTypes'
  BY <1>1 DEF ReaderTypes, Reader!TypeOK
<1>3. sections.reader = file.sections.offset /\ programs.reader = file.programs.offset
  BY <1>1 DEF SearchInv, Reader!Iterator
<1>4. SearchInv'
  BY <1>1, <1>3 DEF SearchInv, Beginning, Searching, SectionsFit
<1>5. FoundInv'
  BY <1>1 DEF FoundInv, Reader!StringTableFound, Reader!NameInStringTable
<1>6. ProgramsInv'
  BY <1>1 DEF ProgramsInv, Reader!TableFits, Reader!NextItem, Reader!CanTake, Reader!Data, Reader!CanFork
<1> QED BY <1>2, <1>4, <1>5, <1>6 DEF ReaderInv

LEMMA ReadPrologueStep == ReaderInv /\ Reader!ReadPrologue => ReaderInv'
<1> SUFFICES ASSUME ReaderInv, Reader!ReadPrologue PROVE ReaderInv'
  OBVIOUS
<1>1. file.ident \in {"bad_magic", "class1", "class2", "class_other"}
  BY FileFacts DEF ReaderInv, ReaderTypes
<1>2. pc = "prologue" /\ pc' \in {"header", "Eof", "InvalidMagic", "InvalidArch", "panic"}
  BY <1>1 DEF Reader!ReadPrologue
<1>3. /\ file' = file /\ i' = i /\ sections' = sections /\ string_table' = string_table
      /\ programs' = programs /\ items' = items /\ ended' = ended /\ name' = name
  BY DEF Reader!ReadPrologue
<1> QED BY <1>2, <1>3, FrontStep DEF Beginning

LEMMA ReadHeaderStep == ReaderInv /\ Reader!ReadHeader => ReaderInv'
<1> SUFFICES ASSUME ReaderInv, Reader!ReadHeader PROVE ReaderInv'
  OBVIOUS
<1>1. file \in Files
  BY DEF ReaderInv, ReaderTypes
<1>2. /\ pc = "header" /\ pc' \in {"string_table", "Eof"}
      /\ pc' = "string_table" => file.sections.offset <= file.len /\ file.programs.offset <= file.len
  BY <1>1, FileFacts DEF Reader!ReadHeader, Reader!CanFork
<1>3. /\ file' = file /\ i' = i /\ sections' = sections /\ string_table' = string_table
      /\ programs' = programs /\ items' = items /\ ended' = ended /\ name' = name
  BY DEF Reader!ReadHeader
<1> QED BY <1>2, <1>3, FrontStep DEF Beginning

(* Where the next header of a table that fits is, and that it fits.        *)
LEMMA NextInTable ==
  ASSUME NEW offset \in Nat, NEW len \in Nat, NEW stride \in Nat, NEW end \in Nat,
         offset + len * stride <= end, NEW k \in Nat, k < len
  PROVE  /\ offset + k * stride + stride = offset + (k + 1) * stride
         /\ offset + k * stride + stride <= end
         /\ k * stride \in Nat
<1>1. k * stride \in Nat /\ (k + 1) * stride = k * stride + stride
  BY ProductNext
<1>2. (k + 1) * stride \in Nat /\ len * stride \in Nat /\ (k + 1) * stride <= len * stride
  <2>1. k + 1 \in Nat /\ k + 1 <= len
    OBVIOUS
  <2> QED BY <2>1, ProductMonotone
<1> DEFINE x == k * stride
           y == (k + 1) * stride
           z == len * stride
<1>3. x \in Nat /\ y \in Nat /\ z \in Nat /\ y = x + stride /\ y <= z /\ offset + z <= end
  BY <1>1, <1>2
<1> HIDE DEF x, y, z
<1>4. offset + x + stride = offset + y /\ offset + x + stride <= end
  BY <1>3
<1> QED BY <1>1, <1>4 DEF x, y

(* The same with the arithmetic under names, as the two searches cite it.  *)
TableEnds(table, end) == table.offset + table.len * table.stride <= end
EntryEnds(table, k, end) ==
  /\ table.offset + k * table.stride + table.stride = table.offset + (k + 1) * table.stride
  /\ table.offset + k * table.stride + table.stride <= end

LEMMA NextInsideTable ==
  ASSUME NEW table, table.offset \in Nat, table.len \in Nat, table.stride \in Nat,
         NEW end \in Nat, TableEnds(table, end), NEW k \in Nat, k < table.len
  PROVE  EntryEnds(table, k, end)
<1> DEFINE o == table.offset
           l == table.len
           st == table.stride
<1>1. o \in Nat /\ l \in Nat /\ st \in Nat /\ k < l
  OBVIOUS
<1>2. o + l * st <= end
  BY DEF TableEnds
<1> HIDE DEF o, l, st
<1>3. /\ o + k * st + st = o + (k + 1) * st
      /\ o + k * st + st <= end
  BY <1>1, <1>2, NextInTable
<1> QED BY <1>3 DEF EntryEnds, o, l, st

LEMMA FindStringTableStep == ReaderInv /\ Reader!FindStringTable => ReaderInv'
<1> SUFFICES ASSUME ReaderInv, Reader!FindStringTable PROVE ReaderInv'
  OBVIOUS
<1> DEFINE section == Reader!NextItem(sections, SectionSize)
           found == section # Reader!None /\ i = file.string_table_index
<1>1. /\ pc = "string_table"
      /\ pc' = CASE section = Reader!None -> "MissingStringTable"
                 [] found -> IF section.kind = "ok" THEN "ready" ELSE "Eof"
                 [] OTHER -> pc
      /\ string_table' = IF found THEN section ELSE string_table
      /\ i' = IF section = Reader!None \/ found THEN i ELSE i + 1
      /\ sections' = IF found THEN Reader!Iterator(file.sections) ELSE Reader!NextIter(sections, SectionSize)
      /\ file' = file /\ programs' = programs /\ items' = items /\ ended' = ended /\ name' = name
  BY DEF Reader!FindStringTable, Reader!IsStringTable
<1>2. ReaderTypes /\ SearchInv /\ FoundInv /\ ProgramsInv
  BY DEF ReaderInv
<1>3. file \in Files /\ sections \in Iter /\ programs \in Iter /\ i \in Nat /\ ended \in BOOLEAN
      /\ string_table \in Item /\ items \in Seq(Item)
  BY <1>2, ReaderIters
<1>4. /\ name = <<0, 0>> /\ i + sections.len = file.sections.len
      /\ sections.stride = file.sections.stride
      /\ SectionsFit => sections.reader = file.sections.offset + i * file.sections.stride
      /\ file.sections.offset <= file.len /\ sections.reader <= file.len /\ programs.reader <= file.len
  BY <1>1, <1>2 DEF SearchInv, Searching
<1>5. /\ section \in Item
      /\ Reader!NextIter(sections, SectionSize) \in Iter
      /\ Reader!NextIter(sections, SectionSize).stride = sections.stride
      /\ Reader!NextIter(sections, SectionSize).reader <= file.len
      /\ section = Reader!None <=> ~(sections.len > 0 /\ sections.reader + SectionSize <= file.len)
      /\ section # Reader!None =>
           /\ section.at = sections.reader
           /\ section.kind = "ok" => section.offset + section.size <= file.len
           /\ Reader!NextIter(sections, SectionSize).len = sections.len - 1
           /\ sections.reader + sections.stride <= file.len =>
                Reader!NextIter(sections, SectionSize).reader = sections.reader + sections.stride
  BY <1>3, <1>4, SizesPositive, IterFacts
<1> HIDE DEF section
<1>6. /\ file.sections.len \in Nat /\ file.sections.stride \in Nat /\ file.sections.offset \in Nat
      /\ file.len \in Nat /\ sections.len \in Nat /\ sections.stride \in Nat /\ sections.reader \in Nat
  BY <1>3, FileFacts DEF Iter
<1>7. ProgramsInv'
  BY <1>1, <1>2 DEF ProgramsInv, Reader!TableFits, Reader!NextItem, Reader!CanTake, Reader!Data, Reader!CanFork
<1>8. Reader!Iterator(file.sections) \in Iter /\ Reader!Iterator(file.sections).reader = file.sections.offset
  BY <1>6 DEF Reader!Iterator, Iter
<1>9. ReaderTypes'
  <2>1. pc' \in {"MissingStringTable", "ready", "Eof", "string_table"}
    BY <1>1
  <2>2. i' \in Nat /\ sections' \in Iter /\ string_table' \in Item
    BY <1>1, <1>3, <1>5, <1>8
  <2> QED BY <1>1, <1>3, <2>1, <2>2 DEF ReaderTypes, Reader!TypeOK, Iter
<1>10. CASE section = Reader!None
  <2>1. pc' = "MissingStringTable"
    BY <1>1, <1>10
  <2>2. SearchInv' /\ FoundInv'
    BY <1>1, <1>4, <2>1
    DEF SearchInv, FoundInv, Beginning, Searching, Reader!StringTableFound, Reader!NameInStringTable
  <2> QED BY <1>7, <1>9, <2>2 DEF ReaderInv
<1>11. CASE found
  <2>1. pc' \in {"ready", "Eof"} /\ (pc' = "ready" => section.kind = "ok") /\ string_table' = section
        /\ sections' = Reader!Iterator(file.sections) /\ i' = i
    BY <1>1, <1>11
  <2>2. SearchInv'
    BY <1>1, <1>4, <1>8, <2>1 DEF SearchInv, Beginning, Searching
  <2>3. section.at = sections.reader
    BY <1>5, <1>11
  <2>4. Reader!StringTableFound'
    BY <1>1, <1>4, <1>11, <2>1, <2>3 DEF Reader!StringTableFound, SectionsFit
  <2>5. FoundInv'
    BY <1>1, <1>4, <1>5, <1>11, <2>1, <2>4 DEF FoundInv, Reader!NameInStringTable
  <2> QED BY <1>7, <1>9, <2>2, <2>5 DEF ReaderInv
<1>12. CASE section # Reader!None /\ ~found
  <2>1. pc' = "string_table" /\ i' = i + 1 /\ string_table' = string_table
        /\ sections' = Reader!NextIter(sections, SectionSize)
    BY <1>1, <1>12
  <2>2. sections.len > 0 /\ sections'.len = sections.len - 1 /\ sections'.stride = sections.stride
        /\ sections'.reader <= file.len
        /\ (sections.reader + sections.stride <= file.len =>
              sections'.reader = sections.reader + sections.stride)
    BY <1>5, <1>12, <2>1
  <2>3. i' + sections'.len = file.sections.len /\ i < file.sections.len
    BY <1>3, <1>4, <1>6, <2>1, <2>2
  <2>4. SectionsFit => sections'.reader = file.sections.offset + i' * file.sections.stride
    <3> SUFFICES ASSUME SectionsFit PROVE sections'.reader = file.sections.offset + (i + 1) * file.sections.stride
      BY <2>1
    <3>1. /\ file.sections.offset + i * file.sections.stride + file.sections.stride
               = file.sections.offset + (i + 1) * file.sections.stride
          /\ file.sections.offset + i * file.sections.stride + file.sections.stride <= file.len
      <4>1. TableEnds(file.sections, file.len)
        BY DEF SectionsFit, TableEnds
      <4>2. EntryEnds(file.sections, i, file.len)
        BY <1>3, <1>6, <2>3, <4>1, NextInsideTable
      <4> QED BY <4>2 DEF EntryEnds
    <3> QED BY <1>4, <2>2, <3>1
  <2>5. SearchInv'
    BY <1>1, <1>4, <2>1, <2>2, <2>3, <2>4 DEF SearchInv, Beginning, Searching, SectionsFit
  <2>6. FoundInv'
    BY <1>1, <1>4, <2>1 DEF FoundInv, Reader!StringTableFound, Reader!NameInStringTable
  <2> QED BY <1>7, <1>9, <2>5, <2>6 DEF ReaderInv
<1> QED BY <1>10, <1>11, <1>12

LEMMA NextProgramStep == ReaderInv /\ Reader!NextProgram => ReaderInv'
<1> SUFFICES ASSUME ReaderInv, Reader!NextProgram PROVE ReaderInv'
  OBVIOUS
<1> DEFINE item == Reader!NextItem(programs, ProgramSize)
<1>1. /\ pc = "ready" /\ pc' = pc
      /\ programs' = Reader!NextIter(programs, ProgramSize)
      /\ items' = IF item = Reader!None THEN items ELSE Append(items, item)
      /\ ended' = (item = Reader!None)
      /\ file' = file /\ i' = i /\ sections' = sections /\ string_table' = string_table /\ name' = name
  BY DEF Reader!NextProgram
<1>2. ReaderTypes /\ SearchInv /\ FoundInv /\ ProgramsInv
  BY DEF ReaderInv
<1>3. file \in Files /\ sections \in Iter /\ programs \in Iter /\ i \in Nat
      /\ string_table \in Item /\ items \in Seq(Item)
  BY <1>2, ReaderIters
<1>4. file.sections.offset <= file.len /\ sections.reader <= file.len /\ programs.reader <= file.len
  BY <1>1, <1>2 DEF SearchInv
<1> DEFINE after == Reader!NextIter(programs, ProgramSize)
<1>a.  /\ item \in Item
       /\ after \in Iter /\ after.stride = programs.stride /\ after.reader <= file.len
       /\ item = Reader!None <=> ~(programs.len > 0 /\ programs.reader + ProgramSize <= file.len)
       /\ item = Reader!None => Reader!NextItem(after, ProgramSize) = Reader!None
       /\ item # Reader!None =>
            /\ item.at = programs.reader
            /\ item.kind = "ok" => item.offset + item.size <= file.len
            /\ after.len = programs.len - 1
            /\ programs.reader + programs.stride <= file.len => after.reader = programs.reader + programs.stride
  BY <1>3, <1>4, SizesPositive, IterFacts
<1>5. /\ item \in Item
      /\ programs' \in Iter /\ programs'.stride = programs.stride /\ programs'.reader <= file.len
      /\ item = Reader!None <=> ~(programs.len > 0 /\ programs.reader + ProgramSize <= file.len)
      /\ item = Reader!None => Reader!NextItem(programs', ProgramSize) = Reader!None
      /\ item # Reader!None =>
           /\ item.at = programs.reader
           /\ item.kind = "ok" => item.offset + item.size <= file.len
           /\ programs'.len = programs.len - 1
           /\ programs.reader + programs.stride <= file.len =>
                programs'.reader = programs.reader + programs.stride
  <2> HIDE DEF after, item
  <2>1. programs' = after
    BY <1>1 DEF after
  <2> QED BY <1>a, <2>1
<1>6. ended' => Reader!NextItem(programs, ProgramSize)' = Reader!None
  BY <1>1, <1>5 DEF Reader!NextItem, Reader!CanTake, Reader!Data, Reader!CanFork
<1> HIDE DEF item
<1>7. /\ file.programs.len \in Nat /\ file.programs.stride \in Nat /\ file.programs.offset \in Nat
      /\ file.len \in Nat /\ programs.len \in Nat /\ programs.stride \in Nat /\ programs.reader \in Nat
      /\ Len(items) \in Nat /\ DOMAIN items = 1 .. Len(items)
  BY <1>3, FileFacts, LenProperties DEF Iter
<1>8. items' \in Seq(Item)
  BY <1>1, <1>3, <1>5, AppendProperties
<1>9. ReaderTypes'
  BY <1>1, <1>2, <1>3, <1>5, <1>8 DEF ReaderTypes, Reader!TypeOK, Iter
<1>10. SearchInv' /\ FoundInv'
  BY <1>1, <1>2, <1>4, <1>5
  DEF SearchInv, FoundInv, Beginning, Searching, Reader!StringTableFound, Reader!NameInStringTable
<1>11. /\ programs.stride = file.programs.stride
       /\ \A k \in DOMAIN items : items[k].kind = "ok" => items[k].offset + items[k].size <= file.len
       /\ Reader!TableFits =>
            /\ Len(items) + programs.len = file.programs.len
            /\ programs.reader = file.programs.offset + Len(items) * file.programs.stride
            /\ \A k \in DOMAIN items : items[k].at = file.programs.offset + (k - 1) * file.programs.stride
  BY <1>2 DEF ProgramsInv
<1>12. Reader!TableFits /\ programs.len > 0 =>
         /\ programs.reader + programs.stride = file.programs.offset + (Len(items) + 1) * file.programs.stride
         /\ programs.reader + programs.stride <= file.len
         /\ programs.reader + ProgramSize <= file.len
  <2> SUFFICES ASSUME Reader!TableFits, programs.len > 0
               PROVE  /\ programs.reader + programs.stride
                           = file.programs.offset + (Len(items) + 1) * file.programs.stride
                      /\ programs.reader + programs.stride <= file.len
                      /\ programs.reader + ProgramSize <= file.len
    OBVIOUS
  <2>1. Len(items) < file.programs.len
    BY <1>7, <1>11
  <2>2. file.programs.offset + file.programs.len * file.programs.stride <= file.len
        /\ file.programs.stride >= ProgramSize
    BY DEF Reader!TableFits
  <2>3. /\ file.programs.offset + Len(items) * file.programs.stride + file.programs.stride
             = file.programs.offset + (Len(items) + 1) * file.programs.stride
        /\ file.programs.offset + Len(items) * file.programs.stride + file.programs.stride <= file.len
    <3>1. TableEnds(file.programs, file.len)
      BY <2>2 DEF TableEnds
    <3>2. EntryEnds(file.programs, Len(items), file.len)
      BY <1>7, <2>1, <3>1, NextInsideTable
    <3> QED BY <3>2 DEF EntryEnds
  <2>4. /\ programs.reader + programs.stride
             = file.programs.offset + (Len(items) + 1) * file.programs.stride
        /\ programs.reader + programs.stride <= file.len
    BY <1>11, <2>3
  <2>5. programs.reader + ProgramSize <= file.len
    <3>1. programs.stride >= ProgramSize
      BY <1>11, <2>2
    <3> QED BY <1>7, <2>4, <3>1, SizesPositive, SMTT(30)
  <2> QED BY <2>4, <2>5
<1>13. CASE item = Reader!None
  <2>1. items' = items
    BY <1>1, <1>13
  <2>2. Reader!TableFits => programs.len = 0 /\ programs'.len = 0 /\ programs'.reader = programs.reader
    <3> SUFFICES ASSUME Reader!TableFits
                 PROVE  programs.len = 0 /\ programs'.len = 0 /\ programs'.reader = programs.reader
      OBVIOUS
    <3>1. programs.len = 0
      BY <1>5, <1>7, <1>12, <1>13
    <3> QED BY <1>1, <3>1 DEF Reader!NextIter
  <2>3. ProgramsInv'
    BY <1>1, <1>5, <1>6, <1>11, <2>1, <2>2 DEF ProgramsInv, Reader!TableFits
  <2> QED BY <1>9, <1>10, <2>3 DEF ReaderInv
<1>14. CASE item # Reader!None
  <2>1. /\ items' = Append(items, item) /\ Len(items') = Len(items) + 1
        /\ DOMAIN items' = 1 .. Len(items) + 1
        /\ \A k \in 1 .. Len(items) : items'[k] = items[k]
        /\ items'[Len(items) + 1] = item
    BY <1>1, <1>3, <1>5, <1>7, <1>14
  <2>2. programs.len > 0 /\ programs'.len = programs.len - 1 /\ item.at = programs.reader
        /\ (item.kind = "ok" => item.offset + item.size <= file.len)
    BY <1>5, <1>14
  <2>3. ASSUME NEW k \in DOMAIN items', items'[k].kind = "ok"
        PROVE  items'[k].offset + items'[k].size <= file.len
    <3>1. CASE k = Len(items) + 1
      BY <2>1, <2>2, <2>3, <3>1
    <3>2. CASE k # Len(items) + 1
      <4>1. k \in DOMAIN items /\ items'[k] = items[k]
        BY <1>7, <2>1, <3>2
      <4> QED BY <1>11, <2>3, <4>1
    <3> QED BY <3>1, <3>2
  <2>4. ASSUME Reader!TableFits
        PROVE  /\ Len(items') + programs'.len = file.programs.len
               /\ programs'.reader = file.programs.offset + Len(items') * file.programs.stride
               /\ \A k \in DOMAIN items' : items'[k].at = file.programs.offset + (k - 1) * file.programs.stride
    <3>1. Len(items') + programs'.len = file.programs.len
      <4>1. Len(items) + programs.len = file.programs.len
        BY <1>11, <2>4
      <4>2. Len(items') = Len(items) + 1 /\ programs'.len = programs.len - 1
        BY <2>1, <2>2
      <4> QED BY <1>7, <4>1, <4>2
    <3>2. programs'.reader = file.programs.offset + Len(items') * file.programs.stride
      BY <1>5, <1>12, <1>14, <2>1, <2>2, <2>4
    <3>3. ASSUME NEW k \in DOMAIN items'
          PROVE  items'[k].at = file.programs.offset + (k - 1) * file.programs.stride
      <4>1. CASE k = Len(items) + 1
        <5>1. k - 1 = Len(items)
          BY <1>7, <4>1
        <5> QED BY <1>11, <2>1, <2>2, <2>4, <4>1, <5>1
      <4>2. CASE k # Len(items) + 1
        <5>1. k \in DOMAIN items /\ items'[k] = items[k]
          BY <1>7, <2>1, <4>2
        <5> QED BY <1>11, <2>4, <5>1
      <4> QED BY <4>1, <4>2
    <3> QED BY <3>1, <3>2, <3>3
  <2>5. ProgramsInv'
    BY <1>1, <1>5, <1>6, <1>11, <2>3, <2>4 DEF ProgramsInv, Reader!TableFits
  <2> QED BY <1>9, <1>10, <2>5 DEF ReaderInv
<1> QED BY <1>13, <1>14

LEMMA NextSectionStep == ReaderInv /\ Reader!NextSection => ReaderInv'
<1> SUFFICES ASSUME ReaderInv, Reader!NextSection PROVE ReaderInv'
  OBVIOUS
<1> DEFINE section == Reader!NextItem(sections, SectionSize)
           named == section # Reader!None /\ section.kind = "ok"
           inside == section.name <= string_table.size
<1>1. /\ pc = "ready"
      /\ sections' = Reader!NextIter(sections, SectionSize)
      /\ pc' = IF named /\ ~inside THEN "panic" ELSE pc
      /\ name' = IF named /\ inside THEN <<section.name, Reader!NameEnd(section.name)>> ELSE name
      /\ file' = file /\ i' = i /\ string_table' = string_table
      /\ programs' = programs /\ items' = items /\ ended' = ended
  BY DEF Reader!NextSection
<1>2. ReaderTypes /\ SearchInv /\ FoundInv /\ ProgramsInv
  BY DEF ReaderInv
<1>3. file \in Files /\ sections \in Iter /\ programs \in Iter /\ i \in Nat /\ ended \in BOOLEAN
      /\ string_table \in Item /\ items \in Seq(Item)
  BY <1>2, ReaderIters
<1>4. file.sections.offset <= file.len /\ sections.reader <= file.len /\ programs.reader <= file.len
  BY <1>1, <1>2 DEF SearchInv
<1>5. section \in Item /\ sections' \in Iter /\ sections'.reader <= file.len
  BY <1>1, <1>3, <1>4, SizesPositive, IterFacts
<1> HIDE DEF section
<1>6. pc' \in {"ready", "panic"}
  BY <1>1
<1>7. ReaderTypes'
  BY <1>1, <1>3, <1>5, <1>6 DEF ReaderTypes, Reader!TypeOK, Iter
<1>8. SearchInv'
  BY <1>1, <1>4, <1>5, <1>6 DEF SearchInv, Beginning, Searching
<1>9. ProgramsInv'
  BY <1>1, <1>2 DEF ProgramsInv, Reader!TableFits, Reader!NextItem, Reader!CanTake, Reader!Data, Reader!CanFork
<1>10. Reader!NameInStringTable'
  <2>1. CASE named /\ inside
    <3>1. section.name \in Nat /\ section.name <= string_table.size
      BY <1>5, <2>1 DEF Item
    <3> DEFINE start == section.name
               end == Reader!NameEnd(start)
    <3>2. /\ end \in Nat /\ start <= end /\ end <= string_table.size
          /\ \A k \in start .. end - 1 : string_table.offset + k \notin Nul
          /\ end = string_table.size \/ string_table.offset + end \in Nul
      BY <1>3, <3>1, NameEndFacts
    <3>3. name' = <<start, end>> /\ string_table' = string_table
      BY <1>1, <2>1
    <3> HIDE DEF start, end
    <3>4. name'[1] = start /\ name'[2] = end
      BY <3>3
    <3> QED BY <3>2, <3>3, <3>4 DEF Reader!NameInStringTable
  <2>2. CASE ~(named /\ inside)
    BY <1>1, <1>2, <2>2 DEF FoundInv, Reader!NameInStringTable
  <2> QED BY <2>1, <2>2
<1>11. FoundInv'
  BY <1>1, <1>2, <1>6, <1>10 DEF FoundInv, Reader!StringTableFound
<1> QED BY <1>7, <1>8, <1>9, <1>11 DEF ReaderInv

LEMMA ReaderStep == ReaderInv /\ Reader!Next => ReaderInv'
BY ReadPrologueStep, ReadHeaderStep, FindStringTableStep, NextProgramStep, NextSectionStep DEF Reader!Next

LEMMA ReaderUnchanged ==
  ASSUME ReaderInv, file' = file, pc' = pc, i' = i, sections' = sections, string_table' = string_table,
         programs' = programs, items' = items, ended' = ended, name' = name
  PROVE  ReaderInv'
<1>1. ReaderTypes' /\ SearchInv'
  BY DEF ReaderInv, ReaderTypes, Reader!TypeOK, SearchInv, Beginning, Searching, SectionsFit
<1>2. FoundInv'
  BY DEF ReaderInv, FoundInv, Reader!StringTableFound, Reader!NameInStringTable
<1>3. ProgramsInv'
  BY DEF ReaderInv, ProgramsInv, Reader!TableFits, Reader!NextItem, Reader!CanTake, Reader!Data, Reader!CanFork
<1> QED BY <1>1, <1>2, <1>3 DEF ReaderInv

LEMMA ReaderSuffices == ReaderInv => Reader!SlicesInsideFile /\ Reader!EveryHeaderOnce
<1> SUFFICES ASSUME ReaderInv PROVE Reader!SlicesInsideFile /\ Reader!EveryHeaderOnce
  OBVIOUS
<1>1. ReaderTypes /\ SearchInv /\ FoundInv /\ ProgramsInv
  BY DEF ReaderInv
<1>2. Reader!SlicesInsideFile
  BY <1>1 DEF ReaderTypes, SearchInv, FoundInv, ProgramsInv, Reader!SlicesInsideFile
<1>3. ASSUME Reader!TableFits, ended PROVE Len(items) = file.programs.len
  <2>1. file \in Files /\ programs \in Iter /\ items \in Seq(Item)
    BY <1>1, ReaderIters
  <2>2. /\ file.programs.len \in Nat /\ file.programs.stride \in Nat /\ file.programs.offset \in Nat
        /\ file.len \in Nat /\ programs.len \in Nat /\ programs.reader \in Nat /\ Len(items) \in Nat
    BY <2>1, FileFacts, LenProperties DEF Iter
  <2>3. Len(items) + programs.len = file.programs.len
        /\ programs.reader = file.programs.offset + Len(items) * file.programs.stride
    BY <1>1, <1>3 DEF ProgramsInv
  <2>4. ~(programs.len > 0 /\ programs.reader + ProgramSize <= file.len)
    BY <1>1, <1>3, <2>1, SizesPositive, IterFacts DEF ProgramsInv
  <2>5. programs.len > 0 => programs.reader + ProgramSize <= file.len
    <3> SUFFICES ASSUME programs.len > 0 PROVE programs.reader + ProgramSize <= file.len
      OBVIOUS
    <3>1. Len(items) < file.programs.len
      BY <2>2, <2>3
    <3>2. file.programs.offset + file.programs.len * file.programs.stride <= file.len
          /\ file.programs.stride >= ProgramSize
      BY <1>3 DEF Reader!TableFits
    <3>3. file.programs.offset + Len(items) * file.programs.stride + file.programs.stride <= file.len
      <4>1. TableEnds(file.programs, file.len)
        BY <3>2 DEF TableEnds
      <4>2. EntryEnds(file.programs, Len(items), file.len)
        BY <2>2, <3>1, <4>1, NextInsideTable
      <4> QED BY <4>2 DEF EntryEnds
    <3> QED BY <2>2, <2>3, <3>2, <3>3, SizesPositive
  <2> QED BY <2>2, <2>3, <2>4, <2>5
<1>4. Reader!EveryHeaderOnce
  BY <1>1, <1>3 DEF ProgramsInv, Reader!EveryHeaderOnce
<1> QED BY <1>2, <1>4

-----------------------------------------------------------------------------
(* The helpers of std.                                                     *)

LEMMA QuotientFacts ==
  ASSUME NEW a \in Nat, NEW d \in Nat \ {0}
  PROVE  \E q \in Nat, r \in Nat :
           /\ q = a \div d /\ r = a % d /\ r < d
           /\ q * d \in Nat /\ a = q * d + r
<1>1. a \div d \in Nat /\ a % d \in Nat /\ a % d < d /\ a % d = a - d * (a \div d)
  BY SMT
<1>2. PICK q \in Nat, r \in Nat : q = a \div d /\ r = a % d
  BY <1>1
<1>3. q * d \in Nat /\ q * d = d * q /\ r = a - d * q
  BY <1>1, <1>2
<1>4. a = q * d + r
  BY <1>3
<1> QED BY <1>1, <1>2, <1>3, <1>4

LEMMA QuotientUnique ==
  ASSUME NEW a \in Nat, NEW d \in Nat \ {0}, NEW q \in Nat, q * d <= a, a < q * d + d
  PROVE  a \div d = q
<1>0. PICK p \in Nat, r \in Nat : p = a \div d /\ r < d /\ p * d \in Nat /\ a = p * d + r
  BY QuotientFacts
<1>1. p \in Nat /\ p * d \in Nat /\ p * d <= a /\ a < p * d + d
  BY <1>0
<1>2. ~(p < q)
  <2> SUFFICES ASSUME p < q PROVE FALSE
    OBVIOUS
  <2>1. (p + 1) * d <= q * d /\ q * d \in Nat
    BY <1>1, ProductMonotone
  <2>2. (p + 1) * d = p * d + d
    BY <1>1, ProductNext
  <2> QED BY <1>1, <2>1, <2>2
<1>3. ~(q < p)
  <2> SUFFICES ASSUME q < p PROVE FALSE
    OBVIOUS
  <2>1. (q + 1) * d <= p * d
    BY <1>1, ProductMonotone
  <2>2. (q + 1) * d = q * d + d /\ q * d \in Nat
    BY <1>1, ProductNext
  <2> QED BY <1>1, <2>1, <2>2
<1> QED BY <1>0, <1>2, <1>3

LEMMA Remainder ==
  ASSUME NEW a \in Nat, NEW w \in Nat, a < w
  PROVE  a % w = a
BY SMT

(* A multiple of the divisor can be taken out of a quotient.               *)
TakenOut(a, b, d) == (a * d + b) \div d = a + b \div d

LEMMA QuotientOfSum ==
  ASSUME NEW a \in Nat, NEW b \in Nat, NEW d \in Nat \ {0}
  PROVE  TakenOut(a, b, d)
<1>0. PICK q \in Nat, r \in Nat : q = b \div d /\ r < d /\ q * d \in Nat /\ b = q * d + r
  BY QuotientFacts
<1> DEFINE ad == a * d
           qd == q * d
<1>1. q \in Nat /\ ad \in Nat /\ qd \in Nat /\ qd <= b /\ b < qd + d
  BY <1>0
<1>2. (a + q) * d = ad + qd
  OBVIOUS
<1> HIDE DEF ad, qd
<1>3. a + q \in Nat /\ (a + q) * d <= ad + b /\ ad + b < (a + q) * d + d /\ ad + b \in Nat
  BY <1>1, <1>2
<1>4. (ad + b) \div d = a + q
  BY <1>3, QuotientUnique
<1> QED BY <1>0, <1>1, <1>4 DEF ad, TakenOut

(* The argument of the comment of mul_div_u64: nothing wraps.              *)
Fits(v, m, d, w) == m * d < w /\ (v * m) \div d < w
Exact(v, m, d, w) == ((v \div d) * m + (((v % d) * m) % w) \div d) % w = (v * m) \div d

LEMMA NothingWraps ==
  ASSUME NEW v \in Nat, NEW m \in Nat, NEW d \in Nat \ {0}, NEW w \in Nat, Fits(v, m, d, w)
  PROVE  Exact(v, m, d, w)
<1>0. m * d < w /\ (v * m) \div d < w
  BY DEF Fits
<1>1. PICK q \in Nat, r \in Nat : q = v \div d /\ r = v % d /\ r < d /\ q * d \in Nat /\ v = q * d + r
  BY QuotientFacts
<1>2. r * m \in Nat /\ r * m <= d * m /\ d * m = m * d
  <2>1. r * m \in Nat /\ r * m <= d * m
    BY <1>1, ProductMonotone
  <2> QED BY <2>1
<1>3. (r * m) % w = r * m
  <2> DEFINE x == r * m
             y == m * d
  <2>1. x \in Nat /\ x <= y /\ y < w /\ y \in Nat
    BY <1>0, <1>2
  <2> HIDE DEF x, y
  <2>2. x < w
    BY <2>1
  <2> QED BY <2>1, <2>2, Remainder DEF x
<1>4. q * m \in Nat /\ v * m = (q * m) * d + r * m
  BY <1>1
<1>5. (v * m) \div d = q * m + (r * m) \div d
  <2> DEFINE x == q * m
             y == r * m
  <2>1. x \in Nat /\ y \in Nat /\ v * m = x * d + y
    BY <1>2, <1>4
  <2> HIDE DEF x, y
  <2>2. (x * d + y) \div d = x + y \div d
    <3>1. d \in Nat \ {0} /\ x \in Nat /\ y \in Nat
      BY <2>1
    <3>2. TakenOut(x, y, d)
      BY <3>1, QuotientOfSum
    <3> QED BY <3>2 DEF TakenOut
  <2> QED BY <2>1, <2>2 DEF x, y
<1>6. q * m + (r * m) \div d \in Nat
  <2>1. (r * m) \div d \in Nat
    BY <1>2
  <2> QED BY <1>4, <2>1
<1>7. (q * m + (r * m) \div d) % w = q * m + (r * m) \div d
  BY <1>0, <1>5, <1>6, Remainder
<1> QED BY <1>1, <1>3, <1>5, <1>7 DEF Exact

LEMMA WordsOfHelpers == 2^Bits \in Int /\ Help!Word = 0 .. 2^Bits - 1
BY HelpAssumption DEF Help!HelpersAssumption, Help!Word

(* What is true of a call of each helper: before it returns there is no    *)
(* output, and what it returns is what its comment says.  The iterator has *)
(* no NUL behind it and one at or before the end of its string.            *)
MulInput == [value : Help!Word, numerator : Help!Word, denom : Help!Word \ {0}]

HelpInv ==
  /\ \/ input \in MulInput
     \/ \E s \in Strings : input = [bytes |-> s]
     \/ \E s \in Strings : input = [units |-> Append(s, "nul")]
     \/ \E r \in {"ok", "not_found", "other"} : input = [result |-> r]
  /\ Help!HelpersExact
  /\ Len(buf) <= MAX_STACK_ALLOCATION

LEMMA HelpKinds ==
  /\ \A x \in MulInput : DOMAIN x = {"value", "numerator", "denom"}
  /\ \A s : /\ DOMAIN [bytes |-> s] = {"bytes"} /\ [bytes |-> s].bytes = s
            /\ DOMAIN [units |-> s] = {"units"} /\ [units |-> s].units = s
            /\ DOMAIN [result |-> s] = {"result"}
  /\ {"value", "numerator", "denom"} # {"bytes"} /\ {"value", "numerator", "denom"} # {"units"}
  /\ {"value", "numerator", "denom"} # {"result"} /\ {"bytes"} # {"units"}
  /\ {"bytes"} # {"result"} /\ {"units"} # {"result"}
BY DEF MulInput

LEMMA HelpTypes ==
  /\ MAX_STACK_ALLOCATION \in Nat \ {0}
  /\ \A s \in Strings : s \in Seq({"nul", "byte"}) /\ Len(s) \in Nat /\ DOMAIN s = 1 .. Len(s)
BY HelpAssumption, LenProperties DEF Help!HelpersAssumption

LEMMA HelpStarts == Help!Init => HelpInv
<1> SUFFICES ASSUME Help!Init PROVE HelpInv
  OBVIOUS
<1>1. output = <<>> /\ buf = <<>> /\ lpwstr = 1
  BY DEF Help!Init, Help!None
<1>2. \/ input \in MulInput
      \/ \E s \in Strings : input = [bytes |-> s]
      \/ \E s \in Strings : input = [units |-> Append(s, "nul")]
      \/ \E r \in {"ok", "not_found", "other"} : input = [result |-> r]
  BY DEF Help!Init, MulInput
<1>3. Help!MulDivExact /\ Help!CStrWhole
  BY <1>1 DEF Help!MulDivExact, Help!CStrWhole, Help!None
<1>4. ASSUME DOMAIN input = {"units"} PROVE 1 \in DOMAIN input.units
  <2>1. PICK s \in Strings : input = [units |-> Append(s, "nul")]
    BY <1>2, <1>4, HelpKinds
  <2>2. input.units = Append(s, "nul")
    BY <2>1
  <2>3. DOMAIN Append(s, "nul") = 1 .. Len(s) + 1 /\ Len(s) \in Nat
    BY HelpTypes, AppendProperties
  <2> QED BY <2>2, <2>3
<1>5. Help!UnitsInside
  BY <1>1, <1>4 DEF Help!UnitsInside
<1>6. Len(buf) <= MAX_STACK_ALLOCATION
  BY <1>1, HelpTypes
<1> QED BY <1>2, <1>3, <1>5, <1>6 DEF HelpInv, Help!HelpersExact

(* The three parts only read the input of their own kind.                  *)
LEMMA OtherParts ==
  ASSUME HelpInv, input' = input
  PROVE  /\ DOMAIN input # {"value", "numerator", "denom"} => Help!MulDivExact'
         /\ DOMAIN input # {"bytes"} => Help!CStrWhole'
         /\ DOMAIN input # {"units"} => Help!UnitsInside'
         /\ Help!HelpersExact' /\ Len(buf') <= MAX_STACK_ALLOCATION => HelpInv'
BY DEF HelpInv, Help!MulDivExact, Help!CStrWhole, Help!UnitsInside

LEMMA BufferKept == ASSUME HelpInv, buf' = buf PROVE Len(buf') <= MAX_STACK_ALLOCATION
BY DEF HelpInv

LEMMA MulDivStep == HelpInv /\ Help!MulDiv => HelpInv'
<1> SUFFICES ASSUME HelpInv, Help!MulDiv PROVE HelpInv'
  OBVIOUS
<1>1. /\ DOMAIN input = {"value", "numerator", "denom"} /\ input' = input /\ buf' = buf
      /\ output' = <<Help!mul_div_u64(input.value, input.numerator, input.denom)>>
  BY DEF Help!MulDiv
<1>2. input \in MulInput
  BY <1>1, HelpKinds DEF HelpInv
<1> DEFINE v == input.value
           m == input.numerator
           d == input.denom
           w == 2^Bits
<1>3. w \in Int /\ v \in Nat /\ m \in Nat /\ d \in Nat \ {0}
  BY <1>2, WordsOfHelpers DEF MulInput
<1>4. Help!mul_div_u64(v, m, d) = ((v \div d) * m + (((v % d) * m) % w) \div d) % w
  BY DEF Help!mul_div_u64
<1>5. ASSUME m * d \in Help!Word, (v * m) \div d \in Help!Word
      PROVE  Help!mul_div_u64(v, m, d) = (v * m) \div d
  <2>1. w \in Nat /\ m * d < w /\ (v * m) \div d < w
    BY <1>3, <1>5, WordsOfHelpers
  <2> HIDE DEF v, m, d, w
  <2>2. Fits(v, m, d, w)
    BY <2>1 DEF Fits
  <2>3. Exact(v, m, d, w)
    BY <1>3, <2>1, <2>2, NothingWraps
  <2> QED BY <1>4, <2>3 DEF Exact
<1>6. Help!MulDivExact'
  BY <1>1, <1>5 DEF Help!MulDivExact
<1>7. Help!CStrWhole' /\ Help!UnitsInside'
  BY <1>1, HelpKinds, OtherParts
<1> QED BY <1>1, <1>6, <1>7, OtherParts, BufferKept DEF Help!HelpersExact

(* A string with a NUL behind it has a NUL only there when the string has  *)
(* none.                                                                   *)
LEMMA CStrings ==
  ASSUME NEW s \in Seq({"nul", "byte"})
  PROVE  Help!IsCStr(Append(s, "nul")) <=> ~\E k \in DOMAIN s : s[k] = "nul"
<1>1. /\ Len(s) \in Nat /\ DOMAIN s = 1 .. Len(s)
      /\ Len(Append(s, "nul")) = Len(s) + 1 /\ DOMAIN Append(s, "nul") = 1 .. Len(s) + 1
      /\ Append(s, "nul")[Len(s) + 1] = "nul"
      /\ \A k \in 1 .. Len(s) : Append(s, "nul")[k] = s[k]
  BY LenProperties, AppendProperties
<1> DEFINE t == Append(s, "nul")
<1> HIDE DEF t
<1>2. ASSUME NEW k \in DOMAIN s, s[k] = "nul" PROVE ~Help!IsCStr(t)
  <2>1. k \in DOMAIN t /\ t[k] = "nul" /\ k # Len(t)
    BY <1>1, <1>2 DEF t
  <2> QED BY <2>1 DEF Help!IsCStr
<1>3. ASSUME \A k \in DOMAIN s : s[k] # "nul" PROVE Help!IsCStr(t)
  <2> SUFFICES ASSUME NEW k \in DOMAIN t PROVE t[k] = "nul" <=> k = Len(t)
    BY DEF Help!IsCStr
  <2>1. CASE k = Len(s) + 1
    BY <1>1, <2>1 DEF t
  <2>2. CASE k # Len(s) + 1
    <3>1. k \in 1 .. Len(s) /\ k # Len(t)
      BY <1>1, <2>2 DEF t
    <3>2. t[k] = s[k] /\ s[k] # "nul"
      BY <1>1, <1>3, <3>1 DEF t
    <3> QED BY <3>1, <3>2
  <2> QED BY <2>1, <2>2
<1> QED BY <1>2, <1>3 DEF t

(* The buffer on the stack: the string, the NUL and what was never         *)
(* written.  Its front is the string with its NUL.                         *)
LEMMA StackBuffer ==
  ASSUME NEW s \in Seq({"nul", "byte"}), NEW size \in Nat, Len(s) < size
  PROVE  LET b == s \o <<"nul">> \o [k \in 1 .. size - Len(s) - 1 |-> Help!Uninit]
         IN  Len(b) = size /\ SubSeq(b, 1, Len(s) + 1) = Append(s, "nul")
<1> DEFINE l == Len(s)
           fill == [k \in 1 .. size - l - 1 |-> Help!Uninit]
           front == s \o <<"nul">>
           b == front \o fill
<1>1. l \in Nat /\ l < size /\ s \in Seq({"nul", "byte", Help!Uninit})
  BY LenProperties
<1>2. fill \in Seq({"nul", "byte", Help!Uninit}) /\ Len(fill) = size - l - 1
  BY <1>1
<1>3. front \in Seq({"nul", "byte", Help!Uninit}) /\ Len(front) = l + 1 /\ front = Append(s, "nul")
  BY <1>1
<1> HIDE DEF fill, front
<1>4. b \in Seq({"nul", "byte", Help!Uninit}) /\ Len(b) = size
      /\ \A k \in 1 .. l + 1 : b[k] = front[k]
  BY <1>1, <1>2, <1>3
<1> HIDE DEF b
<1>5. SubSeq(b, 1, l + 1) = front
  BY <1>1, <1>3, <1>4
<1> QED BY <1>3, <1>4, <1>5 DEF b, front, fill

LEMMA RunOnStackStep == HelpInv /\ Help!RunOnStack => HelpInv'
<1> SUFFICES ASSUME HelpInv, Help!RunOnStack PROVE HelpInv'
  OBVIOUS
<1>1. DOMAIN input = {"bytes"} /\ input' = input /\ Len(input.bytes) < MAX_STACK_ALLOCATION
  BY DEF Help!RunOnStack, Help!OnStack
<1>2. PICK s \in Strings : input = [bytes |-> s]
  BY <1>1, HelpKinds DEF HelpInv
<1>3. input.bytes = s /\ s \in Seq({"nul", "byte"})
  BY <1>2, HelpTypes
<1>4. /\ buf' = s \o <<"nul">> \o [k \in 1 .. MAX_STACK_ALLOCATION - Len(s) - 1 |-> Help!Uninit]
      /\ output' = IF Help!IsCStr(SubSeq(buf', 1, Len(s) + 1)) THEN SubSeq(buf', 1, Len(s) + 1)
                   ELSE Help!NUL_ERR
  BY <1>3 DEF Help!RunOnStack
<1>5. Len(buf') = MAX_STACK_ALLOCATION /\ SubSeq(buf', 1, Len(s) + 1) = Append(s, "nul")
  BY <1>1, <1>3, <1>4, StackBuffer, HelpTypes
<1>6. output' = IF \E k \in DOMAIN s : s[k] = "nul" THEN Help!NUL_ERR ELSE Append(s, "nul")
  BY <1>3, <1>4, <1>5, CStrings
<1>7. Len(buf') <= MAX_STACK_ALLOCATION
  BY <1>5, HelpTypes
<1>8. Help!CStrWhole'
  BY <1>1, <1>3, <1>6, <1>7 DEF Help!CStrWhole
<1>9. Help!MulDivExact' /\ Help!UnitsInside'
  BY <1>1, HelpKinds, OtherParts
<1> QED BY <1>1, <1>7, <1>8, <1>9, OtherParts DEF Help!HelpersExact

LEMMA RunAllocatingStep == HelpInv /\ Help!RunAllocating => HelpInv'
<1> SUFFICES ASSUME HelpInv, Help!RunAllocating PROVE HelpInv'
  OBVIOUS
<1>1. /\ DOMAIN input = {"bytes"} /\ input' = input /\ buf' = buf
      /\ output' = IF \E k \in DOMAIN input.bytes : input.bytes[k] = "nul" THEN Help!NUL_ERR
                   ELSE input.bytes \o <<"nul">>
  BY DEF Help!RunAllocating
<1>2. PICK s \in Strings : input = [bytes |-> s]
  BY <1>1, HelpKinds DEF HelpInv
<1>3. input.bytes = s /\ s \o <<"nul">> = Append(s, "nul")
  BY <1>2, HelpTypes
<1>6. Len(buf') <= MAX_STACK_ALLOCATION
  BY <1>1 DEF HelpInv
<1>4. Help!CStrWhole'
  BY <1>1, <1>3, <1>6 DEF Help!CStrWhole
<1>5. Help!MulDivExact' /\ Help!UnitsInside'
  BY <1>1, HelpKinds, OtherParts
<1> QED BY <1>1, <1>4, <1>5, <1>6, OtherParts DEF Help!HelpersExact

LEMMA IgnoreNotFoundStep == HelpInv /\ Help!ignore_notfound => HelpInv'
<1> SUFFICES ASSUME HelpInv, Help!ignore_notfound PROVE HelpInv'
  OBVIOUS
<1>1. DOMAIN input = {"result"} /\ input' = input /\ buf' = buf
  BY DEF Help!ignore_notfound
<1>2. Help!MulDivExact' /\ Help!CStrWhole' /\ Help!UnitsInside'
  BY <1>1, HelpKinds, OtherParts
<1> QED BY <1>1, <1>2, OtherParts, BufferKept DEF Help!HelpersExact

(* A step of the iterator stops at the NUL, which is in the string.        *)
LEMMA UnitStep ==
  ASSUME HelpInv, DOMAIN input = {"units"}, input' = input, buf' = buf, lpwstr' = Help!next(lpwstr)
  PROVE  HelpInv'
<1>1. PICK s \in Strings : input = [units |-> Append(s, "nul")]
  BY HelpKinds DEF HelpInv
<1>2. /\ input.units = Append(s, "nul") /\ Len(s) \in Nat /\ DOMAIN input.units = 1 .. Len(s) + 1
      /\ input.units[Len(s) + 1] = "nul"
  BY <1>1, HelpTypes, AppendProperties
<1>3. lpwstr \in 1 .. Len(s) + 1 /\ \A k \in 1 .. lpwstr - 1 : input.units[k] # "nul"
  BY <1>2 DEF HelpInv, Help!HelpersExact, Help!UnitsInside
<1>4. lpwstr' = IF input.units[lpwstr] = "nul" THEN lpwstr ELSE lpwstr + 1
  BY DEF Help!next, Help!peek, Help!None
<1>5. CASE input.units[lpwstr] = "nul"
  <2>1. lpwstr' = lpwstr
    BY <1>4, <1>5
  <2>2. Help!UnitsInside'
    BY <1>2, <1>3, <2>1 DEF Help!UnitsInside
  <2> QED BY <2>2, OtherParts, BufferKept, HelpKinds DEF Help!HelpersExact
<1>6. CASE input.units[lpwstr] # "nul"
  <2>1. lpwstr' = lpwstr + 1
    BY <1>4, <1>6
  <2>2. lpwstr # Len(s) + 1
    BY <1>2, <1>6
  <2>3. lpwstr' \in 1 .. Len(s) + 1 /\ \A k \in 1 .. lpwstr' - 1 : k \in 1 .. lpwstr - 1 \/ k = lpwstr
    BY <1>2, <1>3, <2>1, <2>2
  <2>4. Help!UnitsInside'
    BY <1>2, <1>3, <1>6, <2>3 DEF Help!UnitsInside
  <2> QED BY <2>4, OtherParts, BufferKept, HelpKinds DEF Help!HelpersExact
<1> QED BY <1>5, <1>6

LEMMA HelpStep == HelpInv /\ Help!Next => HelpInv'
<1> SUFFICES ASSUME HelpInv, Help!Next PROVE HelpInv'
  OBVIOUS
<1>1. CASE Help!NextUnit \/ Help!AdvanceWhile
  BY <1>1, UnitStep DEF Help!NextUnit, Help!AdvanceWhile
<1> QED BY <1>1, MulDivStep, RunOnStackStep, RunAllocatingStep, IgnoreNotFoundStep DEF Help!Next

LEMMA HelpUnchanged ==
  ASSUME HelpInv, input' = input, output' = output, buf' = buf, lpwstr' = lpwstr
  PROVE  HelpInv'
BY DEF HelpInv, Help!HelpersExact, Help!MulDivExact, Help!CStrWhole, Help!UnitsInside

LEMMA HelpSuffices == HelpInv => Help!HelpersExact
BY DEF HelpInv

-----------------------------------------------------------------------------
(* The allocator of physical pages.  Every tree and what it hands out lie  *)
(* in a region of the tree; the regions, the pointers and what is left of  *)
(* the entry in hand are apart and lie in valid entries that were visited. *)

Tree == [tree : Nat, base : Nat, pages : Nat, used : SUBSET [start : Nat, len : Nat]]

Before(a, b, c, d) == b <= c \/ d <= a

InEntry(entry, from, to) ==
  entry.valid /\ entry.start <= from /\ to <= entry.start + entry.pages

Visited(map, upto, from, to) == \E k \in 1 .. upto - 1 : InEntry(map[k], from, to)

EndOf(t) == t.base + t.pages

TreeSound(t) ==
  /\ t.tree < t.base
  /\ HEADER_SIZE + 2 * t.pages - 1 <= (t.base - t.tree) * PAGE_SIZE
  /\ \A b \in t.used : b.start + b.len <= t.pages
  /\ \A b, c \in t.used : b = c \/ Physical!Apart(b, c)

PhysicalTypes ==
  /\ memory_map \in Spans
  /\ next \in 1 .. Len(memory_map) + 1
  /\ allocator \in Nat \cup {-1}
  /\ rest \in [start : Nat, pages : Nat]
  /\ trees \in Seq(Tree)

TreesInv ==
  /\ \A t \in DOMAIN trees : TreeSound(trees[t])
  /\ \A t \in DOMAIN trees : Visited(memory_map, next, trees[t].tree, EndOf(trees[t]))
  /\ \A t, u \in DOMAIN trees :
       t # u => Before(trees[t].tree, EndOf(trees[t]), trees[u].tree, EndOf(trees[u]))

RestInv ==
  rest # Physical!Nothing =>
    /\ Visited(memory_map, next, rest.start, rest.start + rest.pages)
    /\ \A t \in DOMAIN trees :
         Before(trees[t].tree, EndOf(trees[t]), rest.start, rest.start + rest.pages)

PointersInv ==
  IF allocator = -1 THEN trees = <<>> /\ rest = Physical!Nothing
  ELSE LET end == allocator + PAGES_RESERVED_FOR_TREE_POINTERS
       IN  /\ Visited(memory_map, next, allocator, end)
           /\ \A t \in DOMAIN trees : Before(trees[t].tree, EndOf(trees[t]), allocator, end)
           /\ rest # Physical!Nothing => Before(rest.start, rest.start + rest.pages, allocator, end)

PhysicalInv == PhysicalTypes /\ TreesInv /\ RestInv /\ PointersInv

LEMMA PhysicalSizes ==
  /\ PAGE_SIZE \in Nat \ {0} /\ HEADER_SIZE \in Nat \ {0} /\ POINTER_SIZE \in Nat \ {0}
  /\ MINIMUM_PAGES_TO_MANAGE \in Nat \ {0} /\ PAGES_RESERVED_FOR_TREE_POINTERS \in Nat \ {0}
BY PhysicalAssumption DEF Physical!MapsAssumption

(* The entries of a map, and that no two of them overlap.                  *)
LEMMA EntryFacts ==
  ASSUME memory_map \in Spans
  PROVE  /\ Len(memory_map) \in Nat
         /\ \A k \in 1 .. Len(memory_map) :
              /\ memory_map[k].start \in Nat /\ memory_map[k].pages \in Nat
              /\ memory_map[k].valid \in BOOLEAN
         /\ \A j, k \in 1 .. Len(memory_map) : j # k =>
              Before(memory_map[j].start, memory_map[j].start + memory_map[j].pages,
                     memory_map[k].start, memory_map[k].start + memory_map[k].pages)
<1>1. memory_map \in Seq([start : Nat, pages : Nat, valid : BOOLEAN])
  BY PhysicalAssumption DEF Physical!MapsAssumption
<1>2. Len(memory_map) \in Nat /\ DOMAIN memory_map = 1 .. Len(memory_map)
  BY <1>1, LenProperties
<1>3. ASSUME NEW j \in 1 .. Len(memory_map), NEW k \in 1 .. Len(memory_map), j # k
      PROVE  Before(memory_map[j].start, memory_map[j].start + memory_map[j].pages,
                    memory_map[k].start, memory_map[k].start + memory_map[k].pages)
  BY <1>2, <1>3, PhysicalAssumption DEF Physical!MapsAssumption, Before
<1>4. ASSUME NEW k \in 1 .. Len(memory_map)
      PROVE  memory_map[k] \in [start : Nat, pages : Nat, valid : BOOLEAN]
  BY <1>1, <1>2, ElementOfSeq
<1> QED BY <1>2, <1>3, <1>4

LEMMA TreeFacts ==
  ASSUME trees \in Seq(Tree)
  PROVE  /\ Len(trees) \in Nat /\ DOMAIN trees = 1 .. Len(trees)
         /\ \A t \in DOMAIN trees :
              /\ trees[t] \in Tree
              /\ trees[t].tree \in Nat /\ trees[t].base \in Nat /\ trees[t].pages \in Nat
              /\ EndOf(trees[t]) \in Nat
              /\ \A b \in trees[t].used : b \in [start : Nat, len : Nat]
<1>1. Len(trees) \in Nat /\ DOMAIN trees = 1 .. Len(trees)
  BY LenProperties
<1>2. ASSUME NEW t \in DOMAIN trees PROVE trees[t] \in Tree
  BY <1>1, ElementOfSeq
<1>3. ASSUME NEW t \in Tree
      PROVE  /\ t.tree \in Nat /\ t.base \in Nat /\ t.pages \in Nat /\ EndOf(t) \in Nat
             /\ \A b \in t.used : b \in [start : Nat, len : Nat]
  BY DEF Tree, EndOf
<1> QED BY <1>1, <1>2, <1>3

LEMMA PhysicalStarts == Physical!Init => PhysicalInv
<1> SUFFICES ASSUME Physical!Init PROVE PhysicalInv
  OBVIOUS
<1>1. /\ memory_map \in Spans /\ next = 1 /\ allocator = -1
      /\ rest = Physical!Nothing /\ trees = <<>>
  BY DEF Physical!Init, Physical!NULL
<1>2. PhysicalTypes
  BY <1>1, EntryFacts DEF PhysicalTypes, Physical!Nothing
<1> QED BY <1>1, <1>2 DEF PhysicalInv, TreesInv, RestInv, PointersInv

(* The largest of a set of numbers with a bound.                           *)
LEMMA LargestNatural ==
  ASSUME NEW bound \in Nat, NEW S \in SUBSET (0 .. bound), S # {}
  PROVE  \E x \in S : \A y \in S : y <= x
<1> DEFINE T == {bound - y : y \in S}
<1>1. T \in SUBSET Nat /\ T # {}
  <2>1. ASSUME NEW y \in S PROVE bound - y \in Nat
    OBVIOUS
  <2> QED BY <2>1
<1>2. PICK z \in T : \A y \in T : z <= y
  BY <1>1, LeastNatural
<1>3. PICK x \in S : z = bound - x
  OBVIOUS
<1>4. ASSUME NEW y \in S PROVE y <= x
  <2>1. bound - y \in T /\ x \in Nat /\ y \in Nat
    OBVIOUS
  <2> QED BY <1>2, <1>3, <2>1
<1> QED BY <1>4

LEMMA PowersAre == \A s \in Nat \ {0} : 1 \in Physical!PowersUpTo(s) /\ Physical!PowersUpTo(s) \in SUBSET (1 .. s)
<1> SUFFICES ASSUME NEW s \in Nat \ {0}
             PROVE  1 \in Physical!PowersUpTo(s) /\ Physical!PowersUpTo(s) \in SUBSET (1 .. s)
  OBVIOUS
<1>1. 1 = 2^0 /\ 0 \in 0 .. 1 - 1 /\ 1 \in 1 .. s
  OBVIOUS
<1> QED BY <1>1 DEF Physical!PowersUpTo

LEMMA FirstSizeFacts ==
  ASSUME NEW s \in Nat \ {0}
  PROVE  /\ Physical!FirstSize(s) \in 1 .. s
         /\ \A q \in Physical!PowersUpTo(s) : q <= Physical!FirstSize(s)
<1> DEFINE P == Physical!PowersUpTo(s)
<1>1. P # {} /\ P \in SUBSET (1 .. s) /\ P \in SUBSET (0 .. s)
  BY PowersAre
<1> HIDE DEF P
<1>2. \E x \in P : \A q \in P : q <= x
  BY <1>1, LargestNatural
<1>3. Physical!FirstSize(s) = CHOOSE x \in P : \A q \in P : q <= x
  BY DEF Physical!FirstSize, P
<1>4. Physical!FirstSize(s) \in P /\ \A q \in P : q <= Physical!FirstSize(s)
  BY <1>2, <1>3
<1> QED BY <1>1, <1>4 DEF P

(* A tree's flags fit into the pages that are counted for them.            *)
LEMMA RequiredPages ==
  ASSUME NEW s \in Nat \ {0}
  PROVE  LET r == Physical!required_pages_for_tree(s)
         IN  r \in Nat \ {0} /\ HEADER_SIZE + 2 * s - 1 <= r * PAGE_SIZE
<1> DEFINE bytes == HEADER_SIZE + 2 * s - 1
           a == bytes + PAGE_SIZE - 1
<1>1. bytes \in Nat \ {0} /\ a \in Nat /\ PAGE_SIZE \in Nat \ {0} /\ a = bytes + PAGE_SIZE - 1
  BY PhysicalSizes
<1>2. Physical!required_pages_for_tree(s) = a \div PAGE_SIZE
  BY DEF Physical!required_pages_for_tree
<1> HIDE DEF a
<1>3. PICK q \in Nat, r \in Nat :
        /\ q = a \div PAGE_SIZE /\ r = a % PAGE_SIZE /\ r < PAGE_SIZE
        /\ q * PAGE_SIZE \in Nat /\ a = q * PAGE_SIZE + r
  BY <1>1, QuotientFacts, Zenon
<1> HIDE DEF bytes
<1>4. bytes <= q * PAGE_SIZE
  BY <1>1, <1>3
<1>5. q # 0
  <2>1. q = 0 => q * PAGE_SIZE = 0
    BY <1>1
  <2> QED BY <1>1, <1>4, <2>1
<1> QED BY <1>2, <1>3, <1>4, <1>5 DEF bytes

(* The size that is chosen: the tree and its pages fit into the region.    *)
LEMMA ChosenSize ==
  ASSUME NEW s \in Nat \ {0}, Physical!RegionSizes(s) # {}
  PROVE  LET S == Physical!RegionSizes(s)
             p == CHOOSE x \in S : \A q \in S : q <= x
         IN  p \in Nat \ {0} /\ Physical!required_pages_for_tree(p) + p <= s
<1> DEFINE S == Physical!RegionSizes(s)
           p == CHOOSE x \in S : \A q \in S : q <= x
           first == Physical!FirstSize(s)
<1>1. \A q \in S : q \in Physical!PowersUpTo(s) /\ Physical!required_pages_for_tree(q) <= s - first
  BY DEF Physical!RegionSizes
<1>2. S \in SUBSET (0 .. s) /\ S # {}
  BY <1>1, PowersAre
<1> HIDE DEF S
<1>3. \E x \in S : \A q \in S : q <= x
  BY <1>2, LargestNatural
<1>4. p \in S
  BY <1>3
<1> HIDE DEF p
<1>5. p \in Nat \ {0} /\ p <= first /\ first \in 1 .. s
  BY <1>1, <1>4, PowersAre, FirstSizeFacts
<1>6. Physical!required_pages_for_tree(p) \in Nat /\ Physical!required_pages_for_tree(p) <= s - first
  BY <1>1, <1>4, <1>5, RequiredPages
<1>7. Physical!required_pages_for_tree(p) + p <= s
  BY <1>5, <1>6
<1> QED BY <1>5, <1>7 DEF p, S

(* Places in entries that were visited.                                    *)
LEMMA VisitedLater ==
  ASSUME NEW map, NEW upto \in Nat, NEW from, NEW to, Visited(map, upto, from, to)
  PROVE  Visited(map, upto + 1, from, to)
<1>1. PICK k \in 1 .. upto - 1 : InEntry(map[k], from, to)
  BY DEF Visited
<1>2. k \in 1 .. (upto + 1) - 1
  OBVIOUS
<1> QED BY <1>1, <1>2 DEF Visited

LEMMA VisitedNow ==
  ASSUME NEW map, NEW upto \in Nat \ {0}, NEW from, NEW to, InEntry(map[upto], from, to)
  PROVE  Visited(map, upto + 1, from, to)
<1>1. upto \in 1 .. (upto + 1) - 1
  OBVIOUS
<1> QED BY <1>1 DEF Visited

LEMMA VisitedAhead ==
  ASSUME memory_map \in Spans, NEW a \in 1 .. Len(memory_map), NEW from \in Nat, NEW to \in Nat,
         Visited(memory_map, a, from, to)
  PROVE  Before(from, to, memory_map[a].start, memory_map[a].start + memory_map[a].pages)
<1>1. PICK k \in 1 .. a - 1 : InEntry(memory_map[k], from, to)
  BY DEF Visited
<1>2. k \in 1 .. Len(memory_map) /\ k # a
  BY EntryFacts
<1>3. /\ memory_map[k].start \in Nat /\ memory_map[k].pages \in Nat
      /\ memory_map[a].start \in Nat /\ memory_map[a].pages \in Nat
  BY <1>2, EntryFacts
<1>4. Before(memory_map[k].start, memory_map[k].start + memory_map[k].pages,
             memory_map[a].start, memory_map[a].start + memory_map[a].pages)
  BY <1>2, EntryFacts
<1> QED BY <1>1, <1>3, <1>4, SMTT(30) DEF InEntry, Before

LEMMA VisitStep == PhysicalInv /\ Physical!Visit => PhysicalInv'
<1> SUFFICES ASSUME PhysicalInv, Physical!Visit PROVE PhysicalInv'
  OBVIOUS
<1> DEFINE entry == memory_map[next]
           place == entry.valid /\ allocator = -1 /\ entry.pages = PAGES_RESERVED_FOR_TREE_POINTERS
           taken == IF place THEN PAGES_RESERVED_FOR_TREE_POINTERS ELSE 0
           usable == [start |-> entry.start + taken, pages |-> entry.pages - taken]
<1>1. /\ next <= Len(memory_map) /\ rest = Physical!Nothing
      /\ allocator' = IF place THEN entry.start ELSE allocator
      /\ rest' = IF entry.valid /\ allocator' # -1 /\ usable.pages >= MINIMUM_PAGES_TO_MANAGE
                   THEN usable ELSE Physical!Nothing
      /\ next' = next + 1 /\ memory_map' = memory_map /\ trees' = trees
  BY DEF Physical!Visit, Physical!NULL
<1>2. PhysicalTypes /\ TreesInv /\ RestInv /\ PointersInv
  BY DEF PhysicalInv
<1>3. memory_map \in Spans /\ next \in 1 .. Len(memory_map) /\ next' - 1 = next /\ Len(memory_map) \in Nat
  BY <1>1, <1>2, EntryFacts DEF PhysicalTypes
<1>4. entry.start \in Nat /\ entry.pages \in Nat /\ entry.valid \in BOOLEAN
  BY <1>3, EntryFacts
<1>5. PAGES_RESERVED_FOR_TREE_POINTERS \in Nat \ {0} /\ MINIMUM_PAGES_TO_MANAGE \in Nat \ {0}
  BY PhysicalSizes
<1>6. rest' = Physical!Nothing \/
      (~place /\ rest' = [start |-> entry.start, pages |-> entry.pages] /\ entry.valid /\ allocator # -1)
  <2>1. CASE place
    <3>1. usable.pages = 0
      BY <1>4, <1>5, <2>1
    <3> QED BY <1>1, <1>5, <3>1
  <2>2. CASE ~place
    <3>1. allocator' = allocator /\ usable = [start |-> entry.start, pages |-> entry.pages]
      BY <1>1, <1>4, <2>2
    <3> QED BY <1>1, <2>2, <3>1
  <2> QED BY <2>1, <2>2
<1>7. PhysicalTypes'
  <2>1. allocator' \in Nat \cup {-1}
    BY <1>1, <1>2, <1>4 DEF PhysicalTypes
  <2>2. rest' \in [start : Nat, pages : Nat]
    BY <1>4, <1>6 DEF Physical!Nothing
  <2>3. next' \in 1 .. Len(memory_map) + 1
    BY <1>1, <1>3
  <2> QED BY <1>1, <1>2, <2>1, <2>2, <2>3 DEF PhysicalTypes
<1>8. \A t \in DOMAIN trees : trees[t].tree \in Nat /\ EndOf(trees[t]) \in Nat
  BY <1>2, TreeFacts DEF PhysicalTypes
<1>9. ASSUME NEW from, NEW to, Visited(memory_map, next, from, to)
      PROVE  Visited(memory_map, next + 1, from, to)
  BY <1>3, <1>9, VisitedLater
<1>10. TreesInv'
  BY <1>1, <1>2, <1>9 DEF TreesInv
<1>11. entry.valid => Visited(memory_map, next + 1, entry.start, entry.start + entry.pages)
  BY <1>3, <1>4, VisitedNow DEF InEntry
<1>12. \A t \in DOMAIN trees :
         Before(trees[t].tree, EndOf(trees[t]), entry.start, entry.start + entry.pages)
  BY <1>2, <1>3, <1>8, VisitedAhead DEF TreesInv
<1>13. RestInv'
  <2>1. CASE rest' = Physical!Nothing
    BY <2>1 DEF RestInv
  <2>2. CASE rest' # Physical!Nothing
    <3>1. rest' = [start |-> entry.start, pages |-> entry.pages] /\ entry.valid
      BY <1>6, <2>2
    <3>2. rest'.start = entry.start /\ rest'.pages = entry.pages
      BY <3>1
    <3> HIDE DEF entry
    <3> QED BY <1>1, <1>11, <1>12, <3>1, <3>2 DEF RestInv
  <2> QED BY <2>1, <2>2
<1>14. PointersInv'
  <2>1. CASE place
    <3>1. allocator' = entry.start /\ entry.pages = PAGES_RESERVED_FOR_TREE_POINTERS
          /\ rest' = Physical!Nothing /\ trees = <<>> /\ entry.valid
      BY <1>1, <1>2, <1>6, <2>1 DEF PointersInv
    <3>2. allocator' # -1
      BY <1>4, <3>1
    <3> HIDE DEF entry
    <3> QED BY <1>1, <1>11, <3>1, <3>2 DEF PointersInv
  <2>2. CASE ~place /\ allocator = -1
    <3>1. allocator' = -1 /\ rest' = Physical!Nothing /\ trees = <<>>
      BY <1>1, <1>2, <2>2 DEF PointersInv
    <3> QED BY <1>1, <3>1 DEF PointersInv
  <2>3. CASE ~place /\ allocator # -1
    <3> DEFINE end == allocator + PAGES_RESERVED_FOR_TREE_POINTERS
    <3>1. allocator' = allocator /\ allocator \in Nat /\ end \in Nat
      BY <1>1, <1>2, <1>5, <2>3 DEF PhysicalTypes
    <3>2. /\ Visited(memory_map, next, allocator, end)
          /\ \A t \in DOMAIN trees : Before(trees[t].tree, EndOf(trees[t]), allocator, end)
      BY <1>2, <2>3 DEF PointersInv
    <3>3. Before(allocator, end, entry.start, entry.start + entry.pages)
      BY <1>3, <3>1, <3>2, VisitedAhead
    <3>4. Visited(memory_map, next + 1, allocator, end)
      BY <1>9, <3>2
    <3>5. rest' # Physical!Nothing => Before(rest'.start, rest'.start + rest'.pages, allocator, end)
      <4> SUFFICES ASSUME rest' # Physical!Nothing
                   PROVE  Before(rest'.start, rest'.start + rest'.pages, allocator, end)
        OBVIOUS
      <4>1. rest' = [start |-> entry.start, pages |-> entry.pages]
        BY <1>6
      <4>2. rest'.start = entry.start /\ rest'.pages = entry.pages
        BY <4>1
      <4> QED BY <1>4, <3>1, <3>3, <4>2 DEF Before
    <3> QED BY <1>1, <2>3, <3>1, <3>2, <3>4, <3>5 DEF PointersInv
  <2> QED BY <2>1, <2>2, <2>3
<1> QED BY <1>7, <1>10, <1>13, <1>14 DEF PhysicalInv

(* A new tree takes the front of what is left, and leaves the rest of it.  *)
LEMMA CreateTreeStep == PhysicalInv /\ Physical!CreateTree => PhysicalInv'
<1> SUFFICES ASSUME PhysicalInv, Physical!CreateTree PROVE PhysicalInv'
  OBVIOUS
<1> DEFINE S == Physical!RegionSizes(rest.pages)
           size == CHOOSE p \in S : \A q \in S : q <= p
           req == Physical!required_pages_for_tree(size)
           base == rest.start + req
           new == [tree |-> rest.start, base |-> base, pages |-> size, used |-> {}]
           fails == rest.pages < MINIMUM_PAGES_TO_MANAGE \/ S = {}
<1>1. /\ rest # Physical!Nothing
      /\ fails => rest' = Physical!Nothing /\ trees' = trees
      /\ ~fails => /\ trees' = Append(trees, new)
                   /\ rest' = [start |-> base + size, pages |-> rest.pages - size - req]
      /\ memory_map' = memory_map /\ next' = next /\ allocator' = allocator
  BY DEF Physical!CreateTree, Physical!PagesLeft
<1>2. PhysicalTypes /\ TreesInv /\ RestInv /\ PointersInv
  BY DEF PhysicalInv
<1>3. CASE fails
  <2>1. rest' = Physical!Nothing /\ trees' = trees
    BY <1>1, <1>3
  <2>2. PhysicalTypes'
    BY <1>1, <1>2, <2>1 DEF PhysicalTypes, Physical!Nothing
  <2>3. TreesInv' /\ RestInv'
    BY <1>1, <1>2, <2>1 DEF TreesInv, RestInv
  <2>4. PointersInv'
    BY <1>1, <1>2, <2>1 DEF PointersInv
  <2> QED BY <2>2, <2>3, <2>4 DEF PhysicalInv
<1>4. CASE ~fails
  <2>1. rest.start \in Nat /\ rest.pages \in Nat /\ trees \in Seq(Tree) /\ rest.pages \in Nat \ {0}
        /\ rest.pages >= MINIMUM_PAGES_TO_MANAGE /\ S # {}
    BY <1>2, <1>4, PhysicalSizes DEF PhysicalTypes
  <2>2. size \in Nat \ {0} /\ req + size <= rest.pages
    BY <2>1, ChosenSize
  <2>3. req \in Nat \ {0} /\ HEADER_SIZE + 2 * size - 1 <= req * PAGE_SIZE
    BY <2>2, RequiredPages
  <2> HIDE DEF size, req
  <2> DEFINE left == rest.pages - size - req
             stop == base + size
  <2>4. /\ base \in Nat /\ base - rest.start = req /\ rest.start < base /\ stop \in Nat /\ left \in Nat
        /\ stop + left = rest.start + rest.pages /\ stop <= rest.start + rest.pages /\ rest.start <= stop
    <3> DEFINE a == rest.start
               p == rest.pages
    <3>1. a \in Nat /\ p \in Nat /\ req \in Nat /\ req # 0 /\ size \in Nat /\ req + size <= p
      BY <2>1, <2>2, <2>3
    <3> HIDE DEF a, p
    <3>2. /\ a + req \in Nat /\ (a + req) - a = req /\ a < a + req
          /\ (a + req) + size \in Nat /\ p - size - req \in Nat
          /\ ((a + req) + size) + (p - size - req) = a + p
          /\ (a + req) + size <= a + p /\ a <= (a + req) + size
      BY <3>1
    <3> QED BY <3>2 DEF a, p
  <2>5. trees' = Append(trees, new) /\ rest' = [start |-> stop, pages |-> left]
    BY <1>1, <1>4
  <2>6. new \in Tree /\ new.tree = rest.start /\ new.base = base /\ new.pages = size /\ new.used = {}
        /\ EndOf(new) = stop
    BY <2>1, <2>2, <2>4 DEF Tree, EndOf
  <2>7. rest'.start = stop /\ rest'.pages = left /\ rest' \in [start : Nat, pages : Nat]
    BY <2>4, <2>5
  <2>8. TreeSound(new)
    BY <2>3, <2>4, <2>6 DEF TreeSound
  <2> HIDE DEF new, base, left, stop
  <2> DEFINE l == Len(trees)
  <2>9. /\ l \in Nat /\ DOMAIN trees = 1 .. l /\ trees' \in Seq(Tree) /\ DOMAIN trees' = 1 .. l + 1
        /\ trees'[l + 1] = new /\ \A t \in 1 .. l : trees'[t] = trees[t]
    BY <2>1, <2>5, <2>6, LenProperties, AppendProperties
  <2> HIDE DEF l
  <2>10. \A t \in DOMAIN trees' : t = l + 1 \/ (t \in DOMAIN trees /\ trees'[t] = trees[t] /\ t # l + 1)
    BY <2>9
  <2>11. \A t \in DOMAIN trees : trees[t].tree \in Nat /\ EndOf(trees[t]) \in Nat
    BY <2>1, TreeFacts
  <2>12. /\ Visited(memory_map, next, rest.start, rest.start + rest.pages)
         /\ \A t \in DOMAIN trees :
              Before(trees[t].tree, EndOf(trees[t]), rest.start, rest.start + rest.pages)
    BY <1>1, <1>2 DEF RestInv
  <2>13. /\ Visited(memory_map, next, rest.start, stop)
         /\ Visited(memory_map, next, stop, stop + left)
    <3>1. PICK k \in 1 .. next - 1 : InEntry(memory_map[k], rest.start, rest.start + rest.pages)
      BY <2>12 DEF Visited
    <3>2. memory_map[k].start \in Nat /\ memory_map[k].pages \in Nat
      <4>1. k \in 1 .. Len(memory_map)
        BY <1>2, EntryFacts DEF PhysicalTypes
      <4> QED BY <1>2, <4>1, EntryFacts DEF PhysicalTypes
    <3>3. InEntry(memory_map[k], rest.start, stop) /\ InEntry(memory_map[k], stop, stop + left)
      BY <2>1, <2>4, <3>1, <3>2, SMTT(30) DEF InEntry
    <3> QED BY <3>3 DEF Visited
  <2>14. ASSUME NEW from \in Nat, NEW to \in Nat, Before(from, to, rest.start, rest.start + rest.pages)
         PROVE  /\ Before(from, to, rest.start, stop) /\ Before(rest.start, stop, from, to)
                /\ Before(from, to, stop, stop + left) /\ Before(stop, stop + left, from, to)
    BY <2>1, <2>4, <2>14 DEF Before
  <2>15. PhysicalTypes'
    BY <1>1, <1>2, <2>7, <2>9 DEF PhysicalTypes
  <2>16. TreesInv'
    <3>1. \A t \in DOMAIN trees' : TreeSound(trees'[t])
      BY <1>2, <2>8, <2>9, <2>10 DEF TreesInv
    <3>2. \A t \in DOMAIN trees' : Visited(memory_map, next, trees'[t].tree, EndOf(trees'[t]))
      BY <1>2, <2>6, <2>9, <2>10, <2>13 DEF TreesInv
    <3>3. ASSUME NEW t \in DOMAIN trees', NEW u \in DOMAIN trees', t # u
          PROVE  Before(trees'[t].tree, EndOf(trees'[t]), trees'[u].tree, EndOf(trees'[u]))
      <4>1. CASE t = l + 1
        <5>1. u \in DOMAIN trees /\ trees'[u] = trees[u]
          BY <2>10, <3>3, <4>1
        <5> QED BY <2>6, <2>9, <2>11, <2>12, <2>14, <4>1, <5>1
      <4>2. CASE u = l + 1
        <5>1. t \in DOMAIN trees /\ trees'[t] = trees[t]
          BY <2>10, <3>3, <4>2
        <5> QED BY <2>6, <2>9, <2>11, <2>12, <2>14, <4>2, <5>1
      <4>3. CASE t # l + 1 /\ u # l + 1
        BY <1>2, <2>10, <3>3, <4>3 DEF TreesInv
      <4> QED BY <4>1, <4>2, <4>3
    <3>4. \A t, u \in DOMAIN trees' : t # u =>
             Before(trees'[t].tree, EndOf(trees'[t]), trees'[u].tree, EndOf(trees'[u]))
      BY <3>3
    <3> QED BY <1>1, <3>1, <3>2, <3>4 DEF TreesInv
  <2>17. RestInv'
    <3>1. \A t \in DOMAIN trees' : Before(trees'[t].tree, EndOf(trees'[t]), stop, stop + left)
      <4> SUFFICES ASSUME NEW t \in DOMAIN trees'
                   PROVE  Before(trees'[t].tree, EndOf(trees'[t]), stop, stop + left)
        OBVIOUS
      <4>1. CASE t = l + 1
        BY <2>4, <2>6, <2>9, <4>1 DEF Before
      <4>2. CASE t # l + 1
        BY <2>10, <2>11, <2>12, <2>14, <4>2
      <4> QED BY <4>1, <4>2
    <3> QED BY <1>1, <2>7, <2>13, <3>1 DEF RestInv
  <2>18. PointersInv'
    <3> DEFINE end == allocator + PAGES_RESERVED_FOR_TREE_POINTERS
    <3>1. allocator # -1 /\ allocator \in Nat /\ end \in Nat
      BY <1>1, <1>2, PhysicalSizes DEF PointersInv, PhysicalTypes
    <3>2. /\ Visited(memory_map, next, allocator, end)
          /\ \A t \in DOMAIN trees : Before(trees[t].tree, EndOf(trees[t]), allocator, end)
          /\ Before(rest.start, rest.start + rest.pages, allocator, end)
      BY <1>1, <1>2, <3>1 DEF PointersInv
    <3>3. Before(rest.start, stop, allocator, end) /\ Before(stop, stop + left, allocator, end)
      BY <2>1, <2>4, <3>1, <3>2 DEF Before
    <3>4. \A t \in DOMAIN trees' : Before(trees'[t].tree, EndOf(trees'[t]), allocator, end)
      BY <2>6, <2>9, <2>10, <3>2, <3>3
    <3> HIDE DEF end
    <3>5. allocator' + PAGES_RESERVED_FOR_TREE_POINTERS = end
      BY <1>1 DEF end
    <3> QED BY <1>1, <2>7, <3>1, <3>2, <3>3, <3>4, <3>5 DEF PointersInv
  <2> QED BY <2>15, <2>16, <2>17, <2>18 DEF PhysicalInv
<1> QED BY <1>3, <1>4

(* A block that is handed out lies in its tree's region and is apart from  *)
(* what was handed out before.                                             *)
LEMMA AllocStep ==
  ASSUME PhysicalInv, NEW p \in Sizes, Physical!Alloc(p)
  PROVE  PhysicalInv'
<1>1. PICK h \in DOMAIN trees : \E b \in Physical!FreeIn(h, p) :
        trees' = [trees EXCEPT ![h].used = @ \cup {b}]
  BY DEF Physical!Alloc
<1>2. PICK b \in Physical!FreeIn(h, p) : trees' = [trees EXCEPT ![h].used = @ \cup {b}]
  BY <1>1
<1>3. memory_map' = memory_map /\ next' = next /\ allocator' = allocator /\ rest' = rest
  BY DEF Physical!Alloc
<1>4. PhysicalTypes /\ TreesInv /\ RestInv /\ PointersInv
  BY DEF PhysicalInv
<1>5. trees \in Seq(Tree)
  BY <1>4 DEF PhysicalTypes
<1> DEFINE old == trees[h]
           new == [old EXCEPT !.used = @ \cup {b}]
<1>6. old \in Tree /\ old.pages \in Nat
  BY <1>5, TreeFacts
<1>7. /\ b \in Physical!BlocksOf(old.pages) /\ \A c \in old.used : Physical!Apart(b, c)
  BY DEF Physical!FreeIn, Physical!Fitting
<1>8. b \in [start : Nat, len : Nat] /\ b.start + b.len <= old.pages
  BY <1>6, <1>7 DEF Physical!BlocksOf, Physical!PowersUpTo
<1>9. new \in Tree /\ new.tree = old.tree /\ new.base = old.base /\ new.pages = old.pages
      /\ new.used = old.used \cup {b}
  BY <1>6, <1>8 DEF Tree
<1>10. /\ trees' \in Seq(Tree) /\ DOMAIN trees' = DOMAIN trees
       /\ trees'[h] = new /\ \A t \in DOMAIN trees : t # h => trees'[t] = trees[t]
  BY <1>2, <1>5, <1>9
<1>11. TreeSound(old)
  BY <1>4 DEF TreesInv
<1>12. ASSUME NEW c \in new.used, NEW d \in new.used PROVE c = d \/ Physical!Apart(c, d)
  <2>1. \A x, y : Physical!Apart(x, y) => Physical!Apart(y, x)
    BY DEF Physical!Apart
  <2> QED BY <1>7, <1>9, <1>11, <2>1 DEF TreeSound
<1>13. TreeSound(new)
  <2>1. \A c \in new.used : c.start + c.len <= new.pages
    BY <1>8, <1>9, <1>11 DEF TreeSound
  <2> QED BY <1>9, <1>11, <1>12, <2>1 DEF TreeSound
<1> HIDE DEF new, old
<1>14. \A t \in DOMAIN trees : trees'[t].tree = trees[t].tree /\ EndOf(trees'[t]) = EndOf(trees[t])
  BY <1>9, <1>10 DEF EndOf, old
<1>15. TreesInv'
  <2>1. \A t \in DOMAIN trees : TreeSound(trees'[t])
    BY <1>4, <1>10, <1>13 DEF TreesInv
  <2> QED BY <1>3, <1>4, <1>10, <1>14, <2>1 DEF TreesInv
<1>16. RestInv' /\ PointersInv'
  <2>1. RestInv'
    BY <1>3, <1>4, <1>10, <1>14 DEF RestInv
  <2>2. trees # <<>>
    BY <1>5, TreeFacts
  <2>3. PointersInv'
    BY <1>3, <1>4, <1>10, <1>14, <2>2 DEF PointersInv
  <2> QED BY <2>1, <2>3
<1>17. PhysicalTypes'
  BY <1>3, <1>4, <1>10 DEF PhysicalTypes
<1> QED BY <1>15, <1>16, <1>17 DEF PhysicalInv

LEMMA PhysicalUnchanged ==
  ASSUME PhysicalInv, memory_map' = memory_map, next' = next, allocator' = allocator,
         rest' = rest, trees' = trees
  PROVE  PhysicalInv'
BY DEF PhysicalInv, PhysicalTypes, TreesInv, RestInv, PointersInv

LEMMA PhysicalStep == PhysicalInv /\ Physical!Next => PhysicalInv'
<1> SUFFICES ASSUME PhysicalInv, Physical!Next PROVE PhysicalInv'
  OBVIOUS
<1>1. CASE Physical!Free \/ \E p \in Sizes : Physical!AllocFails(p)
  BY <1>1, PhysicalUnchanged DEF Physical!Free, Physical!AllocFails
<1>2. CASE \E p \in Sizes : Physical!Alloc(p)
  BY <1>2, AllocStep
<1> QED BY <1>1, <1>2, VisitStep, CreateTreeStep DEF Physical!Next

(* What is in use: the pointers, or something of one tree.                 *)
Pointers == [start |-> allocator, len |-> Physical!PointerPages, of |-> 0]
FlagsOf(t) == [start |-> trees[t].tree, len |-> trees[t].base - trees[t].tree, of |-> t]
BlockOf(t, b) == [start |-> trees[t].base + b.start, len |-> b.len, of |-> t]

OfTree(x, t) == x = FlagsOf(t) \/ \E b \in trees[t].used : x = BlockOf(t, b)

LEMMA InUse ==
  \A x \in Physical!Extents :
    \/ allocator # -1 /\ x = Pointers
    \/ \E t \in DOMAIN trees : OfTree(x, t)
BY DEF Physical!Extents, Physical!NULL, Pointers, FlagsOf, BlockOf, OfTree

LEMMA InRegion ==
  ASSUME PhysicalInv, NEW t \in DOMAIN trees, NEW x, OfTree(x, t)
  PROVE  /\ x.start \in Nat /\ x.len \in Nat
         /\ trees[t].tree <= x.start /\ x.start + x.len <= EndOf(trees[t])
<1>1. /\ trees[t].tree \in Nat /\ trees[t].base \in Nat /\ trees[t].pages \in Nat
      /\ \A b \in trees[t].used : b.start \in Nat /\ b.len \in Nat
  BY TreeFacts DEF PhysicalInv, PhysicalTypes
<1>2. trees[t].tree < trees[t].base /\ \A b \in trees[t].used : b.start + b.len <= trees[t].pages
  BY DEF PhysicalInv, TreesInv, TreeSound
<1>3. CASE x = FlagsOf(t)
  <2>1. x.start = trees[t].tree /\ x.len = trees[t].base - trees[t].tree
    BY <1>3 DEF FlagsOf
  <2> QED BY <1>1, <1>2, <2>1 DEF EndOf
<1>4. ASSUME NEW b \in trees[t].used, x = BlockOf(t, b)
      PROVE  /\ x.start \in Nat /\ x.len \in Nat
             /\ trees[t].tree <= x.start /\ x.start + x.len <= EndOf(trees[t])
  <2>1. x.start = trees[t].base + b.start /\ x.len = b.len
    BY <1>4 DEF BlockOf
  <2>2. b.start \in Nat /\ b.len \in Nat /\ b.start + b.len <= trees[t].pages
    BY <1>1, <1>2
  <2> QED BY <1>1, <1>2, <2>1, <2>2 DEF EndOf
<1> QED BY <1>3, <1>4 DEF OfTree

LEMMA SameTree ==
  ASSUME PhysicalInv, NEW t \in DOMAIN trees, NEW x, OfTree(x, t), NEW y, OfTree(y, t)
  PROVE  x = y \/ Physical!Apart(x, y)
<1>1. /\ trees[t].tree \in Nat /\ trees[t].base \in Nat /\ trees[t].pages \in Nat
      /\ \A b \in trees[t].used : b.start \in Nat /\ b.len \in Nat
  BY TreeFacts DEF PhysicalInv, PhysicalTypes
<1>2. /\ trees[t].tree < trees[t].base
      /\ \A b, c \in trees[t].used : b = c \/ Physical!Apart(b, c)
  BY DEF PhysicalInv, TreesInv, TreeSound
<1>3. /\ FlagsOf(t).start = trees[t].tree /\ FlagsOf(t).len = trees[t].base - trees[t].tree
      /\ \A b : BlockOf(t, b).start = trees[t].base + b.start /\ BlockOf(t, b).len = b.len
  BY DEF FlagsOf, BlockOf
<1>4. \A b \in trees[t].used :
         Physical!Apart(FlagsOf(t), BlockOf(t, b)) /\ Physical!Apart(BlockOf(t, b), FlagsOf(t))
  <2> SUFFICES ASSUME NEW b \in trees[t].used
               PROVE  Physical!Apart(FlagsOf(t), BlockOf(t, b)) /\ Physical!Apart(BlockOf(t, b), FlagsOf(t))
    OBVIOUS
  <2>1. FlagsOf(t).start + FlagsOf(t).len <= BlockOf(t, b).start
    BY <1>1, <1>2, <1>3
  <2> QED BY <2>1 DEF Physical!Apart
<1>5. ASSUME NEW b \in trees[t].used, NEW c \in trees[t].used, Physical!Apart(b, c)
      PROVE  Physical!Apart(BlockOf(t, b), BlockOf(t, c))
  <2>1. b.start \in Nat /\ b.len \in Nat /\ c.start \in Nat /\ c.len \in Nat
    BY <1>1
  <2>2. b.start + b.len <= c.start \/ c.start + c.len <= b.start
    BY <1>5 DEF Physical!Apart
  <2> QED BY <1>1, <1>3, <2>1, <2>2 DEF Physical!Apart
<1> QED BY <1>2, <1>4, <1>5 DEF OfTree

LEMMA TwoRegions ==
  ASSUME NEW a \in Nat, NEW b \in Nat, NEW c \in Nat, NEW d \in Nat, Before(a, b, c, d),
         NEW x, x.start \in Nat, x.len \in Nat, a <= x.start, x.start + x.len <= b,
         NEW y, y.start \in Nat, y.len \in Nat, c <= y.start, y.start + y.len <= d
  PROVE  Physical!Apart(x, y) /\ Physical!Apart(y, x)
BY DEF Before, Physical!Apart

(* Pointers that fit the reserved bytes take no more than the reserved     *)
(* pages.                                                                  *)
LEMMA PagesOfPointers ==
  ASSUME trees \in Seq(Tree), Physical!PointersFit
  PROVE  Physical!PointerPages \in Nat /\ Physical!PointerPages <= PAGES_RESERVED_FOR_TREE_POINTERS
<1> DEFINE d == PAGE_SIZE
           m == PAGES_RESERVED_FOR_TREE_POINTERS
           bytes == Physical!PointersEnd
           a == bytes + d - 1
<1>1. d \in Nat \ {0} /\ m \in Nat /\ POINTER_SIZE \in Nat
  BY PhysicalSizes
<1>2. bytes \in Nat
  <2>1. Len(trees) \in Nat
    BY LenProperties
  <2>2. 1 + Len(trees) \in Nat
    BY <2>1
  <2> QED BY <1>1, <2>2, ProductNext DEF Physical!PointersEnd
<1>3. bytes <= m * d
  BY DEF Physical!PointersFit
<1>4. Physical!PointerPages = a \div d
  BY DEF Physical!PointerPages
<1>5. a \in Nat /\ a = bytes + d - 1
  BY <1>1, <1>2
<1> HIDE DEF d, m, bytes, a
<1>6. PICK q \in Nat, r \in Nat : /\ q = a \div d /\ r = a % d /\ r < d
                                 /\ q * d \in Nat /\ a = q * d + r
  BY <1>1, <1>5, QuotientFacts, Zenon
<1>7. ~(m + 1 <= q)
  <2> SUFFICES ASSUME m + 1 <= q PROVE FALSE
    OBVIOUS
  <2>1. m * d \in Nat /\ (m + 1) * d = m * d + d
    BY <1>1, ProductNext
  <2>2. (m + 1) * d <= q * d
    BY <1>1, <1>6, ProductMonotone
  <2> QED BY <1>1, <1>2, <1>3, <1>5, <1>6, <2>1, <2>2
<1>8. q <= m
  BY <1>1, <1>6, <1>7
<1> QED BY <1>4, <1>6, <1>8 DEF m

LEMMA PhysicalSuffices == PhysicalInv => Physical!ManagedPagesApart
<1> SUFFICES ASSUME PhysicalInv, Physical!PointersFit PROVE Physical!ManagedPagesApart
  BY DEF Physical!ManagedPagesApart
<1>1. PhysicalTypes /\ TreesInv /\ PointersInv
  BY DEF PhysicalInv
<1>2. \A t \in DOMAIN trees : trees[t].tree \in Nat /\ EndOf(trees[t]) \in Nat
  BY <1>1, TreeFacts DEF PhysicalTypes
<1> DEFINE end == allocator + PAGES_RESERVED_FOR_TREE_POINTERS
<1>3. ASSUME allocator # -1
      PROVE  /\ allocator \in Nat /\ end \in Nat
             /\ Pointers.start = allocator /\ Pointers.len <= PAGES_RESERVED_FOR_TREE_POINTERS
             /\ Pointers.start \in Nat /\ Pointers.len \in Nat
             /\ allocator <= Pointers.start /\ Pointers.start + Pointers.len <= end
             /\ Visited(memory_map, next, allocator, end)
             /\ \A t \in DOMAIN trees : Before(trees[t].tree, EndOf(trees[t]), allocator, end)
  <2>1. Pointers.start = allocator /\ Pointers.len = Physical!PointerPages
    BY DEF Pointers
  <2>2. Pointers.len \in Nat /\ Pointers.len <= PAGES_RESERVED_FOR_TREE_POINTERS
    BY <1>1, <2>1, PagesOfPointers DEF PhysicalTypes
  <2> QED BY <1>1, <1>3, <2>1, <2>2, PhysicalSizes DEF PointersInv, PhysicalTypes
<1>4. ASSUME NEW x \in Physical!Extents, NEW y \in Physical!Extents
      PROVE  x = y \/ Physical!Apart(x, y)
  <2>1. CASE allocator # -1 /\ x = Pointers
    <3>1. CASE y = Pointers
      BY <2>1, <3>1
    <3>2. ASSUME NEW u \in DOMAIN trees, OfTree(y, u)
          PROVE  Physical!Apart(x, y)
      BY <1>2, <1>3, <2>1, <3>2, InRegion, TwoRegions
    <3> QED BY <3>1, <3>2, InUse
  <2>2. ASSUME NEW t \in DOMAIN trees, OfTree(x, t)
        PROVE  x = y \/ Physical!Apart(x, y)
    <3>1. CASE allocator # -1 /\ y = Pointers
      BY <1>2, <1>3, <2>2, <3>1, InRegion, TwoRegions
    <3>2. ASSUME NEW u \in DOMAIN trees, OfTree(y, u)
          PROVE  x = y \/ Physical!Apart(x, y)
      <4>1. CASE t = u
        BY <2>2, <3>2, <4>1, SameTree
      <4>2. CASE t # u
        <5>1. Before(trees[t].tree, EndOf(trees[t]), trees[u].tree, EndOf(trees[u]))
          BY <1>1, <4>2 DEF TreesInv
        <5> QED BY <1>2, <2>2, <3>2, <5>1, InRegion, TwoRegions
      <4> QED BY <4>1, <4>2
    <3> QED BY <3>1, <3>2, InUse
  <2> QED BY <2>1, <2>2, InUse
<1>5. ASSUME NEW x \in Physical!Extents
      PROVE  \E k \in DOMAIN memory_map :
               /\ memory_map[k].valid
               /\ memory_map[k].start <= x.start
               /\ x.start + x.len <= memory_map[k].start + memory_map[k].pages
  <2>1. ASSUME NEW a \in Nat, NEW b \in Nat, Visited(memory_map, next, a, b),
               x.start \in Nat, x.len \in Nat, a <= x.start, x.start + x.len <= b
        PROVE  \E k \in DOMAIN memory_map :
                 /\ memory_map[k].valid
                 /\ memory_map[k].start <= x.start
                 /\ x.start + x.len <= memory_map[k].start + memory_map[k].pages
    <3>1. PICK k \in 1 .. next - 1 : InEntry(memory_map[k], a, b)
      BY <2>1 DEF Visited
    <3>2. memory_map \in Spans /\ next \in 1 .. Len(memory_map) + 1 /\ Len(memory_map) \in Nat
      BY <1>1, EntryFacts DEF PhysicalTypes
    <3>3. k \in 1 .. Len(memory_map)
      BY <3>2
    <3>4. k \in DOMAIN memory_map
      <4>1. memory_map \in Seq([start : Nat, pages : Nat, valid : BOOLEAN])
        BY <3>2, PhysicalAssumption DEF Physical!MapsAssumption
      <4> QED BY <3>3, <4>1, LenProperties
    <3>5. memory_map[k].start \in Nat /\ memory_map[k].pages \in Nat
      BY <3>2, <3>3, EntryFacts
    <3> QED BY <2>1, <3>1, <3>4, <3>5 DEF InEntry
  <2>2. CASE allocator # -1 /\ x = Pointers
    BY <1>3, <2>1, <2>2
  <2>3. ASSUME NEW t \in DOMAIN trees, OfTree(x, t)
        PROVE  \E k \in DOMAIN memory_map :
                 /\ memory_map[k].valid
                 /\ memory_map[k].start <= x.start
                 /\ x.start + x.len <= memory_map[k].start + memory_map[k].pages
    <3>1. Visited(memory_map, next, trees[t].tree, EndOf(trees[t]))
      BY <1>1 DEF TreesInv
    <3> QED BY <1>2, <2>1, <2>3, <3>1, InRegion
  <2> QED BY <2>2, <2>3, InUse
<1>6. \A t \in DOMAIN trees : HEADER_SIZE + 2 * trees[t].pages - 1 <= (trees[t].base - trees[t].tree) * PAGE_SIZE
  BY <1>1 DEF TreesInv, TreeSound
<1> QED BY <1>4, <1>5, <1>6 DEF Physical!ManagedPagesApart

-----------------------------------------------------------------------------
(* The search for an exception action.  While it goes on, none of the call *)
(* sites before the current one holds ip, their numbers could be read, and *)
(* the base of the landing pads is the one that the header gives.          *)

EhBase ==
  IF lsda.start_encoding = Actions!Omit THEN context.func_start
  ELSE Actions!ReadPointer(lsda.start_encoding, lsda.start)

SiteFrom(k) == context.func_start + Actions!Offset(lsda.sites[k].cs_start)
SiteEnd(k) == SiteFrom(k) + Actions!Offset(lsda.sites[k].cs_len)
SiteHolds(k) ==
  context.ip \in SiteFrom(k) .. SiteFrom(k) + Actions!Offset(lsda.sites[k].cs_len) - 1

EhInv ==
  /\ lsda \in Lsdas /\ context \in Contexts
  /\ n # 0 => ~lsda.null /\ EhBase # -1 /\ lpad_base = EhBase
  /\ n > 1 => Actions!Readable
  /\ \A k \in 1 .. n - 1 : ~SiteHolds(k)
  /\ Actions!RightAction

LEMMA EhWords == WORD \in Nat /\ HALF \in Nat \ {0} /\ HALF < WORD
BY ActionsAssumption DEF Actions!WordsAssumption

LEMMA EhInputs ==
  ASSUME lsda \in Lsdas, context \in Contexts
  PROVE  /\ lsda.null \in BOOLEAN /\ lsda.start \in Actions!Word
         /\ lsda.start_encoding \in Actions!Encoding \cup {Actions!Omit}
         /\ lsda.call_site_encoding \in Actions!Encoding \cup {Actions!Omit}
         /\ lsda.sites \in Seq(Actions!Site) /\ lsda.actions \in Seq(Int)
         /\ context.ip \in Actions!Word /\ context.func_start \in Actions!Word
         /\ context.text_start \in Actions!Word /\ context.data_start \in Actions!Word
         /\ context.here \in Actions!Word /\ context.here # 0
         /\ context.target \in [Actions!Word -> Actions!Word]
         /\ Actions!WellFormed(lsda, context)
<1>1. lsda \in Actions!Lsda /\ context \in Actions!Context
  BY ActionsAssumption DEF Actions!TablesAssumption
<1>2. context.here # 0 /\ Actions!WellFormed(lsda, context)
  BY ActionsAssumption DEF Actions!TablesAssumption
<1> QED BY <1>1, <1>2 DEF Actions!Lsda, Actions!Context

LEMMA OmitIs ==
  /\ Actions!Omit \notin Actions!Encoding
  /\ Actions!Omit.application = "omit" /\ Actions!Omit.format = "omit" /\ Actions!Omit.indirect = TRUE
<1>1. Actions!Omit.application = "omit" /\ Actions!Omit.format = "omit" /\ Actions!Omit.indirect = TRUE
  BY DEF Actions!Omit
<1>2. \A e \in Actions!Encoding : e.application # "omit"
  BY DEF Actions!Encoding, Actions!Applications
<1> QED BY <1>1, <1>2

(* A number in an encoding that can be read is a word.                     *)
LEMMA ReadOffsetFacts ==
  ASSUME NEW e, NEW raw \in Actions!Word
  PROVE  /\ e.application # "absptr" \/ e.indirect \/ e.format \notin Actions!Formats =>
              Actions!ReadOffset(e, raw) = -1
         /\ ~(e.application # "absptr" \/ e.indirect \/ e.format \notin Actions!Formats) =>
              Actions!ReadOffset(e, raw) \in Actions!Word
<1>1. raw % HALF \in Nat /\ raw % HALF < HALF
  BY EhWords DEF Actions!Word
<1> DEFINE h == raw % HALF
<1>2. h \in Nat /\ h < HALF
  BY <1>1
<1> HIDE DEF h
<1>3. h \in Actions!Word /\ h + WORD - HALF \in Actions!Word
  BY <1>2, EhWords DEF Actions!Word
<1>4. Actions!ReadOffset(e, raw) =
        IF e.application # "absptr" \/ e.indirect \/ e.format \notin Actions!Formats THEN -1
        ELSE IF e.format = "udata" THEN h
        ELSE IF e.format = "sdata" THEN IF 2 * h < HALF THEN h ELSE h + WORD - HALF
        ELSE raw
  BY DEF Actions!ReadOffset, Actions!Err, h
<1> QED BY <1>3, <1>4

LEMMA WordNotErr == \A w \in Actions!Word : w # -1 /\ w \in Nat /\ w < WORD
BY EhWords DEF Actions!Word

LEMMA ZeroIsWord == 0 \in Actions!Word
BY EhWords DEF Actions!Word

(* Whether the call sites can be read is a matter of their encoding.       *)
LEMMA ReadableFacts ==
  ASSUME lsda \in Lsdas, context \in Contexts
  PROVE  /\ Actions!Readable <=> ~Actions!OffsetErrors(lsda.call_site_encoding)
         /\ Actions!Readable => \A raw \in Actions!Word : Actions!Offset(raw) \in Actions!Word
<1> DEFINE e == lsda.call_site_encoding
           bad == e.application # "absptr" \/ e.indirect \/ e.format \notin Actions!Formats
<1>1. e \in Actions!Encoding \cup {Actions!Omit}
  BY EhInputs
<1> HIDE DEF e
<1>2. bad <=> Actions!OffsetErrors(e)
  <2>1. CASE e = Actions!Omit
    BY <2>1, OmitIs DEF Actions!OffsetErrors
  <2>2. CASE e \in Actions!Encoding
    <3>1. e # Actions!Omit /\ e.format \in Actions!Formats \cup {"invalid"}
      BY <2>2, OmitIs DEF Actions!Encoding
    <3>2. "invalid" \notin Actions!Formats
      BY DEF Actions!Formats, Actions!Signed, Actions!Unsigned
    <3> QED BY <3>1, <3>2 DEF Actions!OffsetErrors
  <2> QED BY <1>1, <2>1, <2>2
<1>3. \A raw \in Actions!Word : /\ bad => Actions!ReadOffset(e, raw) = -1
                                /\ ~bad => Actions!ReadOffset(e, raw) \in Actions!Word
  BY ReadOffsetFacts
<1>4. Actions!ReadOffset(e, 0) # -1 <=> ~bad
  BY <1>3, WordNotErr, ZeroIsWord
<1> HIDE DEF bad
<1>5. Actions!Readable <=> ~bad
  BY <1>4 DEF Actions!Readable, Actions!Offset, Actions!Err, e
<1>6. Actions!Readable => \A raw \in Actions!Word : Actions!Offset(raw) \in Actions!Word
  BY <1>3, <1>5 DEF Actions!Offset, e
<1> QED BY <1>2, <1>5, <1>6 DEF e

(* The base that the header gives, and when there is none.                 *)
LEMMA BaseFacts ==
  ASSUME lsda \in Lsdas, context \in Contexts
  PROVE  /\ EhBase \in Actions!Word \cup {-1}
         /\ EhBase = -1 => Actions!PointerErrors(lsda.start_encoding) \/ Actions!BaseMissing
         /\ Actions!PointerErrors(lsda.start_encoding) => EhBase = -1
<1> DEFINE e == lsda.start_encoding
           raw == lsda.start
<1>1. e \in Actions!Encoding \cup {Actions!Omit} /\ raw \in Actions!Word
  BY EhInputs
<1>2. /\ context.func_start \in Actions!Word
      /\ context.text_start \in Actions!Word /\ context.data_start \in Actions!Word
      /\ context.here \in Actions!Word /\ context.here # 0
      /\ context.target \in [Actions!Word -> Actions!Word]
  BY EhInputs
<1> HIDE DEF e, raw
<1>3. CASE e = Actions!Omit
  <2>1. EhBase = context.func_start
    BY <1>3 DEF EhBase, e
  <2>2. ~Actions!PointerErrors(e)
    BY <1>3, OmitIs DEF Actions!PointerErrors
  <2> QED BY <1>2, <2>1, <2>2, WordNotErr DEF e
<1>4. CASE e \in Actions!Encoding
  <2>1. /\ e # Actions!Omit /\ e.application \in Actions!Applications \cup {"invalid"}
        /\ e.format \in Actions!Formats \cup {"invalid"} /\ e.indirect \in BOOLEAN
    BY <1>4, OmitIs DEF Actions!Encoding
  <2> DEFINE base == Actions!BasePtr(e)
             plain == [e EXCEPT !.application = "absptr", !.indirect = FALSE]
             offset == Actions!ReadOffset(plain, raw)
             direct == Actions!DirectPointer(e, raw)
  <2>2. plain.application = "absptr" /\ plain.indirect = FALSE /\ plain.format = e.format
    BY <1>4 DEF Actions!Encoding
  <2> HIDE DEF plain
  <2>3. (e.format = "invalid" => offset = -1) /\ (e.format # "invalid" => offset \in Actions!Word)
    <3>1. "invalid" \notin Actions!Formats
      BY DEF Actions!Formats, Actions!Signed, Actions!Unsigned
    <3> QED BY <1>1, <2>1, <2>2, <3>1, ReadOffsetFacts
  <2>4. base \in Actions!Word \cup {-1}
    BY <1>2, ZeroIsWord DEF Actions!BasePtr, Actions!Err
  <2>5. /\ e.application \in {"absptr", "aligned"} => base = 0
        /\ e.application = "invalid" => base = -1
        /\ ~Actions!BaseMissing /\ e.application \notin {"absptr", "aligned", "invalid"} =>
             base # 0 /\ base # -1
    BY <1>2, <2>1, WordNotErr DEF Actions!BasePtr, Actions!Err, Actions!BaseMissing, Actions!Applications
  <2>6. direct = IF base = -1 THEN -1
                 ELSE IF base = 0 THEN IF e.format = "absptr" THEN raw ELSE -1
                 ELSE IF offset = -1 THEN -1 ELSE (base + offset) % WORD
    BY <2>1 DEF Actions!DirectPointer, Actions!Err, plain
  <2> HIDE DEF base, offset, direct
  <2>7. direct \in Actions!Word \cup {-1}
    <3>1. \A a, b \in Actions!Word : (a + b) % WORD \in Actions!Word
      BY EhWords DEF Actions!Word
    <3> QED BY <1>1, <2>1, <2>3, <2>4, <2>6, <3>1
  <2>8. /\ direct = -1 => Actions!PointerErrors(e) \/ Actions!BaseMissing
        /\ Actions!PointerErrors(e) => direct = -1
    <3>1. \A a, b \in Actions!Word : (a + b) % WORD # -1
      BY EhWords DEF Actions!Word
    <3>2. "absptr" # "invalid"
      OBVIOUS
    <3>3. ASSUME direct = -1, ~Actions!BaseMissing PROVE Actions!PointerErrors(e)
      <4>1. CASE e.application = "invalid"
        BY <4>1 DEF Actions!PointerErrors
      <4>2. CASE e.application \in {"absptr", "aligned"}
        <5>1. base = 0
          BY <2>5, <4>2
        <5>2. e.format # "absptr"
          BY <1>1, <2>6, <3>3, <5>1, WordNotErr
        <5> QED BY <4>2, <5>2 DEF Actions!PointerErrors
      <4>3. CASE e.application \notin {"absptr", "aligned", "invalid"}
        <5>1. base # 0 /\ base # -1 /\ base \in Actions!Word
          BY <2>4, <2>5, <3>3, <4>3
        <5>2. offset = -1
          BY <2>1, <2>3, <2>6, <3>1, <3>3, <5>1
        <5>3. e.format = "invalid"
          BY <2>3, <5>2, WordNotErr
        <5> QED BY <5>3 DEF Actions!PointerErrors
      <4> QED BY <4>1, <4>2, <4>3
    <3>4. ASSUME Actions!PointerErrors(e) PROVE direct = -1
      BY <2>3, <2>5, <2>6, <3>2, <3>4 DEF Actions!PointerErrors
    <3> QED BY <3>3, <3>4
  <2>9. EhBase = IF direct # -1 /\ e.indirect THEN context.target[direct] ELSE direct
    BY <2>1 DEF EhBase, Actions!ReadPointer, Actions!Err, e, raw, direct
  <2> QED BY <1>2, <2>7, <2>8, <2>9, WordNotErr DEF e
<1> QED BY <1>1, <1>3, <1>4

(* The call sites of a table that can be read.                             *)
LEMMA SiteFacts ==
  ASSUME lsda \in Lsdas, context \in Contexts
  PROVE  /\ Len(lsda.sites) \in Nat /\ DOMAIN lsda.sites = 1 .. Len(lsda.sites)
         /\ \A k \in DOMAIN lsda.sites :
              /\ lsda.sites[k].cs_start \in Actions!Word /\ lsda.sites[k].cs_len \in Actions!Word
              /\ lsda.sites[k].cs_lpad \in Actions!Word /\ lsda.sites[k].cs_action_entry \in Nat
              /\ lsda.sites[k].cs_action_entry # 0 => lsda.actions[lsda.sites[k].cs_action_entry] \in Int
         /\ Actions!Readable =>
              /\ \A k \in DOMAIN lsda.sites :
                   SiteFrom(k) \in Nat /\ SiteEnd(k) \in Nat /\ SiteFrom(k) <= SiteEnd(k) /\ SiteEnd(k) < WORD
              /\ \A j, k \in DOMAIN lsda.sites : j < k => SiteFrom(j) <= SiteFrom(k)
<1>1. lsda.sites \in Seq(Actions!Site) /\ lsda.actions \in Seq(Int) /\ Actions!WellFormed(lsda, context)
      /\ context.func_start \in Actions!Word
  BY EhInputs
<1>2. Len(lsda.sites) \in Nat /\ DOMAIN lsda.sites = 1 .. Len(lsda.sites)
  BY <1>1, LenProperties
<1>3. ASSUME NEW k \in DOMAIN lsda.sites
      PROVE  /\ lsda.sites[k].cs_start \in Actions!Word /\ lsda.sites[k].cs_len \in Actions!Word
             /\ lsda.sites[k].cs_lpad \in Actions!Word /\ lsda.sites[k].cs_action_entry \in Nat
             /\ lsda.sites[k].cs_action_entry # 0 => lsda.actions[lsda.sites[k].cs_action_entry] \in Int
  <2>1. lsda.sites[k] \in Actions!Site
    BY <1>1, <1>2, ElementOfSeq
  <2>2. lsda.sites[k].cs_action_entry \in {0} \cup DOMAIN lsda.actions
    BY <1>1 DEF Actions!WellFormed
  <2>3. \A x \in DOMAIN lsda.actions : lsda.actions[x] \in Int
    BY <1>1, LenProperties, ElementOfSeq
  <2> QED BY <2>1, <2>2, <2>3 DEF Actions!Site
<1>4. ASSUME Actions!Readable
      PROVE  /\ \A k \in DOMAIN lsda.sites :
                  SiteFrom(k) \in Nat /\ SiteEnd(k) \in Nat /\ SiteFrom(k) <= SiteEnd(k) /\ SiteEnd(k) < WORD
             /\ \A j, k \in DOMAIN lsda.sites : j < k => SiteFrom(j) <= SiteFrom(k)
  <2>1. \A raw \in Actions!Word : Actions!Offset(raw) \in Actions!Word
    BY <1>4, ReadableFacts
  <2>2. /\ \A k \in DOMAIN lsda.sites : SiteEnd(k) < WORD
        /\ \A j, k \in DOMAIN lsda.sites : j < k => SiteFrom(j) <= SiteFrom(k)
    BY <1>1, <1>4 DEF Actions!WellFormed, Actions!Readable, Actions!Offset, SiteFrom, SiteEnd
  <2>3. ASSUME NEW k \in DOMAIN lsda.sites
        PROVE  SiteFrom(k) \in Nat /\ SiteEnd(k) \in Nat /\ SiteFrom(k) <= SiteEnd(k)
    <3>1. Actions!Offset(lsda.sites[k].cs_start) \in Nat /\ Actions!Offset(lsda.sites[k].cs_len) \in Nat
          /\ context.func_start \in Nat
      BY <1>1, <1>3, <2>1, WordNotErr
    <3> QED BY <3>1 DEF SiteFrom, SiteEnd
  <2> QED BY <2>2, <2>3
<1> QED BY <1>2, <1>3, <1>4

(* Nothing wraps where a call site starts and ends.                        *)
LEMMA CurrentSite ==
  ASSUME lsda \in Lsdas, context \in Contexts, Actions!AtSite, Actions!Readable
  PROVE  Actions!Start = SiteFrom(n) /\ Actions!Behind = SiteEnd(n)
<1>1. n \in DOMAIN lsda.sites
  BY SiteFacts DEF Actions!AtSite
<1>2. SiteFrom(n) \in Nat /\ SiteEnd(n) \in Nat /\ SiteFrom(n) < WORD /\ SiteEnd(n) < WORD
  BY <1>1, SiteFacts, EhWords
<1>3. SiteFrom(n) % WORD = SiteFrom(n) /\ SiteEnd(n) % WORD = SiteEnd(n)
  BY <1>2, EhWords, Remainder
<1> QED BY <1>3 DEF Actions!Start, Actions!Behind, Actions!Current, SiteFrom, SiteEnd

LEMMA CoveringIs == Actions!Covering = {k \in DOMAIN lsda.sites : SiteHolds(k)}
<1>1. \A k \in DOMAIN lsda.sites : k \in Actions!Covering <=> SiteHolds(k)
  <2> SUFFICES ASSUME NEW k \in DOMAIN lsda.sites PROVE k \in Actions!Covering <=> SiteHolds(k)
    OBVIOUS
  <2>1. k \in Actions!Covering <=>
          context.ip \in context.func_start + Actions!Offset(lsda.sites[k].cs_start)
                          .. context.func_start + Actions!Offset(lsda.sites[k].cs_start)
                               + Actions!Offset(lsda.sites[k].cs_len) - 1
    BY Zenon DEF Actions!Covering
  <2> QED BY <2>1, Zenon DEF SiteHolds, SiteFrom
<1>2. \A k \in Actions!Covering : k \in DOMAIN lsda.sites
  BY DEF Actions!Covering
<1> QED BY <1>1, <1>2

LEMMA ActionsStart == Actions!Init => EhInv
<1> SUFFICES ASSUME Actions!Init PROVE EhInv
  OBVIOUS
<1>1. lsda \in Lsdas /\ context \in Contexts /\ lpad_base = 0 /\ n = 0 /\ lpad = 0 /\ result = "none yet"
  BY DEF Actions!Init
<1>0. n = 0
  BY <1>1
<1>2. Actions!TypeOK
  <2>1. Len(lsda.sites) \in Nat
    BY <1>1, SiteFacts
  <2>2. n \in 0 .. Len(lsda.sites) + 1
    BY <1>0, <2>1
  <2> QED BY <1>1, <2>2, ZeroIsWord DEF Actions!TypeOK
<1>3. ~(n > 1) /\ \A k \in 1 .. n - 1 : FALSE
  BY <1>0
<1>4. Actions!RightAction
  BY <1>1, <1>2 DEF Actions!RightAction
<1> QED BY <1>1, <1>3, <1>4 DEF EhInv

(* What the properties are about is fixed once the search has begun.       *)
LEMMA FixedInput ==
  ASSUME lsda' = lsda, context' = context
  PROVE  /\ EhBase' = EhBase /\ Actions!Readable' = Actions!Readable
         /\ Actions!ErrorDocumented' = Actions!ErrorDocumented /\ Actions!BaseMissing' = Actions!BaseMissing
         /\ Actions!Covering' = Actions!Covering
         /\ \A k : SiteHolds(k)' = SiteHolds(k)
         /\ \A raw : Actions!Offset(raw)' = Actions!Offset(raw)
         /\ \A e, raw : Actions!ReadPointer(e, raw)' = Actions!ReadPointer(e, raw)
<1>1. \A raw : Actions!Offset(raw)' = Actions!Offset(raw)
  BY DEF Actions!Offset
<1>2. \A e, raw : Actions!ReadPointer(e, raw)' = Actions!ReadPointer(e, raw)
  BY DEF Actions!ReadPointer, Actions!DirectPointer, Actions!BasePtr
<1>3. EhBase' = EhBase
  BY DEF EhBase, Actions!ReadPointer, Actions!DirectPointer, Actions!BasePtr
<1>4. Actions!Readable' = Actions!Readable
  BY DEF Actions!Readable, Actions!Offset
<1>5. Actions!ErrorDocumented' = Actions!ErrorDocumented /\ Actions!BaseMissing' = Actions!BaseMissing
  BY DEF Actions!ErrorDocumented, Actions!BaseMissing
<1>6. \A k : SiteHolds(k)' = SiteHolds(k)
  BY DEF SiteHolds, SiteFrom, SiteEnd, Actions!Offset
<1>7. Actions!Covering' = Actions!Covering
  BY DEF Actions!Covering, Actions!Offset
<1> QED BY <1>1, <1>2, <1>3, <1>4, <1>5, <1>6, <1>7

LEMMA HoldsIs ==
  ASSUME lsda \in Lsdas, context \in Contexts, Actions!Readable, NEW k \in DOMAIN lsda.sites
  PROVE  SiteHolds(k) <=> SiteFrom(k) <= context.ip /\ context.ip < SiteEnd(k)
<1> DEFINE len == Actions!Offset(lsda.sites[k].cs_len)
<1>1. len \in Nat
  BY SiteFacts, ReadableFacts, WordNotErr
<1>2. SiteFrom(k) \in Nat /\ context.ip \in Nat
  BY SiteFacts, EhInputs, WordNotErr
<1>3. SiteEnd(k) = SiteFrom(k) + len /\ SiteHolds(k) = (context.ip \in SiteFrom(k) .. SiteFrom(k) + len - 1)
  BY DEF SiteEnd, SiteHolds
<1> HIDE DEF len
<1>4. \A a, b, c \in Nat : c \in a .. a + b - 1 <=> a <= c /\ c < a + b
  OBVIOUS
<1> QED BY <1>1, <1>2, <1>3, <1>4

(* The search ends: nothing but the answer changes.                        *)
LEMMA Returns ==
  ASSUME EhInv, lsda' = lsda, context' = context, lpad_base' = lpad_base, n' = n,
         result' \in {"None", "Cleanup", "Catch", "Filter", "Terminate", "Err"}, lpad' \in Actions!Word,
         (lsda.null /\ result' = "None") \/
           /\ ~lsda.null
           /\ Actions!ErrorDocumented => result' = "Err"
           /\ result' = "Err" => Actions!ErrorDocumented \/ Actions!BaseMissing
           /\ result' # "Err" => Actions!ActionOfCoveringSite'
  PROVE  EhInv'
<1>1. Actions!TypeOK'
  BY DEF EhInv, Actions!RightAction, Actions!TypeOK
<1>2. Actions!ErrorDocumented' = Actions!ErrorDocumented /\ Actions!BaseMissing' = Actions!BaseMissing
  BY FixedInput
<1>3. ~lsda.null => Actions!ErrorsAsDocumented' \/ lsda.null
  BY <1>2 DEF Actions!ErrorsAsDocumented
<1>4. Actions!RightAction'
  BY <1>1, <1>3 DEF Actions!RightAction
<1>5. EhBase' = EhBase /\ Actions!Readable' = Actions!Readable /\ \A k : SiteHolds(k)' = SiteHolds(k)
  BY FixedInput
<1>6. /\ lsda' \in Lsdas /\ context' \in Contexts
      /\ n' # 0 => ~lsda'.null /\ EhBase' # -1 /\ lpad_base' = EhBase'
      /\ n' > 1 => Actions!Readable'
      /\ \A k \in 1 .. n' - 1 : ~SiteHolds(k)'
  BY <1>5 DEF EhInv
<1> QED BY <1>4, <1>6 DEF EhInv

LEMMA NoLsdaStep == EhInv /\ Actions!NoLsda => EhInv'
<1> SUFFICES ASSUME EhInv, Actions!NoLsda PROVE EhInv'
  OBVIOUS
<1> QED BY Returns, ZeroIsWord DEF Actions!NoLsda, Actions!Return, Actions!input

LEMMA EhReadHeaderStep == EhInv /\ Actions!ReadHeader => EhInv'
<1> SUFFICES ASSUME EhInv, Actions!ReadHeader PROVE EhInv'
  OBVIOUS
<1>1. /\ result = "none yet" /\ ~lsda.null /\ n = 0 /\ lsda' = lsda /\ context' = context
      /\ EhBase = -1 => result' = "Err" /\ lpad' = 0 /\ lpad_base' = lpad_base /\ n' = n
      /\ EhBase # -1 => lpad_base' = EhBase /\ n' = 1 /\ result' = result /\ lpad' = lpad
  BY DEF Actions!ReadHeader, Actions!Return, Actions!input, Actions!Err, EhBase
<1>2. lsda \in Lsdas /\ context \in Contexts
  BY DEF EhInv
<1>3. CASE EhBase = -1
  <2>1. Actions!ErrorDocumented \/ Actions!BaseMissing
    BY <1>2, <1>3, BaseFacts DEF Actions!ErrorDocumented
  <2> QED BY <1>1, <1>3, <2>1, Returns, ZeroIsWord
<1>4. CASE EhBase # -1
  <2>1. EhBase' = EhBase /\ EhBase \in Actions!Word
    BY <1>1, <1>2, <1>4, FixedInput, BaseFacts
  <2>2. n' = 1
    BY <1>1, <1>4
  <2>3. n' \in 0 .. Len(lsda'.sites) + 1 /\ ~(n' > 1) /\ \A k \in 1 .. n' - 1 : FALSE
    <3>1. Len(lsda.sites) \in Nat /\ lsda' = lsda
      BY <1>1, <1>2, SiteFacts
    <3> QED BY <2>2, <3>1
  <2>4. Actions!TypeOK'
    BY <1>1, <1>4, <2>1, <2>3 DEF EhInv, Actions!RightAction, Actions!TypeOK
  <2>5. Actions!RightAction'
    BY <1>1, <1>4, <2>4 DEF Actions!RightAction
  <2> QED BY <1>1, <1>2, <1>4, <2>1, <2>3, <2>5 DEF EhInv
<1> QED BY <1>3, <1>4

(* Where there is a site, the header was read; a header that was read has  *)
(* no documented error, and neither have sites that could be read.         *)
LEMMA NoDocumentedError ==
  ASSUME EhInv, n # 0, lsda.sites = <<>> \/ Actions!Readable
  PROVE  ~lsda.null /\ ~Actions!ErrorDocumented
BY BaseFacts, ReadableFacts DEF EhInv, Actions!ErrorDocumented

LEMMA SiteUnreadableStep == EhInv /\ Actions!SiteUnreadable => EhInv'
<1> SUFFICES ASSUME EhInv, Actions!SiteUnreadable PROVE EhInv'
  OBVIOUS
<1>1. /\ Actions!AtSite /\ ~Actions!Readable /\ result' = "Err" /\ lpad' = 0
      /\ lsda' = lsda /\ context' = context /\ lpad_base' = lpad_base /\ n' = n
  BY DEF Actions!SiteUnreadable, Actions!Return, Actions!input
<1>2. lsda \in Lsdas /\ context \in Contexts
  BY DEF EhInv
<1>3. n \in 1 .. Len(lsda.sites) /\ Len(lsda.sites) \in Nat
  BY <1>1, <1>2, SiteFacts DEF Actions!AtSite
<1>4. lsda.sites # <<>> /\ n # 0
  BY <1>3
<1>5. ~lsda.null /\ Actions!ErrorDocumented
  BY <1>1, <1>2, <1>4, ReadableFacts DEF Actions!ErrorDocumented, EhInv
<1> QED BY <1>1, <1>5, Returns, ZeroIsWord

LEMMA SiteBeforeStep == EhInv /\ Actions!SiteBefore => EhInv'
<1> SUFFICES ASSUME EhInv, Actions!SiteBefore PROVE EhInv'
  OBVIOUS
<1>1. /\ Actions!AtSite /\ Actions!Readable /\ context.ip >= Actions!Start /\ context.ip >= Actions!Behind
      /\ lsda' = lsda /\ context' = context /\ lpad_base' = lpad_base
      /\ result' = result /\ lpad' = lpad /\ n' = n + 1
  BY DEF Actions!SiteBefore, Actions!input
<1>2. lsda \in Lsdas /\ context \in Contexts
  BY DEF EhInv
<1>3. n \in 1 .. Len(lsda.sites) /\ Len(lsda.sites) \in Nat /\ n \in DOMAIN lsda.sites /\ result = "none yet"
  BY <1>1, <1>2, SiteFacts DEF Actions!AtSite
<1>4. ~SiteHolds(n)
  <2>1. context.ip >= SiteEnd(n) /\ SiteEnd(n) \in Nat /\ context.ip \in Nat
    BY <1>1, <1>2, <1>3, CurrentSite, SiteFacts, EhInputs, WordNotErr
  <2>2. SiteHolds(n) <=> SiteFrom(n) <= context.ip /\ context.ip < SiteEnd(n)
    BY <1>1, <1>2, <1>3, HoldsIs
  <2>3. ~(context.ip < SiteEnd(n))
    BY <2>1
  <2> QED BY <2>2, <2>3
<1>5. /\ EhBase' = EhBase /\ Actions!Readable' = Actions!Readable /\ \A k : SiteHolds(k)' = SiteHolds(k)
  BY <1>1, FixedInput
<1>6. n' \in 0 .. Len(lsda'.sites) + 1 /\ n # 0 /\ \A k \in 1 .. n' - 1 : k \in 1 .. n - 1 \/ k = n
  <2>1. n' = n + 1 /\ lsda' = lsda /\ n \in 1 .. Len(lsda.sites) /\ Len(lsda.sites) \in Nat
    BY <1>1, <1>3
  <2> QED BY <2>1
<1>7. Actions!TypeOK'
  BY <1>1, <1>6 DEF EhInv, Actions!RightAction, Actions!TypeOK
<1>8. Actions!RightAction'
  BY <1>1, <1>3, <1>7 DEF Actions!RightAction
<1>9. \A k \in 1 .. n' - 1 : ~SiteHolds(k)'
  BY <1>4, <1>5, <1>6 DEF EhInv
<1> QED BY <1>1, <1>5, <1>6, <1>8, <1>9 DEF EhInv

(* No site from the current one on holds ip when it lies before it.        *)
LEMMA SitePassedStep == EhInv /\ Actions!SitePassed => EhInv'
<1> SUFFICES ASSUME EhInv, Actions!SitePassed PROVE EhInv'
  OBVIOUS
<1>1. /\ Actions!AtSite /\ Actions!Readable /\ context.ip < Actions!Start
      /\ result' = "Terminate" /\ lpad' = 0
      /\ lsda' = lsda /\ context' = context /\ lpad_base' = lpad_base /\ n' = n
  BY DEF Actions!SitePassed, Actions!Return, Actions!input
<1>2. lsda \in Lsdas /\ context \in Contexts
  BY DEF EhInv
<1>3. n \in 1 .. Len(lsda.sites) /\ Len(lsda.sites) \in Nat /\ n \in DOMAIN lsda.sites
      /\ DOMAIN lsda.sites = 1 .. Len(lsda.sites)
  BY <1>1, <1>2, SiteFacts DEF Actions!AtSite
<1>4. ASSUME NEW k \in DOMAIN lsda.sites PROVE ~SiteHolds(k)
  <2>1. CASE k \in 1 .. n - 1
    BY <2>1 DEF EhInv
  <2>2. CASE k \notin 1 .. n - 1
    <3>1. k = n \/ n < k
      BY <1>3, <2>2
    <3>2. SiteFrom(n) <= SiteFrom(k) /\ SiteFrom(n) \in Nat /\ SiteFrom(k) \in Nat /\ context.ip \in Nat
      BY <1>1, <1>2, <1>3, <3>1, SiteFacts, EhInputs, WordNotErr, SMTT(30)
    <3>3. context.ip < SiteFrom(n)
      BY <1>1, <1>2, CurrentSite
    <3>4. ~(SiteFrom(k) <= context.ip)
      BY <3>2, <3>3
    <3> QED BY <1>1, <1>2, <3>4, HoldsIs
  <2> QED BY <2>1, <2>2
<1>5. Actions!Covering' = {}
  <2>1. Actions!Covering = {}
    BY <1>4, CoveringIs
  <2> QED BY <1>1, <2>1, FixedInput
<1>6. Actions!ActionOfCoveringSite'
  BY <1>1, <1>5 DEF Actions!ActionOfCoveringSite
<1>7. n # 0
  BY <1>3
<1>8. ~lsda.null /\ ~Actions!ErrorDocumented
  BY <1>1, <1>7, NoDocumentedError
<1> QED BY <1>1, <1>6, <1>8, Returns, ZeroIsWord

LEMMA TableEndsStep == EhInv /\ Actions!TableEnds => EhInv'
<1> SUFFICES ASSUME EhInv, Actions!TableEnds PROVE EhInv'
  OBVIOUS
<1>1. /\ n > Len(lsda.sites) /\ result' = "Terminate" /\ lpad' = 0
      /\ lsda' = lsda /\ context' = context /\ lpad_base' = lpad_base /\ n' = n
  BY DEF Actions!TableEnds, Actions!Return, Actions!input
<1>2. lsda \in Lsdas /\ context \in Contexts /\ n \in 0 .. Len(lsda.sites) + 1
  BY DEF EhInv, Actions!RightAction, Actions!TypeOK
<1>3. Len(lsda.sites) \in Nat /\ DOMAIN lsda.sites = 1 .. Len(lsda.sites)
      /\ lsda.sites \in Seq(Actions!Site)
  BY <1>2, SiteFacts, EhInputs
<1>4. n # 0 /\ (Len(lsda.sites) # 0 => n > 1) /\ \A k \in DOMAIN lsda.sites : k \in 1 .. n - 1
  <2>1. n > Len(lsda.sites)
    BY <1>1
  <2> QED BY <1>2, <1>3, <2>1
<1>5. Actions!Covering' = {}
  <2>1. Actions!Covering = {}
    BY <1>4, CoveringIs DEF EhInv
  <2> QED BY <1>1, <2>1, FixedInput
<1>6. Actions!ActionOfCoveringSite'
  BY <1>1, <1>5 DEF Actions!ActionOfCoveringSite
<1>7. lsda.sites = <<>> \/ Actions!Readable
  <2>1. CASE Len(lsda.sites) = 0
    BY <1>3, <2>1, EmptySeq
  <2>2. CASE Len(lsda.sites) # 0
    BY <1>4, <2>2 DEF EhInv
  <2> QED BY <2>1, <2>2
<1>8. ~lsda.null /\ ~Actions!ErrorDocumented
  BY <1>4, <1>7, NoDocumentedError
<1> QED BY <1>1, <1>6, <1>8, Returns, ZeroIsWord

(* The action entry of a site names one of the three kinds.                *)
LEMMA KindOfAction ==
  ASSUME NEW tt \in Int
  PROVE  /\ (CHOOSE kind \in {"Cleanup", "Catch", "Filter"} :
               (kind = "Cleanup" <=> tt = 0) /\ (kind = "Catch" <=> tt > 0))
            = IF tt = 0 THEN "Cleanup" ELSE IF tt > 0 THEN "Catch" ELSE "Filter"
<1> DEFINE kinds == {"Cleanup", "Catch", "Filter"}
           P(kind) == (kind = "Cleanup" <=> tt = 0) /\ (kind = "Catch" <=> tt > 0)
           k == IF tt = 0 THEN "Cleanup" ELSE IF tt > 0 THEN "Catch" ELSE "Filter"
<1>1. k \in kinds /\ P(k)
  <2>1. CASE tt = 0
    BY <2>1
  <2>2. CASE tt > 0
    BY <2>2
  <2>3. CASE tt < 0
    BY <2>3
  <2> QED BY <2>1, <2>2, <2>3
<1>2. \A j \in kinds : P(j) => j = k
  <2>1. CASE tt = 0
    BY <2>1
  <2>2. CASE tt > 0
    BY <2>2
  <2>3. CASE tt < 0
    BY <2>3
  <2> QED BY <2>1, <2>2, <2>3
<1> HIDE DEF k, P
<1>3. (CHOOSE kind \in kinds : P(kind)) = k
  BY <1>1, <1>2
<1> QED BY <1>3 DEF k, P

LEMMA SiteFoundStep == EhInv /\ Actions!SiteFound => EhInv'
<1> SUFFICES ASSUME EhInv, Actions!SiteFound PROVE EhInv'
  OBVIOUS
<1> DEFINE site == lsda.sites[n]
           pad == Actions!Offset(site.cs_lpad)
           entry == site.cs_action_entry
           tt == IF entry = 0 THEN 0 ELSE lsda.actions[entry]
           kind == IF tt = 0 THEN "Cleanup" ELSE IF tt > 0 THEN "Catch" ELSE "Filter"
<1>1. /\ Actions!AtSite /\ Actions!Readable /\ context.ip >= Actions!Start /\ context.ip < Actions!Behind
      /\ pad = 0 => result' = "None" /\ lpad' = 0
      /\ pad # 0 => result' = Actions!InterpretCsAction(entry) /\ lpad' = (lpad_base + pad) % WORD
      /\ lsda' = lsda /\ context' = context /\ lpad_base' = lpad_base /\ n' = n
  BY DEF Actions!SiteFound, Actions!Return, Actions!input, Actions!Current
<1>2. lsda \in Lsdas /\ context \in Contexts
  BY DEF EhInv
<1>3. n \in 1 .. Len(lsda.sites) /\ Len(lsda.sites) \in Nat /\ n \in DOMAIN lsda.sites
      /\ DOMAIN lsda.sites = 1 .. Len(lsda.sites) /\ n # 0
  <2>1. n \in 1 .. Len(lsda.sites) /\ Len(lsda.sites) \in Nat /\ DOMAIN lsda.sites = 1 .. Len(lsda.sites)
    BY <1>1, <1>2, SiteFacts DEF Actions!AtSite
  <2> QED BY <2>1
<1>4. ~lsda.null /\ ~Actions!ErrorDocumented /\ lpad_base = EhBase /\ EhBase \in Actions!Word
  BY <1>1, <1>2, <1>3, NoDocumentedError, BaseFacts DEF EhInv
<1>5. pad \in Actions!Word /\ tt \in Int
  BY <1>1, <1>2, <1>3, SiteFacts, ReadableFacts
<1>6. Actions!InterpretCsAction(entry) = kind
  BY DEF Actions!InterpretCsAction
<1>7. SiteHolds(n)
  <2>1. SiteFrom(n) <= context.ip /\ context.ip < SiteEnd(n)
    <3>1. Actions!Start = SiteFrom(n) /\ Actions!Behind = SiteEnd(n)
      BY <1>1, <1>2, CurrentSite
    <3>2. SiteFrom(n) \in Nat /\ context.ip \in Nat
      BY <1>1, <1>2, <1>3, SiteFacts, EhInputs, WordNotErr
    <3>3. context.ip >= SiteFrom(n) /\ context.ip < SiteEnd(n)
      BY <1>1, <3>1
    <3> QED BY <3>2, <3>3
  <2> QED BY <1>1, <1>2, <1>3, <2>1, HoldsIs
<1>8. Actions!Covering' = Actions!Covering /\ n \in Actions!Covering
      /\ \A k \in Actions!Covering : k \in 1 .. Len(lsda.sites) /\ k \notin 1 .. n - 1
  BY <1>1, <1>3, <1>7, CoveringIs, FixedInput DEF EhInv
<1>9. Actions!Min(Actions!Covering') = n
  <2> DEFINE C == Actions!Covering'
  <2>1. n \in C /\ \A k \in C : k \in 1 .. Len(lsda.sites) /\ k \notin 1 .. n - 1
    BY <1>8
  <2> HIDE DEF C
  <2>2. \A k \in C : n <= k /\ k \in Nat
    BY <1>3, <2>1
  <2>3. ASSUME NEW x \in C, \A y \in C : x <= y PROVE x = n
    BY <1>3, <2>1, <2>2, <2>3
  <2>4. Actions!Min(C) = CHOOSE x \in C : \A y \in C : x <= y
    BY DEF Actions!Min
  <2>5. Actions!Min(C) \in C /\ \A y \in C : Actions!Min(C) <= y
    BY <2>1, <2>2, <2>4
  <2>6. Actions!Min(C) = n
    BY <2>3, <2>5
  <2> QED BY <2>6 DEF C
<1>10. EhBase' = EhBase
  BY <1>1, FixedInput
<1>11. pad # 0 => result' = kind /\ lpad' = (EhBase' + pad) % WORD
  BY <1>1, <1>4, <1>6, <1>10
<1>12. /\ pad = Actions!ReadOffset(lsda'.call_site_encoding, lsda'.sites[n].cs_lpad)
       /\ tt = IF lsda'.sites[n].cs_action_entry = 0 THEN 0 ELSE lsda'.actions[lsda'.sites[n].cs_action_entry]
  BY <1>1 DEF Actions!Offset
<1>13. kind = CHOOSE x \in {"Cleanup", "Catch", "Filter"} : (x = "Cleanup" <=> tt = 0) /\ (x = "Catch" <=> tt > 0)
  BY <1>5, KindOfAction
<1>14. kind \in {"Cleanup", "Catch", "Filter"} /\ (EhBase + pad) % WORD \in Actions!Word
  <2>1. \A a, b \in Actions!Word : (a + b) % WORD \in Actions!Word
    BY EhWords DEF Actions!Word
  <2> QED BY <1>4, <1>5, <2>1
<1>15. result' \in {"None", "Cleanup", "Catch", "Filter"} /\ lpad' \in Actions!Word
  BY <1>1, <1>10, <1>11, <1>14, ZeroIsWord
<1> HIDE DEF pad, tt, kind
<1>16. Actions!ActionOfCoveringSite'
  <2>1. Actions!Covering' # {} /\ lsda'.sites # <<>>
    BY <1>1, <1>3, <1>8
  <2>2. /\ pad = 0 => result' = "None"
        /\ pad # 0 => /\ result' = CHOOSE x \in {"Cleanup", "Catch", "Filter"} :
                                     (x = "Cleanup" <=> tt = 0) /\ (x = "Catch" <=> tt > 0)
                      /\ lsda'.start_encoding = Actions!Omit => lpad' = (context'.func_start + pad) % WORD
                      /\ lsda'.start_encoding # Actions!Omit =>
                           lpad' = (Actions!ReadPointer(lsda.start_encoding, lsda.start)' + pad) % WORD
    BY <1>1, <1>11, <1>13 DEF EhBase
  <2> QED BY <1>9, <1>12, <2>1, <2>2 DEF Actions!ActionOfCoveringSite, Actions!Offset
<1> QED BY <1>1, <1>4, <1>15, <1>16, Returns

LEMMA ActionsStep == EhInv /\ Actions!Next => EhInv'
BY NoLsdaStep, EhReadHeaderStep, SiteUnreadableStep, SiteBeforeStep, SiteFoundStep, SitePassedStep, TableEndsStep
DEF Actions!Next

LEMMA ActionsUnchanged ==
  ASSUME EhInv, lsda' = lsda, context' = context, lpad_base' = lpad_base, n' = n, result' = result, lpad' = lpad
  PROVE  EhInv'
<1>1. /\ EhBase' = EhBase /\ Actions!Readable' = Actions!Readable /\ \A k : SiteHolds(k)' = SiteHolds(k)
  BY FixedInput
<1>2. Actions!RightAction'
  <2>1. Actions!ReadPointer(lsda.start_encoding, lsda.start)' = Actions!ReadPointer(lsda.start_encoding, lsda.start)
    BY DEF Actions!ReadPointer, Actions!DirectPointer, Actions!BasePtr
  <2>2. Actions!Covering' = Actions!Covering
    BY FixedInput
  <2>3. Actions!ActionOfCoveringSite => Actions!ActionOfCoveringSite'
    BY <2>1, <2>2 DEF Actions!ActionOfCoveringSite, Actions!Offset
  <2>4. Actions!ErrorsAsDocumented => Actions!ErrorsAsDocumented'
    BY FixedInput DEF Actions!ErrorsAsDocumented
  <2>5. Actions!TypeOK => Actions!TypeOK'
    BY DEF Actions!TypeOK
  <2> QED BY <2>3, <2>4, <2>5 DEF EhInv, Actions!RightAction
<1>3. /\ lsda' \in Lsdas /\ context' \in Contexts
      /\ n' # 0 => ~lsda'.null /\ EhBase' # -1 /\ lpad_base' = EhBase'
      /\ n' > 1 => Actions!Readable'
      /\ \A k \in 1 .. n' - 1 : ~SiteHolds(k)'
  BY <1>1 DEF EhInv
<1> QED BY <1>2, <1>3 DEF EhInv

LEMMA ActionsSuffice == EhInv => Actions!RightAction
BY DEF EhInv

-----------------------------------------------------------------------------
(* The reader of LEB128 numbers.  After ptr bytes it has the bits of these *)
(* and nothing else, and shift is where the next ones go.                  *)

Have == {p \in 0 .. BITS - 1 : p \in Leb!Unsigned(ptr)}

LebBits ==
  /\ shift = GROUP * ptr
  /\ result \in Leb!Word
  /\ pc = "loop" => result = Have
  /\ pc = "done" => \A p \in 0 .. BITS - 1 : p \in result <=> p \in Leb!Meaning

LebEnds ==
  /\ Leb!Length \in Nat /\ Leb!Length \in DOMAIN stream
  /\ ~Leb!more(stream[Leb!Length])
  /\ \A k \in 1 .. Leb!Length - 1 : Leb!more(stream[k])
  /\ ptr \in Nat /\ pc \in {"loop", "done"}
  /\ pc = "loop" => ptr < Leb!Length
  /\ pc = "done" => ptr = Leb!Length

LebInv == LebEnds /\ LebBits

LEMMA EndsStart == Leb!Init => LebEnds
<1> SUFFICES ASSUME Leb!Init PROVE LebEnds
  OBVIOUS
<1>1. ptr = 0 /\ pc = "loop"
  BY DEF Leb!Init
<1>0. PICK k \in 1 .. Leb!MaxBytes :
        \E s \in Leb!Numbers(k), last \in {{}, 0 .. GROUP} : stream = Append(s, last)
  BY DEF Leb!Init
<1>2. PICK s \in Leb!Numbers(k), last \in {{}, 0 .. GROUP} : stream = Append(s, last)
  BY <1>0
<1>3. k \in Nat \ {0} /\ s \in [1 .. k -> Leb!Byte] /\ \A j \in 1 .. k : Leb!more(s[j]) = (j < k)
  BY <1>2 DEF Leb!Numbers
<1>4. s \in Seq(Leb!Byte) /\ Len(s) = k
  BY <1>3
<1>5. DOMAIN stream = 1 .. k + 1 /\ \A j \in 1 .. k : stream[j] = s[j]
  <2>1. s \in Seq(Leb!Byte \cup {last})
    BY <1>4
  <2> QED BY <1>2, <1>3, <1>4, <2>1, AppendProperties
<1> DEFINE S == {j \in DOMAIN stream : ~Leb!more(stream[j])}
<1>6. k \in S /\ \A j \in S : j \in Nat /\ k <= j
  <2>0. k \in 1 .. k /\ k \in 1 .. k + 1 /\ ~(k < k)
    BY <1>3
  <2>1. k \in S
    <3>1. stream[k] = s[k] /\ Leb!more(s[k]) = (k < k)
      BY <1>3, <1>5, <2>0
    <3>2. ~Leb!more(stream[k])
      BY <2>0, <3>1
    <3> QED BY <1>5, <2>0, <3>2
  <2>2. ASSUME NEW j \in S PROVE j \in Nat /\ k <= j
    <3>1. j \in 1 .. k + 1 /\ ~Leb!more(stream[j])
      BY <1>5
    <3>2. CASE j \in 1 .. k
      <4>1. stream[j] = s[j] /\ Leb!more(s[j]) = (j < k)
        BY <1>3, <1>5, <3>2
      <4>2. ~(j < k)
        BY <3>1, <4>1
      <4>3. j \in Int /\ k \in Int /\ 1 <= j
        BY <1>3, <3>2
      <4> HIDE DEF S
      <4> QED BY <4>2, <4>3
    <3>3. CASE j \notin 1 .. k
      BY <1>3, <3>1, <3>3
    <3> QED BY <3>2, <3>3
  <2> QED BY <2>1, <2>2
<1>7. Leb!Length = k
  <2>1. Leb!Length = CHOOSE x \in S : \A y \in S : x <= y
    BY DEF Leb!Length, Leb!Min
  <2> HIDE DEF S
  <2>2. Leb!Length \in S /\ \A y \in S : Leb!Length <= y
    BY <1>6, <2>1
  <2> QED BY <1>3, <1>6, <2>2
<1>8. \A j \in 1 .. Leb!Length - 1 : Leb!more(stream[j])
  <2>1. \A j \in 1 .. k - 1 : j \in 1 .. k /\ j < k
    BY <1>3
  <2>2. \A j \in 1 .. k - 1 : Leb!more(stream[j])
    BY <1>3, <1>5, <2>1
  <2> QED BY <1>7, <2>2
<1>9. ptr \in Nat /\ ptr < k
  BY <1>1, <1>3
<1> QED BY <1>1, <1>3, <1>5, <1>6, <1>7, <1>8, <1>9 DEF LebEnds

LEMMA LebStarts == Leb!Init => LebInv
<1> SUFFICES ASSUME Leb!Init PROVE LebInv
  OBVIOUS
<1>1. ptr = 0 /\ shift = 0 /\ result = {} /\ pc = "loop"
  BY DEF Leb!Init
<1>2. GROUP * ptr = 0
  BY <1>1, LebAssumption DEF Leb!WidthsAssumption
<1>3. 1 .. ptr = {}
  BY <1>1
<1>4. Have = {}
  BY <1>3 DEF Have, Leb!Unsigned
<1> QED BY <1>1, <1>2, <1>4, EndsStart DEF LebInv, LebBits, Leb!Word

LEMMA EndsStep == LebEnds /\ Leb!Next => LebEnds'
<1> SUFFICES ASSUME LebEnds, Leb!Next PROVE LebEnds'
  OBVIOUS
<1>1. /\ pc = "loop" /\ ptr' = ptr + 1 /\ stream' = stream
      /\ Leb!more(stream[ptr + 1]) => pc' = pc
      /\ ~Leb!more(stream[ptr + 1]) => pc' = "done"
  BY DEF Leb!Next, Leb!ReadByte
<1>2. Leb!Length' = Leb!Length
  BY <1>1 DEF Leb!Length
<1>3. /\ Leb!Length \in Nat /\ ptr \in Nat /\ ptr < Leb!Length
      /\ ~Leb!more(stream[Leb!Length]) /\ \A k \in 1 .. Leb!Length - 1 : Leb!more(stream[k])
  BY <1>1 DEF LebEnds
<1>4. CASE Leb!more(stream[ptr + 1])
  <2>1. ptr + 1 # Leb!Length
    BY <1>3, <1>4
  <2>2. ptr' \in Nat /\ ptr' < Leb!Length /\ pc' = "loop"
    BY <1>1, <1>3, <1>4, <2>1
  <2> QED BY <1>1, <1>2, <2>2 DEF LebEnds
<1>5. CASE ~Leb!more(stream[ptr + 1])
  <2>1. ptr + 1 \notin 1 .. Leb!Length - 1
    BY <1>3, <1>5
  <2>2. ptr' \in Nat /\ ptr' = Leb!Length /\ pc' = "done"
    BY <1>1, <1>3, <1>5, <2>1
  <2> QED BY <1>1, <1>2, <2>2 DEF LebEnds
<1> QED BY <1>4, <1>5

(* A byte adds its bits and nothing else.                                  *)
LEMMA ByteAdds ==
  ASSUME LebEnds, LebBits, pc = "loop", ptr' = ptr + 1, stream' = stream
  PROVE  Leb!Or(result, Leb!group(stream[ptr + 1]), shift) = Have'
<1> DEFINE bits == Leb!group(stream[ptr + 1])
<1>1. ptr \in Nat /\ shift = GROUP * ptr /\ result = Have /\ GROUP \in Nat
  BY LebAssumption DEF LebEnds, LebBits, Leb!WidthsAssumption
<1>2. ASSUME NEW p \in 0 .. BITS - 1
      PROVE  p \in Leb!Unsigned(ptr)' <=> p \in Leb!Unsigned(ptr) \/ p - shift \in bits
  <2>0. p \in Nat
    OBVIOUS
  <2>1. p \in Leb!Unsigned(ptr) <=> \E j \in 1 .. ptr : p - GROUP * (j - 1) \in Leb!group(stream[j])
    BY <2>0 DEF Leb!Unsigned
  <2>2. p \in Leb!Unsigned(ptr)' <=> \E j \in 1 .. ptr + 1 : p - GROUP * (j - 1) \in Leb!group(stream[j])
    BY <2>0 DEF Leb!Unsigned, Leb!group
  <2>3. \A j : j \in 1 .. ptr + 1 <=> j \in 1 .. ptr \/ j = ptr + 1
    BY <1>1
  <2>4. p - GROUP * ((ptr + 1) - 1) = p - shift
    <3>1. (ptr + 1) - 1 = ptr
      BY <1>1
    <3> QED BY <1>1, <3>1
  <2> HIDE DEF bits
  <2>5. \A j : j = ptr + 1 => (p - GROUP * (j - 1) \in Leb!group(stream[j]) <=> p - shift \in bits)
    BY <2>4 DEF bits
  <2> QED BY <2>1, <2>2, <2>3, <2>5
<1>3. Leb!Or(result, bits, shift) = result \cup {p \in 0 .. BITS - 1 : p - shift \in bits}
  BY DEF Leb!Or
<1>4. Have' = {p \in 0 .. BITS - 1 : p \in Leb!Unsigned(ptr)'}
  BY DEF Have
<1> HIDE DEF bits
<1>5. Leb!Or(result, bits, shift) = Have'
  BY <1>1, <1>2, <1>3, <1>4 DEF Have
<1> QED BY <1>5 DEF bits

(* The extension sets the bits of the sign that fit.                       *)
LEMMA SignAdds ==
  ASSUME NEW word, NEW byte, NEW by \in Nat, NEW p \in 0 .. BITS - 1
  PROVE  p \in Leb!SignExtend(word, byte, by) <=> p \in word \/ (Leb!negative(byte) /\ by <= p)
<1>1. BITS \in Nat /\ p \in Nat /\ p < BITS
  BY LebAssumption DEF Leb!WidthsAssumption
<1>2. p \in Leb!Or(word, 0 .. BITS - 1, by) <=> p \in word \/ by <= p
  <2>1. p - by \in 0 .. BITS - 1 <=> by <= p
    BY <1>1
  <2> QED BY <2>1 DEF Leb!Or
<1>3. ~(by < BITS) => ~(by <= p)
  BY <1>1
<1> QED BY <1>2, <1>3 DEF Leb!SignExtend

LEMMA LebStep == LebInv /\ Leb!Next => LebInv'
<1> SUFFICES ASSUME LebInv, Leb!Next PROVE LebInv'
  OBVIOUS
<1> DEFINE byte == stream[ptr + 1]
           word == Leb!Or(result, Leb!group(byte), shift)
<1>0. LebEnds /\ LebBits /\ LebEnds'
  BY EndsStep DEF LebInv
<1>1. /\ pc = "loop" /\ ptr' = ptr + 1 /\ shift' = shift + GROUP /\ stream' = stream /\ signed' = signed
      /\ Leb!more(byte) => result' = word /\ pc' = pc
      /\ ~Leb!more(byte) =>
           /\ result' = IF signed THEN Leb!SignExtend(word, byte, shift') ELSE word
           /\ pc' = "done"
  BY DEF Leb!Next, Leb!ReadByte
<1>2. word = Have'
  BY <1>0, <1>1, ByteAdds
<1>3. GROUP \in Nat /\ BITS \in Nat /\ ptr \in Nat /\ shift = GROUP * ptr
  BY <1>0, LebAssumption DEF LebEnds, LebBits, Leb!WidthsAssumption
<1>4. shift' = GROUP * ptr' /\ shift' \in Nat
  <2>1. GROUP * (ptr + 1) = GROUP * ptr + GROUP /\ GROUP * ptr \in Nat
    BY <1>3
  <2> QED BY <1>1, <1>3, <2>1
<1> HIDE DEF word
<1>5. CASE Leb!more(byte)
  <2>1. result' = Have' /\ pc' = "loop"
    BY <1>1, <1>2, <1>5
  <2>2. result' \in Leb!Word'
    BY <2>1 DEF Have, Leb!Word
  <2> QED BY <1>0, <1>4, <2>1, <2>2 DEF LebInv, LebBits
<1>6. CASE ~Leb!more(byte)
  <2>1. pc' = "done" /\ ptr' = Leb!Length' /\ Leb!Length' = Leb!Length
    BY <1>0, <1>1, <1>6 DEF LebEnds, Leb!Length
  <2>2. Leb!Length = ptr + 1
    BY <1>1, <2>1
  <2>3. ASSUME NEW p \in 0 .. BITS - 1
        PROVE  /\ p \in result' <=> p \in Have' \/ (signed /\ Leb!negative(byte) /\ shift' <= p)
    <3>1. p \in Leb!SignExtend(word, byte, shift') <=> p \in word \/ (Leb!negative(byte) /\ shift' <= p)
      BY <1>4, SignAdds
    <3>2. CASE signed
      BY <1>1, <1>2, <1>6, <3>1, <3>2
    <3>3. CASE ~signed
      BY <1>1, <1>2, <1>6, <3>3
    <3> QED BY <3>2, <3>3
  <2>4. ASSUME NEW p \in 0 .. BITS - 1 PROVE p \in result' <=> p \in Leb!Meaning'
    <3>1. p \in Have' <=> p \in Leb!Unsigned(ptr)'
      BY DEF Have
    <3>2. Leb!Unsigned(Leb!Length)' = Leb!Unsigned(ptr)'
      BY <2>1
    <3>3. p \in Leb!Sign' <=> shift' <= p /\ signed /\ Leb!negative(byte)
      <4>0. p \in Nat
        OBVIOUS
      <4>1. p \in Leb!Sign' <=> GROUP * Leb!Length' <= p /\ signed' /\ Leb!negative(stream'[Leb!Length'])
        BY <4>0 DEF Leb!Sign, Leb!negative
      <4>2. GROUP * Leb!Length' = shift' /\ stream'[Leb!Length'] = byte
        BY <1>1, <1>4, <2>1, <2>2
      <4> QED BY <1>1, <4>1, <4>2
    <3> QED BY <2>3, <3>1, <3>2, <3>3 DEF Leb!Meaning
  <2>5. result' \in Leb!Word'
    <3>1. word \subseteq 0 .. BITS - 1
      BY <1>2 DEF Have
    <3>2. Leb!SignExtend(word, byte, shift') \subseteq 0 .. BITS - 1
      BY <3>1 DEF Leb!SignExtend, Leb!Or
    <3> QED BY <1>1, <1>6, <3>1, <3>2 DEF Leb!Word
  <2>6. LebBits'
    BY <1>4, <2>1, <2>4, <2>5 DEF LebBits
  <2> QED BY <1>0, <2>6 DEF LebInv
<1> QED BY <1>5, <1>6

LEMMA LebUnchanged ==
  ASSUME LebInv, stream' = stream, signed' = signed, ptr' = ptr, shift' = shift, result' = result, pc' = pc
  PROVE  LebInv'
<1>1. Leb!Length' = Leb!Length /\ Have' = Have /\ Leb!Meaning' = Leb!Meaning
  BY DEF Leb!Length, Leb!Meaning, Leb!Sign, Leb!Unsigned, Leb!group, Leb!negative, Leb!more, Have
<1>2. LebEnds'
  BY <1>1 DEF LebInv, LebEnds
<1>3. LebBits'
  BY <1>1 DEF LebInv, LebBits, Leb!Word
<1> QED BY <1>2, <1>3 DEF LebInv

LEMMA LebSuffices == LebInv => Leb!LebExact
BY DEF LebInv, LebEnds, LebBits, Leb!LebExact, Leb!StopsBehind

-----------------------------------------------------------------------------
(* The backtrace.  An announcement is printed in one go with the symbol    *)
(* behind it, and never before the first symbol: what was left out then is *)
(* not announced.                                                          *)

Line == [kind : {"symbol", "raw", "omitted"}, frame : Nat, sym : Nat, count : Nat]

BtTypes ==
  /\ trace \in Traces /\ print_fmt \in {"Short", "Full"}
  /\ Stack!TypeOK
  /\ lines \in Seq(Line)
  /\ pc = "symbols" => idx < Len(trace) /\ sym <= Len(trace[idx + 1])

BtInv ==
  /\ BtTypes
  /\ lines # <<>> => lines[Len(lines)].kind # "omitted"
  /\ ~first_omit => lines # <<>>
  /\ Stack!AnnouncedInTheMiddle

LEMMA TraceFacts ==
  ASSUME trace \in Traces
  PROVE  /\ Len(trace) \in Nat
         /\ \A f \in 1 .. Len(trace) : Len(trace[f]) \in Nat
<1>1. trace \in Seq(Seq({Stack!Begin, Stack!End, Stack!Named, Stack!Unnamed}))
  BY StackAssumption DEF Stack!TracesAssumption
<1> QED BY <1>1, LenProperties, ElementOfSeq

LEMMA BtStarts == Stack!Init => BtInv
<1> SUFFICES ASSUME Stack!Init PROVE BtInv
  OBVIOUS
<1>1. /\ trace \in Traces /\ print_fmt \in {"Short", "Full"} /\ idx = 0 /\ sym = 0
      /\ print \in BOOLEAN /\ omitted_count = 0 /\ first_omit = TRUE
      /\ res = "ok" /\ lines = <<>> /\ pc = "frame"
  BY DEF Stack!Init, Stack!Short
<1>2. idx \in 0 .. Len(trace)
  BY <1>1, TraceFacts
<1>3. BtTypes
  BY <1>1, <1>2 DEF BtTypes, Stack!TypeOK
<1> QED BY <1>1, <1>3 DEF BtInv, Stack!AnnouncedInTheMiddle

(* Steps that print nothing.                                               *)
LEMMA QuietStep ==
  ASSUME BtInv, BtTypes', lines' = lines, first_omit' = first_omit
  PROVE  BtInv'
BY DEF BtInv, Stack!AnnouncedInTheMiddle

LEMMA NextFrameStep == BtInv /\ (Stack!NextFrame \/ Stack!TraceEnds) => BtInv'
<1> SUFFICES ASSUME BtInv, Stack!NextFrame \/ Stack!TraceEnds PROVE BtInv'
  OBVIOUS
<1>1. /\ trace' = trace /\ print_fmt' = print_fmt /\ idx' = idx /\ print' = print /\ res' = res
      /\ omitted_count' = omitted_count /\ first_omit' = first_omit /\ lines' = lines
      /\ pc' \in {"symbols", "done"} /\ sym' \in {0, sym}
      /\ pc' = "symbols" => idx < Len(trace) /\ sym' = 0
  BY DEF Stack!NextFrame, Stack!TraceEnds, Stack!input, Stack!omission
<1>2. BtTypes
  BY DEF BtInv
<1>3. idx \in Nat /\ sym \in Nat /\ trace \in Traces
  BY <1>2, TraceFacts DEF BtTypes, Stack!TypeOK
<1>4. pc' = "symbols" => idx < Len(trace) /\ sym' <= Len(trace[idx + 1])
  <2> SUFFICES ASSUME pc' = "symbols" PROVE idx < Len(trace) /\ sym' <= Len(trace[idx + 1])
    OBVIOUS
  <2>1. idx < Len(trace) /\ sym' = 0
    BY <1>1
  <2>2. idx + 1 \in 1 .. Len(trace)
    BY <1>3, <2>1, TraceFacts
  <2>3. Len(trace[idx + 1]) \in Nat
    BY <1>3, <2>2, TraceFacts
  <2> QED BY <2>1, <2>3
<1>5. BtTypes'
  BY <1>1, <1>2, <1>3, <1>4 DEF BtTypes, Stack!TypeOK
<1> QED BY <1>1, <1>5, QuietStep

(* Where the walk is at a symbol.                                          *)
LEMMA SymbolFacts ==
  ASSUME BtTypes, Stack!AtSymbol
  PROVE  /\ pc = "symbols" /\ idx \in Nat /\ sym \in Nat /\ idx < Len(trace)
         /\ sym + 1 <= Len(trace[idx + 1]) /\ Len(trace) \in Nat /\ Len(trace[idx + 1]) \in Nat
<1>1. pc = "symbols" /\ idx \in 0 .. Len(trace) /\ sym \in Nat /\ trace \in Traces
      /\ sym < Len(trace[idx + 1]) /\ idx < Len(trace)
  BY DEF BtTypes, Stack!AtSymbol, Stack!TypeOK, Stack!Frame
<1>2. idx \in Nat /\ Len(trace) \in Nat
  BY <1>1, TraceFacts
<1>3. Len(trace[idx + 1]) \in Nat
  BY <1>1, <1>2, TraceFacts
<1>4. sym + 1 <= Len(trace[idx + 1])
  BY <1>1, <1>3
<1> QED BY <1>1, <1>2, <1>3, <1>4

LEMMA MarkerStep == BtInv /\ Stack!Marker => BtInv'
<1> SUFFICES ASSUME BtInv, Stack!Marker PROVE BtInv'
  OBVIOUS
<1>1. /\ trace' = trace /\ print_fmt' = print_fmt /\ idx' = idx /\ print' \in BOOLEAN /\ res' = res
      /\ omitted_count' = omitted_count /\ first_omit' = first_omit /\ lines' = lines
      /\ pc' = pc /\ sym' = sym + 1 /\ Stack!AtSymbol
  BY DEF Stack!Marker, Stack!input, Stack!omission
<1>2. BtTypes /\ sym + 1 \in Nat /\ sym + 1 <= Len(trace[idx + 1]) /\ idx < Len(trace)
  BY <1>1, SymbolFacts DEF BtInv
<1>3. BtTypes'
  BY <1>1, <1>2 DEF BtTypes, Stack!TypeOK
<1> QED BY <1>1, <1>3, QuietStep

LEMMA OmitStep == BtInv /\ Stack!Omit => BtInv'
<1> SUFFICES ASSUME BtInv, Stack!Omit PROVE BtInv'
  OBVIOUS
<1>1. /\ trace' = trace /\ print_fmt' = print_fmt /\ idx' = idx /\ print' = print /\ res' = res
      /\ omitted_count' \in {omitted_count, omitted_count + 1} /\ first_omit' = first_omit
      /\ lines' = lines /\ pc' = pc /\ sym' = sym + 1 /\ Stack!AtSymbol
  BY DEF Stack!Omit, Stack!input
<1>2. BtTypes /\ sym + 1 \in Nat /\ sym + 1 <= Len(trace[idx + 1]) /\ idx < Len(trace)
  BY <1>1, SymbolFacts DEF BtInv
<1>3. omitted_count' \in Nat
  BY <1>1, <1>2 DEF BtTypes, Stack!TypeOK
<1>4. BtTypes'
  BY <1>1, <1>2, <1>3 DEF BtTypes, Stack!TypeOK
<1> QED BY <1>1, <1>4, QuietStep

(* Lines added behind what is there: at most one announcement, with a      *)
(* count, in front of a printed line.                                      *)
LEMMA LineAdded ==
  ASSUME BtInv, NEW line \in Line, line.kind # "omitted", lines' = Append(lines, line),
         BtTypes'
  PROVE  BtInv'
<1>1. lines \in Seq(Line) /\ Len(lines) \in Nat
  BY LenProperties DEF BtInv, BtTypes
<1>2. /\ Len(lines') = Len(lines) + 1
      /\ DOMAIN lines' = 1 .. Len(lines) + 1
      /\ \A k \in 1 .. Len(lines) : lines'[k] = lines[k]
      /\ lines'[Len(lines) + 1] = line
      /\ lines' # <<>>
  BY <1>1, AppendProperties
<1>3. lines'[Len(lines')].kind # "omitted"
  BY <1>2
<1>4. Stack!AnnouncedInTheMiddle'
  <2> SUFFICES ASSUME NEW k \in DOMAIN lines', lines'[k].kind = "omitted"
               PROVE  /\ lines'[k].count > 0
                      /\ k > 1 /\ lines'[k - 1].kind # "omitted"
                      /\ k < Len(lines') /\ lines'[k + 1].kind = "symbol"
    BY DEF Stack!AnnouncedInTheMiddle
  <2>1. k \in 1 .. Len(lines)
    BY <1>1, <1>2
  <2>2. lines'[k] = lines[k] /\ k \in DOMAIN lines
    BY <1>1, <1>2, <2>1
  <2>3. /\ lines[k].count > 0
        /\ k > 1 /\ lines[k - 1].kind # "omitted"
        /\ k < Len(lines) /\ lines[k + 1].kind = "symbol"
    BY <2>2 DEF BtInv, Stack!AnnouncedInTheMiddle
  <2>4. k - 1 \in 1 .. Len(lines) /\ k + 1 \in 1 .. Len(lines) /\ k < Len(lines) + 1
    BY <1>1, <2>1, <2>3
  <2> QED BY <1>2, <2>2, <2>3, <2>4
<1> QED BY <1>2, <1>3, <1>4 DEF BtInv

LEMMA AnnouncedAdded ==
  ASSUME BtInv, NEW word \in Line, NEW line \in Line,
         word.kind = "omitted", word.count > 0, line.kind = "symbol", lines # <<>>,
         lines' = Append(Append(lines, word), line), BtTypes'
  PROVE  BtInv'
<1>1. lines \in Seq(Line) /\ Len(lines) \in Nat /\ Len(lines) > 0
  BY LenProperties, EmptySeq DEF BtInv, BtTypes
<1> DEFINE m == Append(lines, word)
<1>2. /\ m \in Seq(Line) /\ Len(m) = Len(lines) + 1
      /\ \A k \in 1 .. Len(lines) : m[k] = lines[k]
      /\ m[Len(lines) + 1] = word
  BY <1>1, AppendProperties
<1>3. /\ Len(lines') = Len(m) + 1
      /\ DOMAIN lines' = 1 .. Len(m) + 1
      /\ \A k \in 1 .. Len(m) : lines'[k] = m[k]
      /\ lines'[Len(m) + 1] = line
      /\ lines' # <<>>
  BY <1>2, AppendProperties
<1> HIDE DEF m
<1>4. /\ Len(lines') = Len(lines) + 2
      /\ DOMAIN lines' = 1 .. Len(lines) + 2
      /\ \A k \in 1 .. Len(lines) : lines'[k] = lines[k]
      /\ lines'[Len(lines) + 1] = word
      /\ lines'[Len(lines) + 2] = line
  BY <1>1, <1>2, <1>3
<1>5. lines'[Len(lines')].kind # "omitted"
  BY <1>4
<1>6. Stack!AnnouncedInTheMiddle'
  <2> SUFFICES ASSUME NEW k \in DOMAIN lines', lines'[k].kind = "omitted"
               PROVE  /\ lines'[k].count > 0
                      /\ k > 1 /\ lines'[k - 1].kind # "omitted"
                      /\ k < Len(lines') /\ lines'[k + 1].kind = "symbol"
    BY DEF Stack!AnnouncedInTheMiddle
  <2>1. CASE k \in 1 .. Len(lines)
    <3>2. lines'[k] = lines[k] /\ k \in DOMAIN lines
      BY <1>1, <1>4, <2>1
    <3>3. /\ lines[k].count > 0
          /\ k > 1 /\ lines[k - 1].kind # "omitted"
          /\ k < Len(lines) /\ lines[k + 1].kind = "symbol"
      BY <3>2 DEF BtInv, Stack!AnnouncedInTheMiddle
    <3>4. k - 1 \in 1 .. Len(lines) /\ k + 1 \in 1 .. Len(lines) /\ k < Len(lines) + 2
      BY <1>1, <2>1, <3>3
    <3> QED BY <1>4, <3>2, <3>3, <3>4
  <2>2. CASE k = Len(lines) + 1
    <3>1. lines[Len(lines)].kind # "omitted"
      BY DEF BtInv
    <3>2. k - 1 = Len(lines) /\ k + 1 = Len(lines) + 2 /\ Len(lines) \in 1 .. Len(lines)
      BY <1>1, <2>2
    <3>3. lines'[k] = word /\ lines'[k - 1] = lines[Len(lines)] /\ lines'[k + 1] = line
      BY <1>4, <2>2, <3>2
    <3>4. k > 1 /\ k < Len(lines')
      BY <1>1, <1>4, <2>2
    <3> QED BY <3>1, <3>3, <3>4
  <2>3. CASE k = Len(lines) + 2
    BY <1>4, <2>3
  <2> QED BY <1>1, <1>4, <2>1, <2>2, <2>3
<1> QED BY <1>3, <1>5, <1>6 DEF BtInv

LEMMA ShowStep == ASSUME BtInv, NEW outcome \in {"ok", "err"}, Stack!Show(outcome) PROVE BtInv'
<1> DEFINE announced == omitted_count > 0 /\ ~first_omit
<1>1. /\ trace' = trace /\ print_fmt' = print_fmt /\ idx' = idx /\ print' = print /\ res' = outcome
      /\ omitted_count' = 0 /\ pc' = pc /\ sym' = sym + 1 /\ Stack!AtSymbol
      /\ first_omit' = (first_omit /\ omitted_count = 0)
      /\ lines' = lines \o (IF announced THEN <<Stack!OmittedLine>> ELSE <<>>) \o <<Stack!SymbolLine>>
  BY DEF Stack!Show, Stack!input
<1>2. /\ BtTypes /\ sym + 1 \in Nat /\ sym + 1 <= Len(trace[idx + 1]) /\ idx < Len(trace)
      /\ idx \in Nat
  BY <1>1, SymbolFacts DEF BtInv
<1>3. omitted_count \in Nat /\ lines \in Seq(Line)
  BY <1>2 DEF BtTypes, Stack!TypeOK
<1>5. first_omit' \in BOOLEAN
  BY <1>1
<1>6. Stack!SymbolLine \in Line /\ Stack!SymbolLine.kind = "symbol"
  <2>1. idx + 1 \in Nat
    BY <1>2
  <2> QED BY <1>2, <2>1 DEF Line, Stack!SymbolLine
<1>7. /\ Stack!OmittedLine \in Line /\ Stack!OmittedLine.kind = "omitted"
      /\ Stack!OmittedLine.count = omitted_count
  BY <1>3 DEF Line, Stack!OmittedLine
<1>8. ASSUME lines' \in Seq(Line) PROVE BtTypes'
  BY <1>1, <1>2, <1>3, <1>5, <1>8 DEF BtTypes, Stack!TypeOK
<1>9. CASE ~announced
  <2>0. lines' = lines \o <<>> \o <<Stack!SymbolLine>>
    BY <1>1, <1>9
  <2>1. lines' = Append(lines, Stack!SymbolLine)
    <3>1. lines \o <<>> = lines
      BY <1>3, ConcatEmptySeq
    <3> QED BY <1>3, <1>6, <2>0, <3>1
  <2>2. lines' \in Seq(Line)
    BY <1>3, <1>6, <2>1
  <2> QED BY <1>6, <1>8, <2>1, <2>2, LineAdded
<1>10. CASE announced
  <2>1. lines' = Append(Append(lines, Stack!OmittedLine), Stack!SymbolLine)
    BY <1>1, <1>3, <1>6, <1>7, <1>10
  <2>2. lines' \in Seq(Line)
    BY <1>3, <1>6, <1>7, <2>1
  <2>3. lines # <<>> /\ Stack!OmittedLine.count > 0
    BY <1>7, <1>10 DEF BtInv
  <2> QED BY <1>6, <1>7, <1>8, <2>1, <2>2, <2>3, AnnouncedAdded
<1> QED BY <1>9, <1>10

LEMMA FrameEndsStep == ASSUME BtInv, NEW outcome \in {"ok", "err"}, Stack!FrameEnds(outcome) PROVE BtInv'
<1>1. /\ trace' = trace /\ print_fmt' = print_fmt /\ print' = print /\ sym' = sym
      /\ omitted_count' = omitted_count /\ first_omit' = first_omit
      /\ res' \in {"ok", "err"} /\ idx' = idx + 1 /\ pc' \in {"frame", "done"} /\ pc = "symbols"
      /\ lines' = lines \/ lines' = Append(lines, Stack!RawLine)
  BY DEF Stack!FrameEnds, Stack!input, Stack!omission, BtInv, BtTypes, Stack!TypeOK
<1>2. BtTypes /\ idx \in 0 .. Len(trace) /\ idx < Len(trace) /\ trace \in Traces /\ lines \in Seq(Line)
  BY <1>1 DEF BtInv, BtTypes, Stack!TypeOK
<1>3. idx + 1 \in 0 .. Len(trace) /\ idx + 1 \in Nat
  BY <1>2, TraceFacts
<1>4. Stack!RawLine \in Line /\ Stack!RawLine.kind # "omitted"
  BY <1>3 DEF Line, Stack!RawLine
<1>5. lines' \in Seq(Line)
  BY <1>1, <1>2, <1>4
<1>6. BtTypes'
  BY <1>1, <1>2, <1>3, <1>5 DEF BtTypes, Stack!TypeOK
<1>7. CASE lines' = lines
  BY <1>1, <1>6, <1>7, QuietStep
<1>8. CASE lines' = Append(lines, Stack!RawLine)
  BY <1>4, <1>6, <1>8, LineAdded
<1> QED BY <1>1, <1>7, <1>8

LEMMA BtStep == BtInv /\ Stack!Next => BtInv'
BY NextFrameStep, MarkerStep, OmitStep, ShowStep, FrameEndsStep DEF Stack!Next

LEMMA BtUnchanged ==
  ASSUME BtInv, trace' = trace, print_fmt' = print_fmt, idx' = idx, sym' = sym, print' = print,
         omitted_count' = omitted_count, first_omit' = first_omit, res' = res,
         lines' = lines, pc' = pc
  PROVE  BtInv'
<1>1. BtTypes'
  BY DEF BtInv, BtTypes, Stack!TypeOK
<1> QED BY <1>1, QuietStep

(* What is done, as the walk goes on.                                      *)
Walked(q) ==
  \/ \E f \in 1 .. idx : q \in Stack!Positions(f)
  \/ pc = "symbols" /\ \E s \in 1 .. sym : q = <<idx + 1, s>>

LEMMA DoneIsWalked == \A q : q \in Stack!Done <=> Walked(q)
<1> SUFFICES ASSUME NEW q PROVE q \in Stack!Done <=> Walked(q)
  OBVIOUS
<1> DEFINE A == UNION {Stack!Positions(f) : f \in 1 .. idx}
           B == {<<idx + 1, s>> : s \in 1 .. sym}
<1>1. q \in A <=> \E f \in 1 .. idx : q \in Stack!Positions(f)
  BY Zenon
<1>2. q \in B <=> \E s \in 1 .. sym : q = <<idx + 1, s>>
  BY Zenon
<1>3. Stack!Done = A \cup (IF pc = "symbols" THEN B ELSE {})
  BY SMT DEF Stack!Done
<1> HIDE DEF A, B
<1>4. q \in Stack!Done <=> q \in A \/ (pc = "symbols" /\ q \in B)
  BY <1>3
<1> QED BY <1>1, <1>2, <1>4, Zenon DEF Walked

LEMMA DoneIsWalkedThen == \A q : q \in Stack!Done' <=> Walked(q)'
<1>1. (\A q : q \in Stack!Done <=> Walked(q))'
  BY DoneIsWalked, PTL
<1> QED BY <1>1

LEMMA DoneElements ==
  ASSUME BtTypes, NEW q \in Stack!Done
  PROVE  /\ q \in Nat \X Nat
         /\ q[1] \in 1 .. idx \/ (pc = "symbols" /\ q[1] = idx + 1 /\ q[2] \in 1 .. sym)
<1>1. idx \in Nat /\ sym \in Nat /\ idx \in 0 .. Len(trace) /\ Len(trace) \in Nat /\ trace \in Traces
  BY TraceFacts DEF BtTypes, Stack!TypeOK
<1>2. CASE \E f \in 1 .. idx : q \in Stack!Positions(f)
  <2>1. PICK f \in 1 .. idx : q \in Stack!Positions(f)
    BY <1>2
  <2>2. f \in Nat /\ f \in 1 .. Len(trace)
    BY <1>1
  <2>3. Len(trace[f]) \in Nat
    BY <1>1, <2>2, TraceFacts
  <2>4. \E s \in Nat : q = <<f, s>>
    BY <2>1, <2>3 DEF Stack!Positions
  <2> QED BY <2>2, <2>4
<1>3. CASE pc = "symbols" /\ \E s \in 1 .. sym : q = <<idx + 1, s>>
  BY <1>1, <1>3
<1> QED BY <1>2, <1>3, DoneIsWalked DEF Walked

LEMMA DoneAtSymbol ==
  ASSUME BtTypes, Stack!AtSymbol, idx' = idx, sym' = sym + 1, pc' = pc, trace' = trace
  PROVE  /\ Stack!Done' = Stack!Done \cup {<<idx + 1, sym + 1>>}
         /\ \A q \in Stack!Done : Stack!Before(q, <<idx + 1, sym + 1>>)
         /\ <<idx + 1, sym + 1>> \in Nat \X Nat
         /\ Stack!At(<<idx + 1, sym + 1>>) = Stack!Symbol
<1>1. pc = "symbols" /\ idx \in Nat /\ sym \in Nat
  BY SymbolFacts
<1>2. \A s : s \in 1 .. sym + 1 <=> s \in 1 .. sym \/ s = sym + 1
  BY <1>1
<1>4. \A f : Stack!Positions(f)' = Stack!Positions(f)
  BY DEF Stack!Positions
<1>3. ASSUME NEW q PROVE Walked(q)' <=> Walked(q) \/ q = <<idx + 1, sym + 1>>
  <2>1. Walked(q) <=> \/ \E f \in 1 .. idx : q \in Stack!Positions(f)
                      \/ \E s \in 1 .. sym : q = <<idx + 1, s>>
    BY <1>1 DEF Walked
  <2>2. Walked(q)' <=> \/ \E f \in 1 .. idx : q \in Stack!Positions(f)
                       \/ \E s \in 1 .. sym + 1 : q = <<idx + 1, s>>
    BY <1>1, <1>4 DEF Walked
  <2> QED BY <1>2, <2>1, <2>2, Zenon
<1>5. Stack!Done' = Stack!Done \cup {<<idx + 1, sym + 1>>}
  BY <1>3, DoneIsWalked, DoneIsWalkedThen
<1>6. ASSUME NEW q \in Stack!Done PROVE Stack!Before(q, <<idx + 1, sym + 1>>)
  <2>1. q[1] \in Nat /\ q[2] \in Nat
        /\ (q[1] \in 1 .. idx \/ (q[1] = idx + 1 /\ q[2] \in 1 .. sym))
    BY DoneElements
  <2>2. q[1] < idx + 1 \/ (q[1] = idx + 1 /\ q[2] < sym + 1)
    BY <1>1, <2>1
  <2> QED BY <2>2 DEF Stack!Before
<1>7. Stack!At(<<idx + 1, sym + 1>>) = Stack!Symbol
  <2>1. sym + 1 # 0
    BY <1>1
  <2> QED BY <2>1 DEF Stack!At, Stack!Symbol, Stack!Frame
<1> QED BY <1>1, <1>5, <1>6, <1>7

LEMMA DoneAtFrame ==
  ASSUME BtTypes, pc = "frame", idx' = idx, trace' = trace, pc' \in {"symbols", "done"},
         pc' = "symbols" => sym' = 0
  PROVE  Stack!Done' = Stack!Done
<1>1. \A f : Stack!Positions(f)' = Stack!Positions(f)
  BY DEF Stack!Positions
<1>2. pc' = "symbols" => \A s : s \notin 1 .. sym'
  BY SMT
<1>3. ASSUME NEW q PROVE Walked(q)' <=> Walked(q)
  BY <1>1, <1>2 DEF Walked
<1> QED BY <1>3, DoneIsWalked, DoneIsWalkedThen

LEMMA DoneAtEnd ==
  ASSUME BtTypes, pc = "symbols", sym = Len(Stack!Frame), idx' = idx + 1, trace' = trace,
         pc' \in {"frame", "done"}
  PROVE  /\ Stack!Frame # <<>> => Stack!Done' = Stack!Done
         /\ Stack!Frame = <<>> =>
              /\ Stack!Done' = Stack!Done \cup {<<idx + 1, 0>>}
              /\ \A q \in Stack!Done : Stack!Before(q, <<idx + 1, 0>>)
              /\ <<idx + 1, 0>> \in Nat \X Nat
              /\ Stack!At(<<idx + 1, 0>>) = "raw"
<1>1. idx \in Nat /\ sym \in Nat
  BY TraceFacts DEF BtTypes, Stack!TypeOK
<1>2. \A f : f \in 1 .. idx + 1 <=> f \in 1 .. idx \/ f = idx + 1
  BY <1>1
<1>3. \A f : Stack!Positions(f)' = Stack!Positions(f)
  BY DEF Stack!Positions
<1>4. ASSUME NEW q
      PROVE  /\ Walked(q) <=> \/ \E f \in 1 .. idx : q \in Stack!Positions(f)
                              \/ \E s \in 1 .. sym : q = <<idx + 1, s>>
             /\ Walked(q)' <=> \/ \E f \in 1 .. idx : q \in Stack!Positions(f)
                               \/ q \in Stack!Positions(idx + 1)
  <2>1. Walked(q)' <=> \E f \in 1 .. idx + 1 : q \in Stack!Positions(f)
    BY <1>3 DEF Walked
  <2> QED BY <1>2, <2>1 DEF Walked
<1>6. CASE Stack!Frame # <<>>
  <2>1. Stack!Positions(idx + 1) = {<<idx + 1, s>> : s \in 1 .. sym}
    BY <1>6 DEF Stack!Positions, Stack!Frame
  <2>2. \A q : Walked(q)' <=> Walked(q)
    BY <1>4, <2>1
  <2> QED BY <1>6, <2>2, DoneIsWalked, DoneIsWalkedThen
<1>7. CASE Stack!Frame = <<>>
  <2>1. sym = 0 /\ 1 .. sym = {}
    BY <1>7
  <2>2. Stack!Positions(idx + 1) = {<<idx + 1, 0>>}
    BY <1>7 DEF Stack!Positions, Stack!Frame
  <2>3. Stack!Done' = Stack!Done \cup {<<idx + 1, 0>>}
    <3>1. ASSUME NEW q PROVE Walked(q)' <=> Walked(q) \/ q = <<idx + 1, 0>>
      BY <1>4, <2>1, <2>2
    <3> QED BY <3>1, DoneIsWalked, DoneIsWalkedThen
  <2>4. ASSUME NEW q \in Stack!Done PROVE Stack!Before(q, <<idx + 1, 0>>)
    <3>1. q[1] \in Nat /\ q[1] \in 1 .. idx
      BY <2>1, DoneElements
    <3>2. q[1] < idx + 1
      BY <1>1, <3>1
    <3> QED BY <3>2 DEF Stack!Before
  <2> QED BY <1>1, <1>7, <2>3, <2>4 DEF Stack!At
<1> QED BY <1>6, <1>7

(* Whether the walk is inside the part to be shown.                        *)
InsideNow ==
  \/ ~Stack!Short
  \/ \E e \in Stack!Done : /\ Stack!At(e) = Stack!End
                           /\ \A b \in Stack!Done : Stack!Before(e, b) => Stack!At(b) # Stack!Begin

(* A new position behind all others.                                       *)
Behind(p) ==
  /\ trace' = trace /\ print_fmt' = print_fmt
  /\ Stack!Done \subseteq Nat \X Nat /\ p \in Nat \X Nat
  /\ Stack!Done' = Stack!Done \cup {p}
  /\ \A q \in Stack!Done : Stack!Before(q, p)

LEMMA BeforeOrder ==
  ASSUME NEW p \in Nat \X Nat, NEW q \in Nat \X Nat
  PROVE  ~Stack!Before(p, p) /\ (Stack!Before(p, q) => ~Stack!Before(q, p))
<1>1. p[1] \in Nat /\ p[2] \in Nat /\ q[1] \in Nat /\ q[2] \in Nat
  OBVIOUS
<1> QED BY <1>1 DEF Stack!Before

LEMMA BehindFacts ==
  ASSUME NEW p, Behind(p)
  PROVE  /\ p \notin Stack!Done /\ ~Stack!Before(p, p)
         /\ \A q \in Stack!Done : Stack!Before(q, p) /\ ~Stack!Before(p, q)
BY BeforeOrder DEF Behind

LEMMA InsideOld ==
  ASSUME NEW p, Behind(p), NEW q \in Stack!Done
  PROVE  Stack!Inside(q)' <=> Stack!Inside(q)
<1>1. Stack!Inside(q)' <=>
        \/ ~Stack!Short
        \/ \E e \in Stack!Done \cup {p} :
             /\ Stack!At(e) = Stack!End /\ Stack!Before(e, q)
             /\ \A b \in Stack!Done \cup {p} :
                  Stack!Before(e, b) /\ Stack!Before(b, q) => Stack!At(b) # Stack!Begin
  BY DEF Behind, Stack!Inside, Stack!Short, Stack!At, Stack!Before, Stack!Begin, Stack!End
<1>2. ~Stack!Before(p, q)
  BY BehindFacts
<1> QED BY <1>1, <1>2, Zenon DEF Stack!Inside

LEMMA InsideNew ==
  ASSUME NEW p, Behind(p)
  PROVE  Stack!Inside(p)' <=> InsideNow
<1>1. Stack!Inside(p)' <=>
        \/ ~Stack!Short
        \/ \E e \in Stack!Done \cup {p} :
             /\ Stack!At(e) = Stack!End /\ Stack!Before(e, p)
             /\ \A b \in Stack!Done \cup {p} :
                  Stack!Before(e, b) /\ Stack!Before(b, p) => Stack!At(b) # Stack!Begin
  BY DEF Behind, Stack!Inside, Stack!Short, Stack!At, Stack!Before, Stack!Begin, Stack!End
<1>2. ~Stack!Before(p, p) /\ \A q \in Stack!Done : Stack!Before(q, p)
  BY BehindFacts
<1> QED BY <1>1, <1>2, Zenon DEF InsideNow

LEMMA InsideNext ==
  ASSUME NEW p, Behind(p)
  PROVE  InsideNow' <=>
           ~Stack!Short \/ Stack!At(p) = Stack!End \/ (InsideNow /\ Stack!At(p) # Stack!Begin)
<1>1. InsideNow' <=>
        \/ ~Stack!Short
        \/ \E e \in Stack!Done \cup {p} :
             /\ Stack!At(e) = Stack!End
             /\ \A b \in Stack!Done \cup {p} : Stack!Before(e, b) => Stack!At(b) # Stack!Begin
  BY DEF Behind, InsideNow, Stack!Short, Stack!At, Stack!Before, Stack!Begin, Stack!End
<1>2. /\ ~Stack!Before(p, p)
      /\ \A q \in Stack!Done : Stack!Before(q, p) /\ ~Stack!Before(p, q)
  BY BehindFacts
<1> QED BY <1>1, <1>2, Zenon DEF InsideNow

(* What the step makes of the positions shown and hidden.                  *)
LEMMA ShownAndHidden ==
  ASSUME NEW p, Behind(p)
  PROVE  /\ \A q \in Stack!Done : (Stack!Shown(q)' <=> Stack!Shown(q)) /\ (Stack!Hidden(q)' <=> Stack!Hidden(q))
         /\ Stack!Shown(p)' <=> InsideNow /\ (Stack!Short => Stack!At(p) \notin {Stack!Begin, Stack!End})
         /\ Stack!Hidden(p)' <=> ~InsideNow /\ Stack!At(p) \notin {Stack!End, Stack!Unnamed, "raw"}
<1>1. \A q : Stack!At(q)' = Stack!At(q)
  BY DEF Behind, Stack!At
<1>2. Stack!Short' <=> Stack!Short
  BY DEF Behind, Stack!Short
<1>3. \A q : (Stack!Shown(q)' <=> Stack!Inside(q)' /\ (Stack!Short => Stack!At(q) \notin {Stack!Begin, Stack!End}))
  BY <1>1, <1>2 DEF Stack!Shown, Stack!Begin, Stack!End
<1>4. \A q : (Stack!Hidden(q)' <=> ~Stack!Inside(q)' /\ Stack!At(q) \notin {Stack!End, Stack!Unnamed, "raw"})
  BY <1>1 DEF Stack!Hidden, Stack!End, Stack!Unnamed
<1>5. ASSUME NEW q \in Stack!Done
      PROVE (Stack!Shown(q)' <=> Stack!Shown(q)) /\ (Stack!Hidden(q)' <=> Stack!Hidden(q))
  BY <1>3, <1>4, InsideOld DEF Stack!Shown, Stack!Hidden
<1> QED BY <1>3, <1>4, <1>5, InsideNew

WalkInv ==
  /\ IsFiniteSet(Stack!Done)
  /\ print <=> InsideNow
  /\ Stack!PrintsWhatIsInside
  /\ first_omit <=> \A j \in Stack!SymbolLines : Stack!Gap(j) = {}
  /\ Stack!OmissionsAccounted

LEMMA CardinalityHere == \A S : Stack!Cardinality(S) = Cardinality(S)
BY DEF Stack!Cardinality, Cardinality

(* The sets of the accounting, in the next state.                          *)
LEMMA SetsThen ==
  ASSUME NEW k
  PROVE  /\ \A q : q \in Stack!Gap(k)' <=>
              /\ q \in Stack!Done' /\ Stack!Hidden(q)' /\ Stack!Before(q, Stack!Position(k)')
              /\ \A j \in Stack!SymbolLines' : j < k => Stack!Before(Stack!Position(j)', q)
         /\ \A q : q \in Stack!Waiting' <=>
              /\ q \in Stack!Done' /\ Stack!Hidden(q)'
              /\ \A j \in Stack!SymbolLines' : Stack!Before(Stack!Position(j)', q)
BY DEF Stack!Gap, Stack!Waiting, Stack!Before

LEMMA SetsNow ==
  ASSUME NEW k
  PROVE  /\ \A q : q \in Stack!Gap(k) <=>
              /\ q \in Stack!Done /\ Stack!Hidden(q) /\ Stack!Before(q, Stack!Position(k))
              /\ \A j \in Stack!SymbolLines : j < k => Stack!Before(Stack!Position(j), q)
         /\ \A q : q \in Stack!Waiting <=>
              /\ q \in Stack!Done /\ Stack!Hidden(q)
              /\ \A j \in Stack!SymbolLines : Stack!Before(Stack!Position(j), q)
BY Zenon DEF Stack!Gap, Stack!Waiting

LEMMA LinesStart == Stack!Init => WalkInv
<1> SUFFICES ASSUME Stack!Init PROVE WalkInv
  OBVIOUS
<1>1. idx = 0 /\ print = ~Stack!Short /\ lines = <<>> /\ pc = "frame" /\ omitted_count = 0 /\ first_omit = TRUE
  BY DEF Stack!Init
<1>2. \A f : f \notin 1 .. idx
  BY <1>1
<1>3. Stack!Done = {}
  BY <1>1, <1>2, DoneIsWalked DEF Walked
<1>4. Stack!SymbolLines = {} /\ Stack!PrintedLines = {}
  BY <1>1 DEF Stack!SymbolLines, Stack!PrintedLines
<1>5. Stack!Waiting = {}
  BY <1>3, SetsNow
<1>6. IsFiniteSet({}) /\ Cardinality({}) = 0
  BY FS_EmptySet
<1>7. print <=> InsideNow
  BY <1>1, <1>3 DEF InsideNow
<1>8. Stack!PrintsWhatIsInside
  BY <1>3, <1>4 DEF Stack!PrintsWhatIsInside
<1>9. Stack!OmissionsAccounted
  <2>1. Stack!GapsAnnounced
    BY <1>4, Zenon DEF Stack!GapsAnnounced
  <2>2. omitted_count = Cardinality(Stack!Waiting)
    BY <1>1, <1>5, <1>6
  <2> QED BY <2>1, <2>2, CardinalityHere DEF Stack!OmissionsAccounted
<1> QED BY <1>1, <1>3, <1>4, <1>6, <1>7, <1>8, <1>9 DEF WalkInv

(* Steps between the frames.                                               *)
LEMMA WalkSame ==
  ASSUME WalkInv, Stack!Done' = Stack!Done, trace' = trace, print_fmt' = print_fmt, print' = print,
         lines' = lines, first_omit' = first_omit, omitted_count' = omitted_count
  PROVE  WalkInv'
<1>1. \A q : Stack!Inside(q)' <=> Stack!Inside(q)
  BY DEF Stack!Inside, Stack!Short, Stack!At, Stack!Before, Stack!Begin, Stack!End
<1>2. \A q : (Stack!Shown(q)' <=> Stack!Shown(q)) /\ (Stack!Hidden(q)' <=> Stack!Hidden(q))
  BY <1>1 DEF Stack!Shown, Stack!Hidden, Stack!Short, Stack!At, Stack!Begin, Stack!End, Stack!Unnamed
<1>3. Stack!SymbolLines' = Stack!SymbolLines /\ Stack!PrintedLines' = Stack!PrintedLines
      /\ \A k : Stack!Position(k)' = Stack!Position(k) /\ (Stack!Announced(k)' <=> Stack!Announced(k))
  BY DEF Stack!SymbolLines, Stack!PrintedLines, Stack!Position, Stack!Announced
<1>4. ASSUME NEW k PROVE Stack!Gap(k)' = Stack!Gap(k)
  <2>1. ASSUME NEW q PROVE q \in Stack!Gap(k)' <=> q \in Stack!Gap(k)
    BY <1>2, <1>3, SetsNow, SetsThen
  <2> QED BY <2>1
<1>5. Stack!Waiting' = Stack!Waiting
  BY <1>2, <1>3, SetsNow, SetsThen
<1>6. InsideNow' <=> InsideNow
  BY DEF InsideNow, Stack!Short, Stack!At, Stack!Before, Stack!Begin, Stack!End
<1>7. Stack!PrintsWhatIsInside'
  BY <1>2, <1>3 DEF WalkInv, Stack!PrintsWhatIsInside, Stack!Before
<1>8. Stack!OmissionsAccounted'
  BY <1>3, <1>4, <1>5 DEF WalkInv, Stack!OmissionsAccounted, Stack!GapsAnnounced
<1> QED BY <1>3, <1>4, <1>6, <1>7, <1>8 DEF WalkInv

(* Printed positions are done.                                             *)
LEMMA PrintedDone ==
  ASSUME WalkInv, NEW k \in Stack!PrintedLines
  PROVE  Stack!Position(k) \in Stack!Done
BY DEF WalkInv, Stack!PrintsWhatIsInside

LEMMA SymbolPrinted == Stack!SymbolLines \subseteq Stack!PrintedLines
BY DEF Stack!SymbolLines, Stack!PrintedLines

(* A position that is not shown waits if it is hidden.                     *)
LEMMA WalkQuiet ==
  ASSUME WalkInv, NEW p, Behind(p), lines' = lines, first_omit' = first_omit, ~Stack!Shown(p)',
         print' <=> InsideNow', omitted_count \in Nat,
         omitted_count' = IF Stack!Hidden(p)' THEN omitted_count + 1 ELSE omitted_count
  PROVE  WalkInv'
<1>1. Stack!Done' = Stack!Done \cup {p} /\ p \notin Stack!Done
      /\ \A q \in Stack!Done : Stack!Before(q, p) /\ ~Stack!Before(p, q)
  BY BehindFacts DEF Behind
<1>2. \A q \in Stack!Done : (Stack!Shown(q)' <=> Stack!Shown(q)) /\ (Stack!Hidden(q)' <=> Stack!Hidden(q))
  BY ShownAndHidden
<1>3. Stack!SymbolLines' = Stack!SymbolLines /\ Stack!PrintedLines' = Stack!PrintedLines
      /\ \A k : Stack!Position(k)' = Stack!Position(k) /\ (Stack!Announced(k)' <=> Stack!Announced(k))
  BY DEF Stack!SymbolLines, Stack!PrintedLines, Stack!Position, Stack!Announced
<1>4. \A k \in Stack!SymbolLines : Stack!Before(Stack!Position(k), p) /\ ~Stack!Before(p, Stack!Position(k))
  BY <1>1, PrintedDone, SymbolPrinted
<1>5. ASSUME NEW k \in Stack!SymbolLines PROVE Stack!Gap(k)' = Stack!Gap(k)
  <2>1. ASSUME NEW q PROVE q \in Stack!Gap(k)' <=> q \in Stack!Gap(k)
    <3>1. q \in Stack!Gap(k)' <=>
            /\ q \in Stack!Done \cup {p} /\ Stack!Hidden(q)' /\ Stack!Before(q, Stack!Position(k))
            /\ \A j \in Stack!SymbolLines : j < k => Stack!Before(Stack!Position(j), q)
      BY <1>1, <1>3, SetsThen
    <3>2. q \in Stack!Gap(k) <=>
            /\ q \in Stack!Done /\ Stack!Hidden(q) /\ Stack!Before(q, Stack!Position(k))
            /\ \A j \in Stack!SymbolLines : j < k => Stack!Before(Stack!Position(j), q)
      BY SetsNow
    <3> QED BY <1>2, <1>4, <3>1, <3>2
  <2> QED BY <2>1
<1>6. Stack!Waiting' = Stack!Waiting \cup (IF Stack!Hidden(p)' THEN {p} ELSE {}) /\ p \notin Stack!Waiting
  <2>1. ASSUME NEW q PROVE q \in Stack!Waiting' <=> q \in Stack!Waiting \/ (Stack!Hidden(p)' /\ q = p)
    <3>1. q \in Stack!Waiting' <=>
            /\ q \in Stack!Done \cup {p} /\ Stack!Hidden(q)'
            /\ \A j \in Stack!SymbolLines : Stack!Before(Stack!Position(j), q)
      BY <1>1, <1>3, SetsThen
    <3>2. q \in Stack!Waiting <=>
            /\ q \in Stack!Done /\ Stack!Hidden(q)
            /\ \A j \in Stack!SymbolLines : Stack!Before(Stack!Position(j), q)
      BY SetsNow
    <3> QED BY <1>2, <1>4, <3>1, <3>2
  <2>2. p \notin Stack!Waiting
    BY <1>1, SetsNow
  <2>3. CASE Stack!Hidden(p)'
    BY <2>1, <2>2, <2>3
  <2>4. CASE ~Stack!Hidden(p)'
    BY <2>1, <2>2, <2>4
  <2> QED BY <2>3, <2>4
<1>7. IsFiniteSet(Stack!Done') /\ IsFiniteSet(Stack!Waiting)
  <2>1. IsFiniteSet(Stack!Done) /\ Stack!Waiting \subseteq Stack!Done
    BY SetsNow DEF WalkInv
  <2> QED BY <1>1, <2>1, FS_AddElement, FS_Subset
<1>8. omitted_count' = Cardinality(Stack!Waiting')
  <2>1. omitted_count = Cardinality(Stack!Waiting)
    BY CardinalityHere DEF WalkInv, Stack!OmissionsAccounted
  <2>2. Cardinality(Stack!Waiting \cup {p}) = Cardinality(Stack!Waiting) + 1
    BY <1>6, <1>7, FS_AddElement
  <2>3. CASE Stack!Hidden(p)'
    BY <1>6, <2>1, <2>2, <2>3
  <2>4. CASE ~Stack!Hidden(p)'
    <3>1. Stack!Waiting' = Stack!Waiting
      BY <1>6, <2>4
    <3> QED BY <2>1, <2>4, <3>1
  <2> QED BY <2>3, <2>4
<1>9. Stack!GapsAnnounced'
  <2>1. Stack!GapsAnnounced
    BY DEF WalkInv, Stack!OmissionsAccounted
  <2> QED BY <1>3, <1>5, <2>1 DEF Stack!GapsAnnounced
<1>10. Stack!PrintsWhatIsInside'
  <2>1. {q \in Stack!Done' : Stack!Shown(q)'} = {q \in Stack!Done : Stack!Shown(q)}
    BY <1>1, <1>2
  <2> QED BY <1>3, <2>1 DEF WalkInv, Stack!PrintsWhatIsInside, Stack!Before
<1>11. Stack!OmissionsAccounted'
  BY <1>8, <1>9, CardinalityHere DEF Stack!OmissionsAccounted
<1>12. first_omit' <=> \A j \in Stack!SymbolLines' : Stack!Gap(j)' = {}
  BY <1>3, <1>5 DEF WalkInv
<1> QED BY <1>7, <1>10, <1>11, <1>12 DEF WalkInv

(* A position that is shown gets the last line, behind those there were.   *)
PrintsLine(p, last) ==
  /\ last \in Nat \ {0}
  /\ \A k \in DOMAIN lines : k \in Nat \ {0} /\ k < last /\ lines'[k] = lines[k]
  /\ \A k \in DOMAIN lines : k > 1 => k - 1 \in DOMAIN lines
  /\ Stack!PrintedLines' = Stack!PrintedLines \cup {last}
  /\ Stack!Position(last)' = p

LEMMA KeptLines ==
  ASSUME NEW p, NEW last, PrintsLine(p, last), NEW k \in DOMAIN lines
  PROVE  /\ Stack!Position(k)' = Stack!Position(k)
         /\ Stack!Announced(k)' <=> Stack!Announced(k)
         /\ Stack!Announced(k) => lines'[k - 1] = lines[k - 1]
<1>1. k > 1 => lines'[k - 1] = lines[k - 1]
  BY DEF PrintsLine
<1>2. lines'[k] = lines[k]
  BY DEF PrintsLine
<1> QED BY <1>1, <1>2 DEF Stack!Position, Stack!Announced

LEMMA ShownInside ==
  ASSUME WalkInv, NEW p, Behind(p), NEW last, PrintsLine(p, last), Stack!Shown(p)'
  PROVE  Stack!PrintsWhatIsInside'
<1>1. Stack!Done' = Stack!Done \cup {p} /\ \A q \in Stack!Done : Stack!Before(q, p)
  BY DEF Behind
<1>2. \A q \in Stack!Done : Stack!Shown(q)' <=> Stack!Shown(q)
  BY ShownAndHidden
<1>3. /\ Stack!PrintedLines' = Stack!PrintedLines \cup {last} /\ Stack!Position(last)' = p
      /\ last \in Nat /\ \A k \in Stack!PrintedLines : k \in Nat /\ k < last
  BY DEF PrintsLine, Stack!PrintedLines
<1>4. \A k \in Stack!PrintedLines : Stack!Position(k)' = Stack!Position(k)
  BY KeptLines DEF Stack!PrintedLines
<1>5. {q \in Stack!Done' : Stack!Shown(q)'} = {q \in Stack!Done : Stack!Shown(q)} \cup {p}
  BY <1>1, <1>2
<1>6. {Stack!Position(k)' : k \in Stack!PrintedLines'} = {Stack!Position(k) : k \in Stack!PrintedLines} \cup {p}
  BY <1>3, <1>4
<1>7. ASSUME NEW j \in Stack!PrintedLines', NEW k \in Stack!PrintedLines', j < k
      PROVE  Stack!Before(Stack!Position(j)', Stack!Position(k)')
  <2>1. j \in Stack!PrintedLines
    <3>1. j # last
      BY <1>3, <1>7
    <3> QED BY <1>3, <3>1
  <2>2. CASE k = last
    BY <1>1, <1>3, <1>4, <2>1, <2>2, PrintedDone
  <2>3. CASE k \in Stack!PrintedLines
    BY <1>4, <1>7, <2>1, <2>3 DEF WalkInv, Stack!PrintsWhatIsInside
  <2> QED BY <1>3, <2>2, <2>3
<1>8. {Stack!Position(k) : k \in Stack!PrintedLines} = {q \in Stack!Done : Stack!Shown(q)}
  BY DEF WalkInv, Stack!PrintsWhatIsInside
<1>9. {Stack!Position(k)' : k \in Stack!PrintedLines'} = {q \in Stack!Done' : Stack!Shown(q)'}
  BY <1>5, <1>6, <1>8
<1> QED BY <1>7, <1>9 DEF Stack!PrintsWhatIsInside, Stack!Before

LEMMA GapsKept ==
  ASSUME WalkInv, NEW p, Behind(p), NEW last, PrintsLine(p, last), ~Stack!Hidden(p)',
         Stack!SymbolLines' = Stack!SymbolLines \/ Stack!SymbolLines' = Stack!SymbolLines \cup {last},
         NEW k \in Stack!SymbolLines
  PROVE  Stack!Gap(k)' = Stack!Gap(k)
<1>1. Stack!Done' = Stack!Done \cup {p}
  BY DEF Behind
<1>2. \A q \in Stack!Done : Stack!Hidden(q)' <=> Stack!Hidden(q)
  BY ShownAndHidden
<1>3. \A j \in Stack!SymbolLines : Stack!Position(j)' = Stack!Position(j)
  BY KeptLines DEF Stack!SymbolLines
<1>4. \A j : j \in Stack!SymbolLines' /\ j < k <=> j \in Stack!SymbolLines /\ j < k
  <2>1. k \in Nat /\ last \in Nat /\ k < last
    BY DEF PrintsLine, Stack!SymbolLines
  <2>2. ~(last < k)
    BY <2>1
  <2> QED BY <2>2
<1>5. ASSUME NEW q PROVE q \in Stack!Gap(k)' <=> q \in Stack!Gap(k)
  <2>1. q \in Stack!Gap(k)' <=>
          /\ q \in Stack!Done' /\ Stack!Hidden(q)' /\ Stack!Before(q, Stack!Position(k)')
          /\ \A j \in Stack!SymbolLines' : j < k => Stack!Before(Stack!Position(j)', q)
    BY SetsThen
  <2>2. q \in Stack!Gap(k) <=>
          /\ q \in Stack!Done /\ Stack!Hidden(q) /\ Stack!Before(q, Stack!Position(k))
          /\ \A j \in Stack!SymbolLines : j < k => Stack!Before(Stack!Position(j), q)
    BY SetsNow
  <2>3. (q \in Stack!Done' /\ Stack!Hidden(q)') <=> (q \in Stack!Done /\ Stack!Hidden(q))
    BY <1>1, <1>2
  <2>4. (\A j \in Stack!SymbolLines' : j < k => Stack!Before(Stack!Position(j)', q))
          <=> (\A j \in Stack!SymbolLines : j < k => Stack!Before(Stack!Position(j), q))
    BY <1>3, <1>4
  <2> QED BY <1>3, <2>1, <2>2, <2>3, <2>4
<1> QED BY <1>5

LEMMA WalkRaw ==
  ASSUME WalkInv, NEW p, Behind(p), NEW last, PrintsLine(p, last), Stack!SymbolLines' = Stack!SymbolLines,
         Stack!Shown(p)', ~Stack!Hidden(p)', print' <=> InsideNow',
         first_omit' = first_omit, omitted_count' = omitted_count
  PROVE  WalkInv'
<1>1. Stack!Done' = Stack!Done \cup {p}
  BY DEF Behind
<1>2. \A q \in Stack!Done : Stack!Hidden(q)' <=> Stack!Hidden(q)
  BY ShownAndHidden
<1>3. \A k \in Stack!SymbolLines : /\ Stack!Position(k)' = Stack!Position(k)
                                   /\ Stack!Announced(k)' <=> Stack!Announced(k)
                                   /\ Stack!Announced(k) => lines'[k - 1] = lines[k - 1]
  BY KeptLines DEF Stack!SymbolLines
<1>4. \A k \in Stack!SymbolLines : Stack!Gap(k)' = Stack!Gap(k)
  BY GapsKept
<1>5. Stack!Waiting' = Stack!Waiting
  <2>1. ASSUME NEW q PROVE q \in Stack!Waiting' <=> q \in Stack!Waiting
    BY <1>1, <1>2, <1>3, SetsNow, SetsThen
  <2> QED BY <2>1
<1>6. Stack!OmissionsAccounted'
  <2>1. Stack!GapsAnnounced'
    BY <1>3, <1>4 DEF WalkInv, Stack!OmissionsAccounted, Stack!GapsAnnounced
  <2>2. omitted_count' = Stack!Cardinality(Stack!Waiting)
    BY DEF WalkInv, Stack!OmissionsAccounted
  <2> QED BY <1>5, <2>1, <2>2, CardinalityHere DEF Stack!OmissionsAccounted
<1>7. IsFiniteSet(Stack!Done')
  BY <1>1, FS_AddElement DEF WalkInv
<1>8. first_omit' <=> \A j \in Stack!SymbolLines' : Stack!Gap(j)' = {}
  BY <1>4 DEF WalkInv
<1> QED BY <1>6, <1>7, <1>8, ShownInside DEF WalkInv

(* What has waited is the gap in front of a symbol that is shown.          *)
LEMMA WalkSymbol ==
  ASSUME WalkInv, NEW p, Behind(p), NEW last, PrintsLine(p, last),
         Stack!SymbolLines' = Stack!SymbolLines \cup {last}, omitted_count \in Nat, first_omit \in BOOLEAN,
         Stack!Shown(p)', ~Stack!Hidden(p)', print' <=> InsideNow',
         first_omit' = (first_omit /\ omitted_count = 0), omitted_count' = 0,
         Stack!Announced(last)' <=> omitted_count > 0 /\ ~first_omit,
         Stack!Announced(last)' => lines'[last - 1].count = omitted_count
  PROVE  WalkInv'
<1>1. Stack!Done' = Stack!Done \cup {p} /\ p \notin Stack!Done
      /\ \A q \in Stack!Done : Stack!Before(q, p) /\ ~Stack!Before(p, q)
  BY BehindFacts DEF Behind
<1>2. \A q \in Stack!Done : Stack!Hidden(q)' <=> Stack!Hidden(q)
  BY ShownAndHidden
<1>3. \A k \in Stack!SymbolLines : /\ Stack!Position(k)' = Stack!Position(k)
                                   /\ Stack!Announced(k)' <=> Stack!Announced(k)
                                   /\ Stack!Announced(k) => lines'[k - 1] = lines[k - 1]
  BY KeptLines DEF Stack!SymbolLines
<1>4. \A k \in Stack!SymbolLines : Stack!Gap(k)' = Stack!Gap(k)
  BY GapsKept
<1>5. Stack!Position(last)' = p /\ \A k \in Stack!SymbolLines : k < last /\ ~(last < k)
  BY DEF PrintsLine, Stack!SymbolLines
<1>6. Stack!Gap(last)' = Stack!Waiting
  <2>1. ASSUME NEW q PROVE q \in Stack!Gap(last)' <=> q \in Stack!Waiting
    <3>1. q \in Stack!Gap(last)' <=>
            /\ q \in Stack!Done' /\ Stack!Hidden(q)' /\ Stack!Before(q, p)
            /\ \A j \in Stack!SymbolLines' : j < last => Stack!Before(Stack!Position(j)', q)
      BY <1>5, SetsThen
    <3>2. q \in Stack!Waiting <=>
            /\ q \in Stack!Done /\ Stack!Hidden(q)
            /\ \A j \in Stack!SymbolLines : Stack!Before(Stack!Position(j), q)
      BY SetsNow
    <3>3. ~(last < last)
      BY DEF PrintsLine
    <3>4. (\A j \in Stack!SymbolLines' : j < last => Stack!Before(Stack!Position(j)', q))
            <=> (\A j \in Stack!SymbolLines : Stack!Before(Stack!Position(j), q))
      BY <1>3, <1>5, <3>3
    <3>5. (q \in Stack!Done' /\ Stack!Hidden(q)' /\ Stack!Before(q, p)) <=> (q \in Stack!Done /\ Stack!Hidden(q))
      BY <1>1, <1>2
    <3> QED BY <3>1, <3>2, <3>4, <3>5
  <2> QED BY <2>1
<1>7. Stack!Waiting' = {}
  <2>1. ASSUME NEW q, q \in Stack!Waiting' PROVE FALSE
    <3>1. q \in Stack!Done' /\ Stack!Hidden(q)' /\ Stack!Before(p, q)
      BY <1>5, <2>1, SetsThen
    <3> QED BY <1>1, <3>1
  <2> QED BY <2>1
<1>8. IsFiniteSet(Stack!Done') /\ IsFiniteSet(Stack!Waiting)
  <2>1. IsFiniteSet(Stack!Done) /\ Stack!Waiting \subseteq Stack!Done
    BY SetsNow DEF WalkInv
  <2> QED BY <1>1, <2>1, FS_AddElement, FS_Subset
<1>9. omitted_count = Cardinality(Stack!Waiting) /\ (omitted_count = 0 <=> Stack!Waiting = {})
  BY <1>8, CardinalityHere, FS_EmptySet DEF WalkInv, Stack!OmissionsAccounted
<1>10. first_omit <=> \A j \in Stack!SymbolLines : Stack!Gap(j) = {}
  BY DEF WalkInv
<1>11. omitted_count > 0 <=> Stack!Waiting # {}
  BY <1>9
<1>12. first_omit' <=> \A j \in Stack!SymbolLines' : Stack!Gap(j)' = {}
  <2>1. first_omit' <=> (first_omit /\ Stack!Waiting = {})
    BY <1>9
  <2> QED BY <1>4, <1>6, <1>10, <2>1
<1>13. Stack!GapsAnnounced'
  <2>1. ASSUME NEW k \in Stack!SymbolLines'
        PROVE  /\ Stack!Announced(k)' <=>
                    Stack!Gap(k)' # {} /\ \E j \in Stack!SymbolLines' : j < k /\ Stack!Gap(j)' # {}
               /\ Stack!Announced(k)' => lines'[k - 1].count = Cardinality(Stack!Gap(k)')
    <3>1. CASE k \in Stack!SymbolLines
      <4>1. /\ Stack!Announced(k) <=> Stack!Gap(k) # {} /\ \E j \in Stack!SymbolLines : j < k /\ Stack!Gap(j) # {}
            /\ Stack!Announced(k) => lines[k - 1].count = Cardinality(Stack!Gap(k))
        BY <3>1, CardinalityHere DEF WalkInv, Stack!OmissionsAccounted, Stack!GapsAnnounced
      <4>2. (\E j \in Stack!SymbolLines' : j < k /\ Stack!Gap(j)' # {})
              <=> (\E j \in Stack!SymbolLines : j < k /\ Stack!Gap(j) # {})
        BY <1>4, <1>5, <3>1
      <4> QED BY <1>3, <1>4, <3>1, <4>1, <4>2
    <3>2. CASE k = last
      <4>1. (\E j \in Stack!SymbolLines' : j < k /\ Stack!Gap(j)' # {})
              <=> (\E j \in Stack!SymbolLines : Stack!Gap(j) # {})
        <5>1. ~(last < last)
          BY DEF PrintsLine
        <5> QED BY <1>4, <1>5, <3>2, <5>1
      <4>2. ~first_omit <=> \E j \in Stack!SymbolLines : Stack!Gap(j) # {}
        BY <1>10
      <4>3. Stack!Announced(k)' <=> Stack!Waiting # {} /\ ~first_omit
        BY <1>11, <3>2
      <4>4. Stack!Announced(k)' => lines'[k - 1].count = Cardinality(Stack!Gap(k)')
        BY <1>6, <1>9, <3>2
      <4> QED BY <1>6, <3>2, <4>1, <4>2, <4>3, <4>4
    <3> QED BY <3>1, <3>2
  <2> QED BY <2>1, CardinalityHere DEF Stack!GapsAnnounced
<1>14. Stack!OmissionsAccounted'
  <2>1. Cardinality(Stack!Waiting') = 0
    BY <1>7, FS_EmptySet
  <2> QED BY <1>13, <2>1, CardinalityHere DEF Stack!OmissionsAccounted
<1> QED BY <1>8, <1>12, <1>14, ShownInside DEF WalkInv

(* One line, or two of which the first announces, behind those there were. *)
LEMMA LinePrinted ==
  ASSUME BtInv, NEW last, last = Len(lines) + 1, NEW line \in Line,
         line.kind \in {"symbol", "raw"}, lines' = Append(lines, line)
  PROVE  /\ PrintsLine(<<line.frame, line.sym>>, last)
         /\ line.kind = "raw" => Stack!SymbolLines' = Stack!SymbolLines
         /\ line.kind = "symbol" => Stack!SymbolLines' = Stack!SymbolLines \cup {last}
         /\ ~Stack!Announced(last)'
<1>1. lines \in Seq(Line) /\ Len(lines) \in Nat /\ DOMAIN lines = 1 .. Len(lines)
  BY LenProperties DEF BtInv, BtTypes
<1>2. /\ DOMAIN lines' = 1 .. Len(lines) + 1
      /\ \A k \in 1 .. Len(lines) : lines'[k] = lines[k]
      /\ lines'[Len(lines) + 1] = line
  BY <1>1, AppendProperties
<1>3. \A k : k \in 1 .. Len(lines) + 1 <=> k \in 1 .. Len(lines) \/ k = Len(lines) + 1
  BY <1>1
<1>4. /\ Stack!PrintedLines' = Stack!PrintedLines \cup {last}
      /\ line.kind = "raw" => Stack!SymbolLines' = Stack!SymbolLines
      /\ line.kind = "symbol" => Stack!SymbolLines' = Stack!SymbolLines \cup {last}
  BY <1>1, <1>2, <1>3 DEF Stack!PrintedLines, Stack!SymbolLines
<1>5. Stack!Position(last)' = <<line.frame, line.sym>>
  <2>1. Stack!Position(last)' = <<lines'[last].frame, lines'[last].sym>>
    BY <1>2 DEF Stack!Position
  <2> QED BY <1>2, <2>1
<1>6. PrintsLine(<<line.frame, line.sym>>, last)
  <2>1. last \in Nat \ {0}
    BY <1>1
  <2>2. \A k \in DOMAIN lines : k \in Nat \ {0} /\ k < last /\ (k > 1 => k - 1 \in DOMAIN lines)
    BY <1>1
  <2> QED BY <1>1, <1>2, <1>4, <1>5, <2>1, <2>2 DEF PrintsLine
<1>7. ~Stack!Announced(last)'
  <2>1. CASE Len(lines) = 0
    <3>1. ~(last > 1)
      BY <2>1
    <3> QED BY <3>1 DEF Stack!Announced
  <2>2. CASE Len(lines) # 0
    <3>1. Len(lines) \in 1 .. Len(lines) /\ last - 1 = Len(lines)
      BY <1>1, <2>2
    <3>2. lines # <<>> /\ lines'[last - 1] = lines[Len(lines)]
      BY <1>2, <2>2, <3>1
    <3> QED BY <3>2 DEF BtInv, Stack!Announced
  <2> QED BY <2>1, <2>2
<1> QED BY <1>4, <1>6, <1>7

LEMMA LinesPrinted ==
  ASSUME BtInv, NEW last, last = Len(lines) + 2, NEW word \in Line, NEW line \in Line,
         word.kind = "omitted", line.kind = "symbol", lines' = Append(Append(lines, word), line)
  PROVE  /\ PrintsLine(<<line.frame, line.sym>>, last)
         /\ Stack!SymbolLines' = Stack!SymbolLines \cup {last}
         /\ Stack!Announced(last)' /\ lines'[last - 1] = word
<1>1. lines \in Seq(Line) /\ Len(lines) \in Nat /\ DOMAIN lines = 1 .. Len(lines)
  BY LenProperties DEF BtInv, BtTypes
<1> DEFINE m == Append(lines, word)
<1>2. /\ m \in Seq(Line) /\ Len(m) = Len(lines) + 1
      /\ \A k \in 1 .. Len(lines) : m[k] = lines[k]
      /\ m[Len(lines) + 1] = word
  BY <1>1, AppendProperties
<1>3. /\ DOMAIN lines' = 1 .. Len(m) + 1
      /\ \A k \in 1 .. Len(m) : lines'[k] = m[k]
      /\ lines'[Len(m) + 1] = line
  BY <1>2, AppendProperties
<1> HIDE DEF m
<1>4. /\ DOMAIN lines' = 1 .. Len(lines) + 2
      /\ \A k \in 1 .. Len(lines) : lines'[k] = lines[k]
      /\ lines'[Len(lines) + 1] = word
      /\ lines'[Len(lines) + 2] = line
  BY <1>1, <1>2, <1>3
<1>5. \A k : k \in 1 .. Len(lines) + 2 <=> k \in 1 .. Len(lines) \/ k = Len(lines) + 1 \/ k = Len(lines) + 2
  BY <1>1
<1>6. /\ Stack!PrintedLines' = Stack!PrintedLines \cup {last}
      /\ Stack!SymbolLines' = Stack!SymbolLines \cup {last}
  BY <1>1, <1>4, <1>5 DEF Stack!PrintedLines, Stack!SymbolLines
<1>7. Stack!Position(last)' = <<line.frame, line.sym>>
  <2>1. Stack!Position(last)' = <<lines'[last].frame, lines'[last].sym>>
    BY <1>4 DEF Stack!Position
  <2> QED BY <1>4, <2>1
<1>8. PrintsLine(<<line.frame, line.sym>>, last)
  <2>1. last \in Nat \ {0}
    BY <1>1
  <2>2. \A k \in DOMAIN lines : k \in Nat \ {0} /\ k < last /\ (k > 1 => k - 1 \in DOMAIN lines)
    BY <1>1
  <2> QED BY <1>1, <1>4, <1>6, <1>7, <2>1, <2>2 DEF PrintsLine
<1>9. Stack!Announced(last)' /\ lines'[last - 1] = word
  <2>1. last - 1 = Len(lines) + 1 /\ last > 1
    BY <1>1
  <2>2. Stack!Announced(last)' <=>
          last > 1 /\ lines'[last - 1].kind = "omitted"
    BY <1>4 DEF Stack!Announced
  <2> QED BY <1>4, <2>1, <2>2
<1> QED BY <1>6, <1>8, <1>9

LEMMA SymbolBehind ==
  ASSUME BtTypes, Stack!AtSymbol, idx' = idx, sym' = sym + 1, pc' = pc, trace' = trace,
         print_fmt' = print_fmt
  PROVE  \E p : p = <<idx + 1, sym + 1>> /\ Behind(p) /\ Stack!At(p) = Stack!Symbol
<1>1. PICK p : p = <<idx + 1, sym + 1>>
  OBVIOUS
<1>2. Behind(p)
  BY <1>1, DoneAtSymbol, DoneElements DEF Behind
<1> QED BY <1>1, <1>2, DoneAtSymbol

LEMMA SymbolTypes ==
  ASSUME BtTypes, Stack!AtSymbol
  PROVE  /\ Stack!Symbol \in {Stack!Begin, Stack!End, Stack!Named, Stack!Unnamed}
         /\ Stack!Symbol \in {Stack!Begin, Stack!End} => sym + 1 = Len(trace[idx + 1])
<1>1. trace \in Traces /\ trace \in Seq(Seq({Stack!Begin, Stack!End, Stack!Named, Stack!Unnamed}))
  BY StackAssumption DEF BtTypes, Stack!TracesAssumption
<1>2. idx \in Nat /\ sym \in Nat /\ idx < Len(trace) /\ sym + 1 <= Len(trace[idx + 1]) /\ Len(trace) \in Nat
  BY SymbolFacts
<1>3. idx + 1 \in 1 .. Len(trace)
  BY <1>2
<1>4. trace[idx + 1] \in Seq({Stack!Begin, Stack!End, Stack!Named, Stack!Unnamed})
  BY <1>1, <1>3, ElementOfSeq
<1>5. Len(trace[idx + 1]) \in Nat
  BY <1>4, LenProperties
<1>6. sym + 1 \in 1 .. Len(trace[idx + 1])
  BY <1>2, <1>5
<1>7. trace[idx + 1][sym + 1] \in {Stack!Begin, Stack!End, Stack!Named, Stack!Unnamed}
  BY <1>4, <1>6, ElementOfSeq
<1>8. idx + 1 \in DOMAIN trace /\ sym + 1 \in DOMAIN trace[idx + 1]
  BY <1>1, <1>3, <1>4, <1>6, LenProperties
<1>9. trace[idx + 1][sym + 1] \in {Stack!Begin, Stack!End} => sym + 1 = Len(trace[idx + 1])
  BY <1>1, <1>8, StackAssumption DEF Stack!TracesAssumption
<1> QED BY <1>7, <1>9 DEF Stack!Symbol, Stack!Frame

LEMMA WalkMarker ==
  ASSUME BtInv, WalkInv, Stack!Marker
  PROVE  WalkInv'
<1>1. /\ trace' = trace /\ print_fmt' = print_fmt /\ idx' = idx /\ pc' = pc /\ sym' = sym + 1
      /\ omitted_count' = omitted_count /\ first_omit' = first_omit /\ lines' = lines
      /\ Stack!AtSymbol /\ Stack!IsMarker /\ print' = (Stack!Symbol = Stack!End)
  BY DEF Stack!Marker, Stack!input, Stack!omission
<1>2. BtTypes /\ omitted_count \in Nat
  BY DEF BtInv, BtTypes, Stack!TypeOK
<1>3. PICK p : Behind(p) /\ Stack!At(p) = Stack!Symbol
  BY <1>1, <1>2, SymbolBehind
<1>4. Stack!Short /\ (Stack!Symbol = Stack!End \/ (InsideNow /\ Stack!Symbol = Stack!Begin))
  BY <1>1 DEF Stack!IsMarker, WalkInv
<1>5. Stack!End # Stack!Begin
  BY DEF Stack!End, Stack!Begin
<1>6. ~Stack!Shown(p)' /\ ~Stack!Hidden(p)'
  BY <1>3, <1>4, ShownAndHidden
<1>7. print' <=> InsideNow'
  BY <1>1, <1>3, <1>4, <1>5, InsideNext
<1> QED BY <1>1, <1>2, <1>3, <1>6, <1>7, WalkQuiet

LEMMA WalkOmit ==
  ASSUME BtInv, WalkInv, Stack!Omit
  PROVE  WalkInv'
<1>1. /\ trace' = trace /\ print_fmt' = print_fmt /\ idx' = idx /\ pc' = pc /\ sym' = sym + 1
      /\ first_omit' = first_omit /\ lines' = lines /\ print' = print
      /\ Stack!AtSymbol /\ ~Stack!IsMarker /\ ~print
      /\ omitted_count' = IF Stack!HasName THEN omitted_count + 1 ELSE omitted_count
  BY DEF Stack!Omit, Stack!input
<1>2. BtTypes /\ omitted_count \in Nat
  BY DEF BtInv, BtTypes, Stack!TypeOK
<1>3. PICK p : p = <<idx + 1, sym + 1>> /\ Behind(p) /\ Stack!At(p) = Stack!Symbol
  BY <1>1, <1>2, SymbolBehind
<1>4. Stack!Short /\ ~InsideNow /\ Stack!Symbol # Stack!End
  BY <1>1 DEF Stack!IsMarker, WalkInv, InsideNow
<1>5. Stack!Symbol # "raw"
  <2>1. Stack!Symbol \in {Stack!Begin, Stack!End, Stack!Named, Stack!Unnamed}
    BY <1>1, <1>2, SymbolTypes
  <2> QED BY <2>1 DEF Stack!Begin, Stack!End, Stack!Named, Stack!Unnamed
<1>6. ~Stack!Shown(p)' /\ (Stack!Hidden(p)' <=> Stack!HasName)
  BY <1>3, <1>4, <1>5, ShownAndHidden DEF Stack!HasName
<1>7. print' <=> InsideNow'
  BY <1>1, <1>3, <1>4, InsideNext
<1>8. omitted_count' = IF Stack!Hidden(p)' THEN omitted_count + 1 ELSE omitted_count
  BY <1>1, <1>6
<1> QED BY <1>1, <1>2, <1>3, <1>6, <1>7, <1>8, WalkQuiet

LEMMA WalkShow ==
  ASSUME BtInv, WalkInv, NEW outcome, Stack!Show(outcome)
  PROVE  WalkInv'
<1> DEFINE announced == omitted_count > 0 /\ ~first_omit
<1>1. /\ trace' = trace /\ print_fmt' = print_fmt /\ idx' = idx /\ pc' = pc /\ sym' = sym + 1 /\ print' = print
      /\ Stack!AtSymbol /\ ~Stack!IsMarker /\ print
      /\ first_omit' = (first_omit /\ omitted_count = 0) /\ omitted_count' = 0
      /\ lines' = lines \o (IF announced THEN <<Stack!OmittedLine>> ELSE <<>>) \o <<Stack!SymbolLine>>
  BY DEF Stack!Show, Stack!input
<1>2. BtTypes /\ omitted_count \in Nat /\ first_omit \in BOOLEAN /\ lines \in Seq(Line)
  BY DEF BtInv, BtTypes, Stack!TypeOK
<1>3. PICK p : p = <<idx + 1, sym + 1>> /\ Behind(p) /\ Stack!At(p) = Stack!Symbol
  BY <1>1, <1>2, SymbolBehind
<1>4. InsideNow /\ (Stack!Short => Stack!Symbol \notin {Stack!Begin, Stack!End})
  BY <1>1 DEF Stack!IsMarker, WalkInv
<1>5. Stack!Shown(p)' /\ ~Stack!Hidden(p)'
  BY <1>3, <1>4, ShownAndHidden
<1>6. print' <=> InsideNow'
  BY <1>1, <1>3, <1>4, InsideNext
<1>7. /\ Stack!SymbolLine \in Line /\ Stack!SymbolLine.kind = "symbol"
      /\ <<Stack!SymbolLine.frame, Stack!SymbolLine.sym>> = p
  <2>1. idx + 1 \in Nat /\ sym + 1 \in Nat
    BY <1>1, <1>2, SymbolFacts
  <2> QED BY <1>3, <2>1 DEF Line, Stack!SymbolLine
<1>8. /\ Stack!OmittedLine \in Line /\ Stack!OmittedLine.kind = "omitted"
      /\ Stack!OmittedLine.count = omitted_count
  BY <1>2 DEF Line, Stack!OmittedLine
<1>9. CASE ~announced
  <2>0. lines' = lines \o <<>> \o <<Stack!SymbolLine>>
    BY <1>1, <1>9
  <2>1. lines' = Append(lines, Stack!SymbolLine)
    <3>1. lines \o <<>> = lines
      BY <1>2, ConcatEmptySeq
    <3> QED BY <1>2, <1>7, <2>0, <3>1
  <2>2. PICK last : last = Len(lines) + 1
    OBVIOUS
  <2>3. PrintsLine(p, last) /\ Stack!SymbolLines' = Stack!SymbolLines \cup {last} /\ ~Stack!Announced(last)'
    BY <1>7, <2>1, <2>2, LinePrinted
  <2> QED BY <1>1, <1>2, <1>3, <1>5, <1>6, <1>9, <2>3, WalkSymbol
<1>10. CASE announced
  <2>1. lines' = Append(Append(lines, Stack!OmittedLine), Stack!SymbolLine)
    BY <1>1, <1>2, <1>7, <1>8, <1>10
  <2>2. PICK last : last = Len(lines) + 2
    OBVIOUS
  <2>3. /\ PrintsLine(p, last) /\ Stack!SymbolLines' = Stack!SymbolLines \cup {last}
        /\ Stack!Announced(last)' /\ lines'[last - 1].count = omitted_count
    BY <1>7, <1>8, <2>1, <2>2, LinesPrinted
  <2> QED BY <1>1, <1>2, <1>3, <1>5, <1>6, <1>10, <2>3, WalkSymbol
<1> QED BY <1>9, <1>10

LEMMA WalkFrameEnds ==
  ASSUME BtInv, WalkInv, NEW outcome, Stack!FrameEnds(outcome)
  PROVE  WalkInv'
<1>1. /\ trace' = trace /\ print_fmt' = print_fmt /\ idx' = idx + 1 /\ print' = print
      /\ omitted_count' = omitted_count /\ first_omit' = first_omit
      /\ pc' \in {"frame", "done"} /\ pc = "symbols" /\ sym = Len(Stack!Frame)
      /\ Stack!Frame = <<>> /\ print => lines' = Append(lines, Stack!RawLine)
      /\ ~(Stack!Frame = <<>> /\ print) => lines' = lines
  BY DEF Stack!FrameEnds, Stack!input, Stack!omission
<1>2. BtTypes /\ omitted_count \in Nat /\ idx \in Nat
  BY TraceFacts DEF BtInv, BtTypes, Stack!TypeOK
<1>3. CASE Stack!Frame # <<>>
  BY <1>1, <1>2, <1>3, DoneAtEnd, WalkSame
<1>4. CASE Stack!Frame = <<>>
  <2>1. PICK p : p = <<idx + 1, 0>>
    OBVIOUS
  <2>2. Behind(p) /\ Stack!At(p) = "raw"
    BY <1>1, <1>2, <1>4, <2>1, DoneAtEnd, DoneElements DEF Behind
  <2>3. "raw" \notin {Stack!Begin, Stack!End}
    BY DEF Stack!Begin, Stack!End
  <2>4. (Stack!Shown(p)' <=> InsideNow) /\ ~Stack!Hidden(p)'
    BY <2>2, <2>3, ShownAndHidden
  <2>5. (print <=> InsideNow) /\ (InsideNow' <=> InsideNow)
    BY <2>2, <2>3, InsideNext DEF WalkInv, InsideNow
  <2>6. print' <=> InsideNow'
    BY <1>1, <2>5
  <2>7. CASE ~print
    BY <1>1, <1>2, <2>2, <2>4, <2>5, <2>6, <2>7, WalkQuiet
  <2>8. CASE print
    <3>1. /\ Stack!RawLine \in Line /\ Stack!RawLine.kind = "raw"
          /\ <<Stack!RawLine.frame, Stack!RawLine.sym>> = p
      <4>1. idx + 1 \in Nat
        BY <1>2
      <4> QED BY <2>1, <4>1 DEF Line, Stack!RawLine
    <3>2. PICK last : last = Len(lines) + 1
      OBVIOUS
    <3>3. lines' = Append(lines, Stack!RawLine)
      BY <1>1, <1>4, <2>8
    <3>4. PrintsLine(p, last) /\ Stack!SymbolLines' = Stack!SymbolLines
      BY <3>1, <3>2, <3>3, LinePrinted
    <3> QED BY <1>1, <2>2, <2>4, <2>5, <2>6, <2>8, <3>4, WalkRaw
  <2> QED BY <2>7, <2>8
<1> QED BY <1>3, <1>4

LEMMA WalkNextFrame ==
  ASSUME BtInv, WalkInv, Stack!NextFrame \/ Stack!TraceEnds
  PROVE  WalkInv'
<1>1. /\ trace' = trace /\ print_fmt' = print_fmt /\ idx' = idx /\ print' = print
      /\ omitted_count' = omitted_count /\ first_omit' = first_omit /\ lines' = lines
      /\ pc = "frame" /\ pc' \in {"symbols", "done"}
      /\ pc' = "symbols" => sym' = 0
  BY DEF Stack!NextFrame, Stack!TraceEnds, Stack!input, Stack!omission
<1>2. Stack!Done' = Stack!Done
  BY <1>1, DoneAtFrame DEF BtInv
<1> QED BY <1>1, <1>2, WalkSame

(* The first frame is never printed, and none behind MAX_NB_FRAMES + 1.    *)
FramesInv ==
  Stack!Short =>
    /\ pc = "symbols" => idx <= MAX_NB_FRAMES
    /\ idx = 0 /\ print => pc = "symbols" /\ sym > 0 /\ sym = Len(trace[idx + 1])
    /\ \A k \in Stack!PrintedLines : lines[k].frame \in 2 .. MAX_NB_FRAMES + 1

LEMMA FramesStart == Stack!Init => FramesInv
<1> SUFFICES ASSUME Stack!Init PROVE FramesInv
  OBVIOUS
<1>1. pc = "frame" /\ print = ~Stack!Short /\ lines = <<>>
  BY DEF Stack!Init
<1>2. Stack!PrintedLines = {}
  BY <1>1 DEF Stack!PrintedLines
<1> QED BY <1>1, <1>2 DEF FramesInv

LEMMA FramesQuiet ==
  ASSUME FramesInv, lines' = lines, print_fmt' = print_fmt,
         Stack!Short /\ pc' = "symbols" => idx' <= MAX_NB_FRAMES,
         Stack!Short => (idx' = 0 /\ print' => pc' = "symbols" /\ sym' > 0 /\ sym' = Len(trace'[idx' + 1]))
  PROVE  FramesInv'
<1>1. Stack!PrintedLines' = Stack!PrintedLines /\ (Stack!Short' <=> Stack!Short)
  BY DEF Stack!PrintedLines, Stack!Short
<1> QED BY <1>1 DEF FramesInv

LEMMA FramesNextFrame ==
  ASSUME BtInv, FramesInv, Stack!NextFrame \/ Stack!TraceEnds
  PROVE  FramesInv'
<1>1. /\ print_fmt' = print_fmt /\ idx' = idx /\ print' = print /\ lines' = lines /\ pc = "frame"
      /\ Stack!Short /\ pc' = "symbols" => ~(idx > MAX_NB_FRAMES)
  BY DEF Stack!NextFrame, Stack!TraceEnds, Stack!Enough, Stack!input, Stack!omission
<1>2. idx \in Nat /\ MAX_NB_FRAMES \in Nat
  BY StackAssumption, TraceFacts DEF BtInv, BtTypes, Stack!TypeOK, Stack!MaxAssumption
<1>3. Stack!Short /\ pc' = "symbols" => idx' <= MAX_NB_FRAMES
  <2>1. ~(idx > MAX_NB_FRAMES) => idx <= MAX_NB_FRAMES
    BY <1>2
  <2> QED BY <1>1, <2>1
<1>4. Stack!Short => ~(idx = 0 /\ print)
  BY <1>1 DEF FramesInv
<1> QED BY <1>1, <1>3, <1>4, FramesQuiet

LEMMA FramesSymbolQuiet ==
  ASSUME BtInv, FramesInv, Stack!Marker \/ Stack!Omit
  PROVE  FramesInv'
<1>1. /\ print_fmt' = print_fmt /\ trace' = trace /\ idx' = idx /\ lines' = lines /\ pc' = pc /\ sym' = sym + 1
      /\ Stack!AtSymbol
      /\ print' = print \/ print' = (Stack!Symbol = Stack!End)
  BY DEF Stack!Marker, Stack!Omit, Stack!input, Stack!omission
<1>2. /\ pc = "symbols" /\ sym \in Nat /\ idx < Len(trace) /\ sym + 1 <= Len(trace[idx + 1])
      /\ Stack!Symbol = Stack!End => sym + 1 = Len(trace[idx + 1])
  BY <1>1, SymbolFacts, SymbolTypes DEF BtInv
<1>3. Len(trace[idx + 1]) \in Nat
  BY <1>1, SymbolFacts DEF BtInv
<1>4. sym + 1 > 0 /\ sym # Len(trace[idx + 1])
  BY <1>2, <1>3
<1>5. Stack!Short /\ pc' = "symbols" => idx' <= MAX_NB_FRAMES
  BY <1>1 DEF FramesInv
<1>6. Stack!Short => (idx' = 0 /\ print' => pc' = "symbols" /\ sym' > 0 /\ sym' = Len(trace'[idx' + 1]))
  <2> SUFFICES ASSUME Stack!Short, idx' = 0, print'
               PROVE  pc' = "symbols" /\ sym' > 0 /\ sym' = Len(trace'[idx' + 1])
    OBVIOUS
  <2>1. ~print
    BY <1>1, <1>4 DEF FramesInv
  <2> QED BY <1>1, <1>2, <1>4, <2>1
<1> QED BY <1>1, <1>5, <1>6, FramesQuiet

(* A line is printed in a frame that is counted.                           *)
LEMMA FramesPrinted ==
  ASSUME BtInv, FramesInv, print_fmt' = print_fmt, NEW p, NEW last, PrintsLine(p, last), p[1] = idx + 1,
         pc = "symbols", Stack!Short => idx # 0,
         pc' = "symbols" => idx' = idx, idx' # 0 \/ idx' = idx
  PROVE  FramesInv'
<1> SUFFICES ASSUME Stack!Short PROVE FramesInv'
  BY DEF FramesInv, Stack!Short
<1>1. idx \in Nat /\ MAX_NB_FRAMES \in Nat /\ idx # 0 /\ idx <= MAX_NB_FRAMES
  BY StackAssumption, TraceFacts DEF BtInv, BtTypes, Stack!TypeOK, Stack!MaxAssumption, FramesInv
<1>2. idx + 1 \in 2 .. MAX_NB_FRAMES + 1
  BY <1>1
<1>3. Stack!PrintedLines' = Stack!PrintedLines \cup {last} /\ Stack!Position(last)' = p
      /\ \A k \in Stack!PrintedLines : lines'[k] = lines[k]
  BY DEF PrintsLine, Stack!PrintedLines
<1>4. lines'[last].frame = idx + 1
  BY <1>3 DEF Stack!Position
<1>5. \A k \in Stack!PrintedLines' : lines'[k].frame \in 2 .. MAX_NB_FRAMES + 1
  BY <1>2, <1>3, <1>4 DEF FramesInv
<1>6. pc' = "symbols" => idx' <= MAX_NB_FRAMES
  BY <1>1
<1>7. idx' # 0
  BY <1>1
<1> QED BY <1>5, <1>6, <1>7 DEF FramesInv

LEMMA FramesSuffice == FramesInv => Stack!FramesBounded
<1> SUFFICES ASSUME FramesInv, Stack!Short
             PROVE  Stack!Cardinality({lines[k].frame : k \in Stack!PrintedLines}) <= MAX_NB_FRAMES
  BY DEF Stack!FramesBounded
<1> DEFINE F == {lines[k].frame : k \in Stack!PrintedLines}
<1>1. MAX_NB_FRAMES \in Nat
  BY StackAssumption DEF Stack!MaxAssumption
<1>2. F \subseteq 2 .. MAX_NB_FRAMES + 1
  BY DEF FramesInv
<1> HIDE DEF F
<1>3. /\ IsFiniteSet(2 .. MAX_NB_FRAMES + 1)
      /\ Cardinality(2 .. MAX_NB_FRAMES + 1) = MAX_NB_FRAMES
  <2>1. 2 \in Int /\ MAX_NB_FRAMES + 1 \in Int
    BY <1>1
  <2>2. /\ IsFiniteSet(2 .. MAX_NB_FRAMES + 1)
        /\ Cardinality(2 .. MAX_NB_FRAMES + 1)
             = IF 2 > MAX_NB_FRAMES + 1 THEN 0 ELSE (MAX_NB_FRAMES + 1) - 2 + 1
    BY <2>1, FS_Interval
  <2> QED BY <1>1, <2>2
<1>4. Cardinality(F) <= MAX_NB_FRAMES
  BY <1>1, <1>2, <1>3, FS_Subset, FS_CardinalityType
<1> QED BY <1>4, CardinalityHere DEF F

LEMMA FramesShow ==
  ASSUME BtInv, FramesInv, NEW outcome, Stack!Show(outcome)
  PROVE  FramesInv'
<1> DEFINE announced == omitted_count > 0 /\ ~first_omit
<1>1. /\ print_fmt' = print_fmt /\ idx' = idx /\ Stack!AtSymbol /\ print
      /\ lines' = lines \o (IF announced THEN <<Stack!OmittedLine>> ELSE <<>>) \o <<Stack!SymbolLine>>
  BY DEF Stack!Show, Stack!input
<1>2. omitted_count \in Nat /\ lines \in Seq(Line)
  BY DEF BtInv, BtTypes, Stack!TypeOK
<1>3. /\ pc = "symbols" /\ idx \in Nat /\ sym \in Nat /\ Len(trace[idx + 1]) \in Nat
      /\ sym + 1 <= Len(trace[idx + 1])
  BY <1>1, SymbolFacts DEF BtInv
<1>4. Stack!Short => idx # 0
  <2>1. sym # Len(trace[idx + 1])
    BY <1>3
  <2> QED BY <1>1, <2>1 DEF FramesInv
<1>5. PICK p : p = <<idx + 1, sym + 1>>
  OBVIOUS
<1>6. /\ Stack!SymbolLine \in Line /\ Stack!SymbolLine.kind = "symbol"
      /\ <<Stack!SymbolLine.frame, Stack!SymbolLine.sym>> = p
  <2>1. idx + 1 \in Nat /\ sym + 1 \in Nat
    BY <1>3
  <2> QED BY <1>5, <2>1 DEF Line, Stack!SymbolLine
<1>7. Stack!OmittedLine \in Line /\ Stack!OmittedLine.kind = "omitted"
  BY <1>2 DEF Line, Stack!OmittedLine
<1>8. \E last : PrintsLine(p, last)
  <2>1. CASE ~announced
    <3>0. lines' = lines \o <<>> \o <<Stack!SymbolLine>>
      BY <1>1, <2>1
    <3>1. lines' = Append(lines, Stack!SymbolLine)
      <4>1. lines \o <<>> = lines
        BY <1>2, ConcatEmptySeq
      <4> QED BY <1>2, <1>6, <3>0, <4>1
    <3>2. PICK last : last = Len(lines) + 1
      OBVIOUS
    <3> QED BY <1>6, <3>1, <3>2, LinePrinted
  <2>2. CASE announced
    <3>1. lines' = Append(Append(lines, Stack!OmittedLine), Stack!SymbolLine)
      BY <1>1, <1>2, <1>6, <1>7, <2>2
    <3>2. PICK last : last = Len(lines) + 2
      OBVIOUS
    <3> QED BY <1>6, <1>7, <3>1, <3>2, LinesPrinted
  <2> QED BY <2>1, <2>2
<1>9. p[1] = idx + 1
  BY <1>5
<1> QED BY <1>1, <1>3, <1>4, <1>8, <1>9, FramesPrinted

LEMMA FramesFrameEnds ==
  ASSUME BtInv, FramesInv, NEW outcome, Stack!FrameEnds(outcome)
  PROVE  FramesInv'
<1>1. /\ print_fmt' = print_fmt /\ idx' = idx + 1 /\ pc' # "symbols" /\ pc = "symbols" /\ sym = Len(Stack!Frame)
      /\ Stack!Frame = <<>> /\ print => lines' = Append(lines, Stack!RawLine)
      /\ ~(Stack!Frame = <<>> /\ print) => lines' = lines
  BY DEF Stack!FrameEnds, Stack!input
<1>2. idx \in Nat
  BY TraceFacts DEF BtInv, BtTypes, Stack!TypeOK
<1>3. idx' # 0
  BY <1>1, <1>2
<1>4. CASE ~(Stack!Frame = <<>> /\ print)
  BY <1>1, <1>3, <1>4, FramesQuiet
<1>5. CASE Stack!Frame = <<>> /\ print
  <2>1. Stack!Short => idx # 0
    <3>1. ~(sym > 0)
      BY <1>1, <1>5
    <3> QED BY <1>5, <3>1 DEF FramesInv
  <2>2. PICK p : p = <<idx + 1, 0>>
    OBVIOUS
  <2>3. /\ Stack!RawLine \in Line /\ Stack!RawLine.kind = "raw"
        /\ <<Stack!RawLine.frame, Stack!RawLine.sym>> = p
    <3>1. idx + 1 \in Nat
      BY <1>2
    <3> QED BY <2>2, <3>1 DEF Line, Stack!RawLine
  <2>4. PICK last : last = Len(lines) + 1
    OBVIOUS
  <2>5. PrintsLine(p, last) /\ p[1] = idx + 1
    BY <1>1, <1>5, <2>2, <2>3, <2>4, LinePrinted
  <2> QED BY <1>1, <1>3, <2>1, <2>5, FramesPrinted
<1> QED BY <1>4, <1>5

StackInv == BtInv /\ WalkInv /\ FramesInv

LEMMA StackStarts == Stack!Init => StackInv
BY BtStarts, LinesStart, FramesStart DEF StackInv

LEMMA StackStep == StackInv /\ Stack!Next => StackInv'
<1> SUFFICES ASSUME StackInv, Stack!Next PROVE StackInv'
  OBVIOUS
<1>1. BtInv /\ WalkInv /\ FramesInv /\ BtInv'
  BY BtStep DEF StackInv
<1>2. CASE Stack!NextFrame \/ Stack!TraceEnds
  BY <1>1, <1>2, WalkNextFrame, FramesNextFrame DEF StackInv
<1>3. CASE Stack!Marker
  BY <1>1, <1>3, WalkMarker, FramesSymbolQuiet DEF StackInv
<1>4. CASE Stack!Omit
  BY <1>1, <1>4, WalkOmit, FramesSymbolQuiet DEF StackInv
<1>5. ASSUME NEW outcome, Stack!Show(outcome) PROVE StackInv'
  BY <1>1, <1>5, WalkShow, FramesShow DEF StackInv
<1>6. ASSUME NEW outcome, Stack!FrameEnds(outcome) PROVE StackInv'
  BY <1>1, <1>6, WalkFrameEnds, FramesFrameEnds DEF StackInv
<1> QED BY <1>2, <1>3, <1>4, <1>5, <1>6 DEF Stack!Next

LEMMA StackUnchanged ==
  ASSUME StackInv, trace' = trace, print_fmt' = print_fmt, idx' = idx, sym' = sym, print' = print,
         omitted_count' = omitted_count, first_omit' = first_omit, res' = res, lines' = lines, pc' = pc
  PROVE  StackInv'
<1>1. BtInv'
  BY BtUnchanged DEF StackInv
<1>2. Stack!Done' = Stack!Done
  BY DEF Stack!Done, Stack!Positions
<1>3. WalkInv'
  BY <1>2, WalkSame DEF StackInv
<1>4. FramesInv'
  BY FramesQuiet DEF StackInv, FramesInv
<1> QED BY <1>1, <1>3, <1>4 DEF StackInv

LEMMA StackSuffices == StackInv => Stack!BacktraceFaithful
BY FramesSuffice DEF StackInv, BtInv, BtTypes, WalkInv, Stack!BacktraceFaithful

-----------------------------------------------------------------------------
(* The composition.                                                        *)

AlgorithmsInv ==
  /\ part = "VAddr" => AddressesInv
  /\ part = "MemoryRegions" => RegionsInv
  /\ part = "Leb128" => LebInv
  /\ part = "Backtrace" => StackInv
  /\ part = "EhAction" => EhInv
  /\ part = "Elf" => ReaderInv
  /\ part = "PhysicalPages" => PhysicalInv
  /\ part = "Syscall" => CallsInv
  /\ part = "Helpers" => HelpInv

LEMMA AlgorithmsStart == Init => AlgorithmsInv
BY AddressesStart, RegionsStarts, LebStarts, StackStarts, ActionsStart, ReaderStarts, PhysicalStarts,
   CallsStarts, HelpStarts
DEF Init, AlgorithmsInv

LEMMA AlgorithmsStep == AlgorithmsInv /\ Next => AlgorithmsInv'
<1> SUFFICES ASSUME AlgorithmsInv, Next PROVE AlgorithmsInv'
  OBVIOUS
<1>1. CASE part = "VAddr" /\ Addresses!Next /\ part' = part
  BY <1>1, AddressesStep DEF AlgorithmsInv
<1>2. CASE part = "MemoryRegions" /\ Regions!Next /\ part' = part
  BY <1>2, RegionsStep DEF AlgorithmsInv
<1>3. CASE part = "Leb128" /\ Leb!Next /\ part' = part
  BY <1>3, LebStep DEF AlgorithmsInv
<1>4. CASE part = "Backtrace" /\ Stack!Next /\ part' = part
  BY <1>4, StackStep DEF AlgorithmsInv
<1>5. CASE part = "EhAction" /\ Actions!Next /\ part' = part
  BY <1>5, ActionsStep DEF AlgorithmsInv
<1>6. CASE part = "Elf" /\ Reader!Next /\ part' = part
  BY <1>6, ReaderStep DEF AlgorithmsInv
<1>7. CASE part = "PhysicalPages" /\ Physical!Next /\ part' = part
  BY <1>7, PhysicalStep DEF AlgorithmsInv
<1>8. CASE part = "Syscall" /\ Calls!Next /\ part' = part
  BY <1>8, CallsStep DEF AlgorithmsInv
<1>9. CASE part = "Helpers" /\ Help!Next /\ part' = part
  BY <1>9, HelpStep DEF AlgorithmsInv
<1> QED BY <1>1, <1>2, <1>3, <1>4, <1>5, <1>6, <1>7, <1>8, <1>9 DEF Next

LEMMA AlgorithmsUnchanged == AlgorithmsInv /\ UNCHANGED all => AlgorithmsInv'
<1> SUFFICES ASSUME AlgorithmsInv, UNCHANGED all PROVE AlgorithmsInv'
  OBVIOUS
<1>0. part' = part /\ pc' = pc /\ result' = result
  BY DEF all
<1>1. AddressesInv => AddressesInv'
  BY <1>0 DEF all, address, AddressesInv
<1>2. RegionsInv => RegionsInv'
  BY <1>0, RegionsUnchanged DEF all, firmware, memory
<1>3. LebInv => LebInv'
  BY <1>0, LebUnchanged DEF all, leb
<1>4. StackInv => StackInv'
  BY <1>0, StackUnchanged DEF all, bt
<1>5. EhInv => EhInv'
  BY <1>0, ActionsUnchanged DEF all, eh
<1>6. ReaderInv => ReaderInv'
  BY <1>0, ReaderUnchanged DEF all, elf
<1>7. PhysicalInv => PhysicalInv'
  BY <1>0, PhysicalUnchanged DEF all, firmware, pages
<1>8. CallsInv => CallsInv'
  BY <1>0, CallsUnchanged DEF all, abi
<1>9. HelpInv => HelpInv'
  BY <1>0, HelpUnchanged DEF all, helpers
<1> QED BY <1>0, <1>1, <1>2, <1>3, <1>4, <1>5, <1>6, <1>7, <1>8, <1>9 DEF AlgorithmsInv

LEMMA AlgorithmsInvariance == Spec => []AlgorithmsInv
<1>1. AlgorithmsInv /\ [Next]_all => AlgorithmsInv'
  BY AlgorithmsStep, AlgorithmsUnchanged
<1> QED BY <1>1, AlgorithmsStart, PTL DEF Spec

(* VAddr: for every 64-bit address, canonical or not, and every recursion  *)
(* index, from_info undoes info up to the sign, and the addresses of the   *)
(* four tables of a page differ and lie in the recursion slot.             *)
THEOREM EveryAddressExact == Spec => []AddressesExact
<1>1. AlgorithmsInv => AddressesExact
  BY AddressesSuffice DEF AlgorithmsInv, AddressesExact
<1> QED BY <1>1, AlgorithmsInvariance, PTL

(* The region loop of setup_uefi_and_exit: for every memory map, sorted or *)
(* not, and every length of the array, the regions fit, are disjoint and   *)
(* hold usable pages only, and sort_unstable_by leaves them in order.      *)
THEOREM EveryMapSound == Spec => []RegionsSound
<1>1. AlgorithmsInv => RegionsSound
  BY RegionsSuffice DEF AlgorithmsInv, RegionsSound
<1> QED BY <1>1, AlgorithmsInvariance, PTL

(* The region loop of setup_uefi_and_exit: a usable entry that is long     *)
(* enough gets lost only to a full array or to the short run before it.    *)
THEOREM EveryLongEntryKept == Spec => []LongEntriesKept
<1>1. AlgorithmsInv => LongEntriesKept
  BY RegionsSuffice DEF AlgorithmsInv, LongEntriesKept
<1> QED BY <1>1, AlgorithmsInvariance, PTL

(* read_uleb128 and read_sleb128: for every width of groups and of the     *)
(* word, and every number of up to the bytes that fill it, the result has  *)
(* the bits that were written and those of the sign, and the reader stops  *)
(* behind the first byte without the continuation bit.                     *)
THEOREM EveryNumberExact == Spec => []LebExact
<1>1. AlgorithmsInv => LebExact
  BY LebSuffices DEF AlgorithmsInv, LebExact
<1> QED BY <1>1, AlgorithmsInvariance, PTL

(* _print_fmt: on every stack, whatever is inlined, unknown or unprintable *)
(* in it, exactly the part between the markers is shown, in order and      *)
(* within the limit, and every gap but the first is announced with the     *)
(* number of its symbols.                                                  *)
THEOREM EveryBacktraceFaithful == Spec => []BacktraceFaithful
<1>1. AlgorithmsInv => BacktraceFaithful
  BY StackSuffices DEF AlgorithmsInv, BacktraceFaithful
<1> QED BY <1>1, AlgorithmsInvariance, PTL

(* find_eh_action: for every table that a compiler may emit, and every     *)
(* instruction, the action is the one of the call site that holds it.      *)
THEOREM EveryActionRight == Spec => []RightAction
<1>1. AlgorithmsInv => RightAction
  BY ActionsSuffice DEF AlgorithmsInv, RightAction
<1> QED BY <1>1, AlgorithmsInvariance, PTL

(* Elf: whatever offsets, counts and sizes a file of any length claims,    *)
(* nothing outside it is handed out.                                       *)
THEOREM EverySliceInside == Spec => []SlicesInsideFile
<1>1. AlgorithmsInv => SlicesInsideFile
  BY ReaderSuffices DEF AlgorithmsInv, SlicesInsideFile
<1> QED BY <1>1, AlgorithmsInvariance, PTL

(* Elf64Programs: every program header of the file comes once, in order,   *)
(* and after the end nothing does.                                         *)
THEOREM EveryHeaderDelivered == Spec => []EveryHeaderOnce
<1>1. AlgorithmsInv => EveryHeaderOnce
  BY ReaderSuffices DEF AlgorithmsInv, EveryHeaderOnce
<1> QED BY <1>1, AlgorithmsInvariance, PTL

(* PhysicalPageAllocator: for every memory map that lists no page twice    *)
(* and any sequence of requests, the tree pointers, the trees and the      *)
(* blocks stay apart and inside the free memory, as long as no more trees  *)
(* are made than pointers fit the pages reserved for them.                 *)
THEOREM EveryPageApart == Spec => []ManagedPagesApart
<1>1. AlgorithmsInv => ManagedPagesApart
  BY PhysicalSuffices DEF AlgorithmsInv, ManagedPagesApart
<1> QED BY <1>1, AlgorithmsInvariance, PTL

(* derive(SyscallTable): for every enum and every argument words, the call *)
(* number and the arguments arrive in the registers of the convention.     *)
THEOREM EveryArgumentSurvives == Spec => []ArgumentsSurvive
<1>1. AlgorithmsInv => ArgumentsSurvive
  BY CallsSuffice DEF AlgorithmsInv, ArgumentsSurvive
<1> QED BY <1>1, AlgorithmsInvariance, PTL

(* mul_div_u64, run_with_cstr and WStrUnits: at every width of a word,     *)
(* size of the buffer and length of a string they do what they promise.    *)
THEOREM EveryHelperExact == Spec => []HelpersExact
<1>1. AlgorithmsInv => HelpersExact
  BY HelpSuffices DEF AlgorithmsInv, HelpersExact
<1> QED BY <1>1, AlgorithmsInvariance, PTL
=============================================================================
