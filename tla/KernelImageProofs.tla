-------------------------- MODULE KernelImageProofs --------------------------
(***************************************************************************)
(* Proofs about the loading of the kernel's segments, for every program    *)
(* header table and every page size.                                       *)
(***************************************************************************)
EXTENDS KernelImage, TLAPS

-----------------------------------------------------------------------------
(* Arithmetic of pages.                                                    *)

LEMMA Quotient ==
  ASSUME NEW n \in Nat, NEW d \in Nat \ {0}
  PROVE  n \div d \in Nat /\ d * (n \div d) <= n /\ n < d * (n \div d) + d
BY SMT

LEMMA NoPages ==
  ASSUME NEW d \in Nat \ {0}
  PROVE  (0 - 1) \div d \in Int /\ (0 - 1) \div d < 0
BY SMT

LEMMA ProductMonotone ==
  ASSUME NEW a \in Nat, NEW b \in Nat, NEW d \in Nat, a <= b
  PROVE  d * a \in Nat /\ d * b \in Nat /\ d * a <= d * b
BY SMT

LEMMA ProductNext ==
  ASSUME NEW a \in Nat, NEW d \in Nat
  PROVE  d * (a + 1) = d * a + d /\ a * d = d * a /\ d * a \in Nat
BY SMT

LEMMA ProductSum ==
  ASSUME NEW a \in Nat, NEW b \in Nat, NEW d \in Nat
  PROVE  d * (a + b) = d * a + d * b /\ d * a \in Nat /\ d * b \in Nat
BY SMT

LEMMA ProductAtLeast ==
  ASSUME NEW a \in Nat, NEW d \in Nat \ {0}
  PROVE  a <= d * a
BY SMT

(* A multiple of the page size is that many pages.                         *)
LEMMA WholePages ==
  ASSUME NEW n \in Nat, NEW d \in Nat \ {0}, n % d = 0
  PROVE  n \div d \in Nat /\ n = d * (n \div d)
BY SMT

LEMMA QuotientUnique ==
  ASSUME NEW n \in Nat, NEW d \in Nat \ {0}, NEW q \in Nat, d * q <= n, n < d * q + d
  PROVE  n \div d = q
<1> DEFINE p == n \div d
<1>1. p \in Nat /\ d * p <= n /\ n < d * p + d
  BY Quotient
<1> HIDE DEF p
<1>2. ~(p < q)
  <2> SUFFICES ASSUME p < q PROVE FALSE
    OBVIOUS
  <2>1. d * (p + 1) <= d * q /\ d * q \in Nat
    BY <1>1, ProductMonotone
  <2>2. d * (p + 1) = d * p + d /\ d * p \in Nat
    BY <1>1, ProductNext
  <2> QED BY <1>1, <2>1, <2>2
<1>3. ~(q < p)
  <2> SUFFICES ASSUME q < p PROVE FALSE
    OBVIOUS
  <2>1. d * (q + 1) <= d * p /\ d * p \in Nat
    BY <1>1, ProductMonotone
  <2>2. d * (q + 1) = d * q + d /\ d * q \in Nat
    BY ProductNext
  <2> QED BY <1>1, <2>1, <2>2
<1> QED BY <1>1, <1>2, <1>3 DEF p

LEMMA QuotientMonotone ==
  ASSUME NEW m \in Nat, NEW n \in Nat, NEW d \in Nat \ {0}, m <= n
  PROVE  m \div d <= n \div d
<1> DEFINE p == m \div d
           q == n \div d
<1>1. p \in Nat /\ d * p <= m /\ q \in Nat /\ n < d * q + d
  BY Quotient
<1> HIDE DEF p, q
<1>2. ~(q < p)
  <2> SUFFICES ASSUME q < p PROVE FALSE
    OBVIOUS
  <2>1. d * (q + 1) <= d * p /\ d * p \in Nat
    BY <1>1, ProductMonotone
  <2>2. d * (q + 1) = d * q + d /\ d * q \in Nat
    BY <1>1, ProductNext
  <2> QED BY <1>1, <2>1, <2>2
<1> QED BY <1>1, <1>2 DEF p, q

(* usize::next_multiple_of rounds up.                                      *)
LEMMA RoundsUp ==
  ASSUME NEW n \in Nat, NEW d \in Nat \ {0}
  PROVE  next_multiple_of(n, d) \in Nat /\ n <= next_multiple_of(n, d)
<1> DEFINE m == n + d - 1
           q == m \div d
<1>1. m \in Nat
  OBVIOUS
<1>2. q \in Nat /\ m < d * q + d
  BY <1>1, Quotient
<1>3. next_multiple_of(n, d) = q * d
  BY DEF next_multiple_of
<1> HIDE DEF q
<1>4. q * d = d * q /\ d * q \in Nat
  BY <1>2, ProductNext
<1> QED BY <1>2, <1>3, <1>4

(* min and max of two addresses.                                           *)
LEMMA MinMax ==
  ASSUME NEW a \in Nat, NEW b \in Nat
  PROVE  /\ Min({a, b}) \in {a, b} /\ Min({a, b}) <= a /\ Min({a, b}) <= b
         /\ Max({a, b}) \in {a, b} /\ Max({a, b}) >= a /\ Max({a, b}) >= b
<1>1. \E x \in {a, b} : \A y \in {a, b} : x <= y
  <2>1. CASE a <= b
    BY <2>1
  <2>2. CASE ~(a <= b)
    BY <2>2
  <2> QED BY <2>1, <2>2
<1>2. \E x \in {a, b} : \A y \in {a, b} : x >= y
  <2>1. CASE a <= b
    BY <2>1
  <2>2. CASE ~(a <= b)
    BY <2>2
  <2> QED BY <2>1, <2>2
<1>3. Min({a, b}) \in {a, b} /\ \A y \in {a, b} : Min({a, b}) <= y
  BY <1>1 DEF Min
<1>4. Max({a, b}) \in {a, b} /\ \A y \in {a, b} : Max({a, b}) >= y
  BY <1>2 DEF Max
<1> QED BY <1>3, <1>4

-----------------------------------------------------------------------------
(* Segments and their pages.                                               *)

LEMMA SegmentFacts ==
  ASSUME segments \in Programs
  PROVE  /\ Len(segments) \in Nat \ {0} /\ DOMAIN segments = 1 .. Len(segments)
         /\ \A k \in DOMAIN segments :
              /\ segments[k].virtual_address \in Nat
              /\ segments[k].data \in Nat
              /\ segments[k].memory_size \in Nat
              /\ segments[k].data <= segments[k].memory_size
              /\ segments[k].virtual_address + segments[k].memory_size <= TopAddress
<1>1. segments \in Seq(Segment) /\ segments # <<>>
  BY ProgramsAssumption
<1>2. Len(segments) \in Nat \ {0} /\ DOMAIN segments = 1 .. Len(segments)
      /\ \A k \in 1 .. Len(segments) : segments[k] \in Segment
  BY <1>1
<1>3. TopAddress \in Nat
  BY ProgramsAssumption
<1>4. ASSUME NEW k \in DOMAIN segments
      PROVE  /\ segments[k].virtual_address \in Nat
             /\ segments[k].data \in Nat
             /\ segments[k].memory_size \in Nat
  <2>1. segments[k] \in Segment
    BY <1>2
  <2> QED BY <1>3, <2>1 DEF Segment
<1> QED BY <1>2, <1>4, ProgramsAssumption

(* Every page that is mapped for a segment lies in the block, if its base  *)
(* is aligned.                                                             *)
LEMMA PagesInBlock ==
  ASSUME NEW s, s.virtual_address \in Nat, s.memory_size \in Nat,
         NEW lo \in Nat, NEW hi \in Nat, lo % PAGE_SIZE = 0,
         lo <= s.virtual_address, s.virtual_address + s.memory_size <= hi,
         NEW v \in PagesToMap(s)
  PROVE  v \in Nat /\ lo <= v * PAGE_SIZE /\ v * PAGE_SIZE < hi /\ v < hi
<1> DEFINE d == PAGE_SIZE
           va == s.virtual_address
           mem == s.memory_size
           last == (mem - 1) \div d
<1>1. d \in Nat \ {0} /\ va \in Nat /\ mem \in Nat
  BY ProgramsAssumption
<1>2. PICK k \in 0 .. last : v = (va + k * d) \div d
  BY DEF PagesToMap
<1>3. lo \div d \in Nat /\ lo = d * (lo \div d)
  BY <1>1, WholePages
<1>4. mem # 0
  <2> SUFFICES ASSUME mem = 0 PROVE FALSE
    OBVIOUS
  <2>1. last \in Int /\ last < 0
    BY <1>1, NoPages
  <2> QED BY <1>2, <2>1
<1>5. mem - 1 \in Nat
  BY <1>1, <1>4
<1>6. last \in Nat /\ d * last <= mem - 1
  BY <1>1, <1>5, Quotient
<1>a. lo <= va /\ va + mem <= hi
  OBVIOUS
<1> HIDE DEF d, va, mem, last
<1>7. k \in Nat /\ k <= last
  BY <1>2, <1>6
<1>8. d * k \in Nat /\ d * k <= d * last /\ d * last \in Nat /\ k * d = d * k
  BY <1>1, <1>6, <1>7, ProductMonotone, ProductNext
<1> DEFINE a == va + k * d
<1>9. a \in Nat /\ lo <= a /\ a < hi
  BY <1>1, <1>a, <1>5, <1>6, <1>8
<1> HIDE DEF a
<1>10. v = a \div d
  BY <1>2 DEF a
<1>11. v \in Nat /\ d * v <= a /\ lo \div d <= v
  BY <1>1, <1>9, <1>10, Quotient, QuotientMonotone
<1>12. d * (lo \div d) <= d * v /\ d * v \in Nat /\ v * d = d * v
  BY <1>1, <1>3, <1>11, ProductMonotone, ProductNext
<1>13. v <= d * v
  BY <1>1, <1>11, ProductAtLeast
<1>14. lo <= d * v
  BY <1>3, <1>12
<1>15. d * v < hi
  BY <1>9, <1>11, <1>12
<1> QED BY <1>11, <1>12, <1>13, <1>14, <1>15 DEF d

(* A segment that starts on a page has every byte of its memory on one of  *)
(* the pages that are mapped for it.                                       *)
LEMMA PagesCover ==
  ASSUME NEW s, s.virtual_address \in Nat, s.memory_size \in Nat,
         s.virtual_address % PAGE_SIZE = 0, NEW a \in MemoryOf(s)
  PROVE  a \div PAGE_SIZE \in PagesToMap(s)
<1> DEFINE d == PAGE_SIZE
           va == s.virtual_address
           mem == s.memory_size
           q == va \div d
           off == a - va
           k == off \div d
<1>1. d \in Nat \ {0} /\ va \in Nat /\ mem \in Nat
  BY ProgramsAssumption
<1>2. q \in Nat /\ va = d * q
  BY <1>1, WholePages
<1>3. off \in Nat /\ off <= mem - 1 /\ mem - 1 \in Nat /\ a = va + off
  BY <1>1 DEF MemoryOf
<1> HIDE DEF d, va, mem, q, off
<1>4. k \in Nat /\ d * k <= off /\ off < d * k + d
  BY <1>1, <1>3, Quotient
<1>5. k <= (mem - 1) \div d /\ (mem - 1) \div d \in Nat
  BY <1>1, <1>3, Quotient, QuotientMonotone
<1> HIDE DEF k
<1>6. d * (q + k) = d * q + d * k /\ d * q \in Nat /\ d * k \in Nat /\ k * d = d * k
  BY <1>1, <1>2, <1>4, ProductSum, ProductNext
<1>7. a \in Nat /\ q + k \in Nat /\ d * (q + k) <= a /\ a < d * (q + k) + d
  BY <1>1, <1>2, <1>3, <1>4, <1>6
<1>8. a \div d = q + k
  BY <1>1, <1>7, QuotientUnique
<1>9. va + k * d \in Nat /\ d * (q + k) <= va + k * d /\ va + k * d < d * (q + k) + d
  BY <1>1, <1>2, <1>6
<1>10. (va + k * d) \div d = q + k
  BY <1>1, <1>7, <1>9, QuotientUnique
<1>11. k \in 0 .. (mem - 1) \div d
  BY <1>4, <1>5
<1> QED BY <1>8, <1>10, <1>11 DEF PagesToMap, d, va, mem

-----------------------------------------------------------------------------
(* The invariant.                                                          *)

(* The statements of the load loop, and those that follow it. *)
Loading == {"copy", "zero", "map", "loaded", "panic"}

(* min and max embrace what has been measured. *)
Embraced(k) ==
  /\ segments[k].segment_type = "Load"
  /\ min <= segments[k].virtual_address
  /\ segments[k].virtual_address + segments[k].memory_size <= max
Measurement ==
  /\ pc = "measure" => mapped = {} /\ \A k \in DOMAIN segments : k < i => Embraced(k)
  /\ pc \in Loading => min % PAGE_SIZE = 0 /\ \A k \in DOMAIN segments : Embraced(k)

(* What has been copied is still there. *)
HasItsData(k) ==
  \A a \in DataOf(segments[k]) : image[a] = DataByte(k, a - segments[k].virtual_address)
CopiedSoFar ==
  pc \in Loading /\ Ascending =>
    \A k \in DOMAIN segments : k < i \/ (k = i /\ pc # "copy") => HasItsData(k)

(* The pages of the segments done are mapped, and none outside the block. *)
MappedSoFar ==
  /\ pc \in Loading =>
       \A k \in DOMAIN segments : (k < i \/ pc = "loaded") => PagesToMap(segments[k]) \subseteq mapped
  /\ \A v \in mapped : v \in Nat /\ min <= v * PAGE_SIZE /\ v * PAGE_SIZE < max

(* The load loop ends at the last segment. *)
LoopEnds == pc = "loaded" => i = Len(segments)

ImageInv == TypeOK /\ LoopEnds /\ Measurement /\ CopiedSoFar /\ MappedSoFar

-----------------------------------------------------------------------------
(* The invariant holds at first, and every step keeps it.                  *)

LEMMA ImageInit == Init => ImageInv
<1> SUFFICES ASSUME Init PROVE ImageInv
  OBVIOUS
<1>1. segments \in Programs
  BY DEF Init
<1>2. Len(segments) \in Nat \ {0} /\ DOMAIN segments = 1 .. Len(segments) /\ TopAddress \in Nat
  BY <1>1, SegmentFacts, ProgramsAssumption
<1>3. 1 \in DOMAIN segments /\ \A k \in DOMAIN segments : ~(k < 1)
  BY <1>2
<1>4. image \in [0 .. TopAddress -> {Junk, Zero} \cup ((DOMAIN segments) \X (0 .. TopAddress))]
  BY DEF Init
<1>5. TypeOK
  BY <1>1, <1>2, <1>3, <1>4 DEF Init, TypeOK
<1> QED BY <1>3, <1>5 DEF Init, LoopEnds, ImageInv, Measurement, CopiedSoFar, MappedSoFar, Loading

(* Ascending depends on the program only.                                  *)
LEMMA AscendingKept ==
  ASSUME segments' = segments
  PROVE  Ascending' <=> Ascending
BY DEF Ascending, Loads

LEMMA MeasureStep ==
  ASSUME ImageInv, Measure
  PROVE  ImageInv'
<1>1. pc = "measure" /\ segments' = segments /\ image' = image /\ mapped' = mapped
  BY DEF Measure
<1>2. TypeOK /\ Measurement /\ CopiedSoFar /\ MappedSoFar
  BY DEF ImageInv
<1>3. mapped = {} /\ \A k \in DOMAIN segments : k < i => Embraced(k)
  BY <1>1, <1>2 DEF Measurement
<1>4. CASE segments[i].segment_type # "Load"
  <2>1. pc' = pc /\ i' = i /\ min' = min /\ max' = max
    BY <1>4 DEF Measure
  <2>2. TypeOK'
    BY <1>1, <1>2, <2>1 DEF TypeOK
  <2>3. Measurement'
    BY <1>1, <1>2, <2>1 DEF Measurement, Embraced, Loading
  <2> QED BY <1>1, <1>3, <2>1, <2>2, <2>3 DEF LoopEnds, ImageInv, CopiedSoFar, MappedSoFar, Loading
<1>5. CASE segments[i].segment_type = "Load"
  <2> DEFINE va == segments[i].virtual_address
             end == segments[i].virtual_address + segments[i].memory_size
             n == Len(segments)
  <2>1. /\ min' = Min({min, va}) /\ max' = Max({max, end})
        /\ i' = IF i = n THEN 1 ELSE i + 1
        /\ pc' = IF i = n THEN Measured(min') ELSE "measure"
    BY <1>5 DEF Measure
  <2>2. segments \in Programs /\ i \in DOMAIN segments /\ min \in Nat /\ max \in Nat
        /\ min <= TopAddress /\ max <= TopAddress /\ TopAddress \in Nat
    BY <1>2, ProgramsAssumption DEF TypeOK
  <2>3. n \in Nat \ {0} /\ DOMAIN segments = 1 .. n
    BY <2>2, SegmentFacts
  <2>4. va \in Nat /\ end \in Nat /\ va <= TopAddress /\ end <= TopAddress
    BY <2>2, SegmentFacts
  <2>5. /\ min' \in {min, va} /\ min' <= min /\ min' <= va
        /\ max' \in {max, end} /\ max' >= max /\ max' >= end
    BY <2>1, <2>2, <2>4, MinMax
  <2> HIDE DEF va, end, n
  <2>6. min' \in 0 .. TopAddress /\ max' \in 0 .. TopAddress
    BY <2>2, <2>4, <2>5
  <2>7. i' \in DOMAIN segments
    BY <2>1, <2>2, <2>3
  <2>8. pc' \in {"measure", "copy", "refused"}
    BY <2>1 DEF Measured
  <2>9. TypeOK'
    BY <1>1, <1>2, <2>6, <2>7, <2>8 DEF TypeOK
  <2>10. ASSUME NEW k \in DOMAIN segments, k <= i PROVE Embraced(k)'
    <3> DEFINE vk == segments[k].virtual_address
               ek == segments[k].virtual_address + segments[k].memory_size
    <3>1. vk \in Nat /\ ek \in Nat
      BY <2>2, SegmentFacts
    <3>2. k \in Int /\ i \in Int
      BY <2>2, <2>3
    <3>3. CASE k = i
      <4>1. vk = va /\ ek = end
        BY <3>3 DEF va, end
      <4> HIDE DEF vk, ek
      <4>2. segments'[k].segment_type = "Load" /\ min' <= vk /\ ek <= max'
        BY <1>1, <1>5, <2>4, <2>5, <2>6, <3>3, <4>1
      <4> QED BY <1>1, <4>2 DEF Embraced, vk, ek
    <3>4. CASE k < i
      <4>1. segments[k].segment_type = "Load" /\ min <= vk /\ ek <= max
        BY <1>3, <3>4 DEF Embraced
      <4> HIDE DEF vk, ek
      <4>2. min' <= vk /\ ek <= max'
        BY <2>2, <2>5, <2>6, <3>1, <4>1
      <4> QED BY <1>1, <4>1, <4>2 DEF Embraced, vk, ek
    <3> QED BY <2>10, <3>2, <3>3, <3>4
  <2>11. Measurement'
    <3>1. CASE i = n
      <4>1. pc' # "measure" /\ (pc' = "copy" => min' % PAGE_SIZE = 0)
        BY <2>1, <3>1 DEF Measured
      <4>2. \A k \in DOMAIN segments : k <= i
        BY <2>3, <3>1
      <4>3. (\A k \in DOMAIN segments : Embraced(k))'
        BY <1>1, <2>10, <4>2
      <4> QED BY <2>8, <4>1, <4>3 DEF Measurement, Loading
    <3>2. CASE i # n
      <4>1. pc' = "measure" /\ i' = i + 1
        BY <2>1, <3>2
      <4>2. \A k \in DOMAIN segments : k < i + 1 => k <= i
        BY <2>2, <2>3
      <4>3. (\A k \in DOMAIN segments : k < i => Embraced(k))'
        BY <1>1, <2>10, <4>1, <4>2
      <4> QED BY <1>1, <1>3, <4>1, <4>3 DEF Measurement, Loading
    <3> QED BY <3>1, <3>2
  <2>12. CopiedSoFar' /\ MappedSoFar'
    <3>1. CASE pc' = "copy"
      <4>1. i' = 1
        BY <1>1, <2>1, <3>1
      <4>2. \A k \in DOMAIN segments : ~(k < 1)
        BY <2>3
      <4> QED BY <1>1, <1>3, <3>1, <4>1, <4>2 DEF CopiedSoFar, MappedSoFar
    <3>2. CASE pc' # "copy"
      BY <1>1, <1>3, <2>8, <3>2 DEF CopiedSoFar, MappedSoFar, Loading
    <3> QED BY <3>1, <3>2
  <2> QED BY <2>8, <2>9, <2>11, <2>12 DEF LoopEnds, ImageInv
<1> QED BY <1>4, <1>5

(* What a step of the load loop leaves alone.                              *)
LEMMA MeasurementKept ==
  ASSUME Measurement, pc \in Loading, pc' \in Loading, segments' = segments, min' = min, max' = max
  PROVE  Measurement'
BY DEF Measurement, Loading, Embraced

LEMMA NextSegmentStep ==
  ASSUME TypeOK, NextSegment, segments' = segments
  PROVE  /\ i' \in DOMAIN segments' /\ pc' \in {"loaded", "copy"}
         /\ \A k \in DOMAIN segments : (k < i' \/ pc' = "loaded") => k < i \/ k = i
         /\ pc' = "loaded" => i' = i
         /\ pc' = "copy" => i' = i + 1
<1>1. segments \in Programs /\ i \in DOMAIN segments
  BY DEF TypeOK
<1>2. Len(segments) \in Nat \ {0} /\ DOMAIN segments = 1 .. Len(segments)
  BY <1>1, SegmentFacts
<1> QED BY <1>1, <1>2 DEF NextSegment

LEMMA CopyDataStep ==
  ASSUME ImageInv, CopyData
  PROVE  ImageInv'
<1>1. pc = "copy" /\ segments' = segments /\ min' = min /\ max' = max /\ mapped' = mapped
  BY DEF CopyData
<1>2. TypeOK /\ Measurement /\ CopiedSoFar /\ MappedSoFar
  BY DEF ImageInv
<1>3. segments \in Programs /\ i \in DOMAIN segments /\ pc \in Loading
  BY <1>1, <1>2 DEF TypeOK, Loading
<1>4. segments[i].segment_type = "Load"
  BY <1>2, <1>3 DEF Measurement, Embraced
<1>5. /\ image' = [a \in DOMAIN image |->
                    IF a \in DataOf(segments[i])
                      THEN DataByte(i, a - segments[i].virtual_address) ELSE image[a]]
      /\ pc' = "zero" /\ i' = i
  BY <1>4 DEF CopyData
<1>6. DOMAIN image = 0 .. TopAddress /\ TopAddress \in Nat
  BY <1>2, ProgramsAssumption DEF TypeOK
<1>7. Len(segments) \in Nat \ {0} /\ DOMAIN segments = 1 .. Len(segments)
  BY <1>3, SegmentFacts
<1>8. \A k \in DOMAIN segments :
        /\ segments[k].virtual_address \in Nat
        /\ segments[k].data \in Nat
        /\ segments[k].memory_size \in Nat
        /\ segments[k].data <= segments[k].memory_size
        /\ segments[k].virtual_address + segments[k].memory_size <= TopAddress
  BY <1>3, SegmentFacts
<1>9. TypeOK'
  <2>1. ASSUME NEW a \in 0 .. TopAddress, a \in DataOf(segments[i])
        PROVE  a - segments[i].virtual_address \in 0 .. TopAddress
    BY <1>3, <1>6, <1>8, <2>1 DEF DataOf
  <2>2. image' \in [0 .. TopAddress -> {Junk, Zero} \cup ((DOMAIN segments) \X (0 .. TopAddress))]
    BY <1>2, <1>3, <1>5, <1>6, <2>1 DEF TypeOK, DataByte
  <2> QED BY <1>1, <1>2, <1>5, <2>2 DEF TypeOK
<1>10. Measurement'
  BY <1>1, <1>2, <1>3, <1>5, MeasurementKept DEF Loading
<1>11. CopiedSoFar'
  <2> SUFFICES ASSUME Ascending, NEW k \in DOMAIN segments, k < i \/ k = i, NEW a \in DataOf(segments[k])
               PROVE  image'[a] = DataByte(k, a - segments[k].virtual_address)
    BY <1>1, <1>5, AscendingKept DEF CopiedSoFar, HasItsData, DataOf, DataByte
  <2>1. a \in DOMAIN image
    BY <1>6, <1>8 DEF DataOf
  <2>2. CASE k = i
    BY <1>5, <2>1, <2>2
  <2>3. CASE k < i
    <3>1. image[a] = DataByte(k, a - segments[k].virtual_address)
      BY <1>2, <1>3, <2>3 DEF CopiedSoFar, HasItsData
    <3>2. segments[k].virtual_address + segments[k].memory_size <= segments[i].virtual_address
      BY <1>2, <1>3, <2>3 DEF Ascending, Loads, Measurement, Embraced
    <3>3. a < segments[k].virtual_address + segments[k].data /\ a \in Nat
      BY <1>8 DEF DataOf
    <3>4. ~(a >= segments[i].virtual_address)
      BY <1>3, <1>8, <3>2, <3>3
    <3>5. a \notin DataOf(segments[i])
      BY <1>3, <1>8, <3>4 DEF DataOf
    <3> QED BY <1>5, <2>1, <3>1, <3>5
  <2> QED BY <2>2, <2>3
<1>12. MappedSoFar'
  BY <1>1, <1>2, <1>3, <1>5 DEF MappedSoFar, PagesToMap, Loading
<1> QED BY <1>5, <1>9, <1>10, <1>11, <1>12 DEF LoopEnds, ImageInv

LEMMA ZeroTailStep ==
  ASSUME ImageInv, ZeroTail
  PROVE  ImageInv'
<1>1. /\ pc = "zero" /\ pc' = "map" /\ i' = i
      /\ segments' = segments /\ min' = min /\ max' = max /\ mapped' = mapped
      /\ image' = [a \in DOMAIN image |-> IF a \in ZeroedBy(segments[i]) THEN Zero ELSE image[a]]
  BY DEF ZeroTail
<1>2. TypeOK /\ Measurement /\ CopiedSoFar /\ MappedSoFar
  BY DEF ImageInv
<1>3. segments \in Programs /\ i \in DOMAIN segments /\ pc \in Loading
  BY <1>1, <1>2 DEF TypeOK, Loading
<1>4. DOMAIN image = 0 .. TopAddress /\ TopAddress \in Nat
  BY <1>2, ProgramsAssumption DEF TypeOK
<1>5. \A k \in DOMAIN segments :
        /\ segments[k].virtual_address \in Nat
        /\ segments[k].data \in Nat
        /\ segments[k].memory_size \in Nat
        /\ segments[k].data <= segments[k].memory_size
        /\ segments[k].virtual_address + segments[k].memory_size <= TopAddress
  BY <1>3, SegmentFacts
<1>6. TypeOK'
  <2>1. image' \in [0 .. TopAddress -> {Junk, Zero} \cup ((DOMAIN segments) \X (0 .. TopAddress))]
    BY <1>1, <1>2, <1>4 DEF TypeOK
  <2> QED BY <1>1, <1>2, <2>1 DEF TypeOK
<1>7. Measurement'
  BY <1>1, <1>2, <1>3, MeasurementKept DEF Loading
<1>8. CopiedSoFar'
  <2> SUFFICES ASSUME Ascending, NEW k \in DOMAIN segments, k < i \/ k = i, NEW a \in DataOf(segments[k])
               PROVE  image'[a] = DataByte(k, a - segments[k].virtual_address)
    BY <1>1, AscendingKept DEF CopiedSoFar, HasItsData, DataOf, DataByte
  <2>1. a \in DOMAIN image /\ a \in Nat /\ a < segments[k].virtual_address + segments[k].data
    BY <1>4, <1>5 DEF DataOf
  <2>2. image[a] = DataByte(k, a - segments[k].virtual_address)
    BY <1>1, <1>2, <1>3 DEF CopiedSoFar, HasItsData
  <2>3. a < segments[i].virtual_address + segments[i].data
    <3>1. CASE k = i
      BY <2>1, <3>1
    <3>2. CASE k < i
      <4>1. segments[k].virtual_address + segments[k].memory_size <= segments[i].virtual_address
        BY <1>2, <1>3, <3>2 DEF Ascending, Loads, Measurement, Embraced
      <4> QED BY <1>3, <1>5, <2>1, <4>1
    <3> QED BY <3>1, <3>2
  <2>4. a \notin ZeroedBy(segments[i])
    BY <1>3, <1>5, <2>1, <2>3 DEF ZeroedBy
  <2> QED BY <1>1, <2>1, <2>2, <2>4
<1>9. MappedSoFar'
  BY <1>1, <1>2, <1>3 DEF MappedSoFar, PagesToMap, Loading
<1> QED BY <1>1, <1>6, <1>7, <1>8, <1>9 DEF LoopEnds, ImageInv

LEMMA MapPagesStep ==
  ASSUME ImageInv, MapPages
  PROVE  ImageInv'
<1>1. /\ pc = "map" /\ NextSegment /\ mapped' = mapped \cup PagesToMap(segments[i])
      /\ segments' = segments /\ min' = min /\ max' = max /\ image' = image
  BY DEF MapPages
<1>2. TypeOK /\ Measurement /\ CopiedSoFar /\ MappedSoFar
  BY DEF ImageInv
<1>3. segments \in Programs /\ i \in DOMAIN segments /\ pc \in Loading
  BY <1>1, <1>2 DEF TypeOK, Loading
<1>4. /\ i' \in DOMAIN segments' /\ pc' \in {"loaded", "copy"}
      /\ \A k \in DOMAIN segments : (k < i' \/ pc' = "loaded") => k < i \/ k = i
      /\ pc' = "loaded" => i' = i
      /\ pc' = "copy" => i' = i + 1
  BY <1>1, <1>2, NextSegmentStep
<1>5. min \in Nat /\ max \in Nat /\ max <= TopAddress /\ TopAddress \in Nat
  BY <1>2, ProgramsAssumption DEF TypeOK
<1>6. ASSUME NEW v \in PagesToMap(segments[i])
      PROVE  v \in Nat /\ min <= v * PAGE_SIZE /\ v * PAGE_SIZE < max /\ v < max
  <2>1. min % PAGE_SIZE = 0 /\ min <= segments[i].virtual_address
        /\ segments[i].virtual_address + segments[i].memory_size <= max
    BY <1>2, <1>3 DEF Measurement, Embraced
  <2>2. segments[i].virtual_address \in Nat /\ segments[i].memory_size \in Nat
    BY <1>3, SegmentFacts
  <2> QED BY <1>5, <2>1, <2>2, PagesInBlock
<1>7. TypeOK'
  <2>1. PagesToMap(segments[i]) \subseteq 0 .. TopAddress
    BY <1>5, <1>6
  <2>2. mapped' \subseteq 0 .. TopAddress
    BY <1>1, <1>2, <2>1 DEF TypeOK
  <2> QED BY <1>1, <1>2, <1>4, <2>2 DEF TypeOK
<1>8. Measurement'
  BY <1>1, <1>2, <1>3, <1>4, MeasurementKept DEF Loading
<1>9. CopiedSoFar'
  <2> SUFFICES ASSUME Ascending, NEW k \in DOMAIN segments, k < i' \/ (k = i' /\ pc' # "copy")
               PROVE  HasItsData(k)'
    BY <1>1, AscendingKept DEF CopiedSoFar
  <2>1. k < i \/ k = i
    BY <1>4
  <2>2. HasItsData(k)
    BY <1>1, <1>2, <1>3, <2>1 DEF CopiedSoFar
  <2> QED BY <1>1, <2>2 DEF HasItsData, DataOf, DataByte
<1>10. MappedSoFar'
  <2>1. ASSUME NEW k \in DOMAIN segments, k < i' \/ pc' = "loaded"
        PROVE  PagesToMap(segments[k]) \subseteq mapped'
    <3>1. k < i \/ k = i
      BY <1>4, <2>1
    <3>2. CASE k = i
      BY <1>1, <3>2
    <3>3. CASE k < i
      BY <1>1, <1>2, <1>3, <3>3 DEF MappedSoFar
    <3> QED BY <3>1, <3>2, <3>3
  <2>2. ASSUME NEW v \in mapped' PROVE v \in Nat /\ min' <= v * PAGE_SIZE /\ v * PAGE_SIZE < max'
    BY <1>1, <1>2, <1>6 DEF MappedSoFar
  <2> QED BY <1>1, <2>1, <2>2 DEF MappedSoFar, PagesToMap
<1> QED BY <1>1, <1>7, <1>8, <1>9, <1>10 DEF NextSegment, LoopEnds, ImageInv

LEMMA MapPagesFailsStep ==
  ASSUME ImageInv, MapPagesFails
  PROVE  ImageInv'
<1>1. /\ pc = "map" /\ pc' = "panic" /\ segments' = segments /\ i' = i
      /\ min' = min /\ max' = max /\ image' = image /\ mapped' = mapped
  BY DEF MapPagesFails
<1>2. TypeOK /\ Measurement /\ CopiedSoFar /\ MappedSoFar
  BY DEF ImageInv
<1>3. TypeOK'
  BY <1>1, <1>2 DEF TypeOK
<1>4. Measurement'
  BY <1>1, <1>2, MeasurementKept DEF Loading
<1>5. CopiedSoFar'
  BY <1>1, <1>2, AscendingKept DEF CopiedSoFar, HasItsData, DataOf, DataByte, Loading
<1>6. MappedSoFar'
  BY <1>1, <1>2 DEF MappedSoFar, PagesToMap, Loading
<1> QED BY <1>1, <1>3, <1>4, <1>5, <1>6 DEF LoopEnds, ImageInv

LEMMA ImageStep == ImageInv /\ [Next]_vars => ImageInv'
<1> SUFFICES ASSUME ImageInv, [Next]_vars PROVE ImageInv'
  OBVIOUS
<1>1. CASE Measure
  BY <1>1, MeasureStep
<1>2. CASE CopyData
  BY <1>2, CopyDataStep
<1>3. CASE ZeroTail
  BY <1>3, ZeroTailStep
<1>4. CASE MapPages
  BY <1>4, MapPagesStep
<1>5. CASE MapPagesFails
  BY <1>5, MapPagesFailsStep
<1>6. CASE UNCHANGED vars
  <2>1. /\ pc' = pc /\ segments' = segments /\ i' = i
        /\ min' = min /\ max' = max /\ image' = image /\ mapped' = mapped
    BY <1>6 DEF vars
  <2>2. TypeOK'
    BY <2>1 DEF ImageInv, TypeOK
  <2>3. Measurement'
    BY <2>1 DEF ImageInv, Measurement, Embraced
  <2>4. CopiedSoFar'
    BY <2>1, AscendingKept DEF ImageInv, CopiedSoFar, HasItsData, DataOf, DataByte
  <2>5. MappedSoFar'
    BY <2>1 DEF ImageInv, MappedSoFar, PagesToMap
  <2> QED BY <2>1, <2>2, <2>3, <2>4, <2>5 DEF LoopEnds, ImageInv
<1> QED BY <1>1, <1>2, <1>3, <1>4, <1>5, <1>6 DEF Next

-----------------------------------------------------------------------------
(* Results.                                                                *)

(* min and max embrace the segments, the data that was copied is there,    *)
(* the pages of the segments that are done are mapped, and none outside    *)
(* the block is.                                                           *)
THEOREM ImageInvariance == Spec => []ImageInv
<1>1. Init => ImageInv
  BY ImageInit
<1>2. ImageInv /\ [Next]_vars => ImageInv'
  BY ImageStep
<1> QED BY <1>1, <1>2, PTL DEF Spec

(* The block that allocate_pages is asked for holds all of every segment   *)
(* that the loop copies into it, whatever their order.                     *)
THEOREM BlockHoldsSegments == Spec => []SegmentsFitBlock
<1>1. ASSUME ImageInv PROVE SegmentsFitBlock
  <2>1. TypeOK /\ Measurement
    BY <1>1 DEF ImageInv
  <2>2. min \in Nat /\ max \in Nat /\ segments \in Programs /\ PAGE_SIZE \in Nat \ {0}
    BY <2>1, ProgramsAssumption DEF TypeOK
  <2>3. NextVAddr \in Nat /\ max <= NextVAddr
    BY <2>2, RoundsUp DEF NextVAddr
  <2> SUFFICES ASSUME pc \notin {"measure", "refused"}, NEW k \in Loads, NEW a \in MemoryOf(segments[k])
               PROVE  a \in VirtualBase .. NextVAddr - 1
    BY <2>1 DEF SegmentsFitBlock
  <2>4. k \in DOMAIN segments /\ pc \in Loading
    BY <2>1 DEF Loads, Loading, TypeOK
  <2>5. min <= segments[k].virtual_address
        /\ segments[k].virtual_address + segments[k].memory_size <= max
    BY <2>1, <2>4 DEF Measurement, Embraced
  <2>6. segments[k].virtual_address \in Nat /\ segments[k].memory_size \in Nat
    BY <2>2, <2>4, SegmentFacts
  <2> QED BY <2>2, <2>3, <2>5, <2>6 DEF MemoryOf, VirtualBase
<1> QED BY <1>1, ImageInvariance, PTL

(* In a program whose segments ascend, the code and the data arrive: the   *)
(* bytes that are cleared by mistake lie behind all that was copied.       *)
THEOREM DataArrives == Spec => []DataIntact
<1>1. ASSUME ImageInv PROVE DataIntact
  <2> SUFFICES ASSUME pc = "loaded", Ascending, NEW k \in Loads, NEW a \in DataOf(segments[k])
               PROVE  image[a] = DataByte(k, a - segments[k].virtual_address)
    BY DEF DataIntact
  <2>1. k \in DOMAIN segments /\ (k < i \/ k = i)
    <3>1. k \in DOMAIN segments /\ i = Len(segments)
      BY <1>1 DEF Loads, ImageInv, LoopEnds
    <3>2. Len(segments) \in Nat /\ DOMAIN segments = 1 .. Len(segments)
      BY <1>1, SegmentFacts DEF ImageInv, TypeOK
    <3> QED BY <3>1, <3>2
  <2>2. HasItsData(k)
    BY <1>1, <2>1 DEF ImageInv, CopiedSoFar, Loading
  <2> QED BY <2>2 DEF HasItsData
<1> QED BY <1>1, ImageInvariance, PTL

(* Every byte of a segment that starts on a page is mapped, its tail       *)
(* included, and no page outside the block ever is.                        *)
THEOREM KernelReachable == Spec => []ImageMapped
<1>1. ASSUME ImageInv PROVE ImageMapped
  <2>1. TypeOK /\ MappedSoFar
    BY <1>1 DEF ImageInv
  <2>2. min \in Nat /\ max \in Nat /\ segments \in Programs /\ PAGE_SIZE \in Nat \ {0}
    BY <2>1, ProgramsAssumption DEF TypeOK
  <2>3. NextVAddr \in Nat /\ max <= NextVAddr
    BY <2>2, RoundsUp DEF NextVAddr
  <2>4. ASSUME pc = "loaded", Aligned, NEW k \in Loads, NEW a \in MemoryOf(segments[k])
        PROVE  a \div PAGE_SIZE \in mapped
    <3>1. k \in DOMAIN segments /\ segments[k].virtual_address % PAGE_SIZE = 0
      BY <2>4 DEF Loads, Aligned
    <3>2. segments[k].virtual_address \in Nat /\ segments[k].memory_size \in Nat
      BY <2>2, <3>1, SegmentFacts
    <3>3. a \div PAGE_SIZE \in PagesToMap(segments[k])
      BY <3>1, <3>2, PagesCover
    <3>4. PagesToMap(segments[k]) \subseteq mapped
      BY <2>1, <2>4, <3>1 DEF MappedSoFar, Loading
    <3> QED BY <3>3, <3>4
  <2>5. ASSUME NEW v \in mapped PROVE v * PAGE_SIZE \in VirtualBase .. NextVAddr - 1
    <3>1. v \in Nat /\ min <= v * PAGE_SIZE /\ v * PAGE_SIZE < max
      BY <2>1 DEF MappedSoFar
    <3>2. v * PAGE_SIZE \in Nat
      BY <2>2, <3>1, ProductNext
    <3> DEFINE a == v * PAGE_SIZE
    <3> HIDE DEF a
    <3>3. a \in Nat /\ min <= a /\ a < max
      BY <3>1, <3>2 DEF a
    <3>4. a \in VirtualBase .. NextVAddr - 1
      BY <2>2, <2>3, <3>3 DEF VirtualBase
    <3> QED BY <3>4 DEF a
  <2> QED BY <2>4, <2>5 DEF ImageMapped
<1> QED BY <1>1, ImageInvariance, PTL
=============================================================================
