--------------------------- MODULE BootloaderProofs ---------------------------
(***************************************************************************)
(* Proofs about the boot sequence, for every machine, every firmware and   *)
(* every kernel that is linked above RAM.                                  *)
(***************************************************************************)
EXTENDS Bootloader, WellFoundedInduction, TLAPS

-----------------------------------------------------------------------------
(* Least and greatest elements.                                            *)

(* A set of naturals that is not empty has a least element.                *)
LEMMA LeastNatural ==
  ASSUME NEW S \in SUBSET Nat, S # {}
  PROVE  \E x \in S : \A y \in S : x <= y
<1>1. PICK x \in S : \A y \in S : <<y, x>> \notin OpToRel(<, Nat)
  BY WFMin, NatLessThanWellFounded, Zenon
<1>2. ASSUME NEW y \in S PROVE x <= y
  <2>1. x \in Nat /\ y \in Nat
    OBVIOUS
  <2>2. ~(y < x)
    BY <1>1, <2>1 DEF OpToRel
  <2> QED BY <2>1, <2>2
<1> QED BY <1>2

(* Min of FiniteSetsExt, for naturals.                                     *)
LEMMA MinOfNaturals ==
  ASSUME NEW S \in SUBSET Nat, S # {}
  PROVE  Min(S) \in S /\ \A y \in S : Min(S) <= y
<1>1. \E x \in S : \A y \in S : x <= y
  BY LeastNatural
<1> QED BY <1>1 DEF Min

(* The values of a finite sequence of naturals have a greatest element:    *)
(* otherwise take the shortest prefix that has none.                       *)
LEMMA MaxOfSequence ==
  ASSUME NEW n \in Nat \ {0}, NEW f \in [1 .. n -> Nat]
  PROVE  LET S == {f[k] : k \in 1 .. n}
         IN  Max(S) \in S /\ \A y \in S : Max(S) >= y
<1> DEFINE Bounded(m) == \E k \in 1 .. m : \A j \in 1 .. m : f[k] >= f[j]
           Bad == {m \in Nat : m >= 1 /\ m <= n /\ ~Bounded(m)}
<1>1. Bad = {}
  <2> SUFFICES ASSUME Bad # {} PROVE FALSE
    OBVIOUS
  <2>1. PICK m \in Bad : \A y \in Bad : m <= y
    BY LeastNatural
  <2>2. m \in Nat /\ m >= 1 /\ m <= n /\ ~Bounded(m)
    OBVIOUS
  <2>3. m # 1
    <3> SUFFICES ASSUME m = 1 PROVE Bounded(m)
      BY <2>2
    <3>1. 1 .. m = {1} /\ f[1] \in Nat
      BY <2>2
    <3> QED BY <3>1
  <2>4. m - 1 \in Nat /\ m - 1 >= 1 /\ m - 1 <= n /\ ~(m <= m - 1)
    BY <2>2, <2>3
  <2>5. Bounded(m - 1)
    BY <2>1, <2>4
  <2>6. PICK k \in 1 .. m - 1 : \A j \in 1 .. m - 1 : f[k] >= f[j]
    BY <2>5
  <2>7. k \in 1 .. m /\ m \in 1 .. m /\ f[k] \in Nat /\ f[m] \in Nat
        /\ \A j \in 1 .. m : j \in 1 .. m - 1 \/ j = m
    BY <2>2, <2>4
  <2>8. CASE f[k] >= f[m]
    <3>1. \A j \in 1 .. m : f[k] >= f[j]
      BY <2>6, <2>7, <2>8
    <3> QED BY <2>2, <2>7, <3>1
  <2>9. CASE ~(f[k] >= f[m])
    <3>1. \A j \in 1 .. m : f[j] \in Nat
      BY <2>2
    <3>2. ASSUME NEW j \in 1 .. m PROVE f[m] >= f[j]
      <4>1. CASE j = m
        BY <2>7, <4>1
      <4>2. CASE j \in 1 .. m - 1
        <5>1. f[k] >= f[j] /\ f[j] \in Nat
          BY <2>6, <3>1, <4>2
        <5>2. \A x, y, z \in Nat : x >= y /\ ~(x >= z) => z >= y
          OBVIOUS
        <5> HIDE DEF Bad, Bounded
        <5> QED BY <2>7, <2>9, <5>1, <5>2
      <4> QED BY <2>7, <4>1, <4>2
    <3> QED BY <2>2, <2>7, <3>2
  <2> QED BY <2>8, <2>9
<1>2. Bounded(n)
  <2>1. n \in Nat /\ n >= 1 /\ n <= n
    OBVIOUS
  <2>2. n \notin Bad
    BY <1>1
  <2> QED BY <2>1, <2>2
<1> DEFINE S == {f[k] : k \in 1 .. n}
<1>3. \E x \in S : \A y \in S : x >= y
  BY <1>2
<1> QED BY <1>3 DEF Max

-----------------------------------------------------------------------------
(* Pages of addresses.                                                     *)

LEMMA Quotient ==
  ASSUME NEW n \in Nat, NEW d \in Nat \ {0}
  PROVE  n \div d \in Nat /\ d * (n \div d) <= n /\ n < d * (n \div d) + d
BY SMT

LEMMA ProductMonotone ==
  ASSUME NEW a \in Nat, NEW b \in Nat, NEW d \in Nat, a <= b
  PROVE  d * a \in Nat /\ d * b \in Nat /\ d * a <= d * b
BY SMT

LEMMA ProductNext ==
  ASSUME NEW a \in Nat, NEW d \in Nat
  PROVE  d * (a + 1) = d * a + d /\ (a + 1) * d = d * a + d /\ a * d = d * a /\ d * a \in Nat
BY SMT

(* Only one page holds an address.                                         *)
LEMMA QuotientUnique ==
  ASSUME NEW n \in Nat, NEW d \in Nat \ {0}, NEW q \in Nat, d * q <= n, n < d * q + d
  PROVE  n \div d = q
<1> DEFINE p == n \div d
<1>1. p \in Nat /\ d * p <= n /\ n < d * p + d
  BY Quotient
<1> HIDE DEF p
<1>2. ~(p < q)
  <2> SUFFICES ASSUME p < q PROVE FALSE
    OBVIOUS
  <2>1. d * (p + 1) <= d * q /\ d * q \in Nat
    BY <1>1, ProductMonotone
  <2>2. d * (p + 1) = d * p + d /\ d * p \in Nat
    BY <1>1, ProductNext
  <2> QED BY <1>1, <2>1, <2>2
<1>3. ~(q < p)
  <2> SUFFICES ASSUME q < p PROVE FALSE
    OBVIOUS
  <2>1. d * (q + 1) <= d * p /\ d * p \in Nat
    BY <1>1, ProductMonotone
  <2>2. d * (q + 1) = d * q + d /\ d * q \in Nat
    BY ProductNext
  <2> QED BY <1>1, <2>1, <2>2
<1> QED BY <1>1, <1>2, <1>3 DEF p

LEMMA QuotientMonotone ==
  ASSUME NEW m \in Nat, NEW n \in Nat, NEW d \in Nat \ {0}, m <= n
  PROVE  m \div d <= n \div d
<1> DEFINE p == m \div d
           q == n \div d
<1>1. p \in Nat /\ d * p <= m /\ q \in Nat /\ n < d * q + d
  BY Quotient
<1> HIDE DEF p, q
<1>2. ~(q < p)
  <2> SUFFICES ASSUME q < p PROVE FALSE
    OBVIOUS
  <2>1. d * (q + 1) <= d * p /\ d * p \in Nat
    BY <1>1, ProductMonotone
  <2>2. d * (q + 1) = d * q + d /\ d * q \in Nat
    BY <1>1, ProductNext
  <2> QED BY <1>1, <2>1, <2>2
<1> QED BY <1>1, <1>2 DEF p, q

(* An address that is counted on from page `first` as `phys + k` is from   *)
(* the page of `phys`: its page, and the byte within the page.             *)
LEMMA ByteOfPage ==
  ASSUME NEW d \in Nat \ {0}, NEW phys \in Nat, NEW first \in Nat, NEW k \in Nat
  PROVE  /\ (first * d + (phys % d) + k) \div d = first + (((phys + k) \div d) - (phys \div d))
         /\ ((phys + k) \div d) * d + ((first * d + (phys % d) + k) % d) = phys + k
<1> DEFINE base == phys \div d
           g == (phys + k) \div d
           off == phys % d
           a == first * d + off + k
           page == first + (g - base)
<1>1. base \in Nat /\ d * base <= phys
  BY Quotient
<1>2. off = phys - d * base
  BY SMT
<1>3. phys + k \in Nat /\ g \in Nat /\ d * g <= phys + k /\ phys + k < d * g + d
  BY Quotient
<1>4. base <= g
  BY <1>3, QuotientMonotone
<1> HIDE DEF base, g, off
<1>5. d * base \in Nat /\ d * first \in Nat /\ d * g \in Nat /\ first * d = d * first /\ g * d = d * g
  BY <1>1, <1>3, ProductNext
<1>6. page \in Nat /\ d * page = d * first + d * g - d * base
  BY <1>1, <1>3, <1>4
<1>7. a = d * first + phys + k - d * base
  BY <1>1, <1>2, <1>5
<1>8. a \in Nat /\ d * page <= a /\ a < d * page + d
  BY <1>1, <1>3, <1>5, <1>6, <1>7
<1> HIDE DEF page, a
<1>9. a \div d = page
  BY <1>6, <1>8, QuotientUnique
<1>10. a % d = a - d * (a \div d)
  BY <1>8, SMT
<1>11. g * d + (a % d) = phys + k
  BY <1>1, <1>3, <1>5, <1>6, <1>7, <1>9, <1>10
<1> QED BY <1>9, <1>11 DEF page, a, g, base, off

(* The frame buffer takes a whole number of frames, none of them RAM, and  *)
(* every byte of it lies in one of them.                                   *)
LEMMA FrameBufferPages ==
  ASSUME fb \in FrameBuffers
  PROVE  /\ fb_phys_base \in Nat
         /\ fb_page_count \in Nat \ {0}
         /\ \A j \in Nat : (fb.phys + j * PAGE_SIZE) \div PAGE_SIZE = fb_phys_base + j
         /\ \A g \in Run(fb_phys_base, fb_page_count) : g \notin Frames
         /\ \A byte \in fb.phys .. fb.phys + fb.size - 1 :
              byte \div PAGE_SIZE \in Run(fb_phys_base, fb_page_count)
<1> DEFINE d == PAGE_SIZE
           base == fb.phys \div d
           last == fb.phys + fb.size + d - 1
           end == last \div d
<1>1. d \in Nat \ {0} /\ fb.phys \in Nat /\ fb.size \in Nat \ {0}
  BY MachineAssumption
<1>2. last \in Nat
  BY <1>1
<1>3. fb_phys_base = base /\ fb_page_count = end - base
  BY DEF fb_phys_base, fb_phys_end, fb_page_count
<1> DEFINE phys == fb.phys
           size == fb.size
<1>a. phys \in Nat /\ size \in Nat \ {0} /\ last = phys + size + d - 1
  BY <1>1
<1> HIDE DEF d, last, phys, size
<1>4. base \in Nat /\ d * base <= phys /\ phys < d * base + d
  BY <1>1, <1>a, Quotient DEF phys
<1>5. end \in Nat /\ d * end <= last /\ last < d * end + d
  BY <1>1, <1>2, Quotient
<1> HIDE DEF base, end
<1>6. d * end \in Nat /\ d * base \in Nat
  BY <1>1, <1>4, <1>5, ProductNext
<1>7. \A byte \in phys .. phys + size - 1 : byte \div d \in base .. end - 1
  <2> SUFFICES ASSUME NEW byte \in phys .. phys + size - 1 PROVE byte \div d \in base .. end - 1
    OBVIOUS
  <2>1. byte \in Nat /\ phys <= byte /\ byte + d <= last
    BY <1>1, <1>a
  <2>2. base <= byte \div d
    BY <1>1, <1>a, <2>1, QuotientMonotone DEF base, phys
  <2>3. byte \div d \in Nat /\ d * (byte \div d) <= byte
    BY <1>1, <2>1, Quotient
  <2> DEFINE q == byte \div d
  <2> HIDE DEF q
  <2>4. q \in Nat /\ d * q <= byte
    BY <2>3 DEF q
  <2>5. ~(end <= q)
    <3> SUFFICES ASSUME end <= q PROVE FALSE
      OBVIOUS
    <3>1. d * end <= d * q /\ d * q \in Nat
      BY <1>1, <1>5, <2>4, ProductMonotone
    <3> QED BY <1>1, <1>2, <1>5, <1>6, <2>1, <2>4, <3>1
  <2> QED BY <1>4, <1>5, <2>2, <2>4, <2>5 DEF q
<1>8. end - base \in Nat \ {0}
  <2>1. phys \in phys .. phys + size - 1
    BY <1>a
  <2>2. phys \div d \in base .. end - 1
    BY <1>7, <2>1
  <2> QED BY <1>4, <1>5, <2>2
<1>9. ASSUME NEW j \in Nat PROVE (phys + j * d) \div d = base + j
  <2>1. d * (base + j) = d * base + j * d /\ j * d \in Nat
    BY <1>1, <1>4
  <2>2. phys + j * d \in Nat /\ base + j \in Nat
    BY <1>a, <1>4, <2>1
  <2>3. d * (base + j) <= phys + j * d /\ phys + j * d < d * (base + j) + d
    BY <1>1, <1>a, <1>4, <1>6, <2>1
  <2> QED BY <1>1, <2>2, <2>3, QuotientUnique
<1>10. ASSUME NEW g \in base .. end - 1, g \in Frames PROVE FALSE
  <2>1. (g + 1) * d <= phys \/ phys + size <= g * d
    BY <1>10, MachineAssumption DEF phys, size, d
  <2>2. g \in Nat /\ base <= g /\ g + 1 <= end
    BY <1>4, <1>5
  <2>3. (g + 1) * d = d * g + d /\ g * d = d * g /\ d * (g + 1) = d * g + d /\ d * g \in Nat
    BY <1>1, <2>2, ProductNext
  <2>4. d * base <= d * g /\ d * (g + 1) <= d * end
    BY <1>1, <1>4, <1>5, <2>2, ProductMonotone
  <2>5. phys < d * g + d
    BY <1>1, <1>a, <1>4, <1>6, <2>3, <2>4
  <2>6. d * g < phys + size
    BY <1>1, <1>a, <1>5, <1>6, <2>3, <2>4
  <2> QED BY <1>1, <1>a, <2>1, <2>3, <2>5, <2>6
<1>11. Run(fb_phys_base, fb_page_count) = base .. end - 1
  BY <1>3, <1>4, <1>5 DEF Run
<1> QED BY <1>3, <1>4, <1>7, <1>8, <1>9, <1>10, <1>11 DEF phys, size, d

(* KERNEL_VIRTUAL_ADDRESSES span all segments, above any RAM.              *)
LEMMA KernelSpan ==
  ASSUME kernel \in Kernels
  PROVE  /\ virtual_base \in Nat /\ virtual_end \in Nat /\ virtual_base < virtual_end
         /\ \A s \in DOMAIN kernel.segments :
              /\ kernel.segments[s] \in Segment
              /\ virtual_base <= kernel.segments[s].first
              /\ kernel.segments[s].first + kernel.segments[s].pages <= virtual_end
         /\ \A f \in Frames : f < virtual_base
         /\ Len(kernel.segments) \in Nat \ {0}
         /\ DOMAIN kernel.segments = 1 .. Len(kernel.segments)
<1> DEFINE segs == kernel.segments
           n == Len(segs)
           firsts == {segs[s].first : s \in 1 .. n}
           g == [s \in 1 .. n |-> segs[s].first + segs[s].pages]
           ends == {g[s] : s \in 1 .. n}
<1>1. segs \in Seq(Segment) /\ segs # <<>>
  BY KernelAssumption
<1>2. n \in Nat \ {0} /\ DOMAIN segs = 1 .. n /\ \A s \in 1 .. n : segs[s] \in Segment
  BY <1>1
<1>3. \A s \in 1 .. n : segs[s].first \in Nat /\ segs[s].pages \in Nat \ {0}
  BY <1>2 DEF Segment
<1>4. virtual_base = Min(firsts) /\ virtual_end = Max(ends)
  <2>1. Load(kernel) = {segs[s] : s \in 1 .. n}
    BY <1>2 DEF Load
  <2> DEFINE End(s) == s.first + s.pages
  <2>2. {s.first : s \in Load(kernel)} = firsts
    BY <2>1
  <2>3. \A s \in 1 .. n : g[s] = End(segs[s])
    OBVIOUS
  <2> HIDE DEF g, End
  <2>4. {End(s) : s \in Load(kernel)} = ends
    BY <2>1, <2>3
  <2> QED BY <2>2, <2>4 DEF End, virtual_base, virtual_end
<1>5. \A f \in Frames, s \in 1 .. n : f < segs[s].first
  BY <1>2, KernelAssumption
<1> HIDE DEF n, segs
<1>6. 1 \in 1 .. n
  BY <1>2
<1>7. firsts \in SUBSET Nat /\ firsts # {}
  BY <1>3, <1>6
<1>8. Min(firsts) \in firsts /\ \A y \in firsts : Min(firsts) <= y
  BY <1>7, MinOfNaturals
<1>9. g \in [1 .. n -> Nat] /\ \A s \in 1 .. n : g[s] = segs[s].first + segs[s].pages
  BY <1>3
<1> HIDE DEF g
<1>10. Max(ends) \in ends /\ \A y \in ends : Max(ends) >= y
  BY <1>2, <1>9, MaxOfSequence
<1>11. ends \in SUBSET Nat
  BY <1>9
<1>12. virtual_base \in Nat /\ virtual_end \in Nat
  BY <1>4, <1>7, <1>8, <1>10, <1>11
<1>13. ASSUME NEW s \in 1 .. n
       PROVE  virtual_base <= segs[s].first /\ segs[s].first + segs[s].pages <= virtual_end
  <2>1. segs[s].first \in firsts /\ g[s] \in ends
    OBVIOUS
  <2>2. virtual_base <= segs[s].first /\ virtual_end >= g[s]
    BY <1>4, <1>8, <1>10, <2>1
  <2>3. g[s] = segs[s].first + segs[s].pages /\ g[s] \in Nat
    BY <1>9
  <2> QED BY <1>12, <2>2, <2>3
<1>14. virtual_base < virtual_end
  <2>1. virtual_base <= segs[1].first /\ segs[1].first + segs[1].pages <= virtual_end
    BY <1>6, <1>13
  <2> QED BY <1>3, <1>6, <1>12, <2>1
<1>15. \A f \in Frames : f < virtual_base
  <2>1. PICK s \in 1 .. n : virtual_base = segs[s].first
    BY <1>4, <1>8
  <2> QED BY <1>5, <2>1
<1> QED BY <1>2, <1>12, <1>13, <1>14, <1>15 DEF segs, n

-----------------------------------------------------------------------------
(* The invariant.                                                          *)

(* The statements before the kernel has its frames, before its segments    *)
(* are mapped, before the stack and the frame buffer have their addresses; *)
(* and those that follow the writing of BootInfo.                          *)
BeforeKernel == {"graphics", "alloc_kernel"}
BeforeSwitcher == BeforeKernel \cup {"map_kernel"}
BeforeStack == BeforeSwitcher \cup {"map_switcher", "alloc_stack"}
BeforeFb == BeforeStack \cup {"map_stack", "take_fb"}
Booted == {"exit", "switch", "kernel"}

Phases ==
  /\ pc \in BeforeKernel => kernel_ptr = Unset /\ seg = 1
  /\ pc \notin BeforeKernel \cup {"panic"} => kernel_ptr # Unset
  /\ pc \in BeforeStack => stack = Unset /\ stack_ptr = Unset
  /\ pc \notin BeforeStack \cup {"panic"} => stack # Unset
  /\ pc \in BeforeFb => frame_buffer = Unset
  /\ pc \notin BeforeFb \cup {"panic"} => frame_buffer # Unset
  /\ pc \notin {"graphics", "panic"} => fb \in FrameBuffers
  /\ pc \in {"alloc_kernel", "map_switcher", "alloc_stack", "take_fb"} => i = 0

(* Frames that have been given away stay what they are. *)
Ownership ==
  /\ kernel_ptr # Unset =>
       \A f \in Run(kernel_ptr, virtual_end - virtual_base) : f \in Frames /\ owner[f] = "code"
  /\ stack_ptr # Unset =>
       \A f \in Run(stack_ptr, KERNEL_STACK_PAGES) : f \in Frames /\ owner[f] = "stack"
  /\ \A f \in LoaderFrames : owner[f] = "loader"
  /\ \A f \in tables : owner[f] = "table"

(* Virtual addresses are given away in ascending order. *)
Layout ==
  /\ virtual_end <= next_v_addr
  /\ stack # Unset => /\ stack_ptr # Unset /\ virtual_end <= stack
                      /\ stack + KERNEL_STACK_PAGES <= next_v_addr
  /\ frame_buffer # Unset => /\ stack # Unset /\ fb \in FrameBuffers
                             /\ stack + KERNEL_STACK_PAGES <= frame_buffer
                             /\ frame_buffer + fb_page_count <= next_v_addr

(* What a mapped page can be. *)
KernelPage(v) ==
  /\ kernel_ptr # Unset
  /\ v \in virtual_base .. virtual_end - 1
  /\ vmap[v].frame = kernel_ptr + v - virtual_base
StackPage(v) ==
  /\ stack # Unset
  /\ v \in Run(stack, KERNEL_STACK_PAGES)
  /\ vmap[v].frame = stack_ptr + (v - stack)
  /\ vmap[v].writable
FbPage(v) ==
  /\ frame_buffer # Unset
  /\ v \in Run(frame_buffer, fb_page_count)
  /\ vmap[v] = [frame |-> fb_phys_base + (v - frame_buffer), writable |-> TRUE, device |-> TRUE]
Switcher(v) == v = SwitcherPage /\ vmap[v].frame = SwitcherPage

PagesKnown == \A v \in DOMAIN vmap : KernelPage(v) \/ Switcher(v) \/ StackPage(v) \/ FbPage(v)

(* How far the loops have come. *)
SegmentMapped(s) == Run(kernel.segments[s].first, kernel.segments[s].pages) \subseteq DOMAIN vmap
Progress ==
  /\ pc = "map_kernel" =>
       /\ seg \in DOMAIN kernel.segments
       /\ i < kernel.segments[seg].pages
       /\ \A s \in DOMAIN kernel.segments : s < seg => SegmentMapped(s)
       /\ Run(kernel.segments[seg].first, i) \subseteq DOMAIN vmap
  /\ pc \notin BeforeSwitcher \cup {"panic"} => \A s \in DOMAIN kernel.segments : SegmentMapped(s)
  /\ pc \notin BeforeSwitcher \cup {"map_switcher", "panic"} => SwitcherPage \in DOMAIN vmap
  /\ pc = "map_stack" => i < KERNEL_STACK_PAGES /\ Run(stack, i) \subseteq DOMAIN vmap
  /\ pc \notin BeforeStack \cup {"map_stack", "panic"} =>
       Run(stack, KERNEL_STACK_PAGES) \subseteq DOMAIN vmap
  /\ pc = "map_fb" => i < fb_page_count /\ Run(frame_buffer, i) \subseteq DOMAIN vmap
  /\ pc \notin BeforeFb \cup {"map_fb", "panic"} =>
       Run(frame_buffer, fb_page_count) \subseteq DOMAIN vmap

(* The mode that is chosen is the largest of those looked at. *)
ModeChosen ==
  /\ modes \in Modes
  /\ max_mode # 0 => max_mode \in DOMAIN modes /\ info = modes[max_mode]
  /\ pc = "graphics" => /\ i <= Len(modes)
                        /\ max_mode = 0 => i = 0
                        /\ \A k \in 1 .. i : area(modes[k]) <= area(info)
  /\ pc \notin {"graphics", "panic"} => /\ active = info
                                        /\ \A k \in DOMAIN modes : area(modes[k]) <= area(info)

BootInfoWritten ==
  /\ pc \notin Booted => boot_info = <<>>
  /\ pc \in Booted =>
       boot_info = [frame |-> kernel_ptr + kernel.bootinfo - virtual_base,
                    graphics_info |-> info, frame_buffer |-> frame_buffer * PAGE_SIZE,
                    frame_buffer_size |-> fb.size, switcher_map |-> SwitcherPage, v_addr_start |-> next_v_addr,
                    regions |-> IF pc = "exit" THEN {}
                                ELSE {f \in Frames : owner[f] \in UsableTypes}]

BootInv ==
  /\ TypeOK /\ Phases /\ Ownership /\ Layout /\ PagesKnown /\ Progress
  /\ ModeChosen /\ BootInfoWritten /\ SwitchNeverFaults

-----------------------------------------------------------------------------
(* Facts that several steps use.                                           *)

(* What is computed from the kernel and the frame buffer stays with them.  *)
LEMMA SpanKept ==
  ASSUME kernel' = kernel
  PROVE  virtual_base' = virtual_base /\ virtual_end' = virtual_end
BY DEF virtual_base, virtual_end, Load

LEMMA FbKept ==
  ASSUME fb' = fb
  PROVE  fb_phys_base' = fb_phys_base /\ fb_page_count' = fb_page_count
BY DEF fb_phys_base, fb_phys_end, fb_page_count

(* The frames that an allocation returns were free before.                 *)
LEMMA AllocateStep ==
  ASSUME TypeOK, NEW ty \in Types, NEW n, NEW first, AllocatePages(ty, n, first)
  PROVE  /\ owner' \in [Frames -> Types]
         /\ \A f \in Frames : owner[f] # "free" => owner'[f] = owner[f]
         /\ \A f \in Run(first, n) : f \in Frames /\ owner'[f] = ty
BY DEF TypeOK, AllocatePages, Free

(* `map` adds one page, and only takes frames that are free.               *)
LEMMA MapPageStep ==
  ASSUME TypeOK, NEW v \in Nat, NEW p \in Int, NEW w \in BOOLEAN, NEW d \in BOOLEAN,
         MapPage(v, p, w, d)
  PROVE  /\ owner' \in [Frames -> Types]
         /\ \A f \in Frames : owner[f] # "free" => owner'[f] = owner[f]
         /\ \A f \in tables' : f \in tables \/ (f \in Frames /\ owner'[f] = "table")
         /\ DOMAIN vmap' = DOMAIN vmap \cup {v}
         /\ vmap'[v] = [frame |-> p, writable |-> w, device |-> d]
         /\ \A u \in DOMAIN vmap : vmap'[u] = vmap[u]
         /\ DOMAIN vmap' \subseteq Nat
         /\ \A u \in DOMAIN vmap' : vmap'[u] \in Mapping
<1>1. /\ owner' \in [Frames -> Types]
      /\ \A f \in Frames : owner[f] # "free" => owner'[f] = owner[f]
      /\ \A f \in tables' : f \in tables \/ (f \in Frames /\ owner'[f] = "table")
  <2>1. PICK new \in SUBSET Free :
          /\ owner' = [f \in Frames |-> IF f \in new THEN "table" ELSE owner[f]]
          /\ tables' = tables \cup new
    BY DEF MapPage
  <2>2. \A f \in new : f \in Frames /\ owner[f] = "free"
    BY DEF Free
  <2> QED BY <2>1, <2>2 DEF TypeOK, Types
<1>2. /\ v \notin DOMAIN vmap
      /\ vmap' = [u \in DOMAIN vmap \cup {v} |->
                   IF u = v THEN [frame |-> p, writable |-> w, device |-> d] ELSE vmap[u]]
  BY DEF MapPage
<1>3. DOMAIN vmap' = DOMAIN vmap \cup {v}
  BY <1>2
<1>4. vmap'[v] = [frame |-> p, writable |-> w, device |-> d]
  BY <1>2
<1>5. \A u \in DOMAIN vmap : vmap'[u] = vmap[u]
  BY <1>2
<1>6. DOMAIN vmap' \subseteq Nat
  BY <1>3 DEF TypeOK
<1>7. ASSUME NEW u \in DOMAIN vmap' PROVE vmap'[u] \in Mapping
  BY <1>3, <1>4, <1>5 DEF TypeOK, Mapping
<1> QED BY <1>1, <1>3, <1>4, <1>5, <1>6, <1>7

(* Frames that are not free keep their owner, so the kernel, its stack and *)
(* the loader keep theirs.                                                 *)
LEMMA OwnershipKept ==
  ASSUME TypeOK, Ownership, kernel' = kernel, kernel_ptr' = kernel_ptr, stack_ptr' = stack_ptr,
         \A f \in Frames : owner[f] # "free" => owner'[f] = owner[f],
         \A f \in tables' : f \in tables \/ (f \in Frames /\ owner'[f] = "table")
  PROVE  Ownership'
<1>1. virtual_base' = virtual_base /\ virtual_end' = virtual_end
  BY SpanKept
<1>2. LoaderFrames \subseteq Frames
  BY MachineAssumption
<1>3. ASSUME NEW f \in Frames, owner[f] \in {"code", "stack", "loader", "table"} PROVE owner'[f] = owner[f]
  BY <1>3
<1>4. kernel_ptr' # Unset =>
        \A f \in Run(kernel_ptr', virtual_end' - virtual_base') : f \in Frames /\ owner'[f] = "code"
  BY <1>1, <1>3 DEF Ownership
<1>5. stack_ptr' # Unset =>
        \A f \in Run(stack_ptr', KERNEL_STACK_PAGES) : f \in Frames /\ owner'[f] = "stack"
  BY <1>3 DEF Ownership
<1>6. \A f \in LoaderFrames : owner'[f] = "loader"
  BY <1>2, <1>3 DEF Ownership
<1>7. \A f \in tables' : owner'[f] = "table"
  BY <1>3 DEF Ownership, TypeOK
<1> QED BY <1>4, <1>5, <1>6, <1>7 DEF Ownership, Run

(* A page that was mapped stays what it is while the areas keep their      *)
(* addresses.                                                              *)
LEMMA PageKept ==
  ASSUME kernel' = kernel,
         kernel_ptr # Unset => kernel_ptr' = kernel_ptr,
         stack # Unset => stack' = stack /\ stack_ptr' = stack_ptr,
         frame_buffer # Unset => frame_buffer' = frame_buffer /\ fb' = fb,
         NEW v, vmap'[v] = vmap[v],
         KernelPage(v) \/ Switcher(v) \/ StackPage(v) \/ FbPage(v)
  PROVE  (KernelPage(v) \/ Switcher(v) \/ StackPage(v) \/ FbPage(v))'
<1>1. virtual_base' = virtual_base /\ virtual_end' = virtual_end
  BY SpanKept
<1>2. fb' = fb => fb_phys_base' = fb_phys_base /\ fb_page_count' = fb_page_count
  BY FbKept
<1>3. CASE KernelPage(v)
  BY <1>1, <1>3 DEF KernelPage
<1>4. CASE Switcher(v)
  BY <1>4 DEF Switcher
<1>5. CASE StackPage(v)
  BY <1>5 DEF StackPage, Run
<1>6. CASE FbPage(v)
  BY <1>2, <1>6 DEF FbPage, Run
<1> QED BY <1>3, <1>4, <1>5, <1>6

LEMMA PagesKept ==
  ASSUME kernel' = kernel, vmap' = vmap, PagesKnown,
         kernel_ptr # Unset => kernel_ptr' = kernel_ptr,
         stack # Unset => stack' = stack /\ stack_ptr' = stack_ptr,
         frame_buffer # Unset => frame_buffer' = frame_buffer /\ fb' = fb
  PROVE  PagesKnown'
<1> SUFFICES ASSUME NEW v \in DOMAIN vmap
             PROVE  (KernelPage(v) \/ Switcher(v) \/ StackPage(v) \/ FbPage(v))'
  BY DEF PagesKnown
<1>1. KernelPage(v) \/ Switcher(v) \/ StackPage(v) \/ FbPage(v)
  BY DEF PagesKnown
<1> QED BY <1>1, PageKept

(* Graphics is over once the kernel is allocated.                          *)
LEMMA ModeKept ==
  ASSUME ModeChosen, pc \notin {"graphics", "panic"}, pc' # "graphics",
         modes' = modes, max_mode' = max_mode, info' = info, active' = active
  PROVE  ModeChosen'
BY DEF ModeChosen, area

(* All but the phase and the progress of a step that maps a page which is  *)
(* one of the four kinds.                                                  *)
LEMMA MapStep ==
  ASSUME BootInv, NEW v \in Nat, NEW p \in Int, NEW w \in BOOLEAN, NEW d \in BOOLEAN,
         MapPage(v, p, w, d),
         pc \in {"map_kernel", "map_switcher", "map_stack", "map_fb"},
         pc' \in {"map_kernel", "map_switcher", "alloc_stack", "map_stack", "take_fb", "map_fb", "finish"},
         i' \in Nat, seg' \in Nat,
         kernel' = kernel, kernel_ptr' = kernel_ptr, stack_ptr' = stack_ptr, stack' = stack,
         next_v_addr' = next_v_addr, modes' = modes, max_mode' = max_mode, info' = info,
         active' = active, fb' = fb, frame_buffer' = frame_buffer, boot_info' = boot_info,
         vmap'[v] = [frame |-> p, writable |-> w, device |-> d] =>
           (KernelPage(v) \/ Switcher(v) \/ StackPage(v) \/ FbPage(v))'
  PROVE  /\ TypeOK' /\ Ownership' /\ Layout' /\ PagesKnown' /\ ModeChosen' /\ BootInfoWritten'
         /\ SwitchNeverFaults'
         /\ DOMAIN vmap' = DOMAIN vmap \cup {v}
<1>0. TypeOK /\ Ownership /\ Layout /\ PagesKnown /\ ModeChosen /\ BootInfoWritten
  BY DEF BootInv
<1>1. /\ owner' \in [Frames -> Types]
      /\ \A f \in Frames : owner[f] # "free" => owner'[f] = owner[f]
      /\ \A f \in tables' : f \in tables \/ (f \in Frames /\ owner'[f] = "table")
      /\ DOMAIN vmap' = DOMAIN vmap \cup {v}
      /\ vmap'[v] = [frame |-> p, writable |-> w, device |-> d]
      /\ \A u \in DOMAIN vmap : vmap'[u] = vmap[u]
      /\ DOMAIN vmap' \subseteq Nat
      /\ \A u \in DOMAIN vmap' : vmap'[u] \in Mapping
  BY <1>0, MapPageStep
<1>2. TypeOK'
  BY <1>0, <1>1 DEF TypeOK
<1>3. Ownership'
  BY <1>0, <1>1, OwnershipKept
<1>4. Layout'
  BY <1>0, SpanKept, FbKept DEF Layout
<1>5. PagesKnown'
  <2> SUFFICES ASSUME NEW u \in DOMAIN vmap'
               PROVE  (KernelPage(u) \/ Switcher(u) \/ StackPage(u) \/ FbPage(u))'
    BY DEF PagesKnown
  <2>1. CASE u = v
    BY <1>1, <2>1
  <2>2. CASE u \in DOMAIN vmap
    <3>1. KernelPage(u) \/ Switcher(u) \/ StackPage(u) \/ FbPage(u)
      BY <1>0, <2>2 DEF PagesKnown
    <3>2. vmap'[u] = vmap[u]
      BY <1>1, <2>2
    <3> QED BY <3>1, <3>2, PageKept
  <2> QED BY <1>1, <2>1, <2>2
<1>6. ModeChosen'
  BY <1>0, ModeKept
<1>7. BootInfoWritten'
  BY <1>0 DEF BootInfoWritten, Booted
<1> QED BY <1>1, <1>2, <1>3, <1>4, <1>5, <1>6, <1>7 DEF SwitchNeverFaults

-----------------------------------------------------------------------------
(* The invariant holds at first, and every step keeps it.                  *)

LEMMA BootInit == Init => BootInv
<1> SUFFICES ASSUME Init PROVE BootInv
  OBVIOUS
<1>1. kernel \in Kernels /\ modes \in Modes
  BY DEF Init
<1>2. virtual_end \in Nat
  BY <1>1, KernelSpan
<1>3. owner \in [Frames -> Types] /\ \A f \in LoaderFrames : owner[f] = "loader"
  BY MachineAssumption DEF Init, Types
<1>4. vmap = <<>> /\ DOMAIN vmap = {}
  BY DEF Init
<1>5. TypeOK
  BY <1>1, <1>2, <1>3, <1>4 DEF TypeOK, Init
<1>6. Phases /\ Ownership /\ Layout
  BY <1>2, <1>3 DEF Init, Phases, Ownership, Layout, BeforeKernel, BeforeSwitcher, BeforeStack, BeforeFb
<1>7. PagesKnown
  BY <1>4 DEF PagesKnown
<1>8. Progress
  BY DEF Init, Progress, BeforeKernel, BeforeSwitcher, BeforeStack, BeforeFb
<1>9. ModeChosen
  <2>1. modes \in Seq([w : Nat, h : Nat])
    BY <1>1, MachineAssumption
  <2>2. Len(modes) \in Nat
    BY <2>1
  <2> QED BY <1>1, <2>2 DEF Init, ModeChosen
<1>10. BootInfoWritten /\ SwitchNeverFaults
  BY DEF Init, BootInfoWritten, SwitchNeverFaults, Booted
<1> QED BY <1>5, <1>6, <1>7, <1>8, <1>9, <1>10 DEF BootInv

(* A panic changes nothing but the statement reached.                      *)
LEMMA PanicStep ==
  ASSUME BootInv, Panic, pc \notin Booted
  PROVE  BootInv'
<1>1. /\ pc' = "panic" /\ kernel' = kernel /\ owner' = owner /\ vmap' = vmap /\ tables' = tables /\ i' = i /\ seg' = seg
      /\ kernel_ptr' = kernel_ptr /\ stack_ptr' = stack_ptr /\ stack' = stack
      /\ next_v_addr' = next_v_addr /\ modes' = modes /\ max_mode' = max_mode /\ info' = info
      /\ active' = active /\ fb' = fb /\ frame_buffer' = frame_buffer /\ boot_info' = boot_info
  BY DEF Panic, screen
<1>2. TypeOK'
  BY <1>1 DEF BootInv, TypeOK
<1>3. Phases'
  BY <1>1 DEF BootInv, Phases, BeforeKernel, BeforeSwitcher, BeforeStack, BeforeFb
<1>4. Ownership'
  BY <1>1, OwnershipKept DEF BootInv
<1>5. Layout'
  BY <1>1, SpanKept, FbKept DEF BootInv, Layout
<1>6. PagesKnown'
  BY <1>1, PagesKept DEF BootInv
<1>7. Progress'
  BY <1>1 DEF Progress
<1>8. ModeChosen'
  BY <1>1 DEF BootInv, ModeChosen
<1>9. BootInfoWritten' /\ SwitchNeverFaults'
  BY <1>1 DEF BootInv, BootInfoWritten, Booted, SwitchNeverFaults
<1> QED BY <1>2, <1>3, <1>4, <1>5, <1>6, <1>7, <1>8, <1>9 DEF BootInv

LEMMA AreaIsNatural ==
  ASSUME NEW mode \in [w : Nat, h : Nat]
  PROVE  area(mode) \in Nat
<1>1. mode.w \in Nat /\ mode.h \in Nat
  OBVIOUS
<1>2. \A a, b \in Nat : a * b \in Nat
  OBVIOUS
<1> QED BY <1>1, <1>2 DEF area

LEMMA ConsiderModeStep ==
  ASSUME BootInv, ConsiderMode
  PROVE  BootInv'
<1>1. /\ pc = "graphics" /\ pc' = pc /\ i' = i + 1 /\ i < Len(modes)
      /\ max_mode' = (IF Better(i + 1) THEN i + 1 ELSE max_mode)
      /\ info' = (IF Better(i + 1) THEN modes[i + 1] ELSE info)
  BY DEF ConsiderMode
<1>2. /\ kernel' = kernel /\ owner' = owner /\ vmap' = vmap /\ tables' = tables /\ seg' = seg
      /\ kernel_ptr' = kernel_ptr /\ stack_ptr' = stack_ptr /\ stack' = stack
      /\ next_v_addr' = next_v_addr /\ modes' = modes
      /\ active' = active /\ fb' = fb /\ frame_buffer' = frame_buffer /\ boot_info' = boot_info
  BY DEF ConsiderMode, others
<1>3. /\ TypeOK /\ Phases /\ Ownership /\ Layout /\ PagesKnown /\ Progress /\ ModeChosen
      /\ BootInfoWritten /\ SwitchNeverFaults
  BY DEF BootInv
<1>4. i \in Nat
  BY <1>3 DEF TypeOK
<1>5. TypeOK'
  BY <1>1, <1>2, <1>3 DEF TypeOK
<1>6. Phases'
  BY <1>1, <1>2, <1>3 DEF Phases, BeforeKernel, BeforeSwitcher, BeforeStack, BeforeFb
<1>7. Ownership'
  BY <1>2, <1>3, OwnershipKept
<1>8. Layout'
  BY <1>2, <1>3, SpanKept, FbKept DEF Layout
<1>9. PagesKnown'
  BY <1>2, <1>3, PagesKept
<1>10. Progress'
  BY <1>1 DEF Progress, BeforeKernel, BeforeSwitcher, BeforeStack, BeforeFb
<1>11. ModeChosen'
  <2>1. modes \in Seq([w : Nat, h : Nat])
    BY <1>3, MachineAssumption DEF ModeChosen
  <2> DEFINE Mode == [w : Nat, h : Nat]
  <2>a. modes \in Seq(Mode)
    BY <2>1
  <2> HIDE DEF Mode
  <2>b. Len(modes) \in Nat /\ DOMAIN modes = 1 .. Len(modes)
        /\ \A k \in 1 .. Len(modes) : modes[k] \in Mode
    BY <2>a
  <2>2. Len(modes) \in Nat /\ DOMAIN modes = 1 .. Len(modes)
        /\ \A k \in 1 .. Len(modes) : modes[k] \in [w : Nat, h : Nat]
    BY <2>b DEF Mode
  <2>3. \A k \in 1 .. Len(modes) : area(modes[k]) \in Nat
    BY <2>2, AreaIsNatural
  <2> DEFINE new == i + 1
  <2>4. new \in 1 .. Len(modes) /\ i' = new /\ new \in Nat \ {0}
        /\ \A k \in 1 .. new : k \in 1 .. i \/ k = new
    BY <1>1, <1>4, <2>2
  <2> HIDE DEF new
  <2>5. /\ max_mode' = (IF Better(new) THEN new ELSE max_mode)
        /\ info' = (IF Better(new) THEN modes[new] ELSE info)
    BY <1>1 DEF new
  <2>6. max_mode' # 0 /\ max_mode' \in DOMAIN modes /\ info' = modes[max_mode']
    BY <1>3, <2>2, <2>4, <2>5 DEF ModeChosen, Better
  <2>7. ASSUME NEW k \in 1 .. new PROVE area(modes[k]) <= area(info')
    <3>1. k \in 1 .. Len(modes) /\ area(modes[k]) \in Nat /\ area(modes[new]) \in Nat
      BY <2>2, <2>3, <2>4
    <3>2. CASE max_mode = 0
      <4>1. i = 0
        BY <1>1, <1>3, <3>2 DEF ModeChosen
      <4>2. k = new
        BY <2>4, <4>1
      <4>3. info' = modes[new]
        BY <2>5, <3>2 DEF Better
      <4> QED BY <3>1, <4>2, <4>3
    <3>3. CASE max_mode # 0
      <4>1. info = modes[max_mode] /\ area(info) \in Nat
        BY <1>3, <2>2, <2>3, <3>3 DEF ModeChosen
      <4>2. k \in 1 .. i => area(modes[k]) <= area(info)
        BY <1>1, <1>3 DEF ModeChosen
      <4>3. Better(new) <=> area(modes[new]) > area(info)
        BY <3>3 DEF Better
      <4>4. CASE Better(new)
        BY <2>4, <2>5, <3>1, <4>1, <4>2, <4>3, <4>4
      <4>5. CASE ~Better(new)
        BY <2>4, <2>5, <3>1, <4>1, <4>2, <4>3, <4>5
      <4> QED BY <4>4, <4>5
    <3> QED BY <3>2, <3>3
  <2>8. (\A k \in 1 .. i : area(modes[k]) <= area(info))'
    BY <1>2, <2>4, <2>7 DEF area
  <2>9. i' <= Len(modes')
    BY <1>2, <2>2, <2>4
  <2> QED BY <1>1, <1>2, <1>3, <2>6, <2>8, <2>9 DEF ModeChosen
<1>12. BootInfoWritten' /\ SwitchNeverFaults'
  BY <1>1, <1>2, <1>3 DEF BootInfoWritten, Booted, SwitchNeverFaults
<1> QED BY <1>5, <1>6, <1>7, <1>8, <1>9, <1>10, <1>11, <1>12 DEF BootInv

LEMMA SetModeStep ==
  ASSUME BootInv, SetMode
  PROVE  BootInv'
<1>1. /\ pc = "graphics" /\ i = Len(modes) /\ max_mode # 0
      /\ active' = modes[max_mode] /\ fb' \in FrameBuffers /\ i' = 0 /\ pc' = "alloc_kernel"
  BY DEF SetMode
<1>2. /\ kernel' = kernel /\ owner' = owner /\ vmap' = vmap /\ tables' = tables /\ seg' = seg
      /\ kernel_ptr' = kernel_ptr /\ stack_ptr' = stack_ptr /\ stack' = stack
      /\ next_v_addr' = next_v_addr /\ modes' = modes /\ max_mode' = max_mode /\ info' = info
      /\ frame_buffer' = frame_buffer /\ boot_info' = boot_info
  BY DEF SetMode, others
<1>3. /\ TypeOK /\ Phases /\ Ownership /\ Layout /\ PagesKnown /\ Progress /\ ModeChosen
      /\ BootInfoWritten /\ SwitchNeverFaults
  BY DEF BootInv
<1>4. kernel_ptr = Unset /\ stack = Unset /\ stack_ptr = Unset /\ frame_buffer = Unset /\ seg = 1
  BY <1>1, <1>3 DEF Phases, BeforeKernel, BeforeSwitcher, BeforeStack, BeforeFb
<1>5. TypeOK'
  BY <1>1, <1>2, <1>3 DEF TypeOK
<1>6. Phases'
  BY <1>1, <1>2, <1>4 DEF Phases, BeforeKernel, BeforeSwitcher, BeforeStack, BeforeFb
<1>7. Ownership'
  BY <1>2, <1>3, OwnershipKept
<1>8. Layout'
  BY <1>2, <1>3, <1>4, SpanKept DEF Layout
<1>9. PagesKnown'
  BY <1>2, <1>3, <1>4, PagesKept
<1>10. Progress'
  BY <1>1 DEF Progress, BeforeKernel, BeforeSwitcher, BeforeStack, BeforeFb
<1>11. ModeChosen'
  <2>1. modes \in Seq([w : Nat, h : Nat])
    BY <1>3, MachineAssumption DEF ModeChosen
  <2>2. DOMAIN modes = 1 .. i
    BY <1>1, <2>1
  <2>3. info = modes[max_mode] /\ \A k \in DOMAIN modes : area(modes[k]) <= area(info)
    BY <1>1, <1>3, <2>2 DEF ModeChosen
  <2> QED BY <1>1, <1>2, <1>3, <2>3 DEF ModeChosen, area
<1>12. BootInfoWritten' /\ SwitchNeverFaults'
  BY <1>1, <1>2, <1>3 DEF BootInfoWritten, Booted, SwitchNeverFaults
<1> QED BY <1>5, <1>6, <1>7, <1>8, <1>9, <1>10, <1>11, <1>12 DEF BootInv

LEMMA AllocKernelStep ==
  ASSUME BootInv, AllocKernel
  PROVE  BootInv'
<1>1. PICK first \in Free : /\ AllocatePages("code", virtual_end - virtual_base, first)
                           /\ kernel_ptr' = first
  BY DEF AllocKernel
<1>2. /\ kernel' = kernel /\ vmap' = vmap /\ tables' = tables /\ i' = i /\ seg' = seg /\ stack_ptr' = stack_ptr
      /\ stack' = stack /\ next_v_addr' = next_v_addr /\ modes' = modes /\ max_mode' = max_mode /\ info' = info
      /\ active' = active /\ fb' = fb /\ frame_buffer' = frame_buffer /\ boot_info' = boot_info
      /\ pc = "alloc_kernel" /\ pc' = "map_kernel"
  BY DEF AllocKernel, screen
<1>3. /\ TypeOK /\ Phases /\ Ownership /\ Layout /\ PagesKnown /\ Progress /\ ModeChosen
      /\ BootInfoWritten /\ SwitchNeverFaults
  BY DEF BootInv
<1>4. kernel_ptr = Unset /\ stack = Unset /\ stack_ptr = Unset /\ frame_buffer = Unset
      /\ seg = 1 /\ i = 0 /\ fb \in FrameBuffers
  BY <1>2, <1>3 DEF Phases, BeforeKernel, BeforeSwitcher, BeforeStack, BeforeFb
<1>5. /\ owner' \in [Frames -> Types]
      /\ \A f \in Frames : owner[f] # "free" => owner'[f] = owner[f]
      /\ \A f \in Run(first, virtual_end - virtual_base) : f \in Frames /\ owner'[f] = "code"
  BY <1>1, <1>3, AllocateStep DEF Types
<1>6. first \in Nat /\ first # Unset
  BY MachineAssumption DEF Free, Unset
<1>7. TypeOK'
  BY <1>1, <1>2, <1>3, <1>5, <1>6 DEF TypeOK
<1>8. Phases'
  BY <1>1, <1>2, <1>4, <1>6 DEF Phases, BeforeKernel, BeforeSwitcher, BeforeStack, BeforeFb
<1>9. Ownership'
  <2>1. \A f \in LoaderFrames : owner'[f] = "loader"
    BY <1>3, <1>5, MachineAssumption DEF Ownership
  <2>2. virtual_base' = virtual_base /\ virtual_end' = virtual_end
    BY <1>2, SpanKept
  <2>3. \A f \in Run(first, virtual_end' - virtual_base') : f \in Frames /\ owner'[f] = "code"
    BY <1>5, <2>2
  <2>4. \A f \in tables' : owner'[f] = "table"
    BY <1>2, <1>3, <1>5 DEF Ownership, TypeOK
  <2> QED BY <1>1, <1>2, <1>4, <2>1, <2>3, <2>4 DEF Ownership, Run
<1>10. Layout'
  BY <1>2, <1>3, <1>4, SpanKept DEF Layout
<1>11. PagesKnown'
  BY <1>2, <1>3, <1>4, PagesKept
<1>12. Progress'
  <2>1. Len(kernel.segments) \in Nat \ {0} /\ DOMAIN kernel.segments = 1 .. Len(kernel.segments)
        /\ \A s \in DOMAIN kernel.segments : kernel.segments[s] \in Segment
    BY <1>3, KernelSpan DEF TypeOK
  <2>2. 1 \in DOMAIN kernel.segments /\ \A s \in DOMAIN kernel.segments : ~(s < 1)
    BY <2>1
  <2>3. kernel.segments[1].first \in Nat /\ kernel.segments[1].pages \in Nat \ {0}
    BY <2>1, <2>2 DEF Segment
  <2>4. 0 < kernel.segments[1].pages /\ Run(kernel.segments[1].first, 0) = {}
    BY <2>3 DEF Run
  <2> QED BY <1>2, <1>4, <2>2, <2>4 DEF Progress, BeforeKernel, BeforeSwitcher, BeforeStack, BeforeFb, Run
<1>13. ModeChosen'
  BY <1>2, <1>3, ModeKept
<1>14. BootInfoWritten' /\ SwitchNeverFaults'
  BY <1>2, <1>3 DEF BootInfoWritten, Booted, SwitchNeverFaults
<1> QED BY <1>7, <1>8, <1>9, <1>10, <1>11, <1>12, <1>13, <1>14 DEF BootInv

LEMMA AllocStackStep ==
  ASSUME BootInv, AllocStack
  PROVE  BootInv'
<1>1. PICK first \in Free : AllocatePages("stack", KERNEL_STACK_PAGES, first) /\ stack_ptr' = first
  BY DEF AllocStack
<1>2. /\ kernel' = kernel /\ vmap' = vmap /\ tables' = tables /\ i' = i /\ seg' = seg /\ kernel_ptr' = kernel_ptr
      /\ modes' = modes /\ max_mode' = max_mode /\ info' = info /\ active' = active /\ fb' = fb
      /\ frame_buffer' = frame_buffer /\ boot_info' = boot_info
      /\ pc = "alloc_stack" /\ pc' = "map_stack"
      /\ stack' = next_v_addr /\ next_v_addr' = next_v_addr + KERNEL_STACK_PAGES
  BY DEF AllocStack, TakePages, screen
<1>3. /\ TypeOK /\ Phases /\ Ownership /\ Layout /\ PagesKnown /\ Progress /\ ModeChosen
      /\ BootInfoWritten /\ SwitchNeverFaults
  BY DEF BootInv
<1>4. stack = Unset /\ stack_ptr = Unset /\ frame_buffer = Unset /\ i = 0 /\ fb \in FrameBuffers
      /\ kernel_ptr # Unset
  BY <1>2, <1>3 DEF Phases, BeforeKernel, BeforeSwitcher, BeforeStack, BeforeFb
<1>5. /\ owner' \in [Frames -> Types]
      /\ \A f \in Frames : owner[f] # "free" => owner'[f] = owner[f]
      /\ \A f \in Run(first, KERNEL_STACK_PAGES) : f \in Frames /\ owner'[f] = "stack"
  BY <1>1, <1>3, AllocateStep DEF Types
<1>6. first \in Nat /\ next_v_addr \in Nat /\ KERNEL_STACK_PAGES \in Nat \ {0}
      /\ \A n \in Nat : n # Unset
  BY <1>3, MachineAssumption DEF Free, Unset, TypeOK
<1>7. TypeOK'
  BY <1>1, <1>2, <1>3, <1>5, <1>6 DEF TypeOK
<1>8. Phases'
  BY <1>1, <1>2, <1>4, <1>6 DEF Phases, BeforeKernel, BeforeSwitcher, BeforeStack, BeforeFb
<1>9. Ownership'
  <2>1. \A f \in LoaderFrames : owner'[f] = "loader"
    BY <1>3, <1>5, MachineAssumption DEF Ownership
  <2>2. virtual_base' = virtual_base /\ virtual_end' = virtual_end
    BY <1>2, SpanKept
  <2>3. \A f \in Run(kernel_ptr, virtual_end - virtual_base) : f \in Frames /\ owner[f] = "code"
    BY <1>3, <1>4 DEF Ownership
  <2>4. \A f \in Run(kernel_ptr', virtual_end' - virtual_base') : f \in Frames /\ owner'[f] = "code"
    BY <1>2, <1>5, <2>2, <2>3
  <2>5. \A f \in tables' : owner'[f] = "table"
    BY <1>2, <1>3, <1>5 DEF Ownership, TypeOK
  <2> QED BY <1>1, <1>5, <2>1, <2>4, <2>5 DEF Ownership, Run
<1>10. Layout'
  <2>1. virtual_end' = virtual_end /\ virtual_end \in Nat /\ virtual_end <= next_v_addr
    BY <1>2, <1>3, SpanKept, KernelSpan DEF TypeOK, Layout
  <2>2. frame_buffer' = Unset /\ stack_ptr' # Unset /\ virtual_end' <= stack'
        /\ stack' + KERNEL_STACK_PAGES <= next_v_addr' /\ virtual_end' <= next_v_addr'
    BY <1>1, <1>2, <1>4, <1>6, <2>1
  <2> QED BY <2>2 DEF Layout
<1>11. PagesKnown'
  BY <1>2, <1>3, <1>4, PagesKept
<1>12. Progress'
  <2>1. 0 < KERNEL_STACK_PAGES /\ Run(next_v_addr, 0) = {}
    BY <1>6 DEF Run
  <2>2. (\A s \in DOMAIN kernel.segments : SegmentMapped(s)) /\ SwitcherPage \in DOMAIN vmap
    BY <1>2, <1>3 DEF Progress, BeforeKernel, BeforeSwitcher, BeforeStack, BeforeFb
  <2>3. (\A s \in DOMAIN kernel.segments : SegmentMapped(s))'
    BY <1>2, <2>2 DEF SegmentMapped, Run
  <2>4. i' < KERNEL_STACK_PAGES /\ Run(stack', i') \subseteq DOMAIN vmap'
    BY <1>2, <1>4, <2>1
  <2> QED BY <1>2, <2>2, <2>3, <2>4 DEF Progress, BeforeKernel, BeforeSwitcher, BeforeStack, BeforeFb, Run
<1>13. ModeChosen'
  BY <1>2, <1>3, ModeKept
<1>14. BootInfoWritten' /\ SwitchNeverFaults'
  BY <1>2, <1>3 DEF BootInfoWritten, Booted, SwitchNeverFaults
<1> QED BY <1>7, <1>8, <1>9, <1>10, <1>11, <1>12, <1>13, <1>14 DEF BootInv

LEMMA TakeFrameBufferStep ==
  ASSUME BootInv, TakeFrameBuffer
  PROVE  BootInv'
<1>1. pc = "take_fb" /\ pc' = "map_fb"
      /\ frame_buffer' = next_v_addr /\ next_v_addr' = next_v_addr + fb_page_count
  BY DEF TakeFrameBuffer, TakePages
<1>2. /\ kernel' = kernel /\ owner' = owner /\ vmap' = vmap /\ tables' = tables /\ i' = i /\ seg' = seg
      /\ kernel_ptr' = kernel_ptr /\ stack_ptr' = stack_ptr /\ stack' = stack /\ modes' = modes /\ max_mode' = max_mode
      /\ info' = info /\ active' = active /\ fb' = fb /\ boot_info' = boot_info
  BY DEF TakeFrameBuffer, screen
<1>3. /\ TypeOK /\ Phases /\ Ownership /\ Layout /\ PagesKnown /\ Progress /\ ModeChosen
      /\ BootInfoWritten /\ SwitchNeverFaults
  BY DEF BootInv
<1>4. frame_buffer = Unset /\ stack # Unset /\ i = 0 /\ fb \in FrameBuffers
  BY <1>1, <1>3 DEF Phases, BeforeKernel, BeforeSwitcher, BeforeStack, BeforeFb
<1>5. fb_page_count \in Nat \ {0} /\ next_v_addr \in Nat /\ \A n \in Nat : n # Unset
  BY <1>3, <1>4, FrameBufferPages DEF TypeOK, Unset
<1>6. TypeOK'
  BY <1>1, <1>2, <1>3, <1>5 DEF TypeOK
<1>7. Phases'
  BY <1>1, <1>2, <1>3, <1>4, <1>5 DEF Phases, BeforeKernel, BeforeSwitcher, BeforeStack, BeforeFb
<1>8. Ownership'
  BY <1>2, <1>3, OwnershipKept
<1>9. Layout'
  <2>1. virtual_end' = virtual_end /\ virtual_end \in Nat /\ virtual_end <= next_v_addr
    BY <1>2, <1>3, SpanKept, KernelSpan DEF TypeOK, Layout
  <2>2. stack_ptr # Unset /\ virtual_end <= stack /\ stack + KERNEL_STACK_PAGES <= next_v_addr
    BY <1>3, <1>4 DEF Layout
  <2>3. stack \in Nat /\ KERNEL_STACK_PAGES \in Nat
    BY <1>3, <1>4, MachineAssumption DEF TypeOK
  <2>4. fb_page_count' = fb_page_count
    BY <1>2, FbKept
  <2>5. virtual_end' <= next_v_addr' /\ virtual_end' <= stack' /\ stack' + KERNEL_STACK_PAGES <= next_v_addr'
    BY <1>1, <1>2, <1>5, <2>1, <2>2, <2>3
  <2>6. stack' + KERNEL_STACK_PAGES <= frame_buffer' /\ frame_buffer' + fb_page_count' <= next_v_addr'
    BY <1>1, <1>2, <1>5, <2>2, <2>4
  <2> QED BY <1>2, <1>4, <2>2, <2>5, <2>6 DEF Layout
<1>10. PagesKnown'
  BY <1>2, <1>3, <1>4, PagesKept
<1>11. Progress'
  <2>1. 0 < fb_page_count /\ Run(next_v_addr, 0) = {} /\ fb_page_count' = fb_page_count
    BY <1>2, <1>5, FbKept DEF Run
  <2>2. (\A s \in DOMAIN kernel.segments : SegmentMapped(s)) /\ SwitcherPage \in DOMAIN vmap
        /\ Run(stack, KERNEL_STACK_PAGES) \subseteq DOMAIN vmap
    BY <1>1, <1>3 DEF Progress, BeforeKernel, BeforeSwitcher, BeforeStack, BeforeFb
  <2>3. (\A s \in DOMAIN kernel.segments : SegmentMapped(s))'
    BY <1>2, <2>2 DEF SegmentMapped, Run
  <2>4. i' < fb_page_count' /\ Run(frame_buffer', i') \subseteq DOMAIN vmap'
        /\ Run(stack', KERNEL_STACK_PAGES) \subseteq DOMAIN vmap'
    BY <1>1, <1>2, <1>4, <2>1, <2>2
  <2> QED BY <1>1, <1>2, <2>2, <2>3, <2>4 DEF Progress, BeforeKernel, BeforeSwitcher, BeforeStack, BeforeFb, Run
<1>12. ModeChosen'
  BY <1>1, <1>2, <1>3, ModeKept
<1>13. BootInfoWritten' /\ SwitchNeverFaults'
  BY <1>1, <1>2, <1>3 DEF BootInfoWritten, Booted, SwitchNeverFaults
<1> QED BY <1>6, <1>7, <1>8, <1>9, <1>10, <1>11, <1>12, <1>13 DEF BootInv

(* A run that grows by the page that is mapped.                            *)
LEMMA RunGrows ==
  ASSUME NEW first \in Nat, NEW n \in Nat, NEW S, NEW T, Run(first, n) \subseteq S, T = S \cup {first + n}
  PROVE  Run(first, n + 1) \subseteq T
<1>1. \A v \in Run(first, n + 1) : v \in Run(first, n) \/ v = first + n
  BY DEF Run
<1> QED BY <1>1

(* A segment that is mapped stays so.                                      *)
LEMMA SegmentKept ==
  ASSUME kernel' = kernel, DOMAIN vmap \subseteq DOMAIN vmap', NEW s, SegmentMapped(s)
  PROVE  SegmentMapped(s)'
BY DEF SegmentMapped, Run

LEMMA MapKernelPageStep ==
  ASSUME BootInv, MapKernelPage
  PROVE  BootInv'
<1> DEFINE s == kernel.segments[seg]
           n == Len(kernel.segments)
<1>v. PICK v, f, w : v = s.first + i /\ f = kernel_ptr + s.first - virtual_base + i /\ w = s.writable
  OBVIOUS
<1>1. /\ pc = "map_kernel" /\ MapPage(v, f, w, FALSE)
      /\ \/ i + 1 < s.pages /\ i' = i + 1 /\ seg' = seg /\ pc' = pc
         \/ ~(i + 1 < s.pages) /\ i' = 0 /\ seg' = seg + 1
            /\ pc' = IF seg = n THEN "map_switcher" ELSE pc
  BY <1>v DEF MapKernelPage
<1>2. /\ kernel' = kernel /\ kernel_ptr' = kernel_ptr /\ stack_ptr' = stack_ptr /\ stack' = stack /\ next_v_addr' = next_v_addr
      /\ modes' = modes /\ max_mode' = max_mode /\ info' = info /\ active' = active /\ fb' = fb
      /\ frame_buffer' = frame_buffer /\ boot_info' = boot_info
  BY DEF MapKernelPage, screen
<1>3. /\ TypeOK /\ Phases /\ Ownership /\ Layout /\ PagesKnown /\ Progress /\ ModeChosen
      /\ BootInfoWritten /\ SwitchNeverFaults
  BY DEF BootInv
<1>4. kernel_ptr # Unset /\ kernel_ptr \in Nat /\ i \in Nat /\ seg \in Nat /\ kernel \in Kernels
  BY <1>1, <1>3 DEF TypeOK, Phases, BeforeKernel
<1>5. /\ seg \in DOMAIN kernel.segments /\ i < s.pages
      /\ \A t \in DOMAIN kernel.segments : t < seg => SegmentMapped(t)
      /\ Run(s.first, i) \subseteq DOMAIN vmap
  BY <1>1, <1>3 DEF Progress
<1>6. /\ virtual_base \in Nat /\ virtual_end \in Nat
      /\ \A t \in DOMAIN kernel.segments :
           /\ kernel.segments[t] \in Segment
           /\ virtual_base <= kernel.segments[t].first
           /\ kernel.segments[t].first + kernel.segments[t].pages <= virtual_end
      /\ n \in Nat \ {0} /\ DOMAIN kernel.segments = 1 .. n
  BY <1>4, KernelSpan
<1>7. s.first \in Nat /\ s.pages \in Nat \ {0} /\ w \in BOOLEAN
      /\ virtual_base <= s.first /\ s.first + s.pages <= virtual_end
  BY <1>v, <1>5, <1>6 DEF Segment
<1> HIDE DEF s, n
<1>8. v \in Nat /\ f \in Int /\ v \in virtual_base .. virtual_end - 1
      /\ f = kernel_ptr + v - virtual_base
  <2>1. virtual_base \in Nat /\ virtual_end \in Nat /\ i < s.pages
    BY <1>5, <1>6
  <2> QED BY <1>v, <1>4, <1>7, <2>1
<1>9. i' \in Nat /\ seg' \in Nat /\ pc' \in {"map_kernel", "map_switcher"}
  BY <1>1, <1>4
<1>10. vmap'[v] = [frame |-> f, writable |-> w, device |-> FALSE] => KernelPage(v)'
  <2>1. virtual_base' = virtual_base /\ virtual_end' = virtual_end
    BY <1>2, SpanKept
  <2> QED BY <1>2, <1>4, <1>8, <2>1 DEF KernelPage
<1>11. /\ TypeOK' /\ Ownership' /\ Layout' /\ PagesKnown' /\ ModeChosen' /\ BootInfoWritten'
       /\ SwitchNeverFaults'
       /\ DOMAIN vmap' = DOMAIN vmap \cup {v}
  <2>1. MapPage(v, f, w, FALSE) /\ pc = "map_kernel" /\ w \in BOOLEAN /\ v \in Nat /\ f \in Int
    BY <1>1, <1>7, <1>8
  <2>2. vmap'[v] = [frame |-> f, writable |-> w, device |-> FALSE] =>
          (KernelPage(v) \/ Switcher(v) \/ StackPage(v) \/ FbPage(v))'
    BY <1>10
  <2>3. pc \in {"map_kernel", "map_switcher", "map_stack", "map_fb"}
        /\ pc' \in {"map_kernel", "map_switcher", "alloc_stack", "map_stack", "take_fb", "map_fb", "finish"}
    BY <1>9, <2>1
  <2>4. CASE w = TRUE
    BY <1>2, <1>9, <2>1, <2>2, <2>3, <2>4, MapStep
  <2>5. CASE w = FALSE
    BY <1>2, <1>9, <2>1, <2>2, <2>3, <2>5, MapStep
  <2> QED BY <2>1, <2>4, <2>5
<1>12. Phases'
  BY <1>1, <1>2, <1>3, <1>9 DEF Phases, BeforeKernel, BeforeSwitcher, BeforeStack, BeforeFb
<1>13. \A t \in DOMAIN kernel.segments : t < seg => SegmentMapped(t)'
  <2> SUFFICES ASSUME NEW t \in DOMAIN kernel.segments, t < seg PROVE SegmentMapped(t)'
    OBVIOUS
  <2>1. SegmentMapped(t)
    BY <1>5
  <2> QED BY <1>2, <1>11, <2>1, SegmentKept
<1>14. Run(s.first, i + 1) \subseteq DOMAIN vmap'
  <2>1. Run(s.first, i) \subseteq DOMAIN vmap /\ s.first \in Nat /\ i \in Nat
        /\ DOMAIN vmap' = DOMAIN vmap \cup {s.first + i}
    BY <1>v, <1>4, <1>5, <1>7, <1>11
  <2> QED BY <2>1, RunGrows
<1>15. Progress'
  <2>1. CASE i + 1 < s.pages
    <3>1. i' = i + 1 /\ seg' = seg /\ pc' = "map_kernel"
      BY <1>1, <2>1
    <3>2. /\ (seg \in DOMAIN kernel.segments)'
          /\ (i < kernel.segments[seg].pages)'
          /\ (\A t \in DOMAIN kernel.segments : t < seg => SegmentMapped(t))'
      BY <1>2, <1>5, <1>13, <2>1, <3>1 DEF s
    <3>3. (Run(kernel.segments[seg].first, i) \subseteq DOMAIN vmap)'
      BY <1>2, <1>14, <3>1 DEF s, Run
    <3> QED BY <3>1, <3>2, <3>3 DEF Progress, BeforeKernel, BeforeSwitcher, BeforeStack, BeforeFb
  <2>2. CASE ~(i + 1 < s.pages)
    <3>1. i' = 0 /\ seg' = seg + 1 /\ pc' = IF seg = n THEN "map_switcher" ELSE pc
      BY <1>1, <2>2
    <3>2. i + 1 = s.pages
      BY <1>4, <1>5, <1>7, <2>2
    <3>3. ASSUME NEW t, t = seg PROVE SegmentMapped(t)'
      BY <1>2, <1>14, <3>2, <3>3 DEF SegmentMapped, Run, s
    <3>4. ASSUME NEW t \in DOMAIN kernel.segments, t < seg + 1 PROVE SegmentMapped(t)'
      <4>1. t \in Int /\ (t < seg \/ t = seg)
        BY <1>4, <1>6, <3>4
      <4>2. CASE t = seg
        BY <3>3, <4>2
      <4> QED BY <1>13, <4>1, <4>2
    <3>5. CASE seg = n
      <4>1. pc' = "map_switcher"
        BY <3>1, <3>5
      <4>2. \A t \in DOMAIN kernel.segments : t < seg + 1
        BY <1>4, <1>6, <3>5
      <4>3. (\A t \in DOMAIN kernel.segments : SegmentMapped(t))'
        BY <1>2, <3>4, <4>2
      <4> QED BY <4>1, <4>3 DEF Progress, BeforeKernel, BeforeSwitcher, BeforeStack, BeforeFb
    <3>6. CASE seg # n
      <4>1. pc' = "map_kernel"
        BY <1>1, <3>1, <3>6
      <4>2. seg + 1 \in DOMAIN kernel.segments
        BY <1>4, <1>5, <1>6, <3>6
      <4>3. kernel.segments[seg + 1].first \in Nat /\ kernel.segments[seg + 1].pages \in Nat \ {0}
        BY <1>6, <4>2 DEF Segment
      <4>4. 0 < kernel.segments[seg + 1].pages /\ Run(kernel.segments[seg + 1].first, 0) = {}
        BY <4>3 DEF Run
      <4>5. /\ (seg \in DOMAIN kernel.segments)'
            /\ (i < kernel.segments[seg].pages)'
            /\ (\A t \in DOMAIN kernel.segments : t < seg => SegmentMapped(t))'
        BY <1>2, <3>1, <3>4, <4>2, <4>4
      <4>6. (Run(kernel.segments[seg].first, i) \subseteq DOMAIN vmap)'
        BY <1>2, <3>1, <4>4 DEF Run
      <4> QED BY <4>1, <4>5, <4>6 DEF Progress, BeforeKernel, BeforeSwitcher, BeforeStack, BeforeFb
    <3> QED BY <3>5, <3>6
  <2> QED BY <2>1, <2>2
<1> QED BY <1>11, <1>12, <1>15 DEF BootInv

LEMMA MapSwitcherStep ==
  ASSUME BootInv, MapSwitcher
  PROVE  BootInv'
<1>1. pc = "map_switcher" /\ pc' = "alloc_stack" /\ MapPage(SwitcherPage, SwitcherPage, FALSE, FALSE)
  BY DEF MapSwitcher
<1>2. /\ kernel' = kernel /\ i' = i /\ seg' = seg /\ kernel_ptr' = kernel_ptr /\ stack_ptr' = stack_ptr
      /\ stack' = stack /\ next_v_addr' = next_v_addr /\ modes' = modes /\ max_mode' = max_mode /\ info' = info
      /\ active' = active /\ fb' = fb /\ frame_buffer' = frame_buffer /\ boot_info' = boot_info
  BY DEF MapSwitcher, screen
<1>3. /\ TypeOK /\ Phases /\ Ownership /\ Layout /\ PagesKnown /\ Progress /\ ModeChosen
      /\ BootInfoWritten /\ SwitchNeverFaults
  BY DEF BootInv
<1>4. SwitcherPage \in Nat /\ SwitcherPage \in Int /\ i \in Nat /\ seg \in Nat
  BY <1>3, MachineAssumption DEF TypeOK
<1>5. vmap'[SwitcherPage] = [frame |-> SwitcherPage, writable |-> FALSE, device |-> FALSE]
        => Switcher(SwitcherPage)'
  BY DEF Switcher
<1>6. /\ TypeOK' /\ Ownership' /\ Layout' /\ PagesKnown' /\ ModeChosen' /\ BootInfoWritten'
      /\ SwitchNeverFaults'
      /\ DOMAIN vmap' = DOMAIN vmap \cup {SwitcherPage}
  BY <1>1, <1>2, <1>4, <1>5, MapStep
<1>7. Phases'
  BY <1>1, <1>2, <1>3 DEF Phases, BeforeKernel, BeforeSwitcher, BeforeStack, BeforeFb
<1>8. Progress'
  <2>1. \A t \in DOMAIN kernel.segments : SegmentMapped(t)
    BY <1>1, <1>3 DEF Progress, BeforeKernel, BeforeSwitcher, BeforeStack, BeforeFb
  <2>2. (\A t \in DOMAIN kernel.segments : SegmentMapped(t))'
    BY <1>2, <1>6, <2>1, SegmentKept
  <2>3. SwitcherPage \in DOMAIN vmap'
    BY <1>6
  <2> QED BY <1>1, <2>2, <2>3 DEF Progress, BeforeKernel, BeforeSwitcher, BeforeStack, BeforeFb
<1> QED BY <1>6, <1>7, <1>8 DEF BootInv

LEMMA MapStackPageStep ==
  ASSUME BootInv, MapStackPage
  PROVE  BootInv'
<1>v. PICK v, f : v = stack + i /\ f = stack_ptr + i
  OBVIOUS
<1>1. /\ pc = "map_stack" /\ MapPage(v, f, TRUE, FALSE)
      /\ i' = IF i + 1 < KERNEL_STACK_PAGES THEN i + 1 ELSE 0
      /\ pc' = IF i + 1 < KERNEL_STACK_PAGES THEN "map_stack" ELSE "take_fb"
  BY <1>v DEF MapStackPage
<1>2. /\ kernel' = kernel /\ seg' = seg /\ kernel_ptr' = kernel_ptr /\ stack_ptr' = stack_ptr /\ stack' = stack
      /\ next_v_addr' = next_v_addr /\ modes' = modes /\ max_mode' = max_mode /\ info' = info /\ active' = active
      /\ fb' = fb /\ frame_buffer' = frame_buffer /\ boot_info' = boot_info
  BY DEF MapStackPage, screen
<1>3. /\ TypeOK /\ Phases /\ Ownership /\ Layout /\ PagesKnown /\ Progress /\ ModeChosen
      /\ BootInfoWritten /\ SwitchNeverFaults
  BY DEF BootInv
<1>4. stack # Unset /\ stack_ptr # Unset
  BY <1>1, <1>3 DEF Layout, Phases, BeforeKernel, BeforeSwitcher, BeforeStack, BeforeFb
<1>5. stack \in Nat /\ stack_ptr \in Nat /\ i \in Nat /\ seg \in Nat /\ KERNEL_STACK_PAGES \in Nat \ {0}
  BY <1>3, <1>4, MachineAssumption DEF TypeOK
<1>6. i < KERNEL_STACK_PAGES /\ Run(stack, i) \subseteq DOMAIN vmap
  BY <1>1, <1>3 DEF Progress
<1>7. v \in Nat /\ f \in Int /\ v \in Run(stack, KERNEL_STACK_PAGES) /\ f = stack_ptr + (v - stack)
  BY <1>v, <1>5, <1>6 DEF Run
<1>8. i' \in Nat /\ seg' \in Nat /\ pc' \in {"map_stack", "take_fb"}
  BY <1>1, <1>2, <1>5
<1>9. vmap'[v] = [frame |-> f, writable |-> TRUE, device |-> FALSE] => StackPage(v)'
  BY <1>2, <1>4, <1>7 DEF StackPage, Run
<1>10. /\ TypeOK' /\ Ownership' /\ Layout' /\ PagesKnown' /\ ModeChosen' /\ BootInfoWritten'
       /\ SwitchNeverFaults'
       /\ DOMAIN vmap' = DOMAIN vmap \cup {v}
  BY <1>1, <1>2, <1>7, <1>8, <1>9, MapStep
<1>11. Phases'
  BY <1>1, <1>2, <1>3 DEF Phases, BeforeKernel, BeforeSwitcher, BeforeStack, BeforeFb
<1>12. Progress'
  <2>1. (\A t \in DOMAIN kernel.segments : SegmentMapped(t)) /\ SwitcherPage \in DOMAIN vmap
    BY <1>1, <1>3 DEF Progress, BeforeKernel, BeforeSwitcher, BeforeStack, BeforeFb
  <2>2. (\A t \in DOMAIN kernel.segments : SegmentMapped(t))' /\ SwitcherPage \in DOMAIN vmap'
    BY <1>2, <1>10, <2>1, SegmentKept
  <2>3. Run(stack, i + 1) \subseteq DOMAIN vmap'
    BY <1>v, <1>5, <1>6, <1>10, RunGrows
  <2>4. CASE i + 1 < KERNEL_STACK_PAGES
    <3>1. pc' = "map_stack" /\ i' < KERNEL_STACK_PAGES /\ i' = i + 1
      BY <1>1, <2>4
    <3>2. (Run(stack, i) \subseteq DOMAIN vmap)'
      BY <1>2, <2>3, <3>1 DEF Run
    <3> QED BY <2>2, <3>1, <3>2 DEF Progress, BeforeKernel, BeforeSwitcher, BeforeStack, BeforeFb
  <2>5. CASE ~(i + 1 < KERNEL_STACK_PAGES)
    <3>1. pc' = "take_fb" /\ i + 1 = KERNEL_STACK_PAGES
      BY <1>1, <1>5, <1>6, <2>5
    <3>2. (Run(stack, KERNEL_STACK_PAGES) \subseteq DOMAIN vmap)'
      BY <1>2, <2>3, <3>1 DEF Run
    <3> QED BY <2>2, <3>1, <3>2 DEF Progress, BeforeKernel, BeforeSwitcher, BeforeStack, BeforeFb
  <2> QED BY <2>4, <2>5
<1> QED BY <1>10, <1>11, <1>12 DEF BootInv

LEMMA MapFrameBufferPageStep ==
  ASSUME BootInv, MapFrameBufferPage
  PROVE  BootInv'
<1>v. PICK v, f : v = frame_buffer + i /\ f = (fb.phys + i * PAGE_SIZE) \div PAGE_SIZE
  OBVIOUS
<1>1. /\ pc = "map_fb" /\ MapPage(v, f, TRUE, TRUE)
      /\ i' = IF i + 1 < fb_page_count THEN i + 1 ELSE 0
      /\ pc' = IF i + 1 < fb_page_count THEN "map_fb" ELSE "finish"
  BY <1>v DEF MapFrameBufferPage
<1>2. /\ kernel' = kernel /\ seg' = seg /\ kernel_ptr' = kernel_ptr /\ stack_ptr' = stack_ptr /\ stack' = stack
      /\ next_v_addr' = next_v_addr /\ modes' = modes /\ max_mode' = max_mode /\ info' = info /\ active' = active
      /\ fb' = fb /\ frame_buffer' = frame_buffer /\ boot_info' = boot_info
  BY DEF MapFrameBufferPage, screen
<1>3. /\ TypeOK /\ Phases /\ Ownership /\ Layout /\ PagesKnown /\ Progress /\ ModeChosen
      /\ BootInfoWritten /\ SwitchNeverFaults
  BY DEF BootInv
<1>4. frame_buffer # Unset /\ fb \in FrameBuffers
  BY <1>1, <1>3 DEF Phases, BeforeKernel, BeforeSwitcher, BeforeStack, BeforeFb
<1>5. frame_buffer \in Nat /\ i \in Nat /\ seg \in Nat
  BY <1>3, <1>4 DEF TypeOK
<1>6. i < fb_page_count /\ Run(frame_buffer, i) \subseteq DOMAIN vmap
  BY <1>1, <1>3 DEF Progress
<1>7. fb_phys_base \in Nat /\ fb_page_count \in Nat \ {0} /\ f = fb_phys_base + i
  BY <1>v, <1>4, <1>5, FrameBufferPages
<1>8. v \in Nat /\ f \in Int /\ v \in Run(frame_buffer, fb_page_count) /\ f = fb_phys_base + (v - frame_buffer)
  BY <1>v, <1>5, <1>6, <1>7 DEF Run
<1>9. i' \in Nat /\ seg' \in Nat /\ pc' \in {"map_fb", "finish"}
  BY <1>1, <1>2, <1>5
<1>10. fb_phys_base' = fb_phys_base /\ fb_page_count' = fb_page_count
  BY <1>2, FbKept
<1>11. vmap'[v] = [frame |-> f, writable |-> TRUE, device |-> TRUE] => FbPage(v)'
  BY <1>2, <1>4, <1>8, <1>10 DEF FbPage, Run
<1>12. /\ TypeOK' /\ Ownership' /\ Layout' /\ PagesKnown' /\ ModeChosen' /\ BootInfoWritten'
       /\ SwitchNeverFaults'
       /\ DOMAIN vmap' = DOMAIN vmap \cup {v}
  BY <1>1, <1>2, <1>8, <1>9, <1>11, MapStep
<1>13. Phases'
  BY <1>1, <1>2, <1>3 DEF Phases, BeforeKernel, BeforeSwitcher, BeforeStack, BeforeFb
<1>14. Progress'
  <2>1. /\ \A t \in DOMAIN kernel.segments : SegmentMapped(t)
        /\ SwitcherPage \in DOMAIN vmap
        /\ Run(stack, KERNEL_STACK_PAGES) \subseteq DOMAIN vmap
    BY <1>1, <1>3 DEF Progress, BeforeKernel, BeforeSwitcher, BeforeStack, BeforeFb
  <2>2. /\ (\A t \in DOMAIN kernel.segments : SegmentMapped(t))'
        /\ SwitcherPage \in DOMAIN vmap'
    BY <1>2, <1>12, <2>1, SegmentKept
  <2>3. (Run(stack, KERNEL_STACK_PAGES) \subseteq DOMAIN vmap)'
    BY <1>2, <1>12, <2>1 DEF Run
  <2>4. Run(frame_buffer, i + 1) \subseteq DOMAIN vmap'
    BY <1>v, <1>5, <1>6, <1>12, RunGrows
  <2>5. CASE i + 1 < fb_page_count
    <3>1. pc' = "map_fb" /\ i' < fb_page_count' /\ i' = i + 1
      BY <1>1, <1>10, <2>5
    <3>2. (Run(frame_buffer, i) \subseteq DOMAIN vmap)'
      BY <1>2, <2>4, <3>1 DEF Run
    <3> QED BY <2>2, <2>3, <3>1, <3>2 DEF Progress, BeforeKernel, BeforeSwitcher, BeforeStack, BeforeFb
  <2>6. CASE ~(i + 1 < fb_page_count)
    <3>1. pc' = "finish" /\ i + 1 = fb_page_count
      BY <1>1, <1>5, <1>6, <1>7, <2>6
    <3>2. (Run(frame_buffer, fb_page_count) \subseteq DOMAIN vmap)'
      BY <1>2, <1>10, <2>4, <3>1 DEF Run
    <3> QED BY <2>2, <2>3, <3>1, <3>2 DEF Progress, BeforeKernel, BeforeSwitcher, BeforeStack, BeforeFb
  <2> QED BY <2>5, <2>6
<1> QED BY <1>12, <1>13, <1>14 DEF BootInv

(* The areas lie one above the other: the switcher among RAM's addresses,  *)
(* the kernel, its stack, the frame buffer, and then what is left.         *)
LEMMA Areas ==
  ASSUME BootInv, NEW v \in DOMAIN vmap
  PROVE  /\ KernelPage(v) => virtual_base <= v /\ v < virtual_end
         /\ Switcher(v) => v < virtual_base /\ v < virtual_end
         /\ StackPage(v) => virtual_end <= v /\ v < stack + KERNEL_STACK_PAGES
         /\ FbPage(v) => virtual_end <= v /\ stack + KERNEL_STACK_PAGES <= v
         /\ v \in Nat /\ v < next_v_addr
<1>1. TypeOK /\ Layout /\ PagesKnown
  BY DEF BootInv
<1>2. kernel \in Kernels /\ v \in Nat /\ next_v_addr \in Nat
  BY <1>1 DEF TypeOK
<1>3. virtual_base \in Nat /\ virtual_end \in Nat /\ virtual_base < virtual_end /\ SwitcherPage < virtual_base
  BY <1>2, KernelSpan, MachineAssumption
<1>4. virtual_end <= next_v_addr
  BY <1>1 DEF Layout
<1>5. KernelPage(v) => virtual_base <= v /\ v < virtual_end /\ v < next_v_addr
  BY <1>2, <1>3, <1>4 DEF KernelPage
<1>6. Switcher(v) => v < virtual_base /\ v < virtual_end /\ v < next_v_addr
  BY <1>2, <1>3, <1>4 DEF Switcher
<1>7. ASSUME StackPage(v)
      PROVE  virtual_end <= v /\ v < stack + KERNEL_STACK_PAGES /\ v < next_v_addr
  <2>1. stack # Unset /\ v \in Run(stack, KERNEL_STACK_PAGES)
    BY <1>7 DEF StackPage
  <2>2. stack \in Nat /\ KERNEL_STACK_PAGES \in Nat
    BY <1>1, <2>1, MachineAssumption DEF TypeOK
  <2>3. virtual_end <= stack /\ stack + KERNEL_STACK_PAGES <= next_v_addr
    BY <1>1, <2>1 DEF Layout
  <2> QED BY <1>2, <1>3, <2>1, <2>2, <2>3 DEF Run
<1>8. ASSUME FbPage(v)
      PROVE  virtual_end <= v /\ stack + KERNEL_STACK_PAGES <= v /\ v < next_v_addr
  <2>1. frame_buffer # Unset /\ v \in Run(frame_buffer, fb_page_count)
    BY <1>8 DEF FbPage
  <2>2. stack # Unset /\ fb \in FrameBuffers /\ stack + KERNEL_STACK_PAGES <= frame_buffer
        /\ frame_buffer + fb_page_count <= next_v_addr /\ virtual_end <= stack
    BY <1>1, <2>1 DEF Layout
  <2>3. stack \in Nat /\ frame_buffer \in Nat /\ KERNEL_STACK_PAGES \in Nat /\ fb_page_count \in Nat
    BY <1>1, <2>1, <2>2, FrameBufferPages, MachineAssumption DEF TypeOK
  <2>4. frame_buffer <= v /\ v < frame_buffer + fb_page_count
    BY <1>2, <2>1, <2>3 DEF Run
  <2> QED BY <1>2, <1>3, <2>2, <2>3, <2>4
<1> QED BY <1>1, <1>2, <1>5, <1>6, <1>7, <1>8 DEF PagesKnown

(* So the address of a mapped page tells what it is.                       *)
LEMMA PageByAddress ==
  ASSUME BootInv, NEW v \in DOMAIN vmap
  PROVE  /\ v \in virtual_base .. virtual_end - 1 => KernelPage(v)
         /\ v = SwitcherPage => Switcher(v)
         /\ stack # Unset /\ v \in Run(stack, KERNEL_STACK_PAGES) => StackPage(v)
         /\ frame_buffer # Unset /\ v \in Run(frame_buffer, fb_page_count) => FbPage(v)
<1>2. kernel \in Kernels /\ v \in Nat
  BY DEF BootInv, TypeOK
<1>3. virtual_base \in Nat /\ virtual_end \in Nat /\ virtual_base < virtual_end /\ SwitcherPage < virtual_base
      /\ SwitcherPage \in Nat
  BY <1>2, KernelSpan, MachineAssumption
<1>4. /\ KernelPage(v) => virtual_base <= v /\ v < virtual_end
      /\ Switcher(v) => v < virtual_base /\ v < virtual_end
      /\ StackPage(v) => virtual_end <= v /\ v < stack + KERNEL_STACK_PAGES
      /\ FbPage(v) => virtual_end <= v /\ stack + KERNEL_STACK_PAGES <= v
  BY Areas
<1>5. KernelPage(v) \/ Switcher(v) \/ StackPage(v) \/ FbPage(v)
  BY DEF BootInv, PagesKnown
<1>6. v \in virtual_base .. virtual_end - 1 => KernelPage(v)
  BY <1>2, <1>3, <1>4, <1>5
<1>7. v = SwitcherPage => Switcher(v)
  BY <1>2, <1>3, <1>4, <1>5
<1>8. ASSUME stack # Unset, v \in Run(stack, KERNEL_STACK_PAGES) PROVE StackPage(v)
  <2>1. stack \in Nat /\ KERNEL_STACK_PAGES \in Nat /\ virtual_end <= stack
    BY <1>8, MachineAssumption DEF BootInv, TypeOK, Layout
  <2>2. stack <= v /\ v < stack + KERNEL_STACK_PAGES
    BY <1>2, <1>8, <2>1 DEF Run
  <2> QED BY <1>2, <1>3, <1>4, <1>5, <2>1, <2>2
<1>9. ASSUME frame_buffer # Unset, v \in Run(frame_buffer, fb_page_count) PROVE FbPage(v)
  <2>1. stack # Unset /\ fb \in FrameBuffers /\ stack + KERNEL_STACK_PAGES <= frame_buffer
        /\ virtual_end <= stack
    BY <1>9 DEF BootInv, Layout
  <2>2. stack \in Nat /\ frame_buffer \in Nat /\ KERNEL_STACK_PAGES \in Nat /\ fb_page_count \in Nat
    BY <1>9, <2>1, FrameBufferPages, MachineAssumption DEF BootInv, TypeOK
  <2>3. frame_buffer <= v
    BY <1>2, <1>9, <2>2 DEF Run
  <2> QED BY <1>2, <1>3, <1>4, <1>5, <2>1, <2>2, <2>3
<1> QED BY <1>6, <1>7, <1>8, <1>9

(* The pages that the linker script names lie in the kernel.               *)
LEMMA LinkedPages ==
  ASSUME kernel \in Kernels, \A t \in DOMAIN kernel.segments : SegmentMapped(t),
         NEW v \in {kernel.entry, kernel.bootinfo}
  PROVE  v \in DOMAIN vmap /\ v \in virtual_base .. virtual_end - 1
<1>1. PICK t \in DOMAIN kernel.segments :
        v \in Run(kernel.segments[t].first, kernel.segments[t].pages)
  BY KernelAssumption
<1>2. v \in DOMAIN vmap
  BY <1>1 DEF SegmentMapped
<1> DEFINE first == kernel.segments[t].first
           pages == kernel.segments[t].pages
<1>3. first \in Nat /\ pages \in Nat /\ virtual_base \in Nat /\ virtual_end \in Nat
      /\ virtual_base <= first /\ first + pages <= virtual_end
  BY KernelSpan DEF Segment
<1>4. v \in Run(first, pages)
  BY <1>1
<1> HIDE DEF first, pages
<1> QED BY <1>2, <1>3, <1>4 DEF Run

LEMMA FinishStep ==
  ASSUME BootInv, FinishAndWriteBootInfo
  PROVE  BootInv'
<1>1. /\ pc = "finish" /\ pc' = "exit"
      /\ boot_info' = [frame |-> kernel_ptr + kernel.bootinfo - virtual_base,
                       graphics_info |-> info, frame_buffer |-> frame_buffer * PAGE_SIZE,
                       frame_buffer_size |-> fb.size, switcher_map |-> SwitcherPage,
                       v_addr_start |-> next_v_addr, regions |-> {}]
  BY DEF FinishAndWriteBootInfo
<1>2. /\ kernel' = kernel /\ vmap' = vmap /\ i' = i /\ seg' = seg /\ kernel_ptr' = kernel_ptr
      /\ stack_ptr' = stack_ptr /\ stack' = stack /\ next_v_addr' = next_v_addr /\ modes' = modes /\ max_mode' = max_mode
      /\ info' = info /\ active' = active /\ fb' = fb /\ frame_buffer' = frame_buffer
  BY DEF FinishAndWriteBootInfo, screen
<1>3. /\ TypeOK /\ Phases /\ Ownership /\ Layout /\ PagesKnown /\ Progress /\ ModeChosen
      /\ BootInfoWritten /\ SwitchNeverFaults
  BY DEF BootInv
<1>4. /\ owner' \in [Frames -> Types]
      /\ \A f \in Frames : owner[f] # "free" => owner'[f] = owner[f]
      /\ \A f \in tables' : f \in tables \/ (f \in Frames /\ owner'[f] = "table")
  <2>1. PICK f \in Free : owner' = [owner EXCEPT ![f] = "table"] /\ tables' = tables \cup {f}
    BY DEF FinishAndWriteBootInfo
  <2> QED BY <1>3, <2>1 DEF TypeOK, Types, Free
<1>5. TypeOK'
  BY <1>1, <1>2, <1>3, <1>4 DEF TypeOK
<1>6. Phases'
  BY <1>1, <1>2, <1>3 DEF Phases, BeforeKernel, BeforeSwitcher, BeforeStack, BeforeFb
<1>7. Ownership'
  BY <1>2, <1>3, <1>4, OwnershipKept
<1>8. Layout'
  BY <1>2, <1>3, SpanKept, FbKept DEF Layout
<1>9. PagesKnown'
  BY <1>2, <1>3, PagesKept
<1>10. Progress'
  BY <1>1, <1>2, <1>3, FbKept DEF Progress, BeforeKernel, BeforeSwitcher, BeforeStack, BeforeFb, SegmentMapped, Run
<1>11. ModeChosen'
  BY <1>1, <1>2, <1>3, ModeKept
<1>12. BootInfoWritten'
  BY <1>1, <1>2, SpanKept DEF BootInfoWritten, Booted
<1> QED BY <1>1, <1>5, <1>6, <1>7, <1>8, <1>9, <1>10, <1>11, <1>12 DEF BootInv, SwitchNeverFaults

LEMMA ExitStep ==
  ASSUME BootInv, ExitBootServices
  PROVE  BootInv'
<1>1. /\ pc = "exit" /\ pc' = "switch"
      /\ boot_info' = [boot_info EXCEPT !.regions = {f \in Frames : owner[f] \in UsableTypes}]
  BY DEF ExitBootServices
<1>2. /\ kernel' = kernel /\ owner' = owner /\ vmap' = vmap /\ tables' = tables /\ i' = i /\ seg' = seg
      /\ kernel_ptr' = kernel_ptr /\ stack_ptr' = stack_ptr /\ stack' = stack /\ next_v_addr' = next_v_addr /\ modes' = modes
      /\ max_mode' = max_mode /\ info' = info /\ active' = active /\ fb' = fb /\ frame_buffer' = frame_buffer
  BY DEF ExitBootServices, screen
<1>3. /\ TypeOK /\ Phases /\ Ownership /\ Layout /\ PagesKnown /\ Progress /\ ModeChosen
      /\ BootInfoWritten /\ SwitchNeverFaults
  BY DEF BootInv
<1>4. TypeOK'
  BY <1>1, <1>2, <1>3 DEF TypeOK
<1>5. Phases'
  BY <1>1, <1>2, <1>3 DEF Phases, BeforeKernel, BeforeSwitcher, BeforeStack, BeforeFb
<1>6. Ownership'
  BY <1>2, <1>3, OwnershipKept
<1>7. Layout'
  BY <1>2, <1>3, SpanKept, FbKept DEF Layout
<1>8. PagesKnown'
  BY <1>2, <1>3, PagesKept
<1>9. Progress'
  BY <1>1, <1>2, <1>3, FbKept DEF Progress, BeforeKernel, BeforeSwitcher, BeforeStack, BeforeFb, SegmentMapped, Run
<1>10. ModeChosen'
  BY <1>1, <1>2, <1>3, ModeKept
<1>11. BootInfoWritten'
  <2>1. boot_info = [frame |-> kernel_ptr + kernel.bootinfo - virtual_base,
                     graphics_info |-> info, frame_buffer |-> frame_buffer * PAGE_SIZE,
                     frame_buffer_size |-> fb.size, switcher_map |-> SwitcherPage,
                     v_addr_start |-> next_v_addr, regions |-> {}]
    BY <1>1, <1>3 DEF BootInfoWritten, Booted
  <2>2. boot_info' = [frame |-> kernel_ptr + kernel.bootinfo - virtual_base,
                     graphics_info |-> info, frame_buffer |-> frame_buffer * PAGE_SIZE,
                     frame_buffer_size |-> fb.size, switcher_map |-> SwitcherPage, v_addr_start |-> next_v_addr,
                     regions |-> {f \in Frames : owner[f] \in UsableTypes}]
    BY <1>1, <2>1
  <2> QED BY <1>1, <1>2, <2>2, SpanKept DEF BootInfoWritten, Booted, UsableTypes
<1> QED BY <1>1, <1>4, <1>5, <1>6, <1>7, <1>8, <1>9, <1>10, <1>11 DEF BootInv, SwitchNeverFaults

(* All that the switch touches is mapped by then, as it expects.           *)
LEMMA SwitchStep ==
  ASSUME BootInv, SwitchToKernel
  PROVE  BootInv'
<1>1. pc = "switch"
  BY DEF SwitchToKernel
<1>2. /\ kernel' = kernel /\ owner' = owner /\ vmap' = vmap /\ tables' = tables /\ i' = i /\ seg' = seg
      /\ kernel_ptr' = kernel_ptr /\ stack_ptr' = stack_ptr /\ stack' = stack /\ next_v_addr' = next_v_addr /\ modes' = modes
      /\ max_mode' = max_mode /\ info' = info /\ active' = active /\ fb' = fb /\ frame_buffer' = frame_buffer
      /\ boot_info' = boot_info
  BY DEF SwitchToKernel, screen
<1>3. /\ TypeOK /\ Phases /\ Ownership /\ Layout /\ PagesKnown /\ Progress /\ ModeChosen
      /\ BootInfoWritten /\ SwitchNeverFaults
  BY DEF BootInv
<1>4. kernel \in Kernels /\ stack # Unset /\ stack \in Nat /\ KERNEL_STACK_PAGES \in Nat \ {0}
  BY <1>1, <1>3, MachineAssumption DEF TypeOK, Phases, BeforeKernel, BeforeSwitcher, BeforeStack, BeforeFb
<1>5. /\ \A t \in DOMAIN kernel.segments : SegmentMapped(t)
      /\ SwitcherPage \in DOMAIN vmap
      /\ Run(stack, KERNEL_STACK_PAGES) \subseteq DOMAIN vmap
  BY <1>1, <1>3 DEF Progress, BeforeKernel, BeforeSwitcher, BeforeStack, BeforeFb
<1>6. MapsTo(SwitcherPage, SwitcherPage)
  BY <1>5, PageByAddress DEF MapsTo, Switcher
<1>7. MapsTo(kernel.entry, kernel_ptr + kernel.entry - virtual_base)
  <2>1. kernel.entry \in DOMAIN vmap /\ kernel.entry \in virtual_base .. virtual_end - 1
    BY <1>4, <1>5, LinkedPages
  <2> QED BY <2>1, PageByAddress DEF MapsTo, KernelPage
<1>8. kernel_stack_base - 1 \in DOMAIN vmap /\ vmap[kernel_stack_base - 1].writable
  <2>1. kernel_stack_base - 1 \in Run(stack, KERNEL_STACK_PAGES)
    BY <1>4 DEF Run, kernel_stack_base
  <2> QED BY <1>4, <1>5, <2>1, PageByAddress DEF StackPage
<1>9. pc' = "kernel"
  BY <1>6, <1>7, <1>8 DEF SwitchToKernel
<1>10. TypeOK'
  BY <1>2, <1>3, <1>9 DEF TypeOK
<1>11. Phases'
  BY <1>1, <1>2, <1>3, <1>9 DEF Phases, BeforeKernel, BeforeSwitcher, BeforeStack, BeforeFb
<1>12. Ownership'
  BY <1>2, <1>3, OwnershipKept
<1>13. Layout'
  BY <1>2, <1>3, SpanKept, FbKept DEF Layout
<1>14. PagesKnown'
  BY <1>2, <1>3, PagesKept
<1>15. Progress'
  BY <1>1, <1>2, <1>3, <1>9, FbKept DEF Progress, BeforeKernel, BeforeSwitcher, BeforeStack, BeforeFb, SegmentMapped, Run
<1>16. ModeChosen'
  BY <1>1, <1>2, <1>3, <1>9, ModeKept
<1>17. BootInfoWritten'
  BY <1>1, <1>2, <1>3, <1>9, SpanKept DEF BootInfoWritten, Booted, UsableTypes
<1> QED BY <1>9, <1>10, <1>11, <1>12, <1>13, <1>14, <1>15, <1>16, <1>17 DEF BootInv, SwitchNeverFaults

LEMMA BootStep == BootInv /\ [Next]_vars => BootInv'
<1> SUFFICES ASSUME BootInv, [Next]_vars PROVE BootInv'
  OBVIOUS
<1>1. CASE ConsiderMode
  BY <1>1, ConsiderModeStep
<1>2. CASE SetMode
  BY <1>2, SetModeStep
<1>3. CASE GraphicsFails \/ AllocateFails \/ MapFails
  BY <1>3, PanicStep DEF GraphicsFails, AllocateFails, MapFails, Booted
<1>4. CASE AllocKernel
  BY <1>4, AllocKernelStep
<1>5. CASE MapKernelPage
  BY <1>5, MapKernelPageStep
<1>6. CASE MapSwitcher
  BY <1>6, MapSwitcherStep
<1>7. CASE AllocStack
  BY <1>7, AllocStackStep
<1>8. CASE MapStackPage
  BY <1>8, MapStackPageStep
<1>9. CASE TakeFrameBuffer
  BY <1>9, TakeFrameBufferStep
<1>10. CASE MapFrameBufferPage
  BY <1>10, MapFrameBufferPageStep
<1>11. CASE FinishAndWriteBootInfo
  BY <1>11, FinishStep
<1>12. CASE ExitBootServices
  BY <1>12, ExitStep
<1>13. CASE SwitchToKernel
  BY <1>13, SwitchStep
<1>14. CASE UNCHANGED vars
  <2>2. /\ kernel' = kernel /\ owner' = owner /\ vmap' = vmap /\ tables' = tables /\ i' = i /\ seg' = seg
        /\ kernel_ptr' = kernel_ptr /\ stack_ptr' = stack_ptr /\ stack' = stack /\ next_v_addr' = next_v_addr /\ modes' = modes
        /\ max_mode' = max_mode /\ info' = info /\ active' = active /\ fb' = fb /\ frame_buffer' = frame_buffer
        /\ boot_info' = boot_info
        /\ pc' = pc
    BY <1>14 DEF vars
  <2>3. /\ TypeOK /\ Phases /\ Ownership /\ Layout /\ PagesKnown /\ Progress /\ ModeChosen
        /\ BootInfoWritten /\ SwitchNeverFaults
    BY DEF BootInv
  <2>4. TypeOK' /\ Phases'
    BY <2>2, <2>3 DEF TypeOK, Phases, BeforeKernel, BeforeSwitcher, BeforeStack, BeforeFb
  <2>5. Ownership' /\ PagesKnown'
    BY <2>2, <2>3, OwnershipKept, PagesKept
  <2>6. Layout'
    BY <2>2, <2>3, SpanKept, FbKept DEF Layout
  <2>7. Progress'
    BY <2>2, <2>3, FbKept DEF Progress, BeforeKernel, BeforeSwitcher, BeforeStack, BeforeFb, SegmentMapped, Run
  <2>8. ModeChosen'
    BY <2>2, <2>3 DEF ModeChosen, area
  <2>9. BootInfoWritten' /\ SwitchNeverFaults'
    BY <2>2, <2>3, SpanKept DEF BootInfoWritten, Booted, UsableTypes, SwitchNeverFaults
  <2> QED BY <2>4, <2>5, <2>6, <2>7, <2>8, <2>9 DEF BootInv
<1> QED BY <1>1, <1>2, <1>3, <1>4, <1>5, <1>6, <1>7, <1>8, <1>9, <1>10, <1>11, <1>12, <1>13, <1>14 DEF Next

-----------------------------------------------------------------------------
(* Results.                                                                *)

(* Along every boot, a frame that was given away stays what it is, virtual *)
(* addresses are given away in ascending order, every mapped page is one   *)
(* of the kernel, the switcher, the stack or the frame buffer, and the     *)
(* loops have mapped all the pages before the one they are at.             *)
THEOREM BootInvariance == Spec => []BootInv
<1>1. Init => BootInv
  BY BootInit
<1>2. BootInv /\ [Next]_vars => BootInv'
  BY BootStep
<1> QED BY <1>1, <1>2, PTL DEF Spec

(* switch_to_kernel never faults, on any machine: by then its own page,    *)
(* the entry point and the top of the stack are mapped as it expects.      *)
THEOREM SwitchSafe == Spec => []SwitchNeverFaults
<1>1. BootInv => SwitchNeverFaults
  BY DEF BootInv
<1> QED BY <1>1, BootInvariance, PTL

(* The owner of a frame tells the kinds of pages apart.                    *)
LEMMA FrameByKind ==
  ASSUME BootInv, NEW v \in DOMAIN vmap
  PROVE  /\ KernelPage(v) => vmap[v].frame \in Frames /\ owner[vmap[v].frame] = "code"
         /\ Switcher(v) => vmap[v].frame \in Frames /\ owner[vmap[v].frame] = "loader"
         /\ StackPage(v) => vmap[v].frame \in Frames /\ owner[vmap[v].frame] = "stack"
         /\ FbPage(v) => vmap[v].frame \notin Frames /\ vmap[v].device
<1>1. TypeOK /\ Ownership /\ Layout /\ v \in Nat /\ kernel \in Kernels
  BY DEF BootInv, TypeOK
<1>2. ASSUME KernelPage(v) PROVE vmap[v].frame \in Frames /\ owner[vmap[v].frame] = "code"
  <2>1. kernel_ptr # Unset /\ v \in virtual_base .. virtual_end - 1
        /\ vmap[v].frame = kernel_ptr + v - virtual_base
    BY <1>2 DEF KernelPage
  <2>2. kernel_ptr \in Nat /\ virtual_base \in Nat /\ virtual_end \in Nat
    BY <1>1, <2>1, KernelSpan DEF TypeOK
  <2>3. vmap[v].frame \in Run(kernel_ptr, virtual_end - virtual_base)
    BY <1>1, <2>1, <2>2 DEF Run
  <2> QED BY <1>1, <2>1, <2>3 DEF Ownership
<1>3. ASSUME Switcher(v) PROVE vmap[v].frame \in Frames /\ owner[vmap[v].frame] = "loader"
  BY <1>1, <1>3, MachineAssumption DEF Switcher, Ownership
<1>4. ASSUME StackPage(v) PROVE vmap[v].frame \in Frames /\ owner[vmap[v].frame] = "stack"
  <2>1. stack # Unset /\ v \in Run(stack, KERNEL_STACK_PAGES) /\ vmap[v].frame = stack_ptr + (v - stack)
    BY <1>4 DEF StackPage
  <2>2. stack_ptr # Unset /\ stack_ptr \in Nat /\ stack \in Nat /\ KERNEL_STACK_PAGES \in Nat
    BY <1>1, <2>1, MachineAssumption DEF TypeOK, Layout
  <2>3. vmap[v].frame \in Run(stack_ptr, KERNEL_STACK_PAGES)
    BY <1>1, <2>1, <2>2 DEF Run
  <2> QED BY <1>1, <2>2, <2>3 DEF Ownership
<1>5. ASSUME FbPage(v) PROVE vmap[v].frame \notin Frames /\ vmap[v].device
  <2>1. frame_buffer # Unset /\ v \in Run(frame_buffer, fb_page_count)
        /\ vmap[v].frame = fb_phys_base + (v - frame_buffer) /\ vmap[v].device
    BY <1>5 DEF FbPage
  <2>2. fb \in FrameBuffers /\ frame_buffer \in Nat
    BY <1>1, <2>1 DEF TypeOK, Layout
  <2>3. fb_phys_base \in Nat /\ fb_page_count \in Nat
        /\ \A g \in Run(fb_phys_base, fb_page_count) : g \notin Frames
    BY <2>2, FrameBufferPages
  <2>4. vmap[v].frame \in Run(fb_phys_base, fb_page_count)
    BY <1>1, <2>1, <2>2, <2>3 DEF Run
  <2> QED BY <2>1, <2>3, <2>4
<1> QED BY <1>2, <1>3, <1>4, <1>5

(* No frame is mapped twice, and none that holds a page table: within a    *)
(* kind the frame determines the page, and between kinds the owner         *)
(* differs.                                                                *)
THEOREM FramesApart == Spec => []FramesNotShared
<1>1. BootInv => FramesNotShared
  <2>0. ASSUME BootInv, NEW v \in DOMAIN vmap PROVE vmap[v].frame \notin tables
    <3>1. KernelPage(v) \/ Switcher(v) \/ StackPage(v) \/ FbPage(v)
      BY <2>0 DEF BootInv, PagesKnown
    <3>2. \A f \in tables : f \in Frames /\ owner[f] = "table"
      BY <2>0 DEF BootInv, TypeOK, Ownership
    <3> QED BY <2>0, <3>1, <3>2, FrameByKind
  <2> SUFFICES ASSUME BootInv, NEW v \in DOMAIN vmap, NEW w \in DOMAIN vmap,
                      vmap[v].frame = vmap[w].frame
               PROVE  v = w
    BY <2>0 DEF FramesNotShared
  <2>1. /\ KernelPage(v) \/ Switcher(v) \/ StackPage(v) \/ FbPage(v)
        /\ KernelPage(w) \/ Switcher(w) \/ StackPage(w) \/ FbPage(w)
    BY DEF BootInv, PagesKnown
  <2>2. /\ KernelPage(v) => vmap[v].frame \in Frames /\ owner[vmap[v].frame] = "code"
        /\ Switcher(v) => vmap[v].frame \in Frames /\ owner[vmap[v].frame] = "loader"
        /\ StackPage(v) => vmap[v].frame \in Frames /\ owner[vmap[v].frame] = "stack"
        /\ FbPage(v) => vmap[v].frame \notin Frames
    BY FrameByKind
  <2>3. /\ KernelPage(w) => vmap[w].frame \in Frames /\ owner[vmap[w].frame] = "code"
        /\ Switcher(w) => vmap[w].frame \in Frames /\ owner[vmap[w].frame] = "loader"
        /\ StackPage(w) => vmap[w].frame \in Frames /\ owner[vmap[w].frame] = "stack"
        /\ FbPage(w) => vmap[w].frame \notin Frames
    BY FrameByKind
  <2>4. \/ KernelPage(v) /\ KernelPage(w)
        \/ Switcher(v) /\ Switcher(w)
        \/ StackPage(v) /\ StackPage(w)
        \/ FbPage(v) /\ FbPage(w)
    BY <2>1, <2>2, <2>3
  <2>5. v \in Nat /\ w \in Nat /\ kernel \in Kernels
    BY DEF BootInv, TypeOK
  <2>6. CASE KernelPage(v) /\ KernelPage(w)
    <3>1. kernel_ptr \in Nat /\ virtual_base \in Nat
      BY <2>5, <2>6, KernelSpan DEF KernelPage, BootInv, TypeOK
    <3>2. kernel_ptr + v - virtual_base = kernel_ptr + w - virtual_base
      BY <2>6 DEF KernelPage
    <3> QED BY <2>5, <3>1, <3>2
  <2>7. CASE Switcher(v) /\ Switcher(w)
    BY <2>7 DEF Switcher
  <2>8. CASE StackPage(v) /\ StackPage(w)
    <3>1. stack \in Nat /\ stack_ptr \in Nat
      BY <2>8 DEF StackPage, BootInv, TypeOK, Layout
    <3>2. stack_ptr + (v - stack) = stack_ptr + (w - stack)
      BY <2>8 DEF StackPage
    <3> QED BY <2>5, <3>1, <3>2
  <2>9. CASE FbPage(v) /\ FbPage(w)
    <3>1. frame_buffer \in Nat /\ fb \in FrameBuffers
      BY <2>9 DEF FbPage, BootInv, TypeOK, Layout
    <3>2. fb_phys_base \in Nat
      BY <3>1, FrameBufferPages
    <3>3. fb_phys_base + (v - frame_buffer) = fb_phys_base + (w - frame_buffer)
      BY <2>9 DEF FbPage
    <3> QED BY <2>5, <3>1, <3>2, <3>3
  <2> QED BY <2>4, <2>6, <2>7, <2>8, <2>9
<1> QED BY <1>1, BootInvariance, PTL

(* No region of BootInfo holds a frame of the kernel's code, of its stack  *)
(* or of a page table; what else is mapped are devices and the switcher's  *)
(* page.                                                                   *)
THEOREM KernelSpared == Spec => []RegionsSpareTheKernel
<1>1. BootInv => RegionsSpareTheKernel
  <2> SUFFICES ASSUME BootInv, pc = "kernel"
               PROVE  /\ tables \cap boot_info.regions = {}
                      /\ \A v \in DOMAIN vmap :
                           \/ v = boot_info.switcher_map
                           \/ vmap[v].device
                           \/ vmap[v].frame \notin boot_info.regions
    BY DEF RegionsSpareTheKernel
  <2>1. boot_info = [frame |-> kernel_ptr + kernel.bootinfo - virtual_base,
                     graphics_info |-> info, frame_buffer |-> frame_buffer * PAGE_SIZE,
                     frame_buffer_size |-> fb.size, switcher_map |-> SwitcherPage, v_addr_start |-> next_v_addr,
                     regions |-> {f \in Frames : owner[f] \in UsableTypes}]
    BY DEF BootInv, BootInfoWritten, Booted
  <2>2. boot_info.switcher_map = SwitcherPage
        /\ boot_info.regions = {f \in Frames : owner[f] \in UsableTypes}
    BY <2>1
  <2>0. tables \cap boot_info.regions = {}
    BY <2>2 DEF BootInv, Ownership, UsableTypes
  <2> SUFFICES ASSUME NEW v \in DOMAIN vmap
               PROVE  \/ v = boot_info.switcher_map
                      \/ vmap[v].device
                      \/ vmap[v].frame \notin boot_info.regions
    BY <2>0
  <2>3. KernelPage(v) \/ Switcher(v) \/ StackPage(v) \/ FbPage(v)
    BY DEF BootInv, PagesKnown
  <2>4. CASE Switcher(v)
    BY <2>2, <2>4 DEF Switcher
  <2>5. CASE KernelPage(v) \/ StackPage(v)
    BY <2>2, <2>5, FrameByKind DEF UsableTypes
  <2>6. CASE FbPage(v)
    BY <2>6, FrameByKind
  <2> QED BY <2>3, <2>4, <2>5, <2>6
<1> QED BY <1>1, BootInvariance, PTL

(* What BootInfo says is so when the kernel starts: it is where the kernel *)
(* looks for it, the screen is in the mode it names, every byte of the     *)
(* frame buffer is mapped, at the address it says if the frame buffer      *)
(* starts a page, and the addresses it offers are free.                    *)
THEOREM BootInfoSound == Spec => []BootInfoTrue
<1>1. ASSUME BootInv PROVE BootInfoTrue
  <2> USE <1>1
  <2>1. ASSUME pc \in Booted
        PROVE  /\ boot_info.frame = kernel_ptr + kernel.bootinfo - virtual_base
               /\ boot_info.graphics_info = info
               /\ boot_info.frame_buffer = frame_buffer * PAGE_SIZE
               /\ boot_info.frame_buffer_size = fb.size
               /\ boot_info.v_addr_start = next_v_addr
    BY <2>1 DEF BootInv, BootInfoWritten
  <2>2. BootInfoMapped
    <3> SUFFICES ASSUME pc = "kernel" PROVE MapsTo(kernel.bootinfo, boot_info.frame)
      BY DEF BootInfoMapped
    <3>1. kernel \in Kernels /\ \A t \in DOMAIN kernel.segments : SegmentMapped(t)
      BY DEF BootInv, TypeOK, Progress, BeforeKernel, BeforeSwitcher, BeforeStack, BeforeFb
    <3>2. kernel.bootinfo \in DOMAIN vmap /\ kernel.bootinfo \in virtual_base .. virtual_end - 1
      BY <3>1, LinkedPages
    <3> QED BY <2>1, <3>2, PageByAddress DEF MapsTo, KernelPage, Booted
  <2>3. ScreenAsTold
    BY <2>1 DEF ScreenAsTold, BootInv, ModeChosen, Booted
  <2> DEFINE told == boot_info.frame_buffer
             offset == fb.phys % PAGE_SIZE
  <2>4. ASSUME pc = "kernel", NEW k \in 0 .. fb.size - 1
        PROVE  Reaches(told + offset + k, fb.phys + k)
    <3>1. frame_buffer # Unset /\ fb \in FrameBuffers
          /\ Run(frame_buffer, fb_page_count) \subseteq DOMAIN vmap
      BY <2>4 DEF BootInv, Layout, Phases, Progress, BeforeKernel, BeforeSwitcher, BeforeStack, BeforeFb
    <3>2. /\ PAGE_SIZE \in Nat \ {0} /\ fb.phys \in Nat /\ fb.size \in Nat
          /\ frame_buffer \in Nat /\ k \in Nat
      BY <3>1, MachineAssumption DEF BootInv, TypeOK
    <3> DEFINE a == frame_buffer * PAGE_SIZE + offset + k
               g == (fb.phys + k) \div PAGE_SIZE
               v == a \div PAGE_SIZE
    <3>3. v = frame_buffer + (g - fb_phys_base) /\ g * PAGE_SIZE + (a % PAGE_SIZE) = fb.phys + k
      <4> DEFINE d == PAGE_SIZE
                 phys == fb.phys
                 first == frame_buffer
      <4>1. d \in Nat \ {0} /\ phys \in Nat /\ first \in Nat /\ k \in Nat
        BY <3>2
      <4> HIDE DEF d, phys, first
      <4>2. \A f, p, j \in Nat :
              /\ (f * d + (p % d) + j) \div d = f + (((p + j) \div d) - (p \div d))
              /\ ((p + j) \div d) * d + ((f * d + (p % d) + j) % d) = p + j
        BY <4>1, ByteOfPage
      <4>3. \A f, j \in Nat :
              /\ (f * d + (phys % d) + j) \div d = f + (((phys + j) \div d) - (phys \div d))
              /\ ((phys + j) \div d) * d + ((f * d + (phys % d) + j) % d) = phys + j
        BY <4>1, <4>2
      <4>4. \A f \in Nat :
              /\ (f * d + (phys % d) + k) \div d = f + (((phys + k) \div d) - (phys \div d))
              /\ ((phys + k) \div d) * d + ((f * d + (phys % d) + k) % d) = phys + k
        BY <4>1, <4>3
      <4>5. /\ (first * d + (phys % d) + k) \div d = first + (((phys + k) \div d) - (phys \div d))
            /\ ((phys + k) \div d) * d + ((first * d + (phys % d) + k) % d) = phys + k
        BY <4>1, <4>4
      <4> QED BY <4>5, Zenon DEF d, phys, first, fb_phys_base
    <3>4. fb.phys + k \in fb.phys .. fb.phys + fb.size - 1
      BY <3>2
    <3>5. fb_phys_base \in Nat /\ fb_page_count \in Nat /\ g \in Run(fb_phys_base, fb_page_count)
      BY <3>1, <3>4, FrameBufferPages
    <3>6. a = told + offset + k
      BY <2>1, <2>4 DEF Booted
    <3> HIDE DEF a, g, v, offset, told
    <3>7. v \in Run(frame_buffer, fb_page_count) /\ fb_phys_base + (v - frame_buffer) = g
      BY <3>2, <3>3, <3>5 DEF Run
    <3>8. v \in DOMAIN vmap /\ FbPage(v)
      BY <3>1, <3>7, PageByAddress
    <3>9. vmap[v] = [frame |-> g, writable |-> TRUE, device |-> TRUE]
      BY <3>7, <3>8 DEF FbPage
    <3>10. vmap[v].device /\ vmap[v].writable /\ vmap[v].frame = g
      BY <3>9
    <3> QED BY <3>3, <3>6, <3>8, <3>10 DEF Reaches, v
  <2>6. FrameBufferMapped
    BY <2>4 DEF FrameBufferMapped
  <2>7. FrameBufferWhereTold
    <3> SUFFICES ASSUME pc = "kernel", offset = 0, NEW k \in 0 .. fb.size - 1
                 PROVE  Reaches(told + k, fb.phys + k)
      BY <2>1 DEF FrameBufferWhereTold, Booted
    <3>1. Reaches(told + offset + k, fb.phys + k)
      BY <2>4
    <3>2. frame_buffer \in Nat /\ PAGE_SIZE \in Nat
      BY MachineAssumption DEF BootInv, TypeOK, Phases, BeforeKernel, BeforeSwitcher, BeforeStack, BeforeFb
    <3>3. told \in Nat
      <4>1. told = frame_buffer * PAGE_SIZE
        BY <2>1 DEF Booted
      <4> QED BY <3>2, <4>1, ProductNext
    <3>4. told + offset + k = told + k
      BY <3>3
    <3> QED BY <3>1, <3>4
  <2>5. NewAddressesAreFree
    <3> SUFFICES ASSUME boot_info # <<>>, NEW v \in DOMAIN vmap PROVE v < boot_info.v_addr_start
      BY DEF NewAddressesAreFree
    <3>1. pc \in Booted
      BY DEF BootInv, BootInfoWritten
    <3> QED BY <2>1, <3>1, Areas
  <2> QED BY <2>2, <2>3, <2>5, <2>6, <2>7 DEF BootInfoTrue, BootInv
<1> QED BY <1>1, BootInvariance, PTL
=============================================================================
