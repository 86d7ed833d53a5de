------------------------------ MODULE Bootloader ------------------------------
(***************************************************************************)
(* setup_uefi_and_exit and entry of bootloader/src/main.rs: everything     *)
(* between firmware and the kernel's first instruction.  Frames and        *)
(* virtual pages are numbered; a call of VirtualMapBuilder::map is the     *)
(* step that AddressSpace specifies, and an Err of it, or of allocate_-    *)
(* pages, is a panic that ends the boot.  What the copy loop leaves in the *)
(* kernel's pages is the subject of KernelImage, how the regions of        *)
(* BootInfo come about that of MemoryRegions.                              *)
(***************************************************************************)
EXTENDS Integers, Sequences, FiniteSetsExt

CONSTANTS
  Kernels,             \* kernel binaries that may be built in
  Frames,              \* RAM frames of the machine
  LoaderFrames,        \* those that hold the boot loader itself
  SwitcherPage,        \* the page of switch_to_kernel, one of them
  Modes,               \* sequences of graphics modes that a firmware may offer
  FrameBuffers,        \* where the firmware may put the frame buffer
  PAGE_SIZE,
  KERNEL_STACK_PAGES,
  ReservedPages,       \* those below the PML4 slot 510
  MaxTables            \* page tables that one call of `map` may allocate

Run(first, n) == first .. first + n - 1

(* Segments by page: `first` from the virtual address, `pages` from the    *)
(* memory size.                                                            *)
Segment == [first : Nat, pages : Nat \ {0}, writable : BOOLEAN]

(* The frame buffer belongs to a device, not to RAM.                       *)
ASSUME MachineAssumption ==
  /\ Frames \subseteq Nat
  /\ LoaderFrames \subseteq Frames
  /\ SwitcherPage \in LoaderFrames
  /\ PAGE_SIZE \in Nat \ {0}
  /\ KERNEL_STACK_PAGES \in Nat \ {0}
  /\ MaxTables \in Nat
  /\ Modes \subseteq Seq([w : Nat, h : Nat])
  /\ \A b \in FrameBuffers :
       /\ b.phys \in Nat /\ b.size \in Nat \ {0}
       /\ \A f \in Frames : (f + 1) * PAGE_SIZE <= b.phys \/ b.phys + b.size <= f * PAGE_SIZE

(* kernel/src/linker.ld: `entry` and `bootinfo` are pages of the kernel,   *)
(* and it is linked at 0xffffffff80000000, above any RAM.                  *)
ASSUME KernelAssumption ==
  \A k \in Kernels :
    /\ k.segments \in Seq(Segment) \ {<<>>}
    /\ \A s \in DOMAIN k.segments, f \in Frames : f < k.segments[s].first
    /\ \A v \in {k.entry, k.bootinfo} :
         \E s \in DOMAIN k.segments : v \in Run(k.segments[s].first, k.segments[s].pages)

VARIABLES
  pc,            \* the statement reached
  kernel,        \* the binary
  owner,         \* memory type of each RAM frame
  vmap,          \* virtual pages mapped so far
  tables,        \* frames that hold the page tables
  i, seg,        \* loop counters
  kernel_ptr,    \* first frame of the kernel
  stack_ptr,     \* first frame of the stack
  stack,         \* first virtual page of the stack
  next_v_addr,   \* first virtual page not given away
  modes,         \* graphics modes that the firmware offers
  max_mode,      \* the number of the mode chosen so far, or 0
  info,          \* its ModeInfo
  active,        \* the mode that the firmware is in
  fb,            \* the firmware's frame buffer in that mode
  frame_buffer,  \* its first virtual page, as told to the kernel
  boot_info      \* BootInfo, as far as the kernel relies on it

vars == <<pc, kernel, owner, vmap, tables, i, seg, kernel_ptr, stack_ptr, stack,
          next_v_addr, modes, max_mode, info, active, fb, frame_buffer, boot_info>>
screen == <<modes, max_mode, info, active, fb>>

Types == {"free", "loader", "code", "stack", "table"}
Unset == -1
None == <<>>

(* KERNEL_VIRTUAL_ADDRESSES, in pages. *)
Load(k) == {k.segments[s] : s \in DOMAIN k.segments}
virtual_base == Min({s.first : s \in Load(kernel)})
virtual_end == Max({s.first + s.pages : s \in Load(kernel)})

Mapping == [frame : Int, writable : BOOLEAN, device : BOOLEAN]
Free == {f \in Frames : owner[f] = "free"}

(* Mutant: the pages that the size alone asks for. *)
FbPagesOfSize == (fb.size + PAGE_SIZE - 1) \div PAGE_SIZE

(* fb_phys_base, fb_phys_end and fb_page_count. *)
fb_phys_base == fb.phys \div PAGE_SIZE
fb_phys_end == (fb.phys + fb.size + PAGE_SIZE - 1) \div PAGE_SIZE
fb_page_count == fb_phys_end - fb_phys_base

Init ==
  /\ pc = "graphics"
  /\ kernel \in Kernels
  /\ modes \in Modes
  /\ max_mode = 0
  /\ info = None
  /\ active = None
  /\ fb = None
  /\ owner = [f \in Frames |-> IF f \in LoaderFrames THEN "loader" ELSE "free"]
  /\ vmap = <<>>
  /\ tables = {}
  /\ i = 0
  /\ seg = 1
  /\ kernel_ptr = Unset
  /\ stack_ptr = Unset
  /\ stack = Unset
  /\ next_v_addr = virtual_end
  /\ frame_buffer = Unset
  /\ boot_info = <<>>

Panic == pc' = "panic" /\ UNCHANGED <<kernel, owner, vmap, tables, i, seg, kernel_ptr,
                                      stack_ptr, stack, next_v_addr, screen, frame_buffer, boot_info>>

others == <<kernel, owner, vmap, tables, seg, kernel_ptr, stack_ptr, stack, next_v_addr, frame_buffer, boot_info>>
area(mode) == mode.w * mode.h

Better(k) == max_mode = 0 \/ area(modes[k]) > area(info)

(* One round of the loop over the modes. *)
ConsiderMode ==
  /\ pc = "graphics" /\ i < Len(modes)
  /\ max_mode' = IF Better(i + 1) THEN i + 1 ELSE max_mode
  /\ info' = IF Better(i + 1) THEN modes[i + 1] ELSE info
  /\ i' = i + 1
  /\ UNCHANGED <<pc, modes, active, fb, others>>

SetMode ==
  /\ pc = "graphics" /\ i = Len(modes) /\ max_mode # 0
  /\ active' = modes[max_mode]
  /\ fb' \in FrameBuffers
  /\ i' = 0
  /\ pc' = "alloc_kernel"
  /\ UNCHANGED <<modes, max_mode, info, others>>

(* No handle, no protocol, no mode at all, or set_mode fails. *)
GraphicsFails == pc = "graphics" /\ i \in {0, Len(modes)} /\ Panic

(* boot::allocate_pages(AnyPages, ty, n). *)
AllocatePages(ty, n, first) ==
  /\ Run(first, n) \subseteq Free
  /\ owner' = [f \in Frames |-> IF f \in Run(first, n) THEN ty ELSE owner[f]]

(* virtual_map.map(p, v, flags) returning Ok: it may take page tables. *)
MapPage(v, p, writable, device) ==
  /\ v \notin ReservedPages
  /\ v \notin DOMAIN vmap
  /\ vmap' = [u \in DOMAIN vmap \cup {v} |->
                IF u = v THEN [frame |-> p, writable |-> writable, device |-> device] ELSE vmap[u]]
  /\ \E new \in SUBSET Free :
       /\ Cardinality(new) <= MaxTables
       /\ owner' = [f \in Frames |-> IF f \in new THEN "table" ELSE owner[f]]
       /\ tables' = tables \cup new

AllocKernel ==
  /\ pc = "alloc_kernel"
  /\ \E first \in Free :
       /\ AllocatePages("code", virtual_end - virtual_base, first)
       /\ kernel_ptr' = first
  /\ pc' = "map_kernel"
  /\ UNCHANGED <<kernel, vmap, tables, i, seg, stack_ptr, stack, next_v_addr, screen, frame_buffer, boot_info>>

(* One iteration over the pages of a segment. *)
MapKernelPage ==
  LET s == kernel.segments[seg]
  IN  /\ pc = "map_kernel"
      /\ MapPage(s.first + i, kernel_ptr + s.first - virtual_base + i, s.writable, FALSE)
      /\ IF i + 1 < s.pages THEN i' = i + 1 /\ UNCHANGED <<seg, pc>>
         ELSE /\ i' = 0
              /\ seg' = seg + 1
              /\ pc' = IF seg = Len(kernel.segments) THEN "map_switcher" ELSE pc
      /\ UNCHANGED <<kernel, kernel_ptr, stack_ptr, stack, next_v_addr, screen, frame_buffer, boot_info>>

(* Identity-map the kernel switcher. *)
MapSwitcher ==
  /\ pc = "map_switcher"
  /\ MapPage(SwitcherPage, SwitcherPage, FALSE, FALSE)
  /\ pc' = "alloc_stack"
  /\ UNCHANGED <<kernel, i, seg, kernel_ptr, stack_ptr, stack, next_v_addr, screen, frame_buffer, boot_info>>

(* The head of next_free_page: v_addr and next_v_addr. *)
TakePages(n) == next_v_addr' = next_v_addr + n

AllocStack ==
  /\ pc = "alloc_stack"
  /\ \E first \in Free :
       /\ AllocatePages("stack", KERNEL_STACK_PAGES, first)
       /\ stack_ptr' = first
  /\ stack' = next_v_addr
  /\ TakePages(KERNEL_STACK_PAGES)
  /\ pc' = "map_stack"
  /\ UNCHANGED <<kernel, vmap, tables, i, seg, kernel_ptr, screen, frame_buffer, boot_info>>

(* Mutant: every page of the stack gets the first frame. *)
MapStackPageSame ==
  /\ pc = "map_stack"
  /\ MapPage(stack + i, stack_ptr, TRUE, FALSE)
  /\ i' = IF i + 1 < KERNEL_STACK_PAGES THEN i + 1 ELSE 0
  /\ pc' = IF i + 1 < KERNEL_STACK_PAGES THEN "map_stack" ELSE "take_fb"
  /\ UNCHANGED <<kernel, seg, kernel_ptr, stack_ptr, stack, next_v_addr, screen, frame_buffer, boot_info>>

(* Mutant: the last page is left out. *)
MapStackPageShort ==
  /\ pc = "map_stack"
  /\ MapPage(stack + i, stack_ptr + i, TRUE, FALSE)
  /\ i' = IF i + 2 < KERNEL_STACK_PAGES THEN i + 1 ELSE 0
  /\ pc' = IF i + 2 < KERNEL_STACK_PAGES THEN "map_stack" ELSE "take_fb"
  /\ UNCHANGED <<kernel, seg, kernel_ptr, stack_ptr, stack, next_v_addr, screen, frame_buffer, boot_info>>

MapStackPage ==
  /\ pc = "map_stack"
  /\ MapPage(stack + i, stack_ptr + i, TRUE, FALSE)
  /\ i' = IF i + 1 < KERNEL_STACK_PAGES THEN i + 1 ELSE 0
  /\ pc' = IF i + 1 < KERNEL_STACK_PAGES THEN "map_stack" ELSE "take_fb"
  /\ UNCHANGED <<kernel, seg, kernel_ptr, stack_ptr, stack, next_v_addr, screen, frame_buffer, boot_info>>

TakeFrameBuffer ==
  /\ pc = "take_fb"
  /\ frame_buffer' = next_v_addr
  /\ TakePages(fb_page_count)
  /\ pc' = "map_fb"
  /\ UNCHANGED <<kernel, owner, vmap, tables, i, seg, kernel_ptr, stack_ptr, stack, screen, boot_info>>

(* p_addr + i * PAGE_SIZE, of which the entry keeps the frame. *)
MapFrameBufferPage ==
  /\ pc = "map_fb"
  /\ MapPage(frame_buffer + i, (fb.phys + i * PAGE_SIZE) \div PAGE_SIZE, TRUE, TRUE)
  /\ i' = IF i + 1 < fb_page_count THEN i + 1 ELSE 0
  /\ pc' = IF i + 1 < fb_page_count THEN "map_fb" ELSE "finish"
  /\ UNCHANGED <<kernel, seg, kernel_ptr, stack_ptr, stack, next_v_addr, screen, frame_buffer, boot_info>>

(* virtual_map.finish(): one more page table; then BootInfo is written.    *)
(* The frame buffer's address is that of the first page given to it, with  *)
(* no regard to where in a page the frame buffer starts.                   *)
FinishAndWriteBootInfo ==
  /\ pc = "finish"
  /\ \E f \in Free : owner' = [owner EXCEPT ![f] = "table"] /\ tables' = tables \cup {f}
  /\ boot_info' = [frame |-> kernel_ptr + kernel.bootinfo - virtual_base,
                   graphics_info |-> info, frame_buffer |-> frame_buffer * PAGE_SIZE,
                   frame_buffer_size |-> fb.size, switcher_map |-> SwitcherPage,
                   v_addr_start |-> next_v_addr, regions |-> {}]
  /\ pc' = "exit"
  /\ UNCHANGED <<kernel, vmap, i, seg, kernel_ptr, stack_ptr, stack, next_v_addr, screen, frame_buffer>>

(* unwrap of allocate_pages, and panic!("{e}") for whatever `map` returns. *)
AllocateFails == pc \in {"alloc_kernel", "alloc_stack", "finish"} /\ Panic
MapFails == pc \in {"map_kernel", "map_switcher", "map_stack", "map_fb"} /\ Panic

(* Mutant: the frames of the page tables count as usable. *)
UsableTypesWithTables == {"loader", "free", "table"}

(* The memory types that the loop over the memory map accepts. *)
UsableTypes == {"loader", "free"}

(* exit_boot_services; the regions are drawn from the usable frames.       *)
ExitBootServices ==
  /\ pc = "exit"
  /\ boot_info' = [boot_info EXCEPT !.regions = {f \in Frames : owner[f] \in UsableTypes}]
  /\ pc' = "switch"
  /\ UNCHANGED <<kernel, owner, vmap, tables, i, seg, kernel_ptr, stack_ptr, stack, next_v_addr, screen,
                 frame_buffer>>

(* The end of the stack, from which it grows down. *)
kernel_stack_base == stack + KERNEL_STACK_PAGES
MapsTo(v, f) == v \in DOMAIN vmap /\ vmap[v].frame = f

(* switch_to_kernel: after `mov cr3` the next instruction is fetched from  *)
(* the same address through the new tables, then the kernel's entry point; *)
(* the kernel pushes below stack_base - 8.                                 *)
SwitchToKernel ==
  LET top == kernel_stack_base - 1
  IN  /\ pc = "switch"
      /\ pc' = IF /\ MapsTo(SwitcherPage, SwitcherPage)
                  /\ MapsTo(kernel.entry, kernel_ptr + kernel.entry - virtual_base)
                  /\ top \in DOMAIN vmap /\ vmap[top].writable
                 THEN "kernel" ELSE "fault"
      /\ UNCHANGED <<kernel, owner, vmap, tables, i, seg, kernel_ptr, stack_ptr, stack, next_v_addr, screen,
                     frame_buffer, boot_info>>

Next ==
  \/ ConsiderMode \/ SetMode \/ GraphicsFails
  \/ AllocKernel \/ MapKernelPage \/ MapSwitcher \/ AllocStack \/ MapStackPage
  \/ TakeFrameBuffer \/ MapFrameBufferPage \/ FinishAndWriteBootInfo
  \/ AllocateFails \/ MapFails \/ ExitBootServices \/ SwitchToKernel

Spec == Init /\ [][Next]_vars

-----------------------------------------------------------------------------
TypeOK ==
  /\ pc \in {"graphics", "alloc_kernel", "map_kernel", "map_switcher", "alloc_stack", "map_stack", "take_fb",
             "map_fb", "finish", "exit", "switch", "kernel", "fault", "panic"}
  /\ kernel \in Kernels
  /\ owner \in [Frames -> Types]
  /\ DOMAIN vmap \subseteq Nat
  /\ \A v \in DOMAIN vmap : vmap[v] \in Mapping
  /\ tables \subseteq Frames
  /\ {i, seg, next_v_addr} \subseteq Nat
  /\ {kernel_ptr, stack_ptr, stack, frame_buffer} \subseteq Nat \cup {Unset}
  /\ fb \in FrameBuffers \cup {None}

(* The switch to the new page tables never faults: whatever the loader     *)
(* went through, it panicked first or has mapped what the switch touches.  *)
SwitchNeverFaults == pc # "fault"

(* The kernel can give away any frame of the regions without losing its    *)
(* own code, its stack or a page table: none of them is in a region.  All  *)
(* it has mapped besides are devices and the switcher's page, which it is  *)
(* to unmap.                                                               *)
RegionsSpareTheKernel ==
  pc = "kernel" =>
    /\ tables \cap boot_info.regions = {}
    /\ \A v \in DOMAIN vmap :
         \/ v = boot_info.switcher_map
         \/ vmap[v].device
         \/ vmap[v].frame \notin boot_info.regions

(* No two virtual pages share a frame, so that read-only kernel memory is  *)
(* not writable under another address, and no page shows a frame that      *)
(* holds a page table.                                                     *)
FramesNotShared ==
  /\ \A v, w \in DOMAIN vmap : v # w => vmap[v].frame # vmap[w].frame
  /\ \A v \in DOMAIN vmap : vmap[v].frame \notin tables

(* bootloader/src/main.rs of the second kernel address: "New virtual       *)
(* addresses can take this spot".  Once BootInfo is written, the pages     *)
(* from v_addr_start on are not mapped.                                    *)
NewAddressesAreFree ==
  boot_info # <<>> => \A v \in DOMAIN vmap : v < boot_info.v_addr_start

(* What the MMU makes of an address: byte `p` of a device, writable.       *)
Reaches(a, p) ==
  LET v == a \div PAGE_SIZE
  IN  /\ v \in DOMAIN vmap
      /\ vmap[v].device /\ vmap[v].writable
      /\ vmap[v].frame * PAGE_SIZE + (a % PAGE_SIZE) = p

(* Every byte of the frame buffer is mapped, device and writable, in       *)
(* order, also if it starts or ends inside a page.  The bytes are counted  *)
(* from where the frame buffer starts in its first page.                   *)
FrameBufferMapped ==
  pc = "kernel" =>
    \A k \in 0 .. fb.size - 1 :
      Reaches(boot_info.frame_buffer + (fb.phys % PAGE_SIZE) + k, fb.phys + k)

(* A frame buffer that starts a page is where the kernel is told: byte k   *)
(* of it, for every k below the size told, is at the address told plus k.  *)
(* It is not said of one that starts inside a page, of which it is false:  *)
(* next_free_page returns the address of the page, and the kernel draws    *)
(* fb.phys % PAGE_SIZE bytes too early.                                    *)
FrameBufferWhereTold ==
  pc = "kernel" =>
    /\ boot_info.frame_buffer_size = fb.size
    /\ fb.phys % PAGE_SIZE = 0 =>
         \A k \in 0 .. boot_info.frame_buffer_size - 1 : Reaches(boot_info.frame_buffer + k, fb.phys + k)

(* The kernel finds BootInfo where it was linked.                          *)
BootInfoMapped == pc = "kernel" => MapsTo(kernel.bootinfo, boot_info.frame)

(* The screen is in the mode that the kernel is told of, and no mode that  *)
(* the firmware offers is larger.                                          *)
ScreenAsTold ==
  pc = "kernel" => /\ boot_info.graphics_info = active
                   /\ \A k \in DOMAIN modes : area(modes[k]) <= area(active)

(* What BootInfo says is so when the kernel starts: it is where the kernel *)
(* looks for it, the screen is in the mode it names, the frame buffer is   *)
(* mapped in full and, if it starts a page, at the address told, and the   *)
(* new addresses it offers are free.                                       *)
BootInfoTrue ==
  /\ TypeOK /\ BootInfoMapped /\ ScreenAsTold
  /\ FrameBufferMapped /\ FrameBufferWhereTold /\ NewAddressesAreFree
=============================================================================
