---------------------------- MODULE MCBootloader ----------------------------
(* Nine frames of RAM, a loader in the first two, a kernel of two segments *)
(* and a frame buffer above RAM that may start and end inside a page.      *)
EXTENDS Bootloader

MCFrames == 0 .. 8
MCLoaderFrames == {0, 1}
MCSwitcherPage == 1
MCPageSize == 4
MCStackPages == 2
MCReserved == {8, 9}
MCMaxTables == 1

Seg(f, n, w) == [first |-> f, pages |-> n, writable |-> w]
(* A kernel as the linker script lays it out, and one whose segments       *)
(* share a page.                                                           *)
MCKernels == {
  [segments |-> <<Seg(10, 1, FALSE), Seg(11, 2, TRUE)>>, entry |-> 10, bootinfo |-> 11],
  [segments |-> <<Seg(10, 2, FALSE), Seg(11, 1, TRUE)>>, entry |-> 10, bootinfo |-> 11] }
(* No mode, one of no size, one that is largest in the middle, and three of *)
(* which the first and the last are equally large.                         *)
Mode(w, h) == [w |-> w, h |-> h]
MCModes == {<<>>, <<Mode(0, 0)>>, <<Mode(1, 2), Mode(2, 2), Mode(3, 1)>>,
            <<Mode(2, 1), Mode(1, 1), Mode(1, 2)>>}
MCFrameBuffers == {[phys |-> p, size |-> s] : p \in {80, 82}, s \in {1, 3, 4, 5, 8}}
=============================================================================
