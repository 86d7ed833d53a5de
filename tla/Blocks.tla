-------------------------------- MODULE Blocks --------------------------------
(***************************************************************************)
(* Blocks of pages as a buddy allocator hands them out: as long as a power *)
(* of two, and starting at a multiple of that length.                      *)
(***************************************************************************)
EXTENDS Integers

PowersUpTo(size) == {p \in 1 .. size : \E k \in 0 .. p - 1 : p = 2^k}

BlocksOf(size) ==
  {b \in [start : 0 .. size - 1, len : PowersUpTo(size)] : b.start % b.len = 0 /\ b.start + b.len <= size}

Apart(b, c) == b.start + b.len <= c.start \/ c.start + c.len <= b.start

(* The blocks of a region of `size` pages that can serve a request for     *)
(* `pages` pages while those in `used` are taken: the smallest length that *)
(* is enough, clear of all of them.                                        *)
Fitting(size, used, pages) ==
  {b \in BlocksOf(size) : /\ pages <= b.len /\ b.len < 2 * pages
                          /\ \A c \in used : Apart(b, c)}
=============================================================================
