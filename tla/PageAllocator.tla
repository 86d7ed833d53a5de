---------------------------- MODULE PageAllocator ----------------------------
(***************************************************************************)
(* What a caller of BinaryBuddyTree may rely on, without a tree: a set of  *)
(* blocks that are in use, and one call at a time.                         *)
(***************************************************************************)
EXTENDS Blocks

CONSTANTS
  Pages,    \* the number of pages of the region
  Request   \* the calls that callers make: alloc(pages) and free(page)

VARIABLES
  live,     \* the blocks in use
  request,  \* the call in progress, or Idle
  answer    \* what the last call returned, None during a call

vars == <<live, request, answer>>

Idle == [op |-> "idle", arg |-> 0]
None == [kind |-> "none", start |-> 0]
Ok == [kind |-> "ok", start |-> 0]
Err == [kind |-> "err", start |-> 0]
Panicked == [kind |-> "panic", start |-> 0]
Some(start) == [kind |-> "some", start |-> start]

(* The free blocks from which `pages` pages can be served. *)
Free(pages) == Fitting(Pages, live, pages)

Init == live = {} /\ request = Idle /\ answer = None

Call(r) == request = Idle /\ request' = r /\ answer' = None /\ UNCHANGED live

Return(a) == request' = Idle /\ answer' = a

(* A request is served whenever a block for it is left ... *)
Allocate ==
  /\ request.op = "alloc"
  /\ \E b \in Free(request.arg) : live' = live \cup {b} /\ Return(Some(b.start))

(* ... and refused only when none is. *)
Refuse ==
  /\ request.op = "alloc"
  /\ Free(request.arg) = {}
  /\ Return(None)
  /\ UNCHANGED live

Release ==
  /\ request.op = "free"
  /\ \E b \in live : b.start = request.arg /\ live' = live \ {b} /\ Return(Ok)

Reject ==
  /\ request.op = "free"
  /\ \A b \in live : b.start # request.arg
  /\ Return(Err)
  /\ UNCHANGED live

(* An address below the region may also end in a panic. *)
Abort ==
  /\ request.op = "free"
  /\ request.arg < 0
  /\ answer' = Panicked
  /\ UNCHANGED <<live, request>>

Next == (\E r \in Request : Call(r)) \/ Allocate \/ Refuse \/ Release \/ Reject \/ Abort

Spec == Init /\ [][Next]_vars
=============================================================================
