----------------------------- MODULE AddressSpace -----------------------------
(***************************************************************************)
(* What VirtualMap::map of bootinfo promises, without page tables: a       *)
(* partial map from virtual pages to page-table words that only grows.     *)
(***************************************************************************)
EXTENDS PageEntry

CONSTANTS
  Pages,     \* virtual pages that callers name
  Reserved,  \* those that the mapper keeps for itself
  PAddrs,    \* physical addresses
  Flags      \* VFlags

VARIABLES
  vmap,    \* the word each page outside Reserved is translated by
  busy,    \* a call of `map` is under way
  call,    \* its arguments
  result   \* what the last call returned

vars == <<vmap, busy, call, result>>

Call == [p_addr : PAddrs, v_addr : Pages, flags : Flags]

Init ==
  /\ vmap = [v \in Pages \ Reserved |-> {}]
  /\ busy = FALSE
  /\ call \in Call
  /\ result = <<"none", {}>>

(* `map` is called for a page it may serve. *)
Begin(c) ==
  /\ ~busy
  /\ c.v_addr \notin Reserved
  /\ busy' = TRUE
  /\ call' = c
  /\ result' = <<"none", {}>>
  /\ UNCHANGED vmap

(* Err(Reserved). *)
Reject(c) ==
  /\ ~busy
  /\ c.v_addr \in Reserved
  /\ result' = <<"reserved", {}>>
  /\ UNCHANGED <<vmap, busy, call>>

(* Ok(()): only this result changes the map, and only at the page asked for. *)
Map ==
  /\ busy
  /\ ~is_present(vmap[call.v_addr])
  /\ vmap' = [vmap EXCEPT ![call.v_addr] = LeafEntry(call.flags, call.p_addr)]
  /\ busy' = FALSE
  /\ result' = <<"ok", {}>>
  /\ UNCHANGED call

(* Err(AlreadyMapped) names the frame the page is mapped to. *)
AlreadyMapped ==
  /\ busy
  /\ is_present(vmap[call.v_addr])
  /\ busy' = FALSE
  /\ result' = <<"already_mapped", child_addr(vmap[call.v_addr])>>
  /\ UNCHANGED <<vmap, call>>

(* Err(PageTable): only for a page that is not mapped. *)
OutOfTables ==
  /\ busy
  /\ ~is_present(vmap[call.v_addr])
  /\ busy' = FALSE
  /\ result' = <<"page_table", {}>>
  /\ UNCHANGED <<vmap, call>>

Next ==
  \/ \E c \in Call : Begin(c)
  \/ \E c \in Call : Reject(c)
  \/ Map
  \/ AlreadyMapped
  \/ OutOfTables

Spec == Init /\ [][Next]_vars
=============================================================================
