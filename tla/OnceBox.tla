------------------------------- MODULE OnceBox -------------------------------
(***************************************************************************)
(* OnceBox of std/sys-src/sync/once_box.rs: a pointer that several threads *)
(* race to set.  One action is one access to the pointer or to the memory  *)
(* of a box.  A load may return an older value of the pointer than the     *)
(* last one, unless the thread knows of that one already; `sees` has the   *)
(* boxes whose initialisation happens before what a thread does next, and  *)
(* `view` is what the store of the pointer passes on to those who acquire  *)
(* it.                                                                     *)
(***************************************************************************)
EXTENDS Integers

CONSTANTS
  Threads,  \* calls that may overlap; one nested in f() of another is one of them
  Boxes     \* boxes that may be allocated

NULL == "null"
NullAssumption == NULL \notin Boxes

VARIABLES
  pointer,  \* OnceBox::ptr
  memory,   \* of each box: "unborn", "live", "taken" or "freed"
  at,       \* where in get_or_init a thread is
  mine,     \* new_ptr
  reference,  \* the reference a thread holds, or NULL
  sees, view

vars == <<pointer, memory, at, mine, reference, sees, view>>

Init ==
  /\ pointer = NULL
  /\ memory = [b \in Boxes |-> "unborn"]
  /\ at = [t \in Threads |-> "out"]
  /\ mine = [t \in Threads |-> NULL]
  /\ reference = [t \in Threads |-> NULL]
  /\ sees = [t \in Threads |-> {}]
  /\ view = {}

Return(t, b) == at' = [at EXCEPT ![t] = "out"] /\ reference' = [reference EXCEPT ![t] = b]
Acquire(t) == sees' = [sees EXCEPT ![t] = @ \cup view]

(* get_or_init: ptr.load(Acquire) finds a box ... *)
LoadBox(t) ==
  /\ at[t] = "out" /\ pointer # NULL
  /\ Acquire(t)
  /\ Return(t, pointer)
  /\ UNCHANGED <<pointer, memory, mine, view>>

(* ... or null, perhaps an outdated one. *)
LoadNull(t) ==
  /\ at[t] = "out" /\ pointer \notin sees[t]
  /\ at' = [at EXCEPT ![t] = "create"]
  /\ UNCHANGED <<pointer, memory, mine, reference, sees, view>>

(* f() and Box::into_raw. *)
Create(t) ==
  /\ at[t] = "create"
  /\ \E b \in Boxes :
       /\ memory[b] = "unborn"
       /\ memory' = [memory EXCEPT ![b] = "live"]
       /\ mine' = [mine EXCEPT ![t] = b]
       /\ sees' = [sees EXCEPT ![t] = @ \cup {b}]
  /\ at' = [at EXCEPT ![t] = "exchange"]
  /\ UNCHANGED <<pointer, reference, view>>

(* Mutant: the store does not release. *)
ExchangeRelaxed(t) ==
  /\ at[t] = "exchange" /\ pointer = NULL
  /\ pointer' = mine[t]
  /\ view' = {}
  /\ mine' = [mine EXCEPT ![t] = NULL]
  /\ Return(t, mine[t])
  /\ UNCHANGED <<memory, sees>>

(* compare_exchange succeeds, with Release: all the thread sees is passed on. *)
Exchange(t) ==
  /\ at[t] = "exchange" /\ pointer = NULL
  /\ pointer' = mine[t]
  /\ view' = sees[t]
  /\ mine' = [mine EXCEPT ![t] = NULL]
  /\ Return(t, mine[t])
  /\ UNCHANGED <<memory, sees>>

(* It fails, with Acquire, which no outdated value can do. *)
Lose(t) ==
  /\ at[t] = "exchange" /\ pointer # NULL
  /\ Acquire(t)
  /\ at' = [at EXCEPT ![t] = "drop"]
  /\ UNCHANGED <<pointer, memory, mine, reference, view>>

(* drop of the box that lost; the other one is returned. *)
DropLoser(t) ==
  /\ at[t] = "drop"
  /\ memory' = [memory EXCEPT ![mine[t]] = "freed"]
  /\ mine' = [mine EXCEPT ![t] = NULL]
  /\ Return(t, pointer)
  /\ UNCHANGED <<pointer, sees, view>>

(* get_unchecked, under its Safety condition; the load is Relaxed. *)
GetUnchecked(t) ==
  /\ at[t] = "out" /\ pointer \in sees[t]
  /\ Return(t, pointer)
  /\ UNCHANGED <<pointer, memory, mine, sees, view>>

EndBorrow(t) == reference[t] # NULL /\ Return(t, NULL) /\ UNCHANGED <<pointer, memory, mine, sees, view>>

(* take, and drop: &mut self means that no thread is inside, no reference  *)
(* is left, and whoever comes later knows of it.                           *)
Replace(fate) ==
  /\ \A t \in Threads : at[t] = "out" /\ reference[t] = NULL
  /\ pointer # NULL
  /\ pointer' = NULL
  /\ memory' = [memory EXCEPT ![pointer] = fate]
  /\ view' = {}
  /\ UNCHANGED <<at, mine, reference, sees>>
Take == Replace("taken")
Drop == Replace("freed")

Next ==
  \/ Take \/ Drop
  \/ \E t \in Threads : \/ LoadBox(t) \/ LoadNull(t) \/ Create(t) \/ Exchange(t) \/ Lose(t)
                        \/ DropLoser(t) \/ GetUnchecked(t) \/ EndBorrow(t)

Spec == Init /\ [][Next]_vars

-----------------------------------------------------------------------------
(* Whoever wins the race: all references are to the one box in the pointer, *)
(* which is alive and whose initialisation the thread is sure to see; and   *)
(* every box is in the pointer, still with the call that made it, taken     *)
(* out, or freed, never two of these and never lost.                       *)
BoxAgreed ==
  /\ \A t \in Threads : reference[t] # NULL =>
       /\ reference[t] = pointer
       /\ memory[pointer] = "live"
       /\ pointer \in sees[t]
  /\ \A t, u \in Threads : mine[t] = mine[u] /\ mine[t] # NULL => t = u
  /\ {b \in Boxes : memory[b] = "live"} = ({pointer} \cup {mine[t] : t \in Threads}) \ {NULL}
=============================================================================
