----------------------------- MODULE LazyStorage -----------------------------
(***************************************************************************)
(* LazyStorage of std/sys-src/thread_local/mod.rs, the storage behind      *)
(* thread_local! on a system without threads.  What makes it hard is       *)
(* re-entrance: the initialiser and the destructor of the value are user   *)
(* code that may call `get` again, so that calls nest.  A panic aborts.    *)
(***************************************************************************)
EXTENDS Integers, Sequences

CONSTANTS
  Values,    \* values of the stored type; each is created at most once
  MaxDepth   \* bound on how deep calls nest

NoValue == "none"
Panicked == "panic"

BoundsAssumption ==
  /\ NoValue \notin Values
  /\ Panicked \notin Values
  /\ MaxDepth \in Nat \ {0}

VARIABLES
  state,    \* Cell<State>
  value,    \* the value written to the UnsafeCell last, or NoValue
  stack,    \* calls of initialize under way, outermost first
  unused,   \* values that have not been created yet
  dropped,  \* values whose destructor has run or is running
  result    \* what the last call of get returned: a value, or "panic"

vars == <<state, value, stack, unused, dropped, result>>

States == {"Initial", "Alive", "Destroying"}
Aborted == result = Panicked

(* A call of initialize: where it is, and the value it is to store. *)
Frame == [at : {"init", "check", "drop", "guard"}, new : Values \cup {NoValue}]
Top == stack[Len(stack)]
Pop == SubSeq(stack, 1, Len(stack) - 1)
Goto(at) == stack' = [stack EXCEPT ![Len(stack)].at = at]

(* User code runs at the bottom, in the initialiser, or in the destructor. *)
UserCode == ~Aborted /\ (stack # <<>> => Top.at \in {"init", "drop"})

Init ==
  /\ state = "Initial"
  /\ value = NoValue
  /\ stack = <<>>
  /\ unused = Values
  /\ dropped = {}
  /\ result = NoValue

(* get: the value is there. *)
GetAlive ==
  /\ UserCode
  /\ state = "Alive"
  /\ result' = value
  /\ UNCHANGED <<state, value, stack, unused, dropped>>

(* get: initialize(i, f) is called. *)
GetInitialize ==
  /\ UserCode
  /\ state # "Alive"
  /\ Len(stack) < MaxDepth
  /\ stack' = Append(stack, [at |-> "init", new |-> NoValue])
  /\ UNCHANGED <<state, value, unused, dropped, result>>

(* i.and_then(Option::take).unwrap_or_else(f) comes to its end. *)
Created(v) ==
  /\ ~Aborted
  /\ stack # <<>>
  /\ Top.at = "init"
  /\ v \in unused
  /\ unused' = unused \ {v}
  /\ stack' = [stack EXCEPT ![Len(stack)] = [at |-> "check", new |-> v]]
  /\ UNCHANGED <<state, value, dropped, result>>

(* if Alive: the destructor of the old value starts. *)
DropOld ==
  /\ ~Aborted
  /\ stack # <<>>
  /\ Top.at = "check"
  /\ state = "Alive"
  /\ state' = "Destroying"
  /\ dropped' = dropped \cup {value}
  /\ Goto("drop")
  /\ UNCHANGED <<value, unused, result>>

(* The destructor returns: state.set(Initial). *)
Dropped ==
  /\ ~Aborted
  /\ stack # <<>>
  /\ Top.at = "drop"
  /\ state' = "Initial"
  /\ Goto("guard")
  /\ UNCHANGED <<value, unused, dropped, result>>

(* Nothing to drop. *)
NotAlive ==
  /\ ~Aborted
  /\ stack # <<>>
  /\ Top.at = "check"
  /\ state # "Alive"
  /\ Goto("guard")
  /\ UNCHANGED <<state, value, unused, dropped, result>>

(* The guard against initialization during drop. *)
PanicInDrop ==
  /\ ~Aborted
  /\ stack # <<>>
  /\ Top.at = "guard"
  /\ state = "Destroying"
  /\ result' = Panicked
  /\ UNCHANGED <<state, value, stack, unused, dropped>>

(* Mutant: there is no guard. *)
StoreUnguarded ==
  /\ ~Aborted
  /\ stack # <<>>
  /\ Top.at = "guard"
  /\ value' = Top.new
  /\ state' = "Alive"
  /\ stack' = Pop
  /\ result' = Top.new
  /\ UNCHANGED <<unused, dropped>>

(* value.write(..); state.set(Alive). *)
Store ==
  /\ ~Aborted
  /\ stack # <<>>
  /\ Top.at = "guard"
  /\ state # "Destroying"
  /\ value' = Top.new
  /\ state' = "Alive"
  /\ stack' = Pop
  /\ result' = Top.new
  /\ UNCHANGED <<unused, dropped>>

Next ==
  \/ GetAlive \/ GetInitialize \/ DropOld \/ Dropped \/ NotAlive \/ PanicInDrop \/ Store
  \/ \E v \in Values : Created(v)

Spec == Init /\ [][Next]_vars

-----------------------------------------------------------------------------
TypeOK ==
  /\ state \in States
  /\ value \in Values \cup {NoValue}
  /\ stack \in Seq(Frame)
  /\ unused \subseteq Values
  /\ dropped \subseteq Values
  /\ result \in Values \cup {NoValue, Panicked}

(* "Safety: we check for no initialization during drop below": until the   *)
(* destructor is through, nothing is stored over the value it works on.    *)
Dropping == {k \in DOMAIN stack : stack[k].at = "drop"}
NothingStoredInDrop ==
  /\ Dropping # {} <=> state = "Destroying"
  /\ \A j, k \in Dropping : j = k

(* `get` never hands out, and initialize never destroys, a value that is   *)
(* not there or has been destroyed: however calls nest, the state Alive    *)
(* means that the cell holds a live value.                                 *)
AliveIsLive ==
  /\ TypeOK
  /\ NothingStoredInDrop
  /\ state = "Alive" => value # NoValue /\ value \notin dropped

(* No value is overwritten without its destructor having run: every value  *)
(* that was created is in the cell, on its way there, or dropped.          *)
NoValueLost ==
  Values \ unused \subseteq dropped \cup {value} \cup {stack[k].new : k \in DOMAIN stack}

(* However the user's code calls back: what get returns is alive, and every *)
(* value is destroyed exactly when it is replaced.                         *)
ValuesAccountedFor == AliveIsLive /\ NoValueLost
=============================================================================
