-------------------------------- MODULE Once --------------------------------
(***************************************************************************)
(* Once of std/sys-src/sync/once/mod.rs on a system without threads.  What *)
(* makes it hard is re-entrance: the closure is user code that may use any *)
(* Once, its own included, while it runs.  A panic aborts the program, so  *)
(* that a CompletionGuard is only dropped after its closure has returned.  *)
(***************************************************************************)
EXTENDS Integers, Sequences

CONSTANT Onces  \* the Once objects of a program

VARIABLES
  state,        \* state[o]: Cell<State> of o
  calls,        \* the closures that are running, outermost first
  initialised,  \* o holds what a closure that did not poison it has made
  spoiled,      \* the last closure of o to return has poisoned it
  panicked      \* "no", or why the program has ended

vars == <<state, calls, initialised, spoiled, panicked>>

States == {"Incomplete", "Poisoned", "Running", "Complete"}
Exclusive == States \ {"Running"}  \* OnceExclusiveState

(* A running closure: its Once and the OnceState it was given. *)
Call == [once : Onces, poisoned : BOOLEAN, set_state_to : {"Complete", "Poisoned"}]
Last == calls[Len(calls)]
Running == panicked = "no"

(* Once::new and Once::new_complete. *)
Init ==
  /\ state \in [Onces -> {"Incomplete", "Complete"}]
  /\ calls = <<>>
  /\ initialised = [o \in Onces |-> state[o] = "Complete"]
  /\ spoiled = [o \in Onces |-> FALSE]
  /\ panicked = "no"

Panic(why) ==
  /\ Running
  /\ panicked' = why
  /\ UNCHANGED <<state, calls, initialised, spoiled>>

(* call finds the Once complete and returns. *)
CallComplete(o) == Running /\ state[o] = "Complete" /\ UNCHANGED vars

(* call propagates the poison. *)
CallPoisoned(o) == state[o] = "Poisoned" /\ Panic("poisoned")

(* call is made while the closure of this Once is running. *)
CallRecursive(o) == state[o] = "Running" /\ Panic("recursive")

Started(o) ==
  [once |-> o, poisoned |-> state[o] = "Poisoned", set_state_to |-> "Complete"]

(* Mutant: the Once does not show that its closure is running. *)
CallRunUnmarked(o, ignore_poisoning) ==
  /\ Running
  /\ state[o] = "Incomplete" \/ (state[o] = "Poisoned" /\ ignore_poisoning)
  /\ calls' = Append(calls, Started(o))
  /\ UNCHANGED <<state, initialised, spoiled, panicked>>

(* call starts the closure. *)
CallRun(o, ignore_poisoning) ==
  /\ Running
  /\ state[o] = "Incomplete" \/ (state[o] = "Poisoned" /\ ignore_poisoning)
  /\ state' = [state EXCEPT ![o] = "Running"]
  /\ calls' = Append(calls, Started(o))
  /\ UNCHANGED <<initialised, spoiled, panicked>>

(* OnceState::poison, called by the closure or by one that it calls. *)
Poison(n) ==
  /\ Running
  /\ calls' = [calls EXCEPT ![n].set_state_to = "Poisoned"]
  /\ UNCHANGED <<state, initialised, spoiled, panicked>>

(* The closure returns and the guard sets the state. *)
CallEnds ==
  /\ Running
  /\ calls # <<>>
  /\ state' = [state EXCEPT ![Last.once] = Last.set_state_to]
  /\ initialised' = [initialised EXCEPT ![Last.once] = Last.set_state_to = "Complete"]
  /\ spoiled' = [spoiled EXCEPT ![Last.once] = Last.set_state_to = "Poisoned"]
  /\ calls' = SubSeq(calls, 1, Len(calls) - 1)
  /\ UNCHANGED panicked

(* state and set_state take &mut self: no call on this Once is under way. *)
Exclusively(o) == Running /\ \A n \in DOMAIN calls : calls[n].once # o

GetState(o) ==
  /\ Exclusively(o)
  /\ panicked' = IF state[o] \in Exclusive THEN "no" ELSE "invalid Once state"
  /\ UNCHANGED <<state, calls, initialised, spoiled>>

SetState(o, new_state) ==
  /\ Exclusively(o)
  /\ state' = [state EXCEPT ![o] = new_state]
  /\ initialised' = [initialised EXCEPT ![o] = new_state = "Complete"]
  /\ spoiled' = [spoiled EXCEPT ![o] = new_state = "Poisoned"]
  /\ UNCHANGED <<calls, panicked>>

Wait(o) == Panic("not implementable on this target")

Next ==
  \/ CallEnds
  \/ \E n \in DOMAIN calls : Poison(n)
  \/ \E o \in Onces :
       \/ CallComplete(o) \/ CallPoisoned(o) \/ CallRecursive(o) \/ GetState(o) \/ Wait(o)
       \/ \E ignore_poisoning \in BOOLEAN : CallRun(o, ignore_poisoning)
       \/ \E new_state \in Exclusive : SetState(o, new_state)

Spec == Init /\ [][Next]_vars
-----------------------------------------------------------------------------
TypeOK ==
  /\ state \in [Onces -> States]
  /\ calls \in Seq(Call)
  /\ initialised \in [Onces -> BOOLEAN]
  /\ spoiled \in [Onces -> BOOLEAN]
  /\ panicked \in {"no", "poisoned", "recursive", "invalid Once state",
                   "not implementable on this target"}

(* Closures that call each other in a circle end in a panic: none is started
   again while it runs.  A Once is Running exactly while its closure is, and
   is_completed exactly when a closure has returned without poisoning. *)
OneClosureAtATime ==
  /\ \A m, n \in DOMAIN calls : calls[m].once = calls[n].once => m = n
  /\ \A o \in Onces : state[o] = "Running" <=> \E n \in DOMAIN calls : calls[n].once = o
  /\ \A o \in Onces : state[o] = "Complete" => initialised[o]
  /\ \A o \in Onces : initialised[o] => state[o] = "Complete"

(* A closure runs only where nothing is initialised, is told whether the one
   before it poisoned the Once, and the exclusive state is never invalid. *)
ClosureSeesPoison ==
  /\ \A n \in DOMAIN calls :
       /\ ~initialised[calls[n].once]
       /\ calls[n].poisoned = spoiled[calls[n].once]
  /\ panicked # "invalid Once state"

(* What the users of Once rely on, with closures that call back. *)
OnceSound == TypeOK /\ OneClosureAtATime /\ ClosureSeesPoison
=============================================================================
