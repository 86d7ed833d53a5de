------------------------------- MODULE Objects -------------------------------
(***************************************************************************)
(* The objects of the standard library whose methods a program may call in *)
(* any order, each over its own constants: `part` says which of them a     *)
(* behaviour is about.  Their variables have the names they have in their  *)
(* modules; the ones that a part does not use stay empty.                  *)
(***************************************************************************)
EXTENDS Integers, Sequences

CONSTANTS
  LazyValues, MaxDepth,     \* of LazyStorage
  OnceObjects,              \* of Once
  RwLocks, Mutexes, MAX,    \* of Locks
  Keys, EnvValues, PATH,    \* of CommandEnv
  Threads, Boxes            \* of OnceBox

VARIABLES
  part,
  state, value, stack, unused, dropped, result,
  calls, initialised, spoiled, panicked,
  mode, readers, writer, locked, held, ended,
  clear, saw_path, vars, asked, captured,
  pointer, memory, at, mine, reference, sees, view

lazy == <<value, stack, unused, dropped, result>>
once == <<calls, initialised, spoiled>>
locks == <<mode, readers, writer, locked, held, ended>>
environment == <<clear, saw_path, vars, asked, captured>>
box == <<pointer, memory, at, mine, reference, sees, view>>
all == <<part, state, panicked, lazy, once, locks, environment, box>>

NoLazy == value = <<>> /\ stack = <<>> /\ unused = <<>> /\ dropped = <<>> /\ result = <<>>
NoOnce == calls = <<>> /\ initialised = <<>> /\ spoiled = <<>>
NoLocks ==
  /\ mode = <<>> /\ readers = <<>> /\ writer = <<>>
  /\ locked = <<>> /\ held = <<>> /\ ended = <<>>
NoEnvironment ==
  clear = <<>> /\ saw_path = <<>> /\ vars = <<>> /\ asked = <<>> /\ captured = <<>>
NoBox ==
  /\ pointer = <<>> /\ memory = <<>> /\ at = <<>> /\ mine = <<>>
  /\ reference = <<>> /\ sees = <<>> /\ view = <<>>

Lazy == INSTANCE LazyStorage WITH Values <- LazyValues
Onces == INSTANCE Once WITH Onces <- OnceObjects
Guards == INSTANCE Locks
Env == INSTANCE CommandEnv WITH Values <- EnvValues
Racy == INSTANCE OnceBox

ASSUME LazyAssumption == Lazy!BoundsAssumption
ASSUME GuardsAssumption == Guards!MaxAssumption
ASSUME EnvAssumption == Env!PathAssumption /\ Env!ValuesAssumption
ASSUME RacyAssumption == Racy!NullAssumption

Init ==
  \/ /\ part = "LazyStorage" /\ Lazy!Init
     /\ panicked = <<>> /\ NoOnce /\ NoLocks /\ NoEnvironment /\ NoBox
  \/ /\ part = "Once" /\ Onces!Init
     /\ NoLazy /\ NoLocks /\ NoEnvironment /\ NoBox
  \/ /\ part = "Locks" /\ Guards!Init
     /\ state = <<>> /\ panicked = <<>> /\ NoLazy /\ NoOnce /\ NoEnvironment /\ NoBox
  \/ /\ part = "CommandEnv" /\ Env!Init
     /\ state = <<>> /\ NoLazy /\ NoOnce /\ NoLocks /\ NoBox
  \/ /\ part = "OnceBox" /\ Racy!Init
     /\ state = <<>> /\ panicked = <<>> /\ NoLazy /\ NoOnce /\ NoLocks /\ NoEnvironment

Next ==
  \/ /\ part = "LazyStorage" /\ Lazy!Next
     /\ UNCHANGED <<part, panicked, once, locks, environment, box>>
  \/ /\ part = "Once" /\ Onces!Next
     /\ UNCHANGED <<part, lazy, locks, environment, box>>
  \/ /\ part = "Locks" /\ Guards!Next
     /\ UNCHANGED <<part, state, panicked, lazy, once, environment, box>>
  \/ /\ part = "CommandEnv" /\ Env!Next
     /\ UNCHANGED <<part, state, lazy, once, locks, box>>
  \/ /\ part = "OnceBox" /\ Racy!Next
     /\ UNCHANGED <<part, state, panicked, lazy, once, locks, environment>>

Spec == Init /\ [][Next]_all
-----------------------------------------------------------------------------
(* LazyStorage::get never hands out a value that is not there or has been
   destroyed, and initialize overwrites none whose destructor has not run,
   however calls nest. *)
ValuesAccountedFor == part = "LazyStorage" => Lazy!ValuesAccountedFor

(* Once::call starts no closure twice, ends circles in a panic, and passes
   poison on. *)
OnceSound == part = "Once" => Onces!OnceSound

(* RwLock and Mutex: never a writer beside another guard, and the counters
   tell the guards exactly. *)
GuardsExclude == part = "Locks" => Guards!GuardsExclude

(* CommandEnv: what capture returns and what the printed command line does
   is what the calls of set, remove and clear asked for. *)
EnvironmentAsAsked == part = "CommandEnv" => Env!EnvironmentAsAsked

(* OnceBox: all threads get the same live box and see it initialised; the
   boxes that lose the race are freed, once. *)
BoxAgreed == part = "OnceBox" => Racy!BoxAgreed
=============================================================================
