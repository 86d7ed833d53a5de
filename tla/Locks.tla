------------------------------- MODULE Locks --------------------------------
(***************************************************************************)
(* RwLock and Mutex of std/sys-src/sync on a system without threads.  A    *)
(* lock that cannot be had now can never be had, so that waiting is        *)
(* replaced by a panic or abort.  The program holds guards in any number   *)
(* and drops them in any order; one that it forgets is one it never drops. *)
(***************************************************************************)
EXTENDS Integers

CONSTANTS
  RwLocks, Mutexes,  \* the locks of a program
  MAX                \* isize::MAX

MaxAssumption == MAX \in Nat \ {0}

VARIABLES
  mode,     \* mode[l]: Cell<isize> of a RwLock
  readers,  \* readers[l]: RwLockReadGuards of l that exist
  writer,   \* writer[l]: a RwLockWriteGuard of l exists
  locked,   \* locked[m]: Cell<bool> of a Mutex
  held,     \* held[m]: MutexGuards of m that exist
  ended     \* "no", or the message the program has ended with

rw == <<mode, readers, writer>>
mx == <<locked, held>>
vars == <<rw, mx, ended>>

(* isize arithmetic wraps. *)
MIN == -MAX - 1
Wrap(n) == ((n - MIN) % (2 * MAX + 2)) + MIN

Init ==
  /\ mode = [l \in RwLocks |-> 0]
  /\ readers = [l \in RwLocks |-> 0]
  /\ writer = [l \in RwLocks |-> FALSE]
  /\ locked = [m \in Mutexes |-> FALSE]
  /\ held = [m \in Mutexes |-> 0]
  /\ ended = "no"

Running == ended = "no"
End(message) == Running /\ ended' = message /\ UNCHANGED <<rw, mx>>

AddReader(l) ==
  /\ mode' = [mode EXCEPT ![l] = Wrap(@ + 1)]
  /\ readers' = [readers EXCEPT ![l] = @ + 1]
  /\ UNCHANGED <<writer, mx, ended>>

AddWriter(l) ==
  /\ mode' = [mode EXCEPT ![l] = -1]
  /\ writer' = [writer EXCEPT ![l] = TRUE]
  /\ UNCHANGED <<readers, mx, ended>>

Read(l) ==
  /\ Running
  /\ IF mode[l] < 0 THEN End("locked for writing")
     ELSE IF mode[l] = MAX THEN End("overflowed read locks")
     ELSE AddReader(l)

(* Mutant: there is always room for one more. *)
TryReadUnbounded(l) ==
  /\ Running
  /\ IF mode[l] < 0 THEN UNCHANGED vars ELSE AddReader(l)

TryRead(l) ==
  /\ Running
  /\ IF mode[l] < 0 \/ mode[l] = MAX THEN UNCHANGED vars ELSE AddReader(l)

Write(l) ==
  /\ Running
  /\ IF mode[l] = 0 THEN AddWriter(l) ELSE End("locked for reading")

TryWrite(l) ==
  /\ Running
  /\ IF mode[l] = 0 THEN AddWriter(l) ELSE UNCHANGED vars

(* A read guard is dropped: the mode is replaced, then the old one looked at. *)
ReadUnlock(l) ==
  /\ Running
  /\ readers[l] > 0
  /\ readers' = [readers EXCEPT ![l] = @ - 1]
  /\ mode' = [mode EXCEPT ![l] = Wrap(@ - 1)]
  /\ ended' = IF mode[l] > 0 THEN "no" ELSE "not locked"
  /\ UNCHANGED <<writer, mx>>

WriteUnlock(l) ==
  /\ Running
  /\ writer[l]
  /\ writer' = [writer EXCEPT ![l] = FALSE]
  /\ mode' = [mode EXCEPT ![l] = 0]
  /\ ended' = IF mode[l] = -1 THEN "no" ELSE "not locked"
  /\ UNCHANGED <<readers, mx>>

(* RwLockWriteGuard::downgrade. *)
Downgrade(l) ==
  /\ Running
  /\ writer[l]
  /\ writer' = [writer EXCEPT ![l] = FALSE]
  /\ readers' = [readers EXCEPT ![l] = @ + 1]
  /\ mode' = [mode EXCEPT ![l] = 1]
  /\ ended' = IF mode[l] = -1 THEN "no" ELSE "not locked"
  /\ UNCHANGED mx

Hold(m) ==
  /\ held' = [held EXCEPT ![m] = @ + 1]
  /\ UNCHANGED <<rw, ended>>

Lock(m) ==
  /\ Running
  /\ locked' = [locked EXCEPT ![m] = TRUE]
  /\ IF locked[m] THEN ended' = "recursively acquired" /\ UNCHANGED <<rw, held>> ELSE Hold(m)

TryLock(m) ==
  /\ Running
  /\ locked' = [locked EXCEPT ![m] = TRUE]
  /\ IF locked[m] THEN UNCHANGED <<rw, held, ended>> ELSE Hold(m)

Unlock(m) ==
  /\ Running
  /\ held[m] > 0
  /\ held' = [held EXCEPT ![m] = @ - 1]
  /\ locked' = [locked EXCEPT ![m] = FALSE]
  /\ UNCHANGED <<rw, ended>>

(* Condvar: notify does nothing, wait panics, and so does the sleep of
   wait_timeout. *)
CondvarNotify == Running /\ UNCHANGED vars
CondvarWait(m) == held[m] > 0 /\ End("cannot wait")

Next ==
  \/ CondvarNotify
  \/ \E l \in RwLocks :
       \/ Read(l) \/ TryRead(l) \/ Write(l) \/ TryWrite(l)
       \/ ReadUnlock(l) \/ WriteUnlock(l) \/ Downgrade(l)
  \/ \E m \in Mutexes : Lock(m) \/ TryLock(m) \/ Unlock(m) \/ CondvarWait(m)

Spec == Init /\ [][Next]_vars
-----------------------------------------------------------------------------
TypeOK ==
  /\ mode \in [RwLocks -> MIN..MAX]
  /\ readers \in [RwLocks -> Nat]
  /\ writer \in [RwLocks -> BOOLEAN]
  /\ locked \in [Mutexes -> BOOLEAN]
  /\ held \in [Mutexes -> Nat]
  /\ ended \in {"no", "locked for writing", "locked for reading", "overflowed read locks",
                "not locked", "recursively acquired", "cannot wait"}

(* The one number of a RwLock tells its guards exactly, up to the largest
   number of readers: never a writer beside a reader or a second writer, and
   no guard that is dropped ever finds the lock in another mode. *)
RwLockExcludes ==
  /\ \A l \in RwLocks : mode[l] = IF writer[l] THEN -1 ELSE readers[l]
  /\ \A l \in RwLocks : writer[l] => readers[l] = 0
  /\ ended # "not locked"

(* A Mutex has one guard at most, and is locked exactly while it has one. *)
MutexExcludes == \A m \in Mutexes : held[m] = IF locked[m] THEN 1 ELSE 0

(* Whatever locks the program takes while it holds others. *)
GuardsExclude == TypeOK /\ RwLockExcludes /\ MutexExcludes
=============================================================================
