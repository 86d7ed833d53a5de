----------------------------- MODULE CommandEnv -----------------------------
(***************************************************************************)
(* The environment of a Command: std/sys-src/process/env.rs collects the   *)
(* changes that a program asks for, process/mod.rs hands them out and      *)
(* prints them as a shell command.  There is no environment on this system *)
(* to inherit from: asking for it panics, see env/mod.rs.                  *)
(***************************************************************************)
CONSTANTS
  Keys,    \* names of variables
  Values,  \* their values
  PATH     \* the name "PATH"

Absent == "absent"    \* no entry, or a variable that is not set
Removed == "removed"  \* the entry None: not to be inherited
Inherit == "inherit"  \* the program has not asked for anything

PathAssumption == PATH \in Keys
ValuesAssumption == Values \cap {Absent, Removed, Inherit} = {}

VARIABLES
  clear,     \* CommandEnv::clear
  saw_path,  \* CommandEnv::saw_path
  vars,      \* CommandEnv::vars: the entry of every key
  asked,     \* what the last call that concerned a key asked for
  captured,  \* <<environment>> if the last call returned one, else <<>>
  panicked   \* the program has asked for the environment it does not have

changes == <<clear, saw_path, vars>>
all == <<changes, asked, captured, panicked>>

Environments == [Keys -> Values \cup {Absent}]
Nothing == [k \in Keys |-> Absent]

(* Command::new with CommandEnv::default. *)
Init ==
  /\ clear = FALSE
  /\ saw_path = FALSE
  /\ vars = Nothing
  /\ asked = [k \in Keys |-> Inherit]
  /\ captured = <<>>
  /\ panicked = FALSE

(* set, remove and clear return nothing. *)
Return == ~panicked /\ captured' = <<>> /\ UNCHANGED panicked

maybe_saw_path(key) == saw_path' = (saw_path \/ key = PATH)

Set(key, value) ==
  /\ Return
  /\ maybe_saw_path(key)
  /\ vars' = [vars EXCEPT ![key] = value]
  /\ asked' = [asked EXCEPT ![key] = value]
  /\ UNCHANGED clear

(* Mutant: an entry is removed as it is after clear. *)
RemoveEntry(key) ==
  /\ Return
  /\ maybe_saw_path(key)
  /\ vars' = [vars EXCEPT ![key] = Absent]
  /\ asked' = [asked EXCEPT ![key] = Absent]
  /\ UNCHANGED clear

Remove(key) ==
  /\ Return
  /\ maybe_saw_path(key)
  /\ vars' = [vars EXCEPT ![key] = IF clear THEN Absent ELSE Removed]
  /\ asked' = [asked EXCEPT ![key] = Absent]
  /\ UNCHANGED clear

Clear ==
  /\ Return
  /\ clear' = TRUE
  /\ vars' = Nothing
  /\ asked' = Nothing
  /\ UNCHANGED saw_path

(* The entries over an environment that is there already. *)
Over(env) ==
  [k \in Keys |-> CASE vars[k] = Absent -> env[k]
                    [] vars[k] = Removed -> Absent
                    [] OTHER -> vars[k]]

(* capture, also as get_resolved_envs: without clear it asks for the
   environment of this program. *)
Capture ==
  /\ ~panicked
  /\ panicked' = ~clear
  /\ captured' = IF clear THEN <<Over(Nothing)>> ELSE <<>>
  /\ UNCHANGED <<changes, asked>>

is_unchanged == ~clear /\ \A k \in Keys : vars[k] = Absent

CaptureIfChanged ==
  /\ IF is_unchanged THEN Return /\ UNCHANGED <<changes, asked>> ELSE Capture

have_changed_path == saw_path \/ clear

(* The command line that fmt prints: `env -i`, or `env -u` for the removed
   keys, and KEY=value for the others.  This is what a shell that runs the
   line in the environment env starts the program with. *)
PrintedUnset == IF clear THEN {} ELSE {k \in Keys : vars[k] = Removed}
PrintedSet == {k \in Keys : vars[k] \notin {Absent, Removed}}

Shell(env) ==
  [k \in Keys |-> IF k \in PrintedSet THEN vars[k]
                  ELSE IF clear \/ k \in PrintedUnset THEN Absent
                  ELSE env[k]]

Next ==
  \/ Clear \/ Capture \/ CaptureIfChanged
  \/ \E key \in Keys : Remove(key) \/ \E value \in Values : Set(key, value)

Spec == Init /\ [][Next]_all
-----------------------------------------------------------------------------
TypeOK ==
  /\ clear \in BOOLEAN
  /\ saw_path \in BOOLEAN
  /\ vars \in [Keys -> Values \cup {Absent, Removed}]
  /\ asked \in [Keys -> Values \cup {Absent, Inherit}]
  /\ captured = <<>> \/ captured[1] \in Environments
  /\ panicked \in BOOLEAN

(* What the program asked for, call after call, over an environment. *)
Wanted(env) == [k \in Keys |-> IF asked[k] = Inherit THEN env[k] ELSE asked[k]]

(* The two flags and the entries, which calls in any order have folded
   together, still say for every key what the last call asked for. *)
EntriesAsAsked ==
  \A k \in Keys :
    asked[k] = (CASE vars[k] = Removed -> Absent
                  [] vars[k] = Absent -> IF clear THEN Absent ELSE Inherit
                  [] OTHER -> vars[k])

(* After any calls of set, remove and clear: the environment of the child
   is the one asked for, whether it is captured or the printed command line
   is run in any environment; no change is reported only if none was asked
   for; and a PATH that is not inherited is reported as changed. *)
EnvironmentAsAsked ==
  /\ TypeOK
  /\ \A env \in Environments :
       /\ captured # <<>> => captured = <<Wanted(env)>>
       /\ Shell(env) = Wanted(env)
  /\ is_unchanged => \A k \in Keys : asked[k] = Inherit
  /\ asked[PATH] # Inherit => have_changed_path
=============================================================================
