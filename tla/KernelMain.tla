----------------------------- MODULE KernelMain -----------------------------
(***************************************************************************)
(* main of kernel/src/main.rs, on top of DisplayWriter: it waits for a     *)
(* debugger in a debug build, reports what BootInfo says and then loops.   *)
(* The texts of its messages are any printable ones.                       *)
(***************************************************************************)
EXTENDS DisplayWriter

CONSTANT MaxRegions  \* memory regions in BootInfo

ASSUME RegionsAssumption == MaxRegions \in Nat

VARIABLES
  main,        \* the statement of main, or "none": some other caller writes
  DEBUG_HALT,  \* 1 until a debugger clears it
  regions,     \* boot_info().memory_regions(), as their number
  reported     \* how many of them have been reported

kernel == <<main, DEBUG_HALT, regions, reported>>
all == <<vars, kernel>>

(* writeln!: one line, in characters that have a glyph. *)
Lines == {s \in Texts : s # <<>> /\ s[Len(s)] = "newline" /\ \A k \in DOMAIN s : s[k] # "high"}

(* Without debug_assertions there is no pause. *)
MainInit ==
  /\ Init
  /\ main \in {"none", "pause", "hello"}
  /\ DEBUG_HALT = 1
  /\ regions \in IF main = "none" THEN {0} ELSE 0 .. MaxRegions
  /\ reported = 0

(* A debugger stores into DEBUG_HALT. *)
Release ==
  /\ main = "pause" /\ DEBUG_HALT' = 0
  /\ UNCHANGED <<vars, main, regions, reported>>

Pause ==
  /\ main = "pause" /\ DEBUG_HALT = 0
  /\ main' = "hello"
  /\ UNCHANGED <<vars, DEBUG_HALT, regions, reported>>

Writeln == \E s \in Lines : WriteStr(s)

Hello == main = "hello" /\ Writeln /\ main' = "found" /\ UNCHANGED <<DEBUG_HALT, regions, reported>>
Found == main = "found" /\ Writeln /\ main' = "regions" /\ UNCHANGED <<DEBUG_HALT, regions, reported>>

(* Mutant: one past the end. *)
RegionLeftAgain == reported <= regions

RegionLeft == reported < regions

ReportRegion ==
  /\ main = "regions" /\ RegionLeft
  /\ Writeln
  /\ reported' = reported + 1
  /\ UNCHANGED <<main, DEBUG_HALT, regions>>

ReportRange ==
  /\ main = "regions" /\ ~RegionLeft
  /\ Writeln
  /\ main' = "loop"
  /\ UNCHANGED <<DEBUG_HALT, regions, reported>>

MainStep == Pause \/ Hello \/ Found \/ ReportRegion \/ ReportRange
Drawing == WriteStep /\ UNCHANGED kernel
OtherCaller == main = "none" /\ (\E s \in Texts : WriteStr(s)) /\ UNCHANGED kernel

MainNext == Release \/ MainStep \/ Drawing \/ OtherCaller

(* The only processor runs main and what it calls; a debugger need not     *)
(* come.                                                                   *)
MainSpec == MainInit /\ [][MainNext]_all /\ WF_all(Drawing) /\ WF_all(MainStep)

-----------------------------------------------------------------------------
(* Once main is past its pause it reports every region once and comes to   *)
(* its final loop with everything drawn; it never ends in the panic        *)
(* handler, whatever the size of the screen.                               *)
MainReachesLoop ==
  (main = "hello") ~> (main = "loop" /\ pc = "idle" /\ reported = regions)
=============================================================================
