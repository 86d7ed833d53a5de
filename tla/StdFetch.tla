------------------------------ MODULE StdFetch ------------------------------
(***************************************************************************)
(* The commands `x std fetch`, `x std build` and `x std clean`: they copy  *)
(* the sources of the standard library that belong to the installed        *)
(* compiler, patch them, record in rust-src/fetch_info what they copied,   *)
(* compile them and fill the sysroot.  A run may be stopped after every    *)
(* change of a file, and another compiler, newer or older, may be          *)
(* installed at any time, also under a run.  The text of the patches is    *)
(* left out: a file is patched or it is not.                               *)
(***************************************************************************)
EXTENDS Integers, Sequences, Functions

CONSTANTS
  MaxVersion,    \* bound on the versions of rustc, which are 1..MaxVersion
  CratesOf,      \* CratesOf[v]: the packages of rust-src that come with rustc v
  std_dir_items  \* what is moved from rust-src/std to std, in this order

Versions == 1..MaxVersion
Items == Range(std_dir_items)
Crates == UNION {CratesOf[v] : v \in Versions}
Discarded == "the manifest of the workspace and std/src/sys"
Std == "std"

ASSUME VersionsAssumption == MaxVersion \in Nat \ {0}
ASSUME PartsAssumption ==
  /\ CratesOf \in [Versions -> SUBSET Crates]
  /\ "src" \in Items
  /\ Items \cap (Crates \cup {Discarded, Std}) = {}
  /\ Crates \cap {Discarded, Std} = {}

Absent == 0
Parts == Crates \cup Items \cup {Discarded}
Libraries == Crates \cup {Std}
NoLib == [source |-> Absent, by |-> Absent]

VARIABLES
  rustc,     \* the version of rustc that is installed
  pc,        \* where the run of x is, or "idle" between runs
  cmd,       \* "fetch", "build" or "clean"; "none" between runs
  version,   \* rustc_version, read when the run starts
  tree,      \* version of every part of std/rust-src
  visible,   \* version of the items directly under std
  patched,   \* packages and items that have been rewritten
  record,    \* rustc-version in rust-src/fetch_info, or Absent
  out,       \* the newest rlib of every library in sysroot/out
  libdir,    \* the rlibs in the lib directory of the sysroot
  doubt      \* what has happened that fetch_info cannot tell of:
             \*   "sources"   it outlived a removal of the sources
             \*   "sysroot"   a removal of the sysroot has left files
             \*   "mixed"     another compiler was there during the copying
             \*   "back"      ... and then the recorded one again
             \*   "compiler"  cargo ran with another compiler than the run

files == <<tree, visible, patched, record, out, libdir>>
vars == <<rustc, pc, cmd, version, files, doubt>>

Nothing(S) == [p \in S |-> Absent]
NoLibs == [l \in Libraries |-> NoLib]
PartsOf(v) == CratesOf[v] \cup Items \cup {Discarded}

Init ==
  /\ rustc \in Versions
  /\ pc = "idle" /\ cmd = "none" /\ version = Absent
  /\ tree = Nothing(Parts) /\ visible = Nothing(Items) /\ patched = {}
  /\ record = Absent
  /\ out = NoLibs /\ libdir = NoLibs
  /\ doubt = {}

needs_fetch_std == record # version

At(here, next) == pc = here /\ pc' = next /\ UNCHANGED <<cmd, version>>

(* The process ends and its variables are gone. *)
Exit(here) == pc = here /\ pc' = "idle" /\ cmd' = "none" /\ version' = Absent

(* The phases in which new sources are put together. *)
Assembling == {"copying", "move", "patch"}

(* Another compiler is installed: rustup updates or switches back. *)
Update(v) ==
  LET mixed == pc = "copying" \/ "mixed" \in doubt
      recorded == IF pc \in Assembling THEN version ELSE record
  IN  /\ v # rustc
      /\ rustc' = v
      /\ doubt' = doubt \cup (IF mixed THEN {"mixed"} ELSE {})
                       \cup (IF mixed /\ v = recorded THEN {"back"} ELSE {})
      /\ UNCHANGED <<pc, cmd, version, files>>

(* A run starts by asking rustc for its version. *)
Start(command) ==
  /\ pc = "idle"
  /\ cmd' = command
  /\ version' = rustc
  /\ pc' = CASE command = "fetch" -> "locate"
             [] command = "clean" -> "clean library"
             [] command = "build" -> "check"
  /\ UNCHANGED <<rustc, files, doubt>>

Check ==
  /\ At("check", IF needs_fetch_std THEN "locate" ELSE "cargo")
  /\ UNCHANGED <<rustc, files, doubt>>

(* fetch_std finds rust-src; without it the run ends here, see Stop. *)
Locate ==
  /\ At("locate", "clean library")
  /\ UNCHANGED <<rustc, files, doubt>>

(* clean_std: rmtree of rust-src, one file after the other in any order. *)
RemovePart(p) ==
  /\ pc = "clean library"
  /\ tree[p] # Absent
  /\ tree' = [tree EXCEPT ![p] = Absent]
  /\ patched' = patched \ ({p} \cap Crates)
  /\ UNCHANGED <<rustc, pc, cmd, version, visible, record, out, libdir, doubt>>

RemoveRecord ==
  /\ pc = "clean library"
  /\ record # Absent
  /\ record' = Absent
  /\ doubt' = doubt \ {"sources"}
  /\ UNCHANGED <<rustc, pc, cmd, version, tree, visible, patched, out, libdir>>

LibraryGone == tree = Nothing(Parts) /\ record = Absent

(* rmtree returns; with ignore_errors it returns as well when files remain. *)
LibraryCleaned ==
  /\ At("clean library", "clean sysroot")
  /\ doubt' = doubt \cup (IF record = Absent THEN {} ELSE {"sources"})
  /\ UNCHANGED <<rustc, files>>

(* Mutant: only the lib directory is removed, as build_std does. *)
CleanSysrootLibdir(kept) ==
  /\ At("clean sysroot", "clean items")
  /\ libdir' = NoLibs
  /\ doubt' = doubt \ {"sysroot"}
  /\ UNCHANGED <<rustc, tree, visible, patched, record, out>>

(* clean_std: rmtree of the sysroot, with all that cargo has compiled; what
   cannot be removed stays without notice. *)
CleanSysroot(kept) ==
  /\ At("clean sysroot", "clean items")
  /\ out' = [l \in Libraries |-> IF l \in kept THEN out[l] ELSE NoLib]
  /\ libdir' = [l \in Libraries |-> IF l \in kept THEN libdir[l] ELSE NoLib]
  /\ doubt' = IF out' = NoLibs THEN doubt \ {"sysroot"} ELSE doubt \cup {"sysroot"}
  /\ UNCHANGED <<rustc, tree, visible, patched, record>>

FirstWith(there, n) ==
  there[std_dir_items[n]] # Absent /\ \A k \in 1..n - 1 : there[std_dir_items[k]] = Absent

RemoveItem(n) ==
  /\ pc = "clean items"
  /\ FirstWith(visible, n)
  /\ visible' = [visible EXCEPT ![std_dir_items[n]] = Absent]
  /\ patched' = patched \ {std_dir_items[n]}
  /\ UNCHANGED <<rustc, pc, cmd, version, tree, record, out, libdir, doubt>>

ItemsCleaned ==
  /\ visible = Nothing(Items)
  /\ IF cmd = "clean" THEN Exit("clean items") ELSE At("clean items", "copy")
  /\ UNCHANGED <<rustc, files, doubt>>

(* copytree refuses a destination that exists. *)
CopyBegins ==
  /\ LibraryGone
  /\ At("copy", "copying")
  /\ doubt' = (doubt \ {"mixed", "back"}) \cup (IF rustc = version THEN {} ELSE {"mixed"})
  /\ UNCHANGED <<rustc, files>>

(* copytree copies what is installed now, one part after the other. *)
CopyPart(p) ==
  /\ pc = "copying"
  /\ p \in PartsOf(rustc)
  /\ tree[p] = Absent
  /\ tree' = [tree EXCEPT ![p] = rustc]
  /\ UNCHANGED <<rustc, pc, cmd, version, visible, patched, record, out, libdir, doubt>>

(* The tree is copied; the workspace manifest and the sys module go, and
   the packages are collected from what has been copied. *)
CopyEnds ==
  /\ At("copying", "move")
  /\ \A p \in PartsOf(rustc) : tree[p] # Absent
  /\ tree' = [tree EXCEPT ![Discarded] = Absent]
  /\ UNCHANGED <<rustc, visible, patched, record, out, libdir, doubt>>

MoveItem(n) ==
  /\ pc = "move"
  /\ FirstWith(tree, n)
  /\ visible' = [visible EXCEPT ![std_dir_items[n]] = tree[std_dir_items[n]]]
  /\ tree' = [tree EXCEPT ![std_dir_items[n]] = Absent]
  /\ UNCHANGED <<rustc, pc, cmd, version, patched, record, out, libdir, doubt>>

MoveEnds ==
  /\ \A i \in Items : tree[i] = Absent
  /\ At("move", "patch")
  /\ UNCHANGED <<rustc, files, doubt>>

(* The items of std and the manifests of all packages are rewritten. *)
ToPatch == Items \cup {c \in Crates : tree[c] # Absent}

Patch(p) ==
  /\ pc = "patch"
  /\ p \in ToPatch \ patched
  /\ patched' = patched \cup {p}
  /\ UNCHANGED <<rustc, pc, cmd, version, tree, visible, record, out, libdir, doubt>>

(* Mutant: rustc is asked again when the record is written. *)
WriteRecordLate ==
  /\ ToPatch \subseteq patched
  /\ IF cmd = "build" THEN At("patch", "cargo") ELSE Exit("patch")
  /\ record' = rustc
  /\ UNCHANGED <<rustc, tree, visible, patched, out, libdir, doubt>>

(* fetch_info is the last file to be written. *)
WriteRecord ==
  /\ ToPatch \subseteq patched
  /\ IF cmd = "build" THEN At("patch", "cargo") ELSE Exit("patch")
  /\ record' = version
  /\ UNCHANGED <<rustc, tree, visible, patched, out, libdir, doubt>>

(* cargo compiles std and the packages that are there; with an incomplete
   source tree it fails, see Stop. *)
Compiled(l) ==
  [source |-> IF l = Std THEN visible["src"] ELSE tree[l], by |-> rustc]

Cargo ==
  /\ At("cargo", "clear libdir")
  /\ visible["src"] # Absent
  /\ out' = [l \in Libraries |->
               IF l = Std \/ tree[l] # Absent THEN Compiled(l) ELSE out[l]]
  /\ doubt' = IF rustc = version THEN doubt \ {"compiler"} ELSE doubt \cup {"compiler"}
  /\ UNCHANGED <<rustc, tree, visible, patched, record, libdir>>

(* The lib directory is removed and made again; mkdir fails if it remains. *)
ClearLibdir ==
  /\ At("clear libdir", "install")
  /\ libdir' = NoLibs
  /\ UNCHANGED <<rustc, tree, visible, patched, record, out, doubt>>

Install(l) ==
  /\ pc = "install"
  /\ out[l] # NoLib /\ libdir[l] # out[l]
  /\ libdir' = [libdir EXCEPT ![l] = out[l]]
  /\ UNCHANGED <<rustc, pc, cmd, version, tree, visible, patched, record, out, doubt>>

InstallEnds ==
  /\ libdir = out
  /\ Exit("install")
  /\ UNCHANGED <<rustc, files, doubt>>

(* The run is interrupted, or a command or a file operation fails.  A tree
   whose record has not been removed yet is now in pieces. *)
Stop ==
  /\ pc # "idle"
  /\ Exit(pc)
  /\ doubt' = doubt \cup (IF pc = "clean library" /\ record # Absent THEN {"sources"} ELSE {})
  /\ UNCHANGED <<rustc, files>>

Next ==
  \/ Check \/ Locate \/ RemoveRecord \/ LibraryCleaned \/ ItemsCleaned
  \/ CopyBegins \/ CopyEnds \/ MoveEnds \/ WriteRecord \/ Cargo \/ ClearLibdir
  \/ InstallEnds \/ Stop
  \/ \E v \in Versions : Update(v)
  \/ \E command \in {"fetch", "build", "clean"} : Start(command)
  \/ \E p \in Parts : RemovePart(p) \/ CopyPart(p)
  \/ \E kept \in SUBSET Libraries : CleanSysroot(kept)
  \/ \E n \in DOMAIN std_dir_items : RemoveItem(n) \/ MoveItem(n)
  \/ \E p \in Crates \cup Items : Patch(p)
  \/ \E l \in Libraries : Install(l)

Spec == Init /\ [][Next]_vars
-----------------------------------------------------------------------------
TypeOK ==
  /\ rustc \in Versions /\ version \in Versions \cup {Absent}
  /\ tree \in [Parts -> Versions \cup {Absent}]
  /\ visible \in [Items -> Versions \cup {Absent}]
  /\ patched \subseteq Crates \cup Items
  /\ record \in Versions \cup {Absent}
  /\ doubt \subseteq {"sources", "sysroot", "mixed", "back", "compiler"}

Complete(v) ==
  /\ tree = [p \in Parts |-> IF p \in CratesOf[v] THEN v ELSE Absent]
  /\ visible = [i \in Items |-> v]
  /\ patched = CratesOf[v] \cup Items

(* Whatever was interrupted before, whichever compilers were installed in
   the meantime: if the next build would trust fetch_info, the sources are
   all there, all from the installed compiler and all patched.  There are two
   exceptions, a clean that was stopped before it came to fetch_info, and a
   compiler that was exchanged during the copying and later put back: the
   version, asked for once, then matches although the sources do not. *)
RecordMeansComplete ==
  /\ TypeOK
  /\ pc = "idle" /\ record = rustc /\ doubt \cap {"sources", "back"} = {} => Complete(rustc)

(* The lib directory that a build leaves behind, if the installed compiler
   is the one the build began with, holds the libraries of this compiler and
   no others, all compiled by it, unless a removal has silently left files
   behind or the compiler was exchanged and put back under a run. *)
SysrootUniform ==
  /\ pc = "install" /\ libdir = out
  /\ record = rustc /\ version = rustc
  /\ doubt \cap {"sources", "sysroot", "back", "compiler"} = {}
  => libdir = [l \in Libraries |->
                 IF l \in CratesOf[rustc] \cup {Std} THEN [source |-> rustc, by |-> rustc]
                 ELSE NoLib]
=============================================================================
