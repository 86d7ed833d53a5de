---------------------------- MODULE StdFetchProofs ----------------------------
(***************************************************************************)
(* Proofs about `x std`, for every number of compilers, whatever packages  *)
(* each of them brings and whichever items are moved.                      *)
(***************************************************************************)
EXTENDS StdFetch, TLAPS

(* The phases between the removal of fetch_info and its next writing.      *)
Emptied == {"clean items", "copy"} \cup Assembling
Replacing == {"clean sysroot"} \cup Emptied

(* A run knows which compiler it began with. *)
VersionKnown == pc # "idle" => version \in Versions

(* Only what is there counts as patched. *)
PatchedIsThere ==
  /\ \A c \in patched \cap Crates : tree[c] # Absent
  /\ \A i \in patched \cap Items : visible[i] # Absent

(* While a run replaces the sources nobody can trust fetch_info. *)
NoRecordWhileReplacing ==
  /\ pc \in Replacing => record = Absent \/ "sources" \in doubt
  /\ pc \in Assembling => record = Absent

(* What has been copied so far, if the compiler has not changed under it,  *)
(* comes from the compiler the run began with.  If it has, the installed   *)
(* compiler is another, or has been put back.                              *)
CopiedSince ==
  pc \in Assembling =>
    IF "mixed" \in doubt THEN rustc # version \/ "back" \in doubt
    ELSE /\ \A p \in Parts : tree[p] # Absent => tree[p] = version /\ p \in PartsOf(version)
         /\ \A i \in Items : visible[i] # Absent => visible[i] = version
         /\ pc = "copying" => rustc = version

(* How far the run has come with them. *)
Progress ==
  /\ pc \in {"copy", "copying"} => visible = Nothing(Items)
  /\ pc \in {"copying", "move"} => patched = {}
  /\ pc \in {"move", "patch"} =>
       /\ tree[Discarded] = Absent
       /\ \A i \in Items : tree[i] # Absent \/ visible[i] # Absent
       /\ "mixed" \notin doubt => \A c \in CratesOf[version] : tree[c] # Absent
  /\ pc = "patch" => \A i \in Items : tree[i] = Absent

(* The sources of the compiler that fetch_info names are all there, or it  *)
(* names another than the installed one, or that one was put back.         *)
Trust ==
  pc \notin Replacing \cup {"clean library"} /\ record # Absent /\ "sources" \notin doubt =>
    IF "mixed" \in doubt THEN rustc # record \/ "back" \in doubt ELSE Complete(record)

(* The sysroot is empty when new sources come, and from then on holds the  *)
(* libraries of these sources only.                                        *)
NoForeignLibrary ==
  /\ pc \in Emptied /\ "sysroot" \notin doubt => out = NoLibs
  /\ /\ pc \notin Replacing \cup {"clean library"} /\ record # Absent
     /\ doubt \cap {"sources", "sysroot", "mixed"} = {}
     => \A l \in Libraries : out[l] # NoLib => l \in CratesOf[record] \cup {Std}

(* What a build compiles, if cargo found the compiler of the run. *)
BuiltUniformly ==
  /\ pc \in {"clear libdir", "install"} /\ record = version
  /\ doubt \cap {"sources", "sysroot", "mixed", "compiler"} = {}
  => out = [l \in Libraries |->
              IF l \in CratesOf[version] \cup {Std} THEN [source |-> version, by |-> version]
              ELSE NoLib]

FetchInv ==
  /\ TypeOK /\ VersionKnown /\ PatchedIsThere /\ NoRecordWhileReplacing
  /\ CopiedSince /\ Progress /\ Trust /\ NoForeignLibrary /\ BuiltUniformly

-----------------------------------------------------------------------------
(* The constants, as the proofs use them.                                  *)
LEMMA PartFacts ==
  /\ \A v \in Versions : CratesOf[v] \subseteq Crates
  /\ Crates \subseteq Parts /\ Items \subseteq Parts /\ Discarded \in Parts
  /\ Items \cap Crates = {} /\ Crates \cap {Discarded, Std} = {}
  /\ Items \cap {Discarded, Std} = {}
  /\ Libraries = Crates \cup {Std}
  /\ "src" \in Items
BY PartsAssumption DEF Parts, Libraries

LEMMA VersionFacts ==
  /\ 1 \in Versions /\ Absent \notin Versions /\ Absent = 0
  /\ \A v \in Versions \cup {Absent} : v \in Nat
BY VersionsAssumption DEF Versions, Absent

LEMMA ItemFacts == \A n \in DOMAIN std_dir_items : std_dir_items[n] \in Items
BY DEF Items, Range

LEMMA InitFetch == Init => FetchInv
<1> SUFFICES ASSUME Init PROVE FetchInv
  OBVIOUS
<1> USE VersionFacts, PartFacts DEF Init
<1>1. TypeOK
  BY DEF TypeOK, Nothing
<1>2. VersionKnown
  BY DEF VersionKnown
<1>3. PatchedIsThere /\ NoRecordWhileReplacing /\ CopiedSince /\ Progress
  BY DEF PatchedIsThere, NoRecordWhileReplacing, CopiedSince, Progress, Assembling, Replacing,
         Emptied
<1>4. Trust
  BY DEF Trust
<1>5. NoForeignLibrary /\ BuiltUniformly
  BY DEF NoForeignLibrary, BuiltUniformly, Emptied, Assembling
<1> QED BY <1>1, <1>2, <1>3, <1>4, <1>5 DEF FetchInv

-----------------------------------------------------------------------------
LEMMA TypesKept == TypeOK /\ (pc # "idle" => version \in Versions) /\ [Next]_vars => TypeOK'
<1> SUFFICES ASSUME TypeOK, pc # "idle" => version \in Versions, [Next]_vars PROVE TypeOK'
  OBVIOUS
<1> USE VersionFacts, PartFacts DEF TypeOK
<1>1. ASSUME NEW v \in Versions, Update(v) PROVE TypeOK'
  BY <1>1 DEF Update, files
<1>2. ASSUME NEW command \in {"fetch", "build", "clean"}, Start(command) PROVE TypeOK'
  BY <1>2 DEF Start, files
<1>3. CASE Check \/ Locate \/ LibraryCleaned \/ ItemsCleaned \/ CopyBegins \/ MoveEnds
           \/ InstallEnds \/ Stop
  BY <1>3 DEF Check, Locate, LibraryCleaned, ItemsCleaned, CopyBegins, MoveEnds, InstallEnds, Stop,
              At, Exit, files
<1>4. CASE Cargo \/ ClearLibdir \/ RemoveRecord
  BY <1>4 DEF Cargo, ClearLibdir, RemoveRecord, At
<1>5. CASE CopyEnds
  BY <1>5 DEF CopyEnds, At
<1>6. CASE WriteRecord
  BY <1>6 DEF WriteRecord, At, Exit
<1>7. ASSUME NEW p \in Parts, RemovePart(p) \/ CopyPart(p) PROVE TypeOK'
  <2>1. CASE RemovePart(p)
    BY <2>1 DEF RemovePart
  <2>2. CASE CopyPart(p)
    BY <2>2 DEF CopyPart
  <2> QED BY <1>7, <2>1, <2>2
<1>8. ASSUME NEW kept \in SUBSET Libraries, CleanSysroot(kept) PROVE TypeOK'
  BY <1>8 DEF CleanSysroot, At
<1>9. ASSUME NEW n \in DOMAIN std_dir_items, RemoveItem(n) \/ MoveItem(n) PROVE TypeOK'
  <2>1. CASE RemoveItem(n)
    BY <2>1, ItemFacts DEF RemoveItem
  <2>2. CASE MoveItem(n)
    BY <2>2, ItemFacts DEF MoveItem
  <2> QED BY <1>9, <2>1, <2>2
<1>10. ASSUME NEW p \in Crates \cup Items, Patch(p) PROVE TypeOK'
  BY <1>10 DEF Patch
<1>11. ASSUME NEW l \in Libraries, Install(l) PROVE TypeOK'
  BY <1>11 DEF Install
<1>12. CASE UNCHANGED vars
  BY <1>12 DEF vars, files
<1> QED BY <1>1, <1>2, <1>3, <1>4, <1>5, <1>6, <1>7, <1>8, <1>9, <1>10, <1>11, <1>12 DEF Next

(* Every step keeps the invariant: steps of a run, its interruption at any *)
(* point and an update of the compiler at any time.                        *)
LEMMA NextFetch == FetchInv /\ [Next]_vars => FetchInv'
<1> SUFFICES ASSUME FetchInv, [Next]_vars PROVE FetchInv'
  OBVIOUS
<1> USE VersionFacts, PartFacts
<1>0. TypeOK'
  BY TypesKept DEF FetchInv, VersionKnown
(* Another compiler: what was copied under two of them is marked as such. *)
<1>1. ASSUME NEW v \in Versions, Update(v) PROVE FetchInv'
  <2>1. /\ rustc' = v
        /\ UNCHANGED <<pc, version, tree, visible, patched, record, out>>
        /\ doubt \subseteq doubt' /\ doubt' \subseteq doubt \cup {"mixed", "back"}
        /\ "mixed" \in doubt' <=> pc = "copying" \/ "mixed" \in doubt
        /\ "mixed" \in doubt' /\ v = (IF pc \in Assembling THEN version ELSE record)
           => "back" \in doubt'
    BY <1>1 DEF Update, files
  <2>2. VersionKnown' /\ PatchedIsThere'
    BY <2>1 DEF FetchInv, VersionKnown, PatchedIsThere
  <2>3. NoRecordWhileReplacing'
    BY <2>1 DEF FetchInv, NoRecordWhileReplacing
  <2>4. CopiedSince'
    BY <2>1 DEF FetchInv, CopiedSince, PartsOf
  <2>5. Progress'
    BY <2>1 DEF FetchInv, Progress, Nothing
  <2>6. Trust'
    BY <2>1 DEF FetchInv, Trust, Complete, Replacing, Emptied, Assembling
  <2>7. NoForeignLibrary' /\ BuiltUniformly'
    BY <2>1 DEF FetchInv, NoForeignLibrary, BuiltUniformly, NoLibs
  <2> QED BY <1>0, <2>2, <2>3, <2>4, <2>5, <2>6, <2>7 DEF FetchInv
(* Steps between phases in which nothing but the run's own state changes. *)
<1>2. ASSUME UNCHANGED <<rustc, files>>, doubt' \in {doubt, doubt \cup {"sources"}},
             pc' \notin Replacing \cup {"clear libdir", "install"},
             pc' = "clean library" \/ pc \notin Replacing \cup {"clean library"}
               \/ record = Absent \/ "sources" \in doubt',
             pc' # "idle" => version' \in Versions
      PROVE  FetchInv'
  <2>1. VersionKnown' /\ PatchedIsThere'
    BY <1>2 DEF FetchInv, VersionKnown, PatchedIsThere, files
  <2>2. NoRecordWhileReplacing' /\ CopiedSince' /\ Progress'
    BY <1>2 DEF NoRecordWhileReplacing, CopiedSince, Progress, Replacing, Emptied, Assembling
  <2>3. Trust'
    BY <1>2 DEF FetchInv, TypeOK, Trust, Complete, files
  <2>4. NoForeignLibrary' /\ BuiltUniformly'
    BY <1>2 DEF FetchInv, TypeOK, NoForeignLibrary, BuiltUniformly, Replacing, files
  <2> QED BY <1>0, <2>1, <2>2, <2>3, <2>4 DEF FetchInv
<1>3. ASSUME NEW command \in {"fetch", "build", "clean"}, Start(command) PROVE FetchInv'
  <2>1. /\ UNCHANGED <<rustc, files, doubt>> /\ pc = "idle" /\ version' = rustc
        /\ pc' \in {"locate", "clean library", "check"}
    BY <1>3 DEF Start
  <2>2. version' \in Versions
    BY <2>1 DEF FetchInv, TypeOK
  <2> QED BY <1>2, <2>1, <2>2 DEF Replacing, Emptied, Assembling
<1>4. CASE Check \/ Locate
  <2>1. /\ UNCHANGED <<rustc, files, doubt, version>> /\ pc \in {"check", "locate"}
        /\ pc' \in {"locate", "cargo", "clean library"}
    BY <1>4 DEF Check, Locate, At
  <2>2. version \in Versions
    BY <2>1 DEF FetchInv, VersionKnown
  <2> QED BY <1>2, <2>1, <2>2 DEF Replacing, Emptied, Assembling
<1>5. CASE Stop \/ InstallEnds
  <2>1. /\ UNCHANGED <<rustc, files>> /\ doubt' \in {doubt, doubt \cup {"sources"}} /\ pc' = "idle"
        /\ pc = "clean library" /\ record # Absent => "sources" \in doubt'
    BY <1>5 DEF Stop, InstallEnds, Exit
  <2>2. pc \in Replacing => record = Absent \/ "sources" \in doubt'
    BY <2>1 DEF FetchInv, NoRecordWhileReplacing
  <2> QED BY <1>2, <2>1, <2>2 DEF Replacing, Emptied, Assembling
<1>6. CASE ItemsCleaned
  <2>0. pc = "clean items" /\ visible = Nothing(Items) /\ UNCHANGED <<rustc, files, doubt>>
    BY <1>6 DEF ItemsCleaned, Exit, At
  <2>1. CASE cmd = "clean"
    <3>1. pc' = "idle"
      BY <1>6, <2>1 DEF ItemsCleaned, Exit
    <3>2. record = Absent \/ "sources" \in doubt'
      BY <2>0 DEF FetchInv, NoRecordWhileReplacing, Replacing, Emptied
    <3> QED BY <1>2, <2>0, <3>1, <3>2 DEF Replacing, Emptied, Assembling
  <2>2. CASE cmd # "clean"
    <3>1. pc' = "copy" /\ version' = version
      BY <1>6, <2>2 DEF ItemsCleaned, At
    <3>2. VersionKnown' /\ PatchedIsThere'
      BY <2>0, <3>1 DEF FetchInv, VersionKnown, PatchedIsThere, files
    <3>3. NoRecordWhileReplacing' /\ CopiedSince' /\ Progress'
      BY <2>0, <3>1 DEF FetchInv, NoRecordWhileReplacing, CopiedSince, Progress, Replacing,
         Emptied, Assembling, files, Nothing
    <3>4. Trust' /\ NoForeignLibrary' /\ BuiltUniformly'
      BY <2>0, <3>1 DEF FetchInv, Trust, NoForeignLibrary, BuiltUniformly, Replacing, Emptied, files
    <3> QED BY <1>0, <3>2, <3>3, <3>4 DEF FetchInv
  <2> QED BY <2>1, <2>2
(* Files of the old sources go, and the record among them. *)
<1>7. ASSUME NEW p \in Parts, RemovePart(p) PROVE FetchInv'
  <2>1. /\ pc = "clean library" /\ pc' = pc
        /\ UNCHANGED <<rustc, version, visible, record, out, doubt>>
        /\ tree' = [tree EXCEPT ![p] = Absent] /\ patched' = patched \ ({p} \cap Crates)
    BY <1>7 DEF RemovePart
  <2>2. VersionKnown'
    BY <2>1 DEF FetchInv, VersionKnown
  <2>3. PatchedIsThere'
    BY <2>1 DEF FetchInv, TypeOK, PatchedIsThere
  <2>4. NoRecordWhileReplacing' /\ CopiedSince' /\ Progress' /\ Trust'
    BY <2>1 DEF NoRecordWhileReplacing, CopiedSince, Progress, Trust, Replacing, Emptied, Assembling
  <2>5. NoForeignLibrary' /\ BuiltUniformly'
    BY <2>1 DEF NoForeignLibrary, BuiltUniformly, Emptied, Assembling
  <2> QED BY <1>0, <2>2, <2>3, <2>4, <2>5 DEF FetchInv
<1>8. CASE RemoveRecord
  <2>1. /\ pc = "clean library" /\ pc' = pc /\ record' = Absent
        /\ UNCHANGED <<rustc, version, tree, visible, patched, out>>
    BY <1>8 DEF RemoveRecord
  <2>2. VersionKnown'
    BY <2>1 DEF FetchInv, VersionKnown
  <2>3. PatchedIsThere'
    BY <2>1 DEF FetchInv, PatchedIsThere
  <2>4. NoRecordWhileReplacing' /\ CopiedSince' /\ Progress' /\ Trust'
    BY <2>1 DEF NoRecordWhileReplacing, CopiedSince, Progress, Trust, Replacing, Emptied, Assembling
  <2>5. NoForeignLibrary' /\ BuiltUniformly'
    BY <2>1 DEF NoForeignLibrary, BuiltUniformly, Emptied, Assembling
  <2> QED BY <1>0, <2>2, <2>3, <2>4, <2>5 DEF FetchInv
<1>9. CASE LibraryCleaned
  <2>1. /\ pc = "clean library" /\ pc' = "clean sysroot"
        /\ UNCHANGED <<rustc, version, tree, visible, patched, record, out>>
        /\ record = Absent \/ "sources" \in doubt'
    BY <1>9 DEF LibraryCleaned, At, files
  <2>2. VersionKnown' /\ PatchedIsThere'
    BY <2>1 DEF FetchInv, VersionKnown, PatchedIsThere
  <2>3. NoRecordWhileReplacing' /\ CopiedSince' /\ Progress'
    BY <2>1 DEF NoRecordWhileReplacing, CopiedSince, Progress, Emptied, Assembling
  <2>4. Trust' /\ NoForeignLibrary' /\ BuiltUniformly'
    BY <2>1 DEF Trust, NoForeignLibrary, BuiltUniformly, Replacing, Emptied, Assembling
  <2> QED BY <1>0, <2>2, <2>3, <2>4 DEF FetchInv
<1>10. ASSUME NEW kept \in SUBSET Libraries, CleanSysroot(kept) PROVE FetchInv'
  <2>1. /\ pc = "clean sysroot" /\ pc' = "clean items"
        /\ UNCHANGED <<rustc, version, tree, visible, patched, record>>
        /\ "sources" \in doubt => "sources" \in doubt'
        /\ out' = NoLibs \/ "sysroot" \in doubt'
    BY <1>10 DEF CleanSysroot, At
  <2>2. VersionKnown' /\ PatchedIsThere'
    BY <2>1 DEF FetchInv, VersionKnown, PatchedIsThere
  <2>3. NoRecordWhileReplacing' /\ CopiedSince' /\ Progress'
    BY <2>1 DEF FetchInv, NoRecordWhileReplacing, CopiedSince, Progress, Replacing, Emptied, Assembling
  <2>4. NoLibs' = NoLibs
    BY DEF NoLibs
  <2>5. Trust' /\ NoForeignLibrary' /\ BuiltUniformly'
    BY <2>1, <2>4 DEF Trust, NoForeignLibrary, BuiltUniformly, Replacing, Emptied, Assembling
  <2> QED BY <1>0, <2>2, <2>3, <2>5 DEF FetchInv
<1>11. ASSUME NEW n \in DOMAIN std_dir_items, RemoveItem(n) PROVE FetchInv'
  <2> DEFINE i == std_dir_items[n]
  <2>0. i \in Items
    BY ItemFacts
  <2>1. /\ pc = "clean items" /\ pc' = pc /\ UNCHANGED <<rustc, version, tree, record, out, doubt>>
        /\ visible' = [visible EXCEPT ![i] = Absent] /\ patched' = patched \ {i}
    BY <1>11 DEF RemoveItem
  <2> HIDE DEF i
  <2>2. VersionKnown'
    BY <2>1 DEF FetchInv, VersionKnown
  <2>3. PatchedIsThere'
    BY <2>0, <2>1 DEF FetchInv, TypeOK, PatchedIsThere
  <2>4. NoRecordWhileReplacing' /\ CopiedSince' /\ Progress' /\ Trust'
    BY <2>1 DEF FetchInv, NoRecordWhileReplacing, CopiedSince, Progress, Trust, Replacing, Emptied, Assembling
  <2>5. NoForeignLibrary' /\ BuiltUniformly'
    BY <2>1 DEF FetchInv, NoForeignLibrary, BuiltUniformly, Replacing, Emptied
  <2> QED BY <1>0, <2>2, <2>3, <2>4, <2>5 DEF FetchInv
(* New sources come, from the compiler of the moment. *)
<1>12. CASE CopyBegins
  <2>1. /\ pc = "copy" /\ pc' = "copying" /\ record = Absent /\ tree = Nothing(Parts)
        /\ UNCHANGED <<rustc, version, tree, visible, patched, record, out>>
        /\ "mixed" \in doubt' <=> rustc # version
        /\ "sysroot" \in doubt' <=> "sysroot" \in doubt
    BY <1>12 DEF CopyBegins, LibraryGone, At, files
  <2>2. VersionKnown' /\ PatchedIsThere'
    BY <2>1 DEF FetchInv, VersionKnown, PatchedIsThere
  <2>3. visible = Nothing(Items)
    BY <2>1 DEF FetchInv, Progress
  <2>4. patched = {}
    BY <2>1, <2>3 DEF FetchInv, TypeOK, PatchedIsThere, Nothing
  <2>5. NoRecordWhileReplacing' /\ CopiedSince' /\ Progress'
    BY <2>1, <2>3, <2>4 DEF NoRecordWhileReplacing, CopiedSince, Progress, Nothing
  <2>6. Trust' /\ NoForeignLibrary' /\ BuiltUniformly'
    BY <2>1 DEF FetchInv, Trust, NoForeignLibrary, BuiltUniformly, Replacing, Emptied, Assembling
  <2> QED BY <1>0, <2>2, <2>5, <2>6 DEF FetchInv
<1>13. ASSUME NEW p \in Parts, CopyPart(p) PROVE FetchInv'
  <2>1. /\ pc = "copying" /\ pc' = pc /\ p \in PartsOf(rustc)
        /\ UNCHANGED <<rustc, version, visible, patched, record, out, doubt>>
        /\ tree' = [tree EXCEPT ![p] = rustc]
    BY <1>13 DEF CopyPart
  <2>2. VersionKnown'
    BY <2>1 DEF FetchInv, VersionKnown
  <2>3. PatchedIsThere' /\ Progress'
    BY <2>1 DEF FetchInv, Progress, PatchedIsThere, Nothing
  <2>4. NoRecordWhileReplacing'
    BY <2>1 DEF FetchInv, NoRecordWhileReplacing
  <2>5. CopiedSince'
    <3>1. tree'[p] = rustc /\ \A q \in Parts \ {p} : tree'[q] = tree[q]
      BY <2>1 DEF FetchInv, TypeOK
    <3> QED BY <2>1, <3>1 DEF FetchInv, CopiedSince, PartsOf, Assembling
  <2>6. Trust' /\ NoForeignLibrary' /\ BuiltUniformly'
    BY <2>1 DEF FetchInv, Trust, NoForeignLibrary, BuiltUniformly, Replacing, Emptied, Assembling
  <2> QED BY <1>0, <2>2, <2>3, <2>4, <2>5, <2>6 DEF FetchInv
<1>14. CASE CopyEnds
  <2>1. /\ pc = "copying" /\ pc' = "move" /\ \A p \in PartsOf(rustc) : tree[p] # Absent
        /\ UNCHANGED <<rustc, version, visible, patched, record, out, doubt>>
        /\ tree' = [tree EXCEPT ![Discarded] = Absent]
    BY <1>14 DEF CopyEnds, At
  <2>2. VersionKnown'
    BY <2>1 DEF FetchInv, VersionKnown
  <2>3. /\ tree'[Discarded] = Absent
        /\ \A p \in Parts \ {Discarded} : tree'[p] = tree[p]
    BY <2>1 DEF FetchInv, TypeOK
  <2>4. patched = {}
    BY <2>1 DEF FetchInv, Progress
  <2>5. PatchedIsThere' /\ NoRecordWhileReplacing'
    BY <2>1, <2>4 DEF FetchInv, PatchedIsThere, NoRecordWhileReplacing, Replacing, Emptied, Assembling
  <2>6. CopiedSince'
    BY <2>1, <2>3 DEF FetchInv, CopiedSince, PartsOf, Assembling
  <2>7. Progress'
    <3>1. \A q \in Items \cup CratesOf[rustc] : tree'[q] # Absent
      <4>1. rustc \in Versions
        BY DEF FetchInv, TypeOK
      <4> QED BY <2>1, <2>3, <4>1 DEF PartsOf
    <3>2. "mixed" \notin doubt => rustc = version
      BY <2>1 DEF FetchInv, CopiedSince, Assembling
    <3> QED BY <2>1, <2>3, <2>4, <3>1, <3>2 DEF Progress
  <2>8. Trust' /\ NoForeignLibrary' /\ BuiltUniformly'
    BY <2>1 DEF FetchInv, Trust, NoForeignLibrary, BuiltUniformly, Replacing, Emptied, Assembling
  <2> QED BY <1>0, <2>2, <2>5, <2>6, <2>7, <2>8 DEF FetchInv
<1>15. ASSUME NEW n \in DOMAIN std_dir_items, MoveItem(n) PROVE FetchInv'
  <2> DEFINE i == std_dir_items[n]
  <2>0. i \in Items
    BY ItemFacts
  <2>1. /\ pc = "move" /\ pc' = pc /\ UNCHANGED <<rustc, version, patched, record, out, doubt>>
        /\ visible' = [visible EXCEPT ![i] = tree[i]] /\ tree' = [tree EXCEPT ![i] = Absent]
        /\ tree[i] # Absent
    BY <1>15 DEF MoveItem, FirstWith
  <2> HIDE DEF i
  <2>2. /\ tree'[i] = Absent /\ \A q \in Parts \ {i} : tree'[q] = tree[q]
        /\ visible'[i] = tree[i] /\ \A q \in Items \ {i} : visible'[q] = visible[q]
    BY <2>0, <2>1 DEF FetchInv, TypeOK
  <2>3. VersionKnown'
    BY <2>1 DEF FetchInv, VersionKnown
  <2>4. patched = {}
    BY <2>1 DEF FetchInv, Progress
  <2>5. PatchedIsThere' /\ NoRecordWhileReplacing'
    BY <2>1, <2>4 DEF FetchInv, PatchedIsThere, NoRecordWhileReplacing
  <2>6. CopiedSince'
    BY <2>0, <2>1, <2>2 DEF FetchInv, CopiedSince, PartsOf, Assembling
  <2>7. Progress'
    <3>1. "mixed" \notin doubt => \A c \in CratesOf[version] : tree'[c] # Absent
      <4>1. version \in Versions
        BY <2>1 DEF FetchInv, VersionKnown
      <4> QED BY <2>0, <2>1, <2>2, <4>1 DEF FetchInv, Progress
    <3> QED BY <2>0, <2>1, <2>2, <2>4, <3>1 DEF FetchInv, Progress
  <2>8. Trust' /\ NoForeignLibrary' /\ BuiltUniformly'
    BY <2>1 DEF FetchInv, Trust, NoForeignLibrary, BuiltUniformly, Replacing, Emptied, Assembling
  <2> QED BY <1>0, <2>3, <2>5, <2>6, <2>7, <2>8 DEF FetchInv
<1>16. CASE MoveEnds
  <2>1. /\ pc = "move" /\ pc' = "patch" /\ \A i \in Items : tree[i] = Absent
        /\ UNCHANGED <<rustc, version, tree, visible, patched, record, out, doubt>>
    BY <1>16 DEF MoveEnds, At, files
  <2>2. VersionKnown' /\ PatchedIsThere' /\ NoRecordWhileReplacing'
    BY <2>1 DEF FetchInv, VersionKnown, PatchedIsThere, NoRecordWhileReplacing, Replacing, Emptied, Assembling
  <2>3. CopiedSince' /\ Progress'
    BY <2>1 DEF FetchInv, CopiedSince, Progress, PartsOf, Assembling
  <2>4. Trust' /\ NoForeignLibrary' /\ BuiltUniformly'
    BY <2>1 DEF FetchInv, Trust, NoForeignLibrary, BuiltUniformly, Replacing, Emptied, Assembling
  <2> QED BY <1>0, <2>2, <2>3, <2>4 DEF FetchInv
<1>17. ASSUME NEW p \in Crates \cup Items, Patch(p) PROVE FetchInv'
  <2>1. /\ pc = "patch" /\ pc' = pc /\ p \in ToPatch /\ patched' = patched \cup {p}
        /\ UNCHANGED <<rustc, version, tree, visible, record, out, doubt>>
    BY <1>17 DEF Patch
  <2>2. VersionKnown' /\ NoRecordWhileReplacing'
    BY <2>1 DEF FetchInv, VersionKnown, NoRecordWhileReplacing
  <2>3. PatchedIsThere'
    BY <2>1 DEF FetchInv, PatchedIsThere, Progress, ToPatch
  <2>4. CopiedSince' /\ Progress'
    BY <2>1 DEF FetchInv, CopiedSince, Progress, PartsOf
  <2>5. Trust' /\ NoForeignLibrary' /\ BuiltUniformly'
    BY <2>1 DEF FetchInv, Trust, NoForeignLibrary, BuiltUniformly, Replacing, Emptied, Assembling
  <2> QED BY <1>0, <2>2, <2>3, <2>4, <2>5 DEF FetchInv
(* The record is written when everything is in place. *)
<1>18. CASE WriteRecord
  <2>1. /\ pc = "patch" /\ pc' \in {"cargo", "idle"} /\ ToPatch \subseteq patched
        /\ record' = version /\ version' \in {version, Absent} /\ (pc' # "idle" => version' = version)
        /\ UNCHANGED <<rustc, tree, visible, patched, out, doubt>>
    BY <1>18 DEF WriteRecord, At, Exit
  <2>2. version \in Versions
    BY <2>1 DEF FetchInv, VersionKnown
  <2>3. VersionKnown'
    BY <2>1, <2>2 DEF VersionKnown
  <2>4. PatchedIsThere'
    BY <2>1 DEF FetchInv, PatchedIsThere
  <2>5. NoRecordWhileReplacing' /\ CopiedSince' /\ Progress'
    BY <2>1 DEF NoRecordWhileReplacing, CopiedSince, Progress, Replacing, Emptied, Assembling
  <2>6. Trust'
    <3>0. "mixed" \in doubt => rustc # version \/ "back" \in doubt
      BY <2>1 DEF FetchInv, CopiedSince, Assembling
    <3> SUFFICES ASSUME "mixed" \notin doubt PROVE Complete(version)
      <4>1. Complete(version) => Complete(record)'
        BY <2>1 DEF Complete
      <4> QED BY <2>1, <3>0, <4>1 DEF Trust
    <3>1. ASSUME NEW p \in Parts, tree[p] # Absent PROVE tree[p] = version /\ p \in CratesOf[version]
      <4>1. tree[p] = version /\ p \in PartsOf(version)
        BY <2>1, <3>1 DEF FetchInv, CopiedSince, Assembling
      <4>2. p \notin Items \cup {Discarded}
        BY <2>1, <3>1 DEF FetchInv, Progress
      <4> QED BY <4>1, <4>2 DEF PartsOf
    <3>2. \A c \in CratesOf[version] : tree[c] # Absent /\ c \in Crates
      BY <2>1, <2>2 DEF FetchInv, Progress
    <3>3. tree = [p \in Parts |-> IF p \in CratesOf[version] THEN version ELSE Absent]
      BY <3>1, <3>2 DEF FetchInv, TypeOK
    <3>4. \A i \in Items : visible[i] = version
      BY <2>1 DEF FetchInv, Progress, CopiedSince, Assembling
    <3>5. visible = [i \in Items |-> version]
      BY <3>4 DEF FetchInv, TypeOK
    <3>6. ToPatch = CratesOf[version] \cup Items
      BY <3>1, <3>2 DEF ToPatch
    <3>7. patched = CratesOf[version] \cup Items
      BY <2>1, <3>1, <3>6 DEF FetchInv, TypeOK, PatchedIsThere
    <3> QED BY <3>3, <3>5, <3>7 DEF Complete
  <2>7. NoForeignLibrary'
    <3>1. "sysroot" \notin doubt => \A l \in Libraries : out[l] = NoLib
      BY <2>1 DEF FetchInv, NoForeignLibrary, NoLibs, Emptied, Assembling
    <3> QED BY <2>1, <3>1 DEF NoForeignLibrary, Emptied, Assembling
  <2>8. BuiltUniformly'
    BY <2>1 DEF BuiltUniformly
  <2> QED BY <1>0, <2>3, <2>4, <2>5, <2>6, <2>7, <2>8 DEF FetchInv
(* The libraries. *)
<1>19. CASE Cargo
  <2>1. /\ pc = "cargo" /\ pc' = "clear libdir"
        /\ UNCHANGED <<rustc, version, tree, visible, patched, record>>
        /\ \A d \in {"sources", "sysroot", "mixed", "back"} : d \in doubt' <=> d \in doubt
        /\ "compiler" \notin doubt' => rustc = version
        /\ out' = [l \in Libraries |->
                     IF l = Std \/ tree[l] # Absent THEN Compiled(l) ELSE out[l]]
    BY <1>19 DEF Cargo, At
  <2>2. VersionKnown' /\ PatchedIsThere'
    BY <2>1 DEF FetchInv, VersionKnown, PatchedIsThere
  <2>3. NoRecordWhileReplacing' /\ CopiedSince' /\ Progress'
    BY <2>1 DEF NoRecordWhileReplacing, CopiedSince, Progress, Replacing, Emptied, Assembling
  <2>4. Trust'
    BY <2>1 DEF FetchInv, Trust, Complete, Replacing, Emptied, Assembling
  <2>5. ASSUME record # Absent, doubt \cap {"sources", "sysroot", "mixed"} = {}
        PROVE  \A l \in Libraries :
                 out'[l] = IF l \in CratesOf[record] \cup {Std}
                           THEN [source |-> record, by |-> rustc] ELSE NoLib
    <3>1. /\ Complete(record)
          /\ \A l \in Libraries : out[l] # NoLib => l \in CratesOf[record] \cup {Std}
      BY <2>1, <2>5 DEF FetchInv, Trust, NoForeignLibrary, Replacing, Emptied, Assembling
    <3>2. record \in Versions
      BY <2>5 DEF FetchInv, TypeOK
    <3>3. \A c \in Crates : tree[c] = IF c \in CratesOf[record] THEN record ELSE Absent
      BY <3>1 DEF Complete
    <3>4. visible["src"] = record
      BY <3>1 DEF Complete
    <3> TAKE l \in Libraries
    <3>5. CASE l = Std
      BY <2>1, <3>4, <3>5 DEF Compiled
    <3>6. CASE l # Std /\ l \in CratesOf[record]
      BY <2>1, <3>2, <3>3, <3>6 DEF Compiled
    <3>7. CASE l # Std /\ l \notin CratesOf[record]
      BY <2>1, <3>1, <3>3, <3>7
    <3> QED BY <3>5, <3>6, <3>7
  <2>6. NoForeignLibrary'
    BY <2>1, <2>5 DEF NoForeignLibrary, Emptied, Assembling
  <2>7. BuiltUniformly'
    <3> SUFFICES ASSUME record = version, rustc = version,
                        doubt \cap {"sources", "sysroot", "mixed"} = {}
                 PROVE  out' = [l \in Libraries |->
                                  IF l \in CratesOf[version] \cup {Std}
                                  THEN [source |-> version, by |-> version] ELSE NoLib]
      BY <2>1 DEF BuiltUniformly, NoLib
    <3>1. record # Absent
      BY <2>1 DEF FetchInv, VersionKnown
    <3> QED BY <2>1, <2>5, <3>1
  <2> QED BY <1>0, <2>2, <2>3, <2>4, <2>6, <2>7 DEF FetchInv
<1>20. ASSUME UNCHANGED <<rustc, version, tree, visible, patched, record, out, doubt>>,
              \/ pc' = pc
              \/ pc = "clear libdir" /\ pc' = "install"
       PROVE  FetchInv'
  <2>1. VersionKnown' /\ PatchedIsThere' /\ NoRecordWhileReplacing'
    BY <1>20 DEF FetchInv, VersionKnown, PatchedIsThere, NoRecordWhileReplacing,
                 Replacing, Emptied, Assembling
  <2>2. CopiedSince' /\ Progress'
    BY <1>20 DEF FetchInv, CopiedSince, Progress, PartsOf, Assembling
  <2>3. Trust'
    BY <1>20 DEF FetchInv, Trust, Complete, Replacing, Emptied, Assembling
  <2>4. NoForeignLibrary'
    BY <1>20 DEF FetchInv, NoForeignLibrary, NoLibs, Replacing, Emptied, Assembling
  <2>5. BuiltUniformly'
    BY <1>20 DEF FetchInv, BuiltUniformly
  <2> QED BY <1>0, <2>1, <2>2, <2>3, <2>4, <2>5 DEF FetchInv
<1>21. CASE ClearLibdir
  BY <1>20, <1>21 DEF ClearLibdir, At
<1>22. ASSUME NEW l \in Libraries, Install(l) PROVE FetchInv'
  BY <1>20, <1>22 DEF Install
<1>23. CASE UNCHANGED vars
  BY <1>20, <1>23 DEF vars, files
<1> QED BY <1>1, <1>3, <1>4, <1>5, <1>6, <1>7, <1>8, <1>9, <1>10, <1>11, <1>12, <1>13, <1>14,
           <1>15, <1>16, <1>17, <1>18, <1>19, <1>21, <1>22, <1>23 DEF Next

-----------------------------------------------------------------------------
(* The inductive invariant of `x std`.                                     *)
THEOREM FetchInvariance == Spec => []FetchInv
<1> QED BY InitFetch, NextFetch, PTL DEF Spec

(* When the next build would trust fetch_info, the sources are all there,  *)
(* of the installed compiler and patched, whatever was interrupted before  *)
(* and whichever compilers came and went, but for the two exceptions that  *)
(* RecordMeansComplete names.                                              *)
THEOREM RecordTrustworthy == Spec => []RecordMeansComplete
<1>1. FetchInv => RecordMeansComplete
  BY VersionFacts
     DEF FetchInv, TypeOK, Trust, RecordMeansComplete, Replacing, Emptied, Assembling
<1> QED BY <1>1, FetchInvariance, PTL

(* The sysroot that a build leaves behind holds the libraries of the       *)
(* installed compiler and no others, if no removal left files and the      *)
(* compiler was not exchanged and put back under a run.                    *)
THEOREM SysrootSound == Spec => []SysrootUniform
<1>1. FetchInv => SysrootUniform
  BY VersionFacts
     DEF FetchInv, TypeOK, Trust, BuiltUniformly, SysrootUniform, Replacing, Emptied, Assembling
<1> QED BY <1>1, FetchInvariance, PTL
=============================================================================
