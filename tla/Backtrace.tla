----------------------------- MODULE Backtrace ------------------------------
(***************************************************************************)
(* _print_fmt of std/sys-src/backtrace.rs: it walks the frames of the      *)
(* stack, resolves each one to the symbols inlined into it, innermost      *)
(* first, and prints them.  A short backtrace shows only what lies between *)
(* the two marker functions and says how many symbols it left out.  What   *)
(* is printed of a symbol is left out; printing may fail.                  *)
(***************************************************************************)
EXTENDS Integers, Sequences, FiniteSets

CONSTANTS
  MAX_NB_FRAMES,  \* Max number of frames to print
  Traces          \* the stacks: sequences of frames, a frame its symbols

Begin == "__rust_begin_short_backtrace"
End == "__rust_end_short_backtrace"
Named == "named"      \* a symbol with another name
Unnamed == "unnamed"  \* a symbol whose name is not known

(* The markers are never inlined, so that they come last in their frame. *)
MaxAssumption == MAX_NB_FRAMES \in Nat
TracesAssumption ==
  /\ Traces \subseteq Seq(Seq({Begin, End, Named, Unnamed}))
  /\ \A trace \in Traces : \A f \in DOMAIN trace : \A s \in DOMAIN trace[f] :
       trace[f][s] \in {Begin, End} => s = Len(trace[f])

VARIABLES
  print_fmt,      \* "Short" or "Full"
  trace,          \* the stack
  idx,            \* frames that are done
  sym,            \* symbols of the next frame that are done
  print,          \* symbols are shown at the moment
  omitted_count,  \* symbols left out since a symbol was shown
  first_omit,     \* nothing has been left out before a shown symbol yet
  res,            \* the result of the last print
  lines,          \* what has been printed
  pc              \* "frame", "symbols" or "done"

input == <<print_fmt, trace>>
omission == <<omitted_count, first_omit>>
vars == <<input, idx, sym, print, omission, res, lines, pc>>

Short == print_fmt = "Short"
Frame == trace[idx + 1]

Init ==
  /\ print_fmt \in {"Short", "Full"}
  /\ trace \in Traces
  /\ idx = 0 /\ sym = 0
  /\ print = ~Short
  /\ omitted_count = 0 /\ first_omit = TRUE
  /\ res = "ok"
  /\ lines = <<>>
  /\ pc = "frame"

(* Mutant: the frame that is printed is not counted. *)
EnoughLate == Short /\ idx > MAX_NB_FRAMES + 1

Enough == Short /\ idx > MAX_NB_FRAMES

(* trace_unsynchronized calls back with the next frame. *)
NextFrame ==
  /\ pc = "frame"
  /\ idx < Len(trace)
  /\ ~Enough
  /\ pc' = "symbols"
  /\ sym' = 0
  /\ UNCHANGED <<input, idx, print, omission, res, lines>>

(* There are no frames left, or there have been enough. *)
TraceEnds ==
  /\ pc = "frame"
  /\ idx = Len(trace) \/ Enough
  /\ pc' = "done"
  /\ UNCHANGED <<input, idx, sym, print, omission, res, lines>>

Symbol == Frame[sym + 1]
AtSymbol == pc = "symbols" /\ sym < Len(Frame)
HasName == Symbol # Unnamed

IsMarker == Short /\ (Symbol = End \/ (print /\ Symbol = Begin))

(* A marker switches and is not printed. *)
Marker ==
  /\ AtSymbol
  /\ IsMarker
  /\ print' = (Symbol = End)
  /\ sym' = sym + 1
  /\ UNCHANGED <<input, idx, omission, res, lines, pc>>

(* A symbol that is not shown is counted if it has a name. *)
Omit ==
  /\ AtSymbol
  /\ ~IsMarker
  /\ ~print
  /\ omitted_count' = IF HasName THEN omitted_count + 1 ELSE omitted_count
  /\ sym' = sym + 1
  /\ UNCHANGED <<input, idx, print, first_omit, res, lines, pc>>

SymbolLine == [kind |-> "symbol", frame |-> idx + 1, sym |-> sym + 1, count |-> 0]
RawLine == [kind |-> "raw", frame |-> idx + 1, sym |-> 0, count |-> 0]
OmittedLine == [kind |-> "omitted", frame |-> 0, sym |-> 0, count |-> omitted_count]

(* A symbol is shown, after a word about those left out before it, except
   for the first time. *)
Show(outcome) ==
  /\ AtSymbol
  /\ ~IsMarker
  /\ print
  /\ res' = outcome
  /\ lines' = lines \o (IF omitted_count > 0 /\ ~first_omit THEN <<OmittedLine>> ELSE <<>>)
                    \o <<SymbolLine>>
  /\ first_omit' = (first_omit /\ omitted_count = 0)
  /\ omitted_count' = 0
  /\ sym' = sym + 1
  /\ UNCHANGED <<input, idx, print, pc>>

(* All symbols are done; a frame without one is printed as an address.  The
   walk goes on unless the last print failed. *)
FrameEnds(outcome) ==
  /\ pc = "symbols"
  /\ sym = Len(Frame)
  /\ IF Frame = <<>> /\ print
     THEN res' = outcome /\ lines' = Append(lines, RawLine)
     ELSE outcome = res /\ UNCHANGED <<res, lines>>
  /\ idx' = idx + 1
  /\ pc' = IF res' = "ok" THEN "frame" ELSE "done"
  /\ UNCHANGED <<input, sym, print, omission>>

Next ==
  \/ NextFrame \/ TraceEnds \/ Marker \/ Omit
  \/ \E outcome \in {"ok", "err"} : Show(outcome) \/ FrameEnds(outcome)

Spec == Init /\ [][Next]_vars
-----------------------------------------------------------------------------
TypeOK ==
  /\ idx \in 0..Len(trace)
  /\ sym \in Nat /\ omitted_count \in Nat
  /\ print \in BOOLEAN /\ first_omit \in BOOLEAN
  /\ res \in {"ok", "err"}
  /\ pc \in {"frame", "symbols", "done"}

(* The positions <<frame, symbol>> that are done, frames without symbols as
   <<frame, 0>>, and their order. *)
Positions(f) == IF trace[f] = <<>> THEN {<<f, 0>>} ELSE {<<f, s>> : s \in 1..Len(trace[f])}
Done ==
  (UNION {Positions(f) : f \in 1..idx})
    \cup (IF pc = "symbols" THEN {<<idx + 1, s>> : s \in 1..sym} ELSE {})

Before(p, q) == p[1] < q[1] \/ (p[1] = q[1] /\ p[2] < q[2])

At(p) == IF p[2] = 0 THEN "raw" ELSE trace[p[1]][p[2]]

(* A position lies inside the part to be shown: the last marker on the way to
   it is an end marker. *)
Inside(p) ==
  \/ ~Short
  \/ \E e \in Done :
       /\ At(e) = End /\ Before(e, p)
       /\ \A b \in Done : Before(e, b) /\ Before(b, p) => At(b) # Begin

Shown(p) == Inside(p) /\ (Short => At(p) \notin {Begin, End})

(* A symbol left out counts if it has a name; an end marker is a switch. *)
Hidden(p) == ~Inside(p) /\ At(p) \notin {End, Unnamed, "raw"}

SymbolLines == {k \in DOMAIN lines : lines[k].kind = "symbol"}
PrintedLines == {k \in DOMAIN lines : lines[k].kind # "omitted"}
Position(k) == <<lines[k].frame, lines[k].sym>>

(* Exactly the positions inside are printed, in their order. *)
PrintsWhatIsInside ==
  /\ {Position(k) : k \in PrintedLines} = {p \in Done : Shown(p)}
  /\ \A j, k \in PrintedLines : j < k => Before(Position(j), Position(k))

(* What was left out in front of a shown symbol, back to the one shown before
   it, and what has been left out since the last one. *)
Gap(k) ==
  {p \in Done : /\ Hidden(p) /\ Before(p, Position(k))
                /\ \A j \in SymbolLines : j < k => Before(Position(j), p)}
Waiting == {p \in Done : Hidden(p) /\ \A j \in SymbolLines : Before(Position(j), p)}

Announced(k) == k > 1 /\ lines[k - 1].kind = "omitted"

(* The first gap is passed over in silence; every other one is announced
   with the number of its symbols, and nothing else is. *)
GapsAnnounced ==
  \A k \in SymbolLines :
    /\ Announced(k) <=> Gap(k) # {} /\ \E j \in SymbolLines : j < k /\ Gap(j) # {}
    /\ Announced(k) => lines[k - 1].count = Cardinality(Gap(k))
OmissionsAccounted == GapsAnnounced /\ omitted_count = Cardinality(Waiting)

(* An announcement stands between lines of the backtrace. *)
AnnouncedInTheMiddle ==
  \A n \in DOMAIN lines :
    lines[n].kind = "omitted" =>
      /\ lines[n].count > 0
      /\ n > 1 /\ lines[n - 1].kind # "omitted"
      /\ n < Len(lines) /\ lines[n + 1].kind = "symbol"

(* No more frames are printed than MAX_NB_FRAMES allows. *)
FramesBounded == Short => Cardinality({lines[k].frame : k \in PrintedLines}) <= MAX_NB_FRAMES

(* The backtrace shows the part between the markers, all of it and in order,
   accounts for what it left out and keeps to its limit, however symbols are
   inlined and whichever of them cannot be resolved. *)
BacktraceFaithful ==
  TypeOK /\ PrintsWhatIsInside /\ OmissionsAccounted /\ AnnouncedInTheMiddle /\ FramesBounded
=============================================================================
