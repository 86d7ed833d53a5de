------------------------------ MODULE EhAction ------------------------------
(***************************************************************************)
(* find_eh_action of std/sys-src/personality/dwarf/eh.rs: what to do with  *)
(* an exception that passes the instruction ip of a function, as its       *)
(* language-specific data area (LSDA) says.  The LSDA is a sequence of     *)
(* encoded numbers; reading one yields a word (module Leb128 has the       *)
(* variable-length ones), so that a number is one cell here.  The branch   *)
(* for SjLj exceptions is compiled for 32-bit ARM only.                    *)
(***************************************************************************)
EXTENDS Integers, Sequences, FiniteSetsExt

CONSTANTS
  WORD,     \* number of words, 2^64
  HALF,     \* number of values of the fixed formats shorter than a word
  Lsdas,    \* the LSDAs, see Lsda
  Contexts  \* the contexts, see Context

Word == 0..WORD - 1
Half == 0..HALF - 1

(* DW_EH_PE_*: how a number is stored, and what it is relative to.  "data"
   stands for data2, data4 and data8. *)
Unsigned == {"absptr", "uleb128", "udata"}
Signed == {"sleb128", "sdata"}
Formats == Unsigned \cup Signed
Applications == {"absptr", "pcrel", "textrel", "datarel", "funcrel", "aligned"}
Encoding == [application : Applications \cup {"invalid"}, format : Formats \cup {"invalid"},
             indirect : BOOLEAN]
Omit == [application |-> "omit", format |-> "omit", indirect |-> TRUE]

Site == [cs_start : Word, cs_len : Word, cs_lpad : Word, cs_action_entry : Nat]

(* actions[e]: the ttype_index of the action record at offset e - 1. *)
Lsda == [null : BOOLEAN, start_encoding : Encoding \cup {Omit}, start : Word,
         call_site_encoding : Encoding \cup {Omit}, sites : Seq(Site), actions : Seq(Int)]

(* target[a]: the pointer that is stored at address a; here is the address of
   the field `start` of the LSDA. *)
Context == [ip : Word, func_start : Word, text_start : Word, data_start : Word,
            here : Word, target : [Word -> Word]]

WordsAssumption == WORD \in Nat /\ HALF \in Nat \ {0} /\ HALF < WORD

(* No word: what a function that returns Err returns here. *)
Err == -1

(* read_encoded_offset: the application part must be zero.  Signed formats
   are extended to a word. *)
ReadOffset(encoding, raw) ==
  IF encoding.application # "absptr" \/ encoding.indirect \/ encoding.format \notin Formats THEN Err
  ELSE CASE encoding.format = "udata" -> raw % HALF
         [] encoding.format = "sdata" ->
              LET h == raw % HALF IN IF 2 * h < HALF THEN h ELSE h + WORD - HALF
         [] OTHER -> raw

(* What a compiler writes: call sites inside the address space, sorted by
   cs_start, and action entries inside the action table. *)
WellFormed(l, c) ==
  LET offset(raw) == ReadOffset(l.call_site_encoding, raw)
      from(k) == c.func_start + offset(l.sites[k].cs_start)
  IN  /\ \A k \in DOMAIN l.sites : l.sites[k].cs_action_entry \in {0} \cup DOMAIN l.actions
      /\ offset(0) # Err =>
           /\ \A k \in DOMAIN l.sites : from(k) + offset(l.sites[k].cs_len) < WORD
           /\ \A j, k \in DOMAIN l.sites : j < k => from(j) <= from(k)

TablesAssumption ==
  /\ Lsdas \subseteq Lsda
  /\ Contexts \subseteq Context
  /\ \A c \in Contexts : c.here # 0
  /\ \A l \in Lsdas, c \in Contexts : WellFormed(l, c)

VARIABLES
  lsda, context,
  lpad_base,  \* base address of landing pad offsets
  n,          \* 0 before the header has been read, then the next call site
  result,     \* "none yet", or what find_eh_action returned
  lpad        \* the landing pad of the result, or 0

input == <<lsda, context>>
vars == <<input, lpad_base, n, result, lpad>>

Init ==
  /\ lsda \in Lsdas
  /\ context \in Contexts
  /\ lpad_base = 0 /\ n = 0 /\ lpad = 0
  /\ result = "none yet"

Return(what) == result' = what /\ lpad' = 0

(* base_ptr of read_encoded_pointer; 0 is the null pointer. *)
BasePtr(encoding) ==
  CASE encoding.application \in {"absptr", "aligned"} -> 0
    [] encoding.application = "pcrel" -> context.here
    [] encoding.application = "textrel" -> context.text_start
    [] encoding.application = "datarel" -> context.data_start
    [] encoding.application = "funcrel" /\ context.func_start # 0 -> context.func_start
    [] OTHER -> Err

(* read_encoded_pointer, without the indirection. *)
DirectPointer(encoding, raw) ==
  LET base == BasePtr(encoding)
      offset == ReadOffset([encoding EXCEPT !.application = "absptr", !.indirect = FALSE], raw)
  IN  CASE encoding = Omit \/ base = Err -> Err
        [] base = 0 -> IF encoding.format = "absptr" THEN raw ELSE Err
        [] OTHER -> IF offset = Err THEN Err ELSE (base + offset) % WORD

ReadPointer(encoding, raw) ==
  LET ptr == DirectPointer(encoding, raw)
  IN  IF ptr # Err /\ encoding.indirect THEN context.target[ptr] ELSE ptr

(* There is no LSDA. *)
NoLsda ==
  /\ result = "none yet"
  /\ lsda.null
  /\ Return("None")
  /\ UNCHANGED <<input, lpad_base, n>>

(* The header, up to the call-site table. *)
ReadHeader ==
  /\ result = "none yet"
  /\ ~lsda.null
  /\ n = 0
  /\ LET base == IF lsda.start_encoding = Omit THEN context.func_start
                 ELSE ReadPointer(lsda.start_encoding, lsda.start)
     IN  IF base = Err
         THEN Return("Err") /\ UNCHANGED <<lpad_base, n>>
         ELSE lpad_base' = base /\ n' = 1 /\ UNCHANGED <<result, lpad>>
  /\ UNCHANGED input

(* interpret_cs_action *)
InterpretCsAction(cs_action_entry) ==
  IF cs_action_entry = 0 THEN "Cleanup"
  ELSE LET ttype_index == lsda.actions[cs_action_entry]
       IN  IF ttype_index = 0 THEN "Cleanup" ELSE IF ttype_index > 0 THEN "Catch" ELSE "Filter"

Current == lsda.sites[n]
Offset(raw) == ReadOffset(lsda.call_site_encoding, raw)
AtSite == result = "none yet" /\ n \in 1..Len(lsda.sites)
Readable == Offset(0) # Err
Start == (context.func_start + Offset(Current.cs_start)) % WORD

(* Mutant: the byte behind the site still belongs to it. *)
BehindInclusive == (context.func_start + Offset(Current.cs_start) + Offset(Current.cs_len) + 1) % WORD

Behind == (context.func_start + Offset(Current.cs_start) + Offset(Current.cs_len)) % WORD

(* A call site whose numbers cannot be read. *)
SiteUnreadable ==
  /\ AtSite
  /\ ~Readable
  /\ Return("Err")
  /\ UNCHANGED <<input, lpad_base, n>>

(* A call site that lies before ip. *)
SiteBefore ==
  /\ AtSite /\ Readable
  /\ context.ip >= Start /\ context.ip >= Behind
  /\ n' = n + 1
  /\ UNCHANGED <<input, lpad_base, result, lpad>>

(* The call site of ip. *)
SiteFound ==
  /\ AtSite /\ Readable
  /\ context.ip >= Start /\ context.ip < Behind
  /\ IF Offset(Current.cs_lpad) = 0 THEN Return("None")
     ELSE /\ result' = InterpretCsAction(Current.cs_action_entry)
          /\ lpad' = (lpad_base + Offset(Current.cs_lpad)) % WORD
  /\ UNCHANGED <<input, lpad_base, n>>

(* The sites are sorted: none of those left can cover ip. *)
SitePassed ==
  /\ AtSite /\ Readable
  /\ context.ip < Start
  /\ Return("Terminate")
  /\ UNCHANGED <<input, lpad_base, n>>

(* The whole table has been read. *)
TableEnds ==
  /\ result = "none yet"
  /\ n > Len(lsda.sites)
  /\ Return("Terminate")
  /\ UNCHANGED <<input, lpad_base, n>>

Next ==
  \/ NoLsda \/ ReadHeader
  \/ SiteUnreadable \/ SiteBefore \/ SiteFound \/ SitePassed \/ TableEnds

Spec == Init /\ [][Next]_vars
-----------------------------------------------------------------------------
TypeOK ==
  /\ lpad_base \in Word /\ lpad \in Word
  /\ n \in 0..Len(lsda.sites) + 1
  /\ result \in {"none yet", "None", "Cleanup", "Catch", "Filter", "Terminate", "Err"}

(* The errors that the comments of read_encoded_offset and of
   read_encoded_pointer list. *)
OffsetErrors(encoding) ==
  \/ encoding = Omit
  \/ encoding.format = "invalid"
  \/ encoding.application # "absptr" \/ encoding.indirect

PointerErrors(encoding) ==
  \/ encoding.application = "invalid" \/ encoding.format = "invalid"
  \/ encoding.application \in {"absptr", "aligned"} /\ encoding.format # "absptr"

(* The sites that cover ip, by their distance from the start of the function. *)
Covering ==
  {i \in DOMAIN lsda.sites :
     LET from == context.func_start + Offset(lsda.sites[i].cs_start)
     IN  context.ip \in from..from + Offset(lsda.sites[i].cs_len) - 1}

(* Something that a base is relative to is not known. *)
BaseMissing == 0 \in {context.func_start, context.text_start, context.data_start}

ErrorDocumented ==
  \/ PointerErrors(lsda.start_encoding)
  \/ lsda.sites # <<>> /\ OffsetErrors(lsda.call_site_encoding)

(* Every encoding that the comments call an error ends the search with Err,
   and no other does. *)
ErrorsAsDocumented ==
  /\ ErrorDocumented => result = "Err"
  /\ result = "Err" => ErrorDocumented \/ BaseMissing

(* In a table that is sorted by cs_start, the action is the one of the first
   site that covers ip, wherever the search stops early; without such a site
   the program is terminated. *)
ActionOfCoveringSite ==
  IF lsda.sites = <<>> \/ Covering = {} THEN result = "Terminate"
  ELSE LET site == lsda.sites[Min(Covering)]
           pad == Offset(site.cs_lpad)
           ttype_index == IF site.cs_action_entry = 0 THEN 0 ELSE lsda.actions[site.cs_action_entry]
       IN  IF pad = 0 THEN result = "None"
           ELSE /\ result = CHOOSE kind \in {"Cleanup", "Catch", "Filter"} :
                              /\ kind = "Cleanup" <=> ttype_index = 0
                              /\ kind = "Catch" <=> ttype_index > 0
                /\ lsda.start_encoding = Omit => lpad = (context.func_start + pad) % WORD
                /\ lsda.start_encoding # Omit =>
                     lpad = (ReadPointer(lsda.start_encoding, lsda.start) + pad) % WORD

(* The search returns what the LSDA says of ip, or the documented error. *)
RightAction ==
  /\ TypeOK
  /\ result # "none yet" =>
       \/ lsda.null /\ result = "None"
       \/ /\ ~lsda.null
          /\ ErrorsAsDocumented
          /\ result # "Err" => ActionOfCoveringSite
=============================================================================
