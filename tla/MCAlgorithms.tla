---------------------------- MODULE MCAlgorithms ----------------------------
EXTENDS Algorithms

(* Every combination of the first and last bit of each field of an address;
   {8} is the index 256, which the samples contain. *)
MCSamples == SUBSET {0, 11, 12, 20, 21, 29, 30, 38, 39, 47, 48, 63}
MCRecursionIndex == {8}

(* Memory maps of up to four entries over eight pages, in any order, with
   extents that touch or leave a gap. *)
Extents == {<<0, 1>>, <<1, 1>>, <<1, 2>>, <<3, 1>>, <<3, 3>>, <<6, 2>>}
Entries == {[base |-> x[1], pages |-> x[2], usable |-> u] : x \in Extents, u \in BOOLEAN}
Apart(d, e) == d.base + d.pages <= e.base \/ e.base + e.pages <= d.base
MCMemoryMaps ==
  {map \in UNION {[1 .. k -> Entries] : k \in 0 .. 4} :
     \A k, l \in DOMAIN map : k # l => Apart(map[k], map[l])}

(* Stacks of up to four frames with a limit of two. *)
Begin == "__rust_begin_short_backtrace"
End == "__rust_end_short_backtrace"
Frames ==
  {<<>>, <<"named">>, <<"unnamed">>, <<Begin>>, <<End>>,
   <<"named", "named">>, <<"named", End>>, <<"unnamed", Begin>>}
MCTraces == UNION {[1 .. k -> Frames] : k \in 0 .. 4}

(* All encodings with one small table, and all sorted tables of two sites
   with two encodings. *)
Plain(format) == [application |-> "absptr", format |-> format, indirect |-> FALSE]
Omit == [application |-> "omit", format |-> "omit", indirect |-> TRUE]
Encodings ==
  [application : {"absptr", "pcrel", "textrel", "datarel", "funcrel", "aligned", "invalid"},
   format : {"absptr", "uleb128", "udata", "sleb128", "sdata", "invalid"}, indirect : BOOLEAN]
Sites ==
  [cs_start : 0..2, cs_len : 0..2, cs_lpad : {0, 3}, cs_action_entry : {0, 1}]
    \cup [cs_start : {1}, cs_len : {2}, cs_lpad : {3}, cs_action_entry : {2, 3}]
Tables ==
  {<<>>} \cup {<<s>> : s \in Sites}
    \cup {<<p[1], p[2]>> : p \in {p \in Sites \X Sites : p[1].cs_start <= p[2].cs_start}}
OneTable == <<[cs_start |-> 1, cs_len |-> 2, cs_lpad |-> 2, cs_action_entry |-> 1]>>
LsdaOf(start_encoding, call_site_encoding, sites) ==
  [null |-> FALSE, start_encoding |-> start_encoding, start |-> 5,
   call_site_encoding |-> call_site_encoding, sites |-> sites, actions |-> <<1, -1, 0>>]
MCLsdas ==
  {[LsdaOf(Omit, Omit, <<>>) EXCEPT !.null = TRUE]}
    \cup {LsdaOf(start, cs, OneTable) : start \in Encodings \cup {Omit}, cs \in {Plain("uleb128"), Omit}}
    \cup {LsdaOf(Omit, cs, t) : cs \in Encodings, t \in {<<>>, OneTable}}
    \cup {LsdaOf(Omit, Plain(format), t) : format \in {"uleb128", "sdata"}, t \in Tables}
ContextOf(ip, func_start, text_start) ==
  [ip |-> ip, func_start |-> func_start, text_start |-> text_start, data_start |-> 9,
   here |-> 12, target |-> [a \in 0..15 |-> 15 - a]]
MCContexts == {ContextOf(f + d, f, 2) : f \in {0, 4}, d \in 0..5} \cup {ContextOf(3, 4, 0)}

(* Files of up to nine bytes with headers of two bytes, whose tables and data
   may lie inside the file, reach over its end or start behind it.  Among them
   a string table that ends without a NUL (at 6), names that start at or behind
   the end of theirs, and data that leaves the file. *)
X(offset, size, name_at) == [offset |-> offset, size |-> size, name |-> name_at]
MCHeaders ==
  [o \in 0 .. 8 |-> <<X(0, 0, 0), X(3, 1, 1), X(6, 4, 2), X(6, 2, 0), X(1, 1, 3),
                      X(2, 3, 3), X(2, 2, 1), X(10, 4, 0), X(2, 4, 1)>>[o + 1]]
HeaderTables(offsets, strides) == [offset : offsets, len : 0 .. 3, stride : strides]
File(len, ident, p, s, x) ==
  [len |-> len, ident |-> ident, programs |-> p, sections |-> s, string_table_index |-> x]
SmallTable == [offset |-> 2, len |-> 1, stride |-> 2]
MCFiles ==
  {File(len, id, SmallTable, SmallTable, 0) :
     len \in 0 .. 9, id \in {"bad_magic", "class1", "class_other", "class2"}}
  \cup {File(len, "class2", p, s, x) :
          len \in {6, 9}, p \in HeaderTables({2, 3, 10}, {1, 2, 3}),
          s \in HeaderTables({3, 5}, {2, 3}), x \in 0 .. 2}
MCNul == {1, 4, 7}

(* With pages of four bytes, trees of four and of eight pages need several;
   entries that hold no tree, one and two, before and after the one that the
   pointers go to.  Three pointers fit its pages; two entries of twenty pages
   make a fourth tree. *)
Span(start, len, valid) == [start |-> start, pages |-> len, valid |-> valid]
MCSpans ==
  {<<Span(0, a, TRUE), Span(22, 2, TRUE), Span(24, b, v), Span(48, c, TRUE)>> :
     a \in {2, 7, 20}, b \in {3, 7, 8, 15, 20}, c \in {4, 12, 20}, v \in BOOLEAN}
MCSizes == {0, 2, 3, 5, 9}

(* The enum of abi/src/lib.rs, and enums of one and two other variants. *)
Variant(unit, number, attrs) == [unit |-> unit, number |-> number, attrs |-> attrs]
MCEnums ==
  {<<Variant(TRUE, 0, <<3>>), Variant(TRUE, 1, <<3>>)>>}
    \cup {<<Variant(u, 4, a)>> : u \in BOOLEAN, a \in {<<>>, <<1, 1>>} \cup {<<k>> : k \in 0 .. 7}}
    \cup {<<Variant(TRUE, 2, <<k>>), Variant(TRUE, 0, <<>>)>> : k \in 4 .. 6}
MCWords == {0, 1}

(* Strings around the size of the buffer. *)
MCStrings == UNION {[1 .. k -> {"nul", "byte"}] : k \in 0 .. 5}
=============================================================================
