------------------------ MODULE MCFunctionExtractor ------------------------
(* Instances of FunctionExtractor for TLC: what one run may find. *)
EXTENDS FunctionExtractor

CONSTANTS
    f, g, m,            \* model values: two functions, a map
    c1, c2, h1,         \* two .c files and a .h file
    ha, hb, hs,         \* "a.h", "b.h" and <s.h>
    A, B, S,            \* guard macros
    s1, s2              \* spans

MCNames == {f, g, m}
MCSrcs == {c1, c2, h1}
MCExt == [x \in MCSrcs |-> IF x = h1 THEN "h" ELSE "c"]
MCHeaders == {ha, hb, hs}
PlainToken == [h \in MCHeaders |-> h]
MCAngle == {hs}
MCIncludes == [x \in MCSrcs |-> IF x = c1 THEN <<ha, hs>> ELSE IF x = c2 THEN <<hs, hb, hs>> ELSE <<>>]
MCSpans == {s1, s2}
(* Headers that are distinct files have distinct last components. *)
Distinct == [h \in MCHeaders |-> IF h = ha THEN A ELSE IF h = hb THEN B ELSE S]

Line(n, c, src) == [k |-> "item", name |-> n, count |-> c, src |-> src]
Brace == [k |-> "brace", name |-> f, count |-> 1, src |-> c1]
SeqsUpTo(X, n) == UNION {[1 .. k -> X] : k \in 0 .. n}
(* Sections: functions, maps, duplicate maps. *)
Graph(fs, ms) == <<Brace>> \o fs \o <<Brace, Brace>> \o ms \o <<Brace, Brace>>
                 \o <<Line(m, 2, h1)>> \o <<Brace>>
Struct(t, ws, src) == [text |-> t, words |-> ws, file |-> src]
FnDef(n, src, s) == [fn |-> n, file |-> src, span |-> s]

FnItems == {Line(f, 1, c1), Line(g, 1, c2), Line(g, 1, h1), Line(f, 2, c1)}
FnDefs == {FnDef(f, c1, s1), FnDef(f, c1, s2), FnDef(g, c2, s1), FnDef(g, h1, s1)}
Structs == {<<>>, <<Struct(1, {m}, h1)>>, <<Struct(1, {}, c2), Struct(2, {m}, h1), Struct(2, {m}, h1)>>}

InputOf(cg, ss, fs, mis, uns) ==
    [cg |-> cg, structs |-> ss, funcs |-> fs, missing |-> mis, unscannable |-> uns,
     vanishing |-> {}, interrupted |-> FALSE]

(* Every call graph of up to two functions with every func_info of up to   *)
(* three definitions; nothing is missing.                                  *)
Complete == {InputOf(Graph(fs, <<Line(m, 1, h1)>>), ss, ds, {}, {}) :
                fs \in SeqsUpTo(FnItems, 2), ss \in Structs, ds \in SeqsUpTo(FnDefs, 3)}

TwoGraphs == {Graph(<<Line(f, 1, c1), Line(g, 1, c2)>>, <<Line(m, 1, h1)>>),
              Graph(<<Line(g, 2, c2), Line(f, 1, c1)>>, <<Line(m, 1, c1), Line(m, 1, h1)>>)}
TwoDefs == {<<FnDef(f, c1, s1), FnDef(g, c2, s2)>>, <<FnDef(g, c2, s2)>>}
TwoStructs == <<Struct(1, {}, c2), Struct(2, {m}, h1)>>

(* Two call graphs in which one thing or nothing is missing. *)
Faulty == {InputOf(cg, TwoStructs, ds, mis, uns) :
             ds \in TwoDefs, cg \in TwoGraphs,
             mis \in {{}} \cup {{x} : x \in MCSrcs \cup Inventory},
             uns \in {{}, {c2}}}

(* The same, with files that go while the program runs, or somebody who    *)
(* stops it.                                                               *)
Disturbed == {[InputOf(cg, TwoStructs, ds, {}, {}) EXCEPT !.vanishing = v, !.interrupted = i] :
                ds \in TwoDefs, cg \in TwoGraphs, v \in {{}, {c1}, {c1, c2}}, i \in BOOLEAN}

(* A map that a .c file defines. *)
MapInC == {InputOf(Graph(<<Line(f, 1, c1)>>, <<Line(m, 1, c1)>>), <<Struct(1, {m}, c1)>>,
                   <<FnDef(f, c1, s1)>>, {}, {})}

AllInputs == Complete \cup Faulty \cup Disturbed \cup MapInC
SomeInputs == Faulty \cup Disturbed \cup MapInC
=============================================================================
