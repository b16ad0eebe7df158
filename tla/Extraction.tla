----------------------------- MODULE Extraction -----------------------------
(***************************************************************************)
(* What Phase III promises, without the files, loops and tables that       *)
(* src/function-extractor.py keeps the promise with: a run lists the       *)
(* functions that its input asks for one by one, each once and no others,  *)
(* and ends normally only when all of them are listed; then it reports     *)
(* the functions it was not asked to choose between.  It may fail at any   *)
(* time.  FunctionExtractor implements this.                               *)
(***************************************************************************)
EXTENDS Integers, Sequences, FiniteSets, Functions

CONSTANT
    Ext         \* "c" or "h": the extension of each source file

VARIABLES
    input,      \* the call graph and the definitions of the repository
    status,     \* "running", "done" or "failed"
    written,    \* the functions listed as extracted, in order
    reported    \* the ambiguous lines of the call graph

vars == <<input, status, written, reported>>

(* The section of the call graph that a line is in, by the braces before   *)
(* it; functions are listed in the first, maps between braces 3 and 4.     *)
Section(cg, i) == Cardinality({j \in 1 .. i : cg[j].k = "brace"})
FnLines(cg) == {cg[i] : i \in {j \in 1 .. Len(cg) : cg[j].k = "item" /\ Section(cg, j) < 2}}
MapNames(cg) == {cg[i].name : i \in {j \in 1 .. Len(cg) : cg[j].k = "item" /\ Section(cg, j) = 3}}
Ambiguous(cg) == {l \in FnLines(cg) : l.count > 1}

(* The definitions that the call graph and func_info together ask for: of  *)
(* each function with a single definition, in a .c file, the last one      *)
(* listed.                                                                 *)
Wanted(in) ==
    {d \in Range(in.funcs) :
        /\ Ext[d.file] = "c"
        /\ \E l \in FnLines(in.cg) : l.count <= 1 /\ l.name = d.fn /\ l.src = d.file
        /\ \E i \in 1 .. Len(in.funcs) :
              /\ in.funcs[i] = d
              /\ \A j \in i + 1 .. Len(in.funcs) :
                    in.funcs[j].fn # d.fn \/ in.funcs[j].file # d.file}

(* Whatever the input is. *)
Init ==
    /\ status = "running" /\ written = <<>> /\ reported = <<>>

WriteFunction ==
    /\ status = "running"
    /\ \E d \in Wanted(input) \ Range(written) : written' = Append(written, d)
    /\ UNCHANGED <<input, status, reported>>

Finish ==
    /\ status = "running" /\ Range(written) = Wanted(input)
    /\ status' = "done"
    /\ Range(reported') = Ambiguous(input.cg)
    /\ UNCHANGED <<input, written>>

Fail ==
    /\ status = "running"
    /\ status' = "failed"
    /\ UNCHANGED <<input, written, reported>>

Restart ==
    /\ status # "running"
    /\ status' = "running" /\ written' = <<>> /\ reported' = <<>>

Next == WriteFunction \/ Finish \/ Fail \/ Restart
Spec == Init /\ [][Next]_vars
=============================================================================
