------------------------- MODULE MCPreprocessorMap -------------------------
(* Instances of PreprocessorMap for TLC: which lines the file may hold. *)
EXTENDS PreprocessorMap

CONSTANTS A, B, AandB   \* model values: two macros, and the test "A && B"

MCConds == {A, B, AandB}
(* line.split()[1] of "#if A && B" is "A". *)
MCFirstToken == [c \in MCConds |-> IF c = AandB THEN A ELSE c]

Spelled(dirs, conds) == [dir : dirs, cond : conds, spelled : {TRUE}]
Missed(dirs) == [dir : dirs, cond : {A}, spelled : {FALSE}]
Text == Spelled({"text"}, {A})
Closers == {"else", "endif"}

(* Any file: directives in either spelling, one condition of two tokens.   *)
AnyLines == Text \cup Spelled(Openers, {A}) \cup Spelled({"ifdef"}, {B})
            \cup Spelled({"elif"}, {B, AandB}) \cup Spelled(Closers, {A})
            \cup Missed({"ifdef", "elif"} \cup Closers)
(* No #elif and no #if: only macros tested by name. *)
IfndefElse == Text \cup Spelled({"ifdef", "ifndef"} \cup Closers, {A})
=============================================================================
