----------------------------- MODULE CppGroups -----------------------------
(***************************************************************************)
(* What the C preprocessor makes of the conditional directives of a source *)
(* file, read one line at a time.  The preprocessor is not part of the     *)
(* repository: this module is the meaning of the files the extractor reads *)
(* and the reference against which its own scanner is judged.              *)
(*                                                                         *)
(* A line is abstracted to its directive, the condition after it and       *)
(* whether it is spelled the way the extractor looks for: at column 0,     *)
(* without a blank after '#', and followed by a blank ("#endif /* X */" is *)
(* spelled, "#endif" at the end of a line, "# if X" and "#if(X)" are not). *)
(* C gives the same meaning to both spellings.                             *)
(***************************************************************************)
EXTENDS Integers, Sequences

CONSTANTS
    Conds,      \* the conditions and macro names the file tests
    Lines,      \* the lines the file may hold
    MaxLines    \* bound on the length of the file

Openers == {"ifdef", "ifndef", "if"}
Dirs == Openers \cup {"elif", "else", "endif", "text"}
Line == [dir : Dirs, cond : Conds, spelled : BOOLEAN]

ASSUME LinesAssumption == Lines \subseteq Line
ASSUME MaxLinesAssumption == MaxLines \in Nat

VARIABLES
    lc,         \* number of the line about to be read
    open,       \* the groups that are open, innermost last
    closed      \* the groups that are complete, in the order they ended

cppVars == <<lc, open, closed>>

(* A test a group stands under, positive or negated. *)
Literal == [test : {"defined", "expr"}, cond : Conds, pos : BOOLEAN]
Negate(lit) == [lit EXCEPT !.pos = ~@]

LitOf(dir, cond) ==
    [test |-> IF dir \in {"ifdef", "ifndef"} THEN "defined" ELSE "expr",
     cond |-> cond,
     pos  |-> dir # "ifndef"]

(* A group starts at its directive, holds when all its literals do, and    *)
(* knows the negations a following #elif or #else starts from.             *)
ElseForms == {"ifdef-else", "other-else"}
Forms == Openers \cup {"elif"} \cup ElseForms
OpenGroup == [start : Nat, form : Forms, lits : SUBSET Literal, rest : SUBSET Literal]
ClosedGroup == [start : Nat, end : Nat, form : Forms, lits : SUBSET Literal]

Top == open[Len(open)]
Below == SubSeq(open, 1, Len(open) - 1)
CloseTop == Append(closed, [start |-> Top.start, end |-> lc - 1,
                            form |-> Top.form, lits |-> Top.lits])

CppText(l) ==
    /\ l.dir = "text"
    /\ UNCHANGED <<open, closed>>

CppOpen(l) ==
    /\ l.dir \in Openers
    /\ LET lit == LitOf(l.dir, l.cond)
       IN  open' = Append(open, [start |-> lc, form |-> l.dir,
                                 lits |-> {lit}, rest |-> {Negate(lit)}])
    /\ UNCHANGED closed

CppElif(l) ==
    /\ l.dir = "elif"
    /\ open # <<>> /\ Top.form \notin ElseForms
    /\ LET lit == LitOf("if", l.cond)
       IN  open' = Append(Below, [start |-> lc, form |-> "elif",
                                  lits |-> Top.rest \cup {lit},
                                  rest |-> Top.rest \cup {Negate(lit)}])
    /\ closed' = CloseTop

CppElse(l) ==
    /\ l.dir = "else"
    /\ open # <<>> /\ Top.form \notin ElseForms
    /\ open' = Append(Below, [start |-> lc, lits |-> Top.rest, rest |-> {},
                              form |-> IF Top.form = "ifdef" THEN "ifdef-else"
                                                             ELSE "other-else"])
    /\ closed' = CloseTop

CppEndif(l) ==
    /\ l.dir = "endif"
    /\ open # <<>>
    /\ open' = Below
    /\ closed' = CloseTop

CppInit == lc = 1 /\ open = <<>> /\ closed = <<>>

(* The next line of a file in which every directive has its place. *)
CppLine(l) ==
    /\ lc <= MaxLines
    /\ lc' = lc + 1
    /\ CppText(l) \/ CppOpen(l) \/ CppElif(l) \/ CppElse(l) \/ CppEndif(l)

CppTypeOK ==
    /\ lc \in 1 .. MaxLines + 1
    /\ open \in Seq(OpenGroup)
    /\ closed \in Seq(ClosedGroup)
=============================================================================
