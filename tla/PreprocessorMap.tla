-------------------------- MODULE PreprocessorMap --------------------------
(***************************************************************************)
(* create_preprocessor_map and contained_in_preprocessor of                *)
(* src/function-extractor.py: one pass over a source file that keeps a     *)
(* stack of open conditionals and lists the regions they delimit, and the  *)
(* query by which the extractor decides which #ifdef it must write around  *)
(* a function it copies.  The scanner and the C preprocessor (CppGroups)   *)
(* read the same lines in step.                                            *)
(***************************************************************************)
EXTENDS CppGroups

CONSTANT
    FirstToken  \* tokens[1] of a directive: the condition up to its first blank

ASSUME FirstTokenAssumption == FirstToken \in [Conds -> Conds]

VARIABLES
    stack,      \* the scanner's open conditionals: (directive, name, line)
    pres,       \* the regions found so far: (directive, name, first, last)
    status,     \* "scanning", "returned" or "crashed" (IndexError of stack.pop)
    odd         \* what the file has shown that the scanner does not expect

scanVars == <<stack, pres, status>>
vars == <<lc, open, closed, stack, pres, status, odd>>

Mark == [t : Openers, name : Conds, bg : Nat]
Region == [t : Openers, name : Conds, bg : Nat, end : Nat]

Init == CppInit /\ stack = <<>> /\ pres = <<>> /\ status = "scanning" /\ odd = {}

-----------------------------------------------------------------------------
(* One action per branch of the loop. *)

Popped == stack[Len(stack)]
Rest == SubSeq(stack, 1, Len(stack) - 1)
PopRegion_DirectiveIncluded == Append(pres, [t |-> Popped.t, name |-> Popped.name,
                                             bg |-> Popped.bg, end |-> lc])
PopRegion_Prepended == <<[t |-> Popped.t, name |-> Popped.name,
                          bg |-> Popped.bg, end |-> lc - 1]>> \o pres
PopRegion == Append(pres, [t |-> Popped.t, name |-> Popped.name,
                           bg |-> Popped.bg, end |-> lc - 1])

(* No find() succeeds: the line is ordinary text, or a directive that is   *)
(* spelled otherwise.                                                      *)
SkipLine(l) ==
    /\ l.dir = "text" \/ ~l.spelled
    /\ UNCHANGED scanVars

PushIf(l) ==
    /\ l.spelled /\ l.dir \in Openers
    /\ stack' = Append(stack, [t |-> l.dir, name |-> FirstToken[l.cond], bg |-> lc])
    /\ UNCHANGED <<pres, status>>

(* An #elif is pushed as if it were an #ifdef. *)
SwapElif(l) ==
    /\ l.spelled /\ l.dir = "elif"
    /\ stack # <<>>
    /\ pres' = PopRegion
    /\ stack' = Append(Rest, [t |-> "ifdef", name |-> FirstToken[l.cond], bg |-> lc])
    /\ UNCHANGED status

SwapElse_NoPush(l) ==
    /\ l.spelled /\ l.dir = "else" /\ stack # <<>>
    /\ pres' = PopRegion /\ stack' = Rest /\ UNCHANGED status
SwapElse_Pushed(l, t) ==
    /\ l.spelled /\ l.dir = "else" /\ stack # <<>>
    /\ pres' = PopRegion /\ UNCHANGED status
    /\ stack' = Append(Rest, [t |-> t, name |-> Popped.name, bg |-> lc])
SwapElse_NotNegated(l) == SwapElse_Pushed(l, "ifdef")
SwapElse_Verbatim(l) == SwapElse_Pushed(l, "else")
(* An #else is pushed as an #ifndef of the name it pops. *)
SwapElse(l) ==
    /\ l.spelled /\ l.dir = "else"
    /\ stack # <<>>
    /\ pres' = PopRegion
    /\ stack' = Append(Rest, [t |-> "ifndef", name |-> Popped.name, bg |-> lc])
    /\ UNCHANGED status

PopEndif(l) ==
    /\ l.spelled /\ l.dir = "endif"
    /\ stack # <<>>
    /\ pres' = PopRegion
    /\ stack' = Rest
    /\ UNCHANGED status

(* stack.pop() of an empty list raises IndexError and ends the program. *)
PopEmpty(l) ==
    /\ l.spelled /\ l.dir \in {"elif", "else", "endif"}
    /\ stack = <<>>
    /\ status' = "crashed"
    /\ UNCHANGED <<stack, pres>>

(* What is unexpected of a line: the spelling of a directive that opens or *)
(* of one that goes on with or closes a conditional, a condition of more   *)
(* than one token.                                                         *)
Oddities == {"opener", "closer", "condition"}
Odd(l) ==
    {o \in Oddities :
        \/ o = "opener" /\ l.dir \in Openers /\ ~l.spelled
        \/ o = "closer" /\ l.dir \in {"elif", "else", "endif"} /\ ~l.spelled
        \/ o = "condition" /\ l.dir # "text" /\ FirstToken[l.cond] # l.cond}

ScanLine(l) ==
    /\ status = "scanning"
    /\ odd' = odd \cup Odd(l)
    /\ CppLine(l)
    /\ \/ SkipLine(l)
       \/ PushIf(l)
       \/ SwapElif(l)
       \/ SwapElse(l)
       \/ PopEndif(l)
       \/ PopEmpty(l)

(* End of file; a file that compiles has closed its conditionals. *)
ReturnPres ==
    /\ status = "scanning" /\ open = <<>>
    /\ status' = "returned"
    /\ UNCHANGED <<lc, open, closed, stack, pres, odd>>

Next == ReturnPres \/ \E l \in Lines : ScanLine(l)

Spec == Init /\ [][Next]_vars

-----------------------------------------------------------------------------
(* contained_in_preprocessor returns the first listed region that holds    *)
(* the lines from s to e.                                                  *)

Holds(r, s, e) == r.bg <= s /\ e <= r.end
FirstHit(i, s, e) ==
    /\ i \in 1 .. Len(pres) /\ Holds(pres[i], s, e)
    /\ \A j \in 1 .. i - 1 : ~Holds(pres[j], s, e)

(* The literal of the "#ifdef X", "#ifndef X" or "#if X" line that         *)
(* extractAndDump writes before the copied text.                           *)
GuardLit(r) == LitOf(r.t, r.name)

-----------------------------------------------------------------------------
(* Type correctness of the scanner's state. *)
TypeOK ==
    /\ CppTypeOK
    /\ stack \in Seq(Mark)
    /\ pres \in Seq(Region)
    /\ status \in {"scanning", "returned", "crashed"}
    /\ odd \subseteq Oddities

(* The regions of two listed conditionals are disjoint or one lies within  *)
(* the other, and then the inner one is listed first; so pres is a forest, *)
(* whatever the spelling of the directives made the scanner miss.          *)
RegionsNested ==
    \A i, j \in 1 .. Len(pres) : i < j =>
        /\ pres[i].end < pres[j].end
        /\ pres[i].end < pres[j].bg \/ pres[j].bg < pres[i].bg

(* What makes RegionsNested inductive: the marks on the stack are in the   *)
(* order of their lines, all of them above the line being read, and a      *)
(* listed region lies before or within every conditional still open.       *)
StackOrdered ==
    /\ \A k \in 1 .. Len(stack) : stack[k].bg \in 1 .. lc - 1
    /\ \A k, m \in 1 .. Len(stack) : k < m => stack[k].bg < stack[m].bg
RegionsBehind ==
    \A i \in 1 .. Len(pres) :
        /\ pres[i].bg <= pres[i].end /\ pres[i].end < lc - 1
        /\ \A k \in 1 .. Len(stack) :
              pres[i].end < stack[k].bg \/ stack[k].bg < pres[i].bg
ScanInv == StackOrdered /\ RegionsBehind /\ RegionsNested

(* contained_in_preprocessor answers with the first hit of its loop: it is *)
(* the smallest of the listed regions that hold the queried lines.         *)
FirstHitIsInnermost ==
    \A s, e \in 1 .. lc - 1 : \A i, j \in 1 .. Len(pres) :
        s <= e /\ FirstHit(i, s, e) /\ Holds(pres[j], s, e)
            => pres[j].bg <= pres[i].bg /\ pres[i].end <= pres[j].end

(* If the file spells its #if, #ifdef and #ifndef as the scanner expects,  *)
(* stack.pop() never finds an empty stack, however #else and #endif are    *)
(* spelled: a missed closing directive loses regions, never the program.   *)
NoUnderflow == "opener" \notin odd => status # "crashed"
(* What makes NoUnderflow inductive. *)
DepthCovered == "opener" \notin odd /\ status = "scanning" => Len(open) <= Len(stack)

(* The lines s to e lie in the body of g; they cut no group in two. *)
InGroup(g, s, e) == g.start < s /\ e <= g.end
WholeSpan(s, e) ==
    s <= e /\ \A i \in 1 .. Len(closed) :
        LET g == closed[i]
        IN  InGroup(g, s, e) \/ e < g.start \/ g.end < s \/ (s < g.start /\ g.end < e)
Innermost(i, s, e) ==
    /\ InGroup(closed[i], s, e)
    /\ \A j \in 1 .. Len(closed) : InGroup(closed[j], s, e) => closed[j].start <= closed[i].start

(* The forms of group for which the (directive, name) pair says the        *)
(* condition: not #elif, and #else only of an #ifdef.                      *)
SayableForms == {"ifdef", "ifndef", "if", "ifdef-else"}

(* In a file whose directives are spelled as expected and test one token   *)
(* each, a function in no group gets no guard, and a function in a group   *)
(* of a sayable form is guarded by exactly the condition of its innermost  *)
(* group.                                                                  *)
GuardFaithful ==
    status = "returned" /\ odd = {} =>
        \A s, e \in 1 .. lc - 1 : WholeSpan(s, e) =>
            /\ \A k \in 1 .. Len(pres) : FirstHit(k, s, e) =>
                  \E i \in 1 .. Len(closed) : InGroup(closed[i], s, e)
            /\ \A i \in 1 .. Len(closed) :
                  Innermost(i, s, e) /\ closed[i].form \in SayableForms =>
                     \E k \in 1 .. Len(pres) :
                        FirstHit(k, s, e) /\ closed[i].lits = {GuardLit(pres[k])}

(* extractAndDump: "check if we need to guard this func/struct with a      *)
(* macro": the guard of a function is true wherever the function's own     *)
(* group is, of whatever form the group is.                                *)
GuardMeansGroup ==
    status = "returned" /\ odd = {} =>
        \A s, e \in 1 .. lc - 1 :
            \A i \in 1 .. Len(closed), k \in 1 .. Len(pres) :
                WholeSpan(s, e) /\ Innermost(i, s, e) /\ FirstHit(k, s, e)
                    => GuardLit(pres[k]) \in closed[i].lits
=============================================================================
