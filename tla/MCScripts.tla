------------------------------ MODULE MCScripts ------------------------------
(* An instance of Scripts for TLC. *)
EXTENDS Scripts, TLC

CONSTANTS
    p, q, A, B, f,              \* model values: shells, repositories, a function
    drop, drop6, xdrop, a, b    \* model values: names "drop", "drop6", "xdrop"; files

TwoProcs == {p, q}
OneIndexer == {p}
TwoRepos == {A, B}
OneFn == {f}
RunBounds == [x \in TwoProcs |-> IF x = p THEN 2 ELSE 1]
Symmetric == Permutations(TwoRepos)

AllNames == {drop, drop6, xdrop}
AllFiles == {a, b}
Same(X) == {<<x, x>> : x \in X}
Begins == Same(AllNames) \cup {<<drop, drop6>>}
\* Both paths end in "drop.c", or names and paths are all unlike one another.
TwoRelations ==
    {[begins |-> Begins, occurs |-> Begins \cup {<<drop, xdrop>>}, inPath |-> AllFiles \X AllFiles],
     [begins |-> Same(AllNames), occurs |-> Same(AllNames), inPath |-> Same(AllFiles)]}
Rec(n, x, ds) == [fn |-> n, file |-> x, descs |-> ds]
Past(n, x) == [fn |-> n, file |-> x, nr |-> 0]
DescsOf(n, x) == {<<>>, <<Blank>>, <<Past(n, x)>>, <<Blank, Past(n, x)>>}
\* One record for each of three functions, with every history.
DBs == {<<Rec(drop, a, x), Rec(drop6, a, y), Rec(xdrop, b, z)>> :
            x \in DescsOf(drop, a), y \in DescsOf(drop6, a), z \in DescsOf(xdrop, b)}
=============================================================================
