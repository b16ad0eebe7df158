-------------------------- MODULE ExtractionRunner --------------------------
(***************************************************************************)
(* Phase I: src/extraction_runner.py.  A run lists the source files of a   *)
(* repository in cscope.files, indexes them with cscope and ctags, loads   *)
(* both indexes into a database, asks the database for the call graph of   *)
(* one function and deletes the indexes.  With -d it starts at the query,  *)
(* on a database that an earlier run left.  Every command may fail, which  *)
(* ends the run where it is (run_cmd: exit(1)).                            *)
(*                                                                         *)
(* All the files but the call graph have fixed names in the working        *)
(* directory.  Runs follow one another there, and may overlap; the source  *)
(* tree may be edited at any time.                                         *)
(***************************************************************************)
EXTENDS Integers

CONSTANTS
    Procs,      \* users' shells: each executes one run after the other
    Indexers,   \* those that also start runs without -d
    Repos,      \* repositories: source directory and name of the database
    Fns,        \* functions whose call graph is asked for
    NoFile,     \* a file that does not exist
    MaxEdits,   \* bound on the edits of each repository
    MaxRuns     \* bounds on the runs of each shell

ASSUME IndexersAssumption == Indexers \subseteq Procs
ASSUME BoundsAssumption == MaxEdits \in Nat /\ MaxRuns \in [Procs -> Nat]

VARIABLES
    edits,              \* how often each repository was edited
    list, xref, tags,   \* cscope.files, cscope.out and tags
    db,                 \* the database of each repository
    cg,                 \* the call graph of each function of a repository
    run                 \* the run that each shell executes

vars == <<edits, list, xref, tags, db, cg, run>>

(* A list names the files of a tree, or, if it is not whole, a part of     *)
(* them; by is the shell that wrote to it last.  An index holds what the   *)
(* listed files contain when it is built.                                  *)
List == [repo : Repos, ver : Nat, whole : BOOLEAN, by : Procs]
Index == [list : List, ver : Nat]
Maybe(X) == X \cup {NoFile}
(* A database of which only the first table was filled has no tags. *)
Database == [xref : Index, tags : Maybe(Index)]
Graph == [of : Database, rebased : BOOLEAN]
ASSUME NoFileAssumption == NoFile \notin Graph

Steps == {"list", "fill", "cscope", "ctags", "makedb", "makedb again", "search", "sed", "clean"}
Run == [pc : Steps \cup {"idle", "ok", "failed"}, repo : Repos, fn : Fns, own : BOOLEAN,
        began : Nat, got : Maybe(Database), nr : Nat]

Running(p) == run[p].pc \in Steps
At(p, s) == run[p].pc = s
Goto(p, s) == run' = [run EXCEPT ![p].pc = s]
Repo(p) == run[p].repo
Target(p) == <<Repo(p), run[p].fn>>

Init ==
    /\ edits = [r \in Repos |-> 0]
    /\ list = NoFile /\ xref = NoFile /\ tags = NoFile
    /\ db = [r \in Repos |-> NoFile]
    /\ cg = [k \in Repos \X Fns |-> NoFile]
    /\ \E r \in Repos, f \in Fns :
          run = [p \in Procs |-> [pc |-> "idle", repo |-> r, fn |-> f, own |-> FALSE,
                                  began |-> 0, got |-> NoFile, nr |-> 0]]

-----------------------------------------------------------------------------
(* A run starts; without -d it will index first.  If a command it needs is *)
(* not installed it ends at once.                                          *)
Start(p, r, f, own) ==
    /\ ~Running(p) /\ run[p].nr < MaxRuns[p]
    /\ own => p \in Indexers
    /\ \E pc \in {IF own THEN "list" ELSE "search", "failed"} :
          run' = [run EXCEPT ![p] = [pc |-> pc, repo |-> r, fn |-> f, own |-> own,
                                     began |-> edits[r], got |-> NoFile, nr |-> @.nr + 1]]
    /\ UNCHANGED <<edits, list, xref, tags, db, cg>>

ListBy(p, whole) == [repo |-> Repo(p), ver |-> edits[Repo(p)], whole |-> whole, by |-> p]

(* make_cscope_db opens cscope.files, which empties it, *)
OpenList(p) ==
    /\ At(p, "list")
    /\ \/ list' = ListBy(p, FALSE) /\ Goto(p, "fill")
       \/ UNCHANGED list /\ Goto(p, "failed")
    /\ UNCHANGED <<edits, xref, tags, db, cg>>

(* looks for the sources and writes their names.  If another shell opened  *)
(* the file meanwhile, it may end up as a mixture; a name that cannot be   *)
(* written ends the run, and what was written stays.                       *)
FillList(p) ==
    /\ At(p, "fill")
    /\ \/ /\ \E whole \in IF list.by = p THEN {TRUE} ELSE BOOLEAN : list' = ListBy(p, whole)
          /\ Goto(p, "cscope")
       \/ UNCHANGED list /\ Goto(p, "failed")
    /\ UNCHANGED <<edits, xref, tags, db, cg>>

IndexOf_Recursive(l) == [list |-> [l EXCEPT !.ver = edits[l.repo]], ver |-> edits[l.repo]]
(* "-k -i cscope.files": the listed files and no others are read. *)
IndexOf(l) == [list |-> l, ver |-> edits[l.repo]]

Fail_Ignored(p, next) == Goto(p, next)
(* run_cmd: a command that fails ends the run, which does not go on to     *)
(* next.                                                                   *)
Fail(p, next) == Goto(p, "failed")

Cscope(p) ==
    /\ At(p, "cscope")
    /\ \/ list # NoFile /\ xref' = IndexOf(list) /\ Goto(p, "ctags")
       \/ UNCHANGED xref /\ Fail(p, "ctags")
    /\ UNCHANGED <<edits, list, tags, db, cg>>

Ctags(p) ==
    /\ At(p, "ctags")
    /\ \/ list # NoFile /\ tags' = IndexOf(list) /\ Goto(p, "makedb")
       \/ UNCHANGED tags /\ Fail(p, "makedb")
    /\ UNCHANGED <<edits, list, xref, db, cg>>

(* cqmakedb loads cscope.out, then tags; it may fail before, between or    *)
(* after the two.                                                          *)
Cqmakedb(p, s, next) ==
    LET Load(t) == db' = [db EXCEPT ![Repo(p)] = [xref |-> xref, tags |-> t]]
    IN  /\ At(p, s)
        /\ \/ xref # NoFile /\ tags # NoFile /\ Load(tags) /\ Goto(p, next)
           \/ xref # NoFile /\ Load(NoFile) /\ Fail(p, next)
           \/ UNCHANGED db /\ Fail(p, next)
        /\ UNCHANGED <<edits, list, xref, tags, cg>>

MakeDb(p) == Cqmakedb(p, "makedb", "makedb again")
CreateCqmakedb(p) == Cqmakedb(p, "makedb again", "search")

(* search_function: the call graph of what the database holds, with $HOME  *)
(* in its paths, which sed replaces.                                       *)
Cqsearch(p) ==
    /\ At(p, "search")
    /\ \/ /\ db[Repo(p)] # NoFile
          /\ cg' = [cg EXCEPT ![Target(p)] = [of |-> db[Repo(p)], rebased |-> FALSE]]
          /\ run' = [run EXCEPT ![p].pc = "sed", ![p].got = db[Repo(p)]]
       \/ UNCHANGED cg /\ Goto(p, "failed")
    /\ UNCHANGED <<edits, list, xref, tags, db>>

Sed(p) ==
    /\ At(p, "sed")
    /\ \/ cg' = [cg EXCEPT ![Target(p)].rebased = TRUE] /\ Goto(p, "clean")
       \/ UNCHANGED cg /\ Goto(p, "failed")
    /\ UNCHANGED <<edits, list, xref, tags, db>>

(* Also after a run with -d; a file that cannot be deleted is kept. *)
CleanIntermediateFiles(p) ==
    /\ At(p, "clean")
    /\ xref' \in {xref, NoFile} /\ tags' \in {tags, NoFile}
    /\ Goto(p, "ok")
    /\ UNCHANGED <<edits, list, db, cg>>

Step(p) ==
    \/ OpenList(p) \/ FillList(p) \/ Cscope(p) \/ Ctags(p) \/ MakeDb(p) \/ CreateCqmakedb(p)
    \/ Cqsearch(p) \/ Sed(p) \/ CleanIntermediateFiles(p)

(* Somebody edits the sources of a repository: files are added or changed. *)
Edit(r) ==
    /\ edits[r] < MaxEdits
    /\ edits' = [edits EXCEPT ![r] = @ + 1]
    /\ UNCHANGED <<list, xref, tags, db, cg, run>>

Next ==
    \/ \E p \in Procs : Step(p)
    \/ \E p \in Procs, r \in Repos, f \in Fns, own \in BOOLEAN : Start(p, r, f, own)
    \/ \E r \in Repos : Edit(r)

Spec == Init /\ [][Next]_vars
-----------------------------------------------------------------------------
(* Type correctness: a database never lacks its cross references, a call   *)
(* graph is always one of a database.                                      *)
TypeOK ==
    /\ edits \in [Repos -> Nat]
    /\ list \in Maybe(List) /\ xref \in Maybe(Index) /\ tags \in Maybe(Index)
    /\ db \in [Repos -> Maybe(Database)]
    /\ cg \in [Repos \X Fns -> Maybe(Graph)]
    /\ run \in [Procs -> Run]

(* A run that indexes and ends normally asked a complete database of its   *)
(* own repository, not older than the run and of all its files, whatever   *)
(* earlier runs that failed half way left in the working directory and     *)
(* whatever runs with -d did meanwhile.                                    *)
FreshFor(p, i) ==
    i # NoFile /\ i.list.repo = Repo(p) /\ i.list.ver >= run[p].began /\ i.list.whole
OwnIndexRight ==
    \A p \in Procs :
        At(p, "ok") /\ run[p].own => FreshFor(p, run[p].got.xref) /\ FreshFor(p, run[p].got.tags)
=============================================================================
