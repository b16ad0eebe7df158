---------------------------- MODULE ScriptsProofs ----------------------------
(***************************************************************************)
(* Proofs about Workflow, and with it about ExtractionRunner, for any      *)
(* number of repositories, functions, shells, runs and edits; and about    *)
(* the other scripts, for any number of runs, names, paths and records.    *)
(***************************************************************************)
EXTENDS Scripts, TLAPS

(* All the indexes have the same names in the working directory, so that   *)
(* two shells that index at once would mix theirs up: one shell indexes.   *)
SingleIndexer == \A p, q \in Indexers : p = q

(* A list names no files that are not there yet, and the present list of a *)
(* repository names all that an earlier one did.                           *)
Covered(l, ed, li) ==
    /\ l.ver <= ed[l.repo]
    /\ li # NoFile /\ li.repo = l.repo => l.ver <= li.ver
CoveredIn(d, r, ed, li) == d.xref.list.repo = r /\ Covered(d.xref.list, ed, li)

(* Every file that goes back to a list goes back to one of its repository. *)
FilesInv ==
    /\ list # NoFile => list.ver <= edits[list.repo]
    /\ xref # NoFile => Covered(xref.list, edits, list)
    /\ \A r \in Repos : db[r] # NoFile => CoveredIn(db[r], r, edits, list)
    /\ \A k \in Repos \X Fns : cg[k] # NoFile => CoveredIn(cg[k].of, k[1], edits, list)
    /\ \A k \in Repos \X Fns : cleaned[k] # NoFile => CoveredIn(cleaned[k].of, k[1], edits, list)

Indexing == {"list", "fill", "cscope", "ctags", "makedb", "makedb again"}
Mine(x, l) == l.repo = x.repo /\ l.ver >= x.began /\ l.whole
Fresh(x, i) == i # NoFile /\ Mine(x, i.list)
Complete(x, d) == Fresh(x, d.xref) /\ Fresh(x, d.tags)
(* What the run x of the shell p has found and made of its own by each     *)
(* step: e is the number of edits and d the database of its repository.    *)
Own(p, x, e, li, xr, tg, d) ==
    /\ x.began <= e
    /\ x.pc \in Indexing => x.own /\ p \in Indexers
    /\ x.pc = "fill" => li.by = p
    /\ x.pc \in {"cscope", "ctags", "makedb", "makedb again"} => Mine(x, li)
    /\ x.pc \in {"ctags", "makedb", "makedb again"} => xr = NoFile \/ Fresh(x, xr)
    /\ x.pc \in {"makedb", "makedb again"} => tg = NoFile \/ Fresh(x, tg)
    /\ x.own /\ x.pc = "search" => p \in Indexers /\ Complete(x, d)
    /\ x.own /\ x.pc \in {"sed", "clean", "ok"} => Complete(x, x.got)
OwnAt(p) == Own(p, run[p], edits[Repo(p)], list, xref, tags, db[Repo(p)])

(* The call graph that sed edits is there. *)
SedInv == \A p \in Procs : run[p].pc = "sed" => cg[Target(p)] \in Graph

(* What Phase III copied and what it is about to read. *)
PhaseInv ==
    phase3 # NoFile /\ cleaned[phase3.key] # NoFile /\ phase3.headers.repo = phase3.key[1] =>
        cleaned[phase3.key].of.xref.list.ver <= phase3.headers.ver

FlowInv ==
    /\ FilesInv
    /\ \A p \in Procs : OwnAt(p)
    /\ PhaseInv /\ HeadersCoverGraph
WfInv == WfTypeOK /\ SedInv /\ FlowInv

-----------------------------------------------------------------------------
(* Types. *)
Pcs == Steps \cup {"idle", "ok", "failed"}

LEMMA RunFields ==
    ASSUME NEW x \in Run
    PROVE  /\ x = [pc |-> x.pc, repo |-> x.repo, fn |-> x.fn, own |-> x.own, began |-> x.began,
                   got |-> x.got, nr |-> x.nr]
           /\ x.pc \in Pcs /\ x.repo \in Repos /\ x.fn \in Fns /\ x.own \in BOOLEAN
           /\ x.began \in Nat /\ x.got \in Maybe(Database) /\ x.nr \in Nat
BY DEF Run, Pcs

(* A run that goes on to s, with g from the database. *)
Moved(p, s, g) ==
    /\ run' \in [Procs -> Run]
    /\ run'[p].pc = s /\ run'[p].got = g /\ run'[p].repo = run[p].repo /\ run'[p].fn = run[p].fn
    /\ run'[p].own = run[p].own /\ run'[p].began = run[p].began
    /\ \A q \in Procs : q # p => run'[q] = run[q]

LEMMA PcUpdate ==
    ASSUME NEW x \in Run, NEW s \in Pcs
    PROVE  /\ [x EXCEPT !.pc = s] \in Run
           /\ [x EXCEPT !.pc = s].pc = s
           /\ [x EXCEPT !.pc = s].got = x.got /\ [x EXCEPT !.pc = s].repo = x.repo
           /\ [x EXCEPT !.pc = s].fn = x.fn /\ [x EXCEPT !.pc = s].own = x.own
           /\ [x EXCEPT !.pc = s].began = x.began
BY DEF Run, Pcs

LEMMA GotUpdate ==
    ASSUME NEW x \in Run, NEW g \in Maybe(Database)
    PROVE  /\ [x EXCEPT !.got = g] \in Run
           /\ [x EXCEPT !.got = g].pc = x.pc
           /\ [x EXCEPT !.got = g].got = g /\ [x EXCEPT !.got = g].repo = x.repo
           /\ [x EXCEPT !.got = g].fn = x.fn /\ [x EXCEPT !.got = g].own = x.own
           /\ [x EXCEPT !.got = g].began = x.began
BY DEF Run

LEMMA GotoMoves ==
    ASSUME run \in [Procs -> Run], NEW p \in Procs, NEW s \in Pcs, Goto(p, s)
    PROVE  Moved(p, s, run[p].got)
<1>. DEFINE x == run[p]
            y == [x EXCEPT !.pc = s]
<1>1. run' = [run EXCEPT ![p] = y]  BY DEF Goto
<1>2. x \in Run  OBVIOUS
<1>3. /\ y \in Run /\ y.pc = s /\ y.got = x.got /\ y.repo = x.repo /\ y.fn = x.fn
      /\ y.own = x.own /\ y.began = x.began
  BY <1>2, PcUpdate
<1>. HIDE DEF y
<1>. QED  BY <1>1, <1>3 DEF Moved

LEMMA SearchMoves ==
    ASSUME run \in [Procs -> Run], NEW p \in Procs, NEW s \in Pcs, NEW g \in Maybe(Database),
           run' = [run EXCEPT ![p].pc = s, ![p].got = g]
    PROVE  Moved(p, s, g)
<1>. DEFINE x == run[p]
            y == [x EXCEPT !.pc = s]
            z == [y EXCEPT !.got = g]
<1>1. run' = [run EXCEPT ![p] = z]  OBVIOUS
<1>2. x \in Run  OBVIOUS
<1>3. /\ y \in Run /\ y.pc = s /\ y.repo = x.repo /\ y.fn = x.fn
      /\ y.own = x.own /\ y.began = x.began
  BY <1>2, PcUpdate
<1>4. /\ z \in Run /\ z.pc = y.pc /\ z.got = g /\ z.repo = y.repo /\ z.fn = y.fn
      /\ z.own = y.own /\ z.began = y.began
  <2>. HIDE DEF y
  <2>. QED  BY <1>3, GotUpdate
<1>. HIDE DEF y, z
<1>. QED  BY <1>1, <1>3, <1>4 DEF Moved

(* How each step of a run moves it. *)
LEMMA StepMoves ==
    ASSUME TypeOK, NEW p \in Procs
    PROVE  LET g == run[p].got IN
           /\ OpenList(p) => \/ Moved(p, "fill", g) /\ list' = ListBy(p, FALSE)
                             \/ Moved(p, "failed", g) /\ list' = list
           /\ FillList(p) => \/ /\ Moved(p, "cscope", g)
                                /\ \E whole \in BOOLEAN : list' = ListBy(p, whole)
                                /\ list.by = p => list' = ListBy(p, TRUE)
                             \/ Moved(p, "failed", g) /\ list' = list
           /\ Cscope(p) => \/ Moved(p, "ctags", g) /\ list # NoFile /\ xref' = IndexOf(list)
                           \/ Moved(p, "failed", g) /\ xref' = xref
           /\ Ctags(p) => \/ Moved(p, "makedb", g) /\ list # NoFile /\ tags' = IndexOf(list)
                          \/ Moved(p, "failed", g) /\ tags' = tags
           /\ Cqsearch(p) => \/ /\ Moved(p, "sed", db[Repo(p)]) /\ db[Repo(p)] # NoFile
                                /\ cg' = [cg EXCEPT ![Target(p)] =
                                             [of |-> db[Repo(p)], rebased |-> FALSE]]
                             \/ Moved(p, "failed", g) /\ cg' = cg
           /\ Sed(p) => \/ Moved(p, "clean", g) /\ cg' = [cg EXCEPT ![Target(p)].rebased = TRUE]
                        \/ Moved(p, "failed", g) /\ cg' = cg
           /\ CleanIntermediateFiles(p) => Moved(p, "ok", g)
           /\ \A s, next \in Pcs : Cqmakedb(p, s, next) =>
                 \/ /\ Moved(p, next, g) /\ xref # NoFile /\ tags # NoFile
                    /\ db' = [db EXCEPT ![Repo(p)] = [xref |-> xref, tags |-> tags]]
                 \/ /\ Moved(p, "failed", g) /\ xref # NoFile
                    /\ db' = [db EXCEPT ![Repo(p)] = [xref |-> xref, tags |-> NoFile]]
                 \/ Moved(p, "failed", g) /\ db' = db
<1>1. run \in [Procs -> Run] /\ db \in [Repos -> Maybe(Database)] /\ Repo(p) \in Repos
  BY RunFields DEF TypeOK, Repo
<1>2. /\ "fill" \in Pcs /\ "cscope" \in Pcs /\ "ctags" \in Pcs /\ "makedb" \in Pcs
      /\ "sed" \in Pcs /\ "clean" \in Pcs /\ "ok" \in Pcs /\ "failed" \in Pcs
  BY DEF Pcs, Steps
<1>3. \A s \in Pcs : Goto(p, s) => Moved(p, s, run[p].got)  BY <1>1, GotoMoves
<1>4. OpenList(p) => \/ Moved(p, "fill", run[p].got) /\ list' = ListBy(p, FALSE)
                     \/ Moved(p, "failed", run[p].got) /\ list' = list
  BY <1>2, <1>3 DEF OpenList
<1>11. FillList(p) => \/ /\ Moved(p, "cscope", run[p].got)
                         /\ \E whole \in BOOLEAN : list' = ListBy(p, whole)
                         /\ list.by = p => list' = ListBy(p, TRUE)
                      \/ Moved(p, "failed", run[p].got) /\ list' = list
  BY <1>2, <1>3 DEF FillList
<1>5. Cscope(p) => \/ Moved(p, "ctags", run[p].got) /\ list # NoFile /\ xref' = IndexOf(list)
                   \/ Moved(p, "failed", run[p].got) /\ xref' = xref
  BY <1>2, <1>3 DEF Cscope, Fail
<1>6. Ctags(p) => \/ Moved(p, "makedb", run[p].got) /\ list # NoFile /\ tags' = IndexOf(list)
                  \/ Moved(p, "failed", run[p].got) /\ tags' = tags
  BY <1>2, <1>3 DEF Ctags, Fail
<1>7. Cqsearch(p) => \/ /\ Moved(p, "sed", db[Repo(p)]) /\ db[Repo(p)] # NoFile
                        /\ cg' = [cg EXCEPT ![Target(p)] = [of |-> db[Repo(p)], rebased |-> FALSE]]
                     \/ Moved(p, "failed", run[p].got) /\ cg' = cg
  BY <1>1, <1>2, <1>3, SearchMoves DEF Cqsearch
<1>8. Sed(p) => \/ Moved(p, "clean", run[p].got) /\ cg' = [cg EXCEPT ![Target(p)].rebased = TRUE]
                \/ Moved(p, "failed", run[p].got) /\ cg' = cg
  BY <1>2, <1>3 DEF Sed
<1>9. CleanIntermediateFiles(p) => Moved(p, "ok", run[p].got)
  BY <1>2, <1>3 DEF CleanIntermediateFiles
<1>10. ASSUME NEW s \in Pcs, NEW next \in Pcs, Cqmakedb(p, s, next)
       PROVE  \/ /\ Moved(p, next, run[p].got) /\ xref # NoFile /\ tags # NoFile
                 /\ db' = [db EXCEPT ![Repo(p)] = [xref |-> xref, tags |-> tags]]
              \/ /\ Moved(p, "failed", run[p].got) /\ xref # NoFile
                 /\ db' = [db EXCEPT ![Repo(p)] = [xref |-> xref, tags |-> NoFile]]
              \/ Moved(p, "failed", run[p].got) /\ db' = db
  BY <1>2, <1>3, <1>10 DEF Cqmakedb, Fail
<1>. QED  BY <1>4, <1>5, <1>6, <1>7, <1>8, <1>9, <1>10, <1>11

LEMMA StartRun ==
    ASSUME TypeOK, NEW p \in Procs, NEW r \in Repos, NEW f \in Fns, NEW own \in BOOLEAN,
           Start(p, r, f, own)
    PROVE  /\ run' \in [Procs -> Run] /\ \A q \in Procs : q # p => run'[q] = run[q]
           /\ run'[p].repo = r /\ run'[p].own = own /\ run'[p].began = edits[r]
           /\ run'[p].pc \in {IF own THEN "list" ELSE "search", "failed"}
           /\ own => p \in Indexers
<1>1. run \in [Procs -> Run] /\ edits \in [Repos -> Nat]  BY DEF TypeOK
<1>2. run[p].nr \in Nat /\ edits[r] \in Nat  BY <1>1, RunFields
<1>3. PICK pc \in {IF own THEN "list" ELSE "search", "failed"} :
          run' = [run EXCEPT ![p] = [pc |-> pc, repo |-> r, fn |-> f, own |-> own,
                                     began |-> edits[r], got |-> NoFile, nr |-> @.nr + 1]]
  BY DEF Start
<1>. DEFINE y == [pc |-> pc, repo |-> r, fn |-> f, own |-> own,
                  began |-> edits[r], got |-> NoFile, nr |-> run[p].nr + 1]
<1>4. pc \in Pcs
  <2>1. "list" \in Pcs /\ "search" \in Pcs /\ "failed" \in Pcs  BY DEF Pcs, Steps
  <2>. QED  BY <2>1
<1>5. y \in Run
  <2>1. run[p].nr + 1 \in Nat /\ NoFile \in Maybe(Database)  BY <1>2 DEF Maybe
  <2>. QED  BY <1>2, <1>4, <2>1 DEF Run, Pcs
<1>6. y.pc = pc /\ y.repo = r /\ y.own = own /\ y.began = edits[r]  OBVIOUS
<1>7. run' = [run EXCEPT ![p] = y]  BY <1>3
<1>8. own => p \in Indexers  BY DEF Start
<1>. HIDE DEF y
<1>. QED  BY <1>1, <1>5, <1>6, <1>7, <1>8

LEMMA IndexTyped ==
    ASSUME TypeOK, list # NoFile
    PROVE  /\ IndexOf(list) \in Index /\ IndexOf(list).list = list
<1>1. list \in List /\ edits \in [Repos -> Nat]  BY DEF TypeOK, Maybe
<1>2. list.repo \in Repos  BY <1>1 DEF List
<1>. QED  BY <1>1, <1>2 DEF IndexOf, Index

LEMMA RunsTyped ==
    ASSUME TypeOK, SedInv, NEW p \in Procs, Step(p)
    PROVE  TypeOK'
<1>1. /\ edits \in [Repos -> Nat] /\ list \in Maybe(List) /\ xref \in Maybe(Index)
      /\ tags \in Maybe(Index) /\ db \in [Repos -> Maybe(Database)]
      /\ cg \in [Repos \X Fns -> Maybe(Graph)] /\ run \in [Procs -> Run]
  BY DEF TypeOK
<1>2. Repo(p) \in Repos /\ Target(p) \in Repos \X Fns
  BY <1>1, RunFields DEF Repo, Target
<1>3. edits' = edits
  BY DEF Step, OpenList, FillList, Cscope, Ctags, MakeDb, CreateCqmakedb, Cqmakedb, Cqsearch, Sed,
         CleanIntermediateFiles
<1>4. CASE OpenList(p) \/ FillList(p)
  <2>1. run' \in [Procs -> Run]  BY <1>4, StepMoves DEF Moved
  <2>2. /\ list' = list \/ \E whole \in BOOLEAN : list' = ListBy(p, whole)
        /\ xref' = xref /\ tags' = tags /\ db' = db /\ cg' = cg
    BY <1>4, StepMoves DEF OpenList, FillList
  <2>3. list' \in Maybe(List)  BY <1>1, <1>2, <2>2 DEF List, ListBy, Maybe
  <2>. QED  BY <1>1, <1>3, <2>1, <2>2, <2>3 DEF TypeOK, Maybe
<1>5. CASE Cscope(p)
  <2>1. run' \in [Procs -> Run] /\ (xref' = xref \/ (list # NoFile /\ xref' = IndexOf(list)))
    BY <1>5, StepMoves DEF Moved
  <2>2. list' = list /\ tags' = tags /\ db' = db /\ cg' = cg  BY <1>5 DEF Cscope
  <2>3. xref' \in Maybe(Index)  BY <1>1, <2>1, IndexTyped DEF Maybe
  <2>. QED  BY <1>1, <1>3, <2>1, <2>2, <2>3 DEF TypeOK
<1>6. CASE Ctags(p)
  <2>1. run' \in [Procs -> Run] /\ (tags' = tags \/ (list # NoFile /\ tags' = IndexOf(list)))
    BY <1>6, StepMoves DEF Moved
  <2>2. list' = list /\ xref' = xref /\ db' = db /\ cg' = cg  BY <1>6 DEF Ctags
  <2>3. tags' \in Maybe(Index)  BY <1>1, <2>1, IndexTyped DEF Maybe
  <2>. QED  BY <1>1, <1>3, <2>1, <2>2, <2>3 DEF TypeOK
<1>7. ASSUME NEW s \in Pcs, NEW next \in Pcs, Cqmakedb(p, s, next) PROVE TypeOK'
  <2>1. /\ run' \in [Procs -> Run]
        /\ \/ xref # NoFile /\ db' = [db EXCEPT ![Repo(p)] = [xref |-> xref, tags |-> tags]]
           \/ xref # NoFile /\ db' = [db EXCEPT ![Repo(p)] = [xref |-> xref, tags |-> NoFile]]
           \/ db' = db
    BY <1>7, StepMoves DEF Moved
  <2>2. list' = list /\ xref' = xref /\ tags' = tags /\ cg' = cg  BY <1>7 DEF Cqmakedb
  <2>3. ASSUME NEW t \in Maybe(Index), xref # NoFile
        PROVE  [xref |-> xref, tags |-> t] \in Maybe(Database)
    BY <1>1, <2>3 DEF Maybe, Database
  <2>4. NoFile \in Maybe(Index)  BY DEF Maybe
  <2>5. db' \in [Repos -> Maybe(Database)]
    <3>1. CASE db' = db  BY <1>1, <3>1
    <3>2. ASSUME NEW d \in Maybe(Database), db' = [db EXCEPT ![Repo(p)] = d]
          PROVE  db' \in [Repos -> Maybe(Database)]
      BY <1>1, <3>2
    <3>. QED  BY <1>1, <2>1, <2>3, <2>4, <3>1, <3>2
  <2>. QED  BY <1>1, <1>3, <2>1, <2>2, <2>5 DEF TypeOK
<1>8. CASE MakeDb(p) \/ CreateCqmakedb(p)
  <2>1. "makedb" \in Pcs /\ "makedb again" \in Pcs /\ "search" \in Pcs  BY DEF Pcs, Steps
  <2>. QED  BY <1>7, <1>8, <2>1 DEF MakeDb, CreateCqmakedb
<1>9. CASE Cqsearch(p)
  <2>1. /\ run' \in [Procs -> Run]
        /\ \/ /\ db[Repo(p)] # NoFile
              /\ cg' = [cg EXCEPT ![Target(p)] = [of |-> db[Repo(p)], rebased |-> FALSE]]
           \/ cg' = cg
    BY <1>9, StepMoves DEF Moved
  <2>2. list' = list /\ xref' = xref /\ tags' = tags /\ db' = db  BY <1>9 DEF Cqsearch
  <2>3. db[Repo(p)] # NoFile => [of |-> db[Repo(p)], rebased |-> FALSE] \in Maybe(Graph)
    BY <1>1, <1>2 DEF Maybe, Graph
  <2>4. cg' \in [Repos \X Fns -> Maybe(Graph)]  BY <1>1, <1>2, <2>1, <2>3
  <2>. QED  BY <1>1, <1>3, <2>1, <2>2, <2>4 DEF TypeOK
<1>10. CASE Sed(p)
  <2>1. /\ run' \in [Procs -> Run]
        /\ cg' = [cg EXCEPT ![Target(p)].rebased = TRUE] \/ cg' = cg
    BY <1>10, StepMoves DEF Moved
  <2>2. list' = list /\ xref' = xref /\ tags' = tags /\ db' = db  BY <1>10 DEF Sed
  <2>3. cg[Target(p)] \in Graph => [cg[Target(p)] EXCEPT !.rebased = TRUE] \in Graph
    BY DEF Graph
  <2>4. cg' \in [Repos \X Fns -> Maybe(Graph)]
    <3>1. cg[Target(p)] \in Graph  BY <1>10 DEF Sed, At, SedInv
    <3>. QED  BY <1>1, <1>2, <2>1, <2>3, <3>1 DEF Maybe
  <2>. QED  BY <1>1, <1>3, <2>1, <2>2, <2>4 DEF TypeOK
<1>11. CASE CleanIntermediateFiles(p)
  <2>1. run' \in [Procs -> Run]  BY <1>11, StepMoves DEF Moved
  <2>2. /\ list' = list /\ db' = db /\ cg' = cg
        /\ xref' \in {xref, NoFile} /\ tags' \in {tags, NoFile}
    BY <1>11 DEF CleanIntermediateFiles
  <2>3. xref' \in Maybe(Index) /\ tags' \in Maybe(Index)  BY <1>1, <2>2 DEF Maybe
  <2>. QED  BY <1>1, <1>3, <2>1, <2>2, <2>3 DEF TypeOK
<1>. QED  BY <1>4, <1>5, <1>6, <1>8, <1>9, <1>10, <1>11 DEF Step

-----------------------------------------------------------------------------
(* Files. *)
LEMMA CoveredByLater ==
    ASSUME NEW ed \in [Repos -> Nat], NEW li \in Maybe(List), NEW l \in List, Covered(l, ed, li)
    PROVE  /\ \A l2 : l2.repo \in Repos /\ l2.ver = ed[l2.repo] => Covered(l, ed, l2)
           /\ \A r \in Repos : Covered(l, [ed EXCEPT ![r] = @ + 1], li)
<1>1. l.repo \in Repos /\ l.ver \in Nat /\ ed[l.repo] \in Nat  BY DEF List
<1>2. l.ver <= ed[l.repo]  BY DEF Covered
<1>3. ASSUME NEW l2, l2.repo \in Repos, l2.ver = ed[l2.repo] PROVE Covered(l, ed, l2)
  BY <1>1, <1>3, <1>2 DEF Covered
<1>4. ASSUME NEW r \in Repos PROVE Covered(l, [ed EXCEPT ![r] = @ + 1], li)
  <2>1. l.ver <= [ed EXCEPT ![r] = @ + 1][l.repo]  BY <1>1, <1>2
  <2>. QED  BY <2>1 DEF Covered
<1>. QED  BY <1>3, <1>4

(* The lists that the files go back to are lists. *)
LEMMA ListsTyped ==
    ASSUME WfTypeOK
    PROVE  /\ xref # NoFile => xref.list \in List
           /\ \A r \in Repos : db[r] # NoFile => db[r].xref.list \in List
           /\ \A k \in Repos \X Fns : cg[k] # NoFile => cg[k].of.xref.list \in List
           /\ \A k \in Repos \X Fns : cleaned[k] # NoFile => cleaned[k].of.xref.list \in List
<1>1. /\ xref \in Maybe(Index) /\ db \in [Repos -> Maybe(Database)]
      /\ cg \in [Repos \X Fns -> Maybe(Graph)] /\ cleaned \in [Repos \X Fns -> Maybe(Graph)]
  BY DEF WfTypeOK, TypeOK
<1>2. \A i \in Index : i.list \in List  BY DEF Index
<1>3. \A d \in Database : d.xref.list \in List  BY <1>2 DEF Database
<1>4. \A g \in Graph : g.of.xref.list \in List  BY <1>3 DEF Graph
<1>. QED  BY <1>1, <1>2, <1>3, <1>4 DEF Maybe

(* If lists that were covered are, only the file that a step writes counts. *)
LEMMA FilesKept ==
    ASSUME WfTypeOK, FilesInv, \A l \in List : Covered(l, edits, list) => Covered(l, edits', list'),
           list' # NoFile => list'.ver <= edits'[list'.repo]
    PROVE  /\ xref' = xref => (xref' # NoFile => Covered(xref'.list, edits', list'))
           /\ \A r \in Repos : db'[r] = db[r] =>
                 (db'[r] # NoFile => CoveredIn(db'[r], r, edits', list'))
           /\ \A k \in Repos \X Fns : cg'[k] = cg[k] =>
                 (cg'[k] # NoFile => CoveredIn(cg'[k].of, k[1], edits', list'))
           /\ \A k \in Repos \X Fns : cleaned'[k] = cleaned[k] =>
                 (cleaned'[k] # NoFile => CoveredIn(cleaned'[k].of, k[1], edits', list'))
<1>1. xref' = xref => (xref' # NoFile => Covered(xref'.list, edits', list'))
  BY ListsTyped DEF FilesInv
<1>2. \A r \in Repos : db'[r] = db[r] => (db'[r] # NoFile => CoveredIn(db'[r], r, edits', list'))
  BY ListsTyped DEF FilesInv, CoveredIn
<1>3. \A k \in Repos \X Fns : cg'[k] = cg[k] =>
          (cg'[k] # NoFile => CoveredIn(cg'[k].of, k[1], edits', list'))
  BY ListsTyped DEF FilesInv, CoveredIn
<1>4. \A k \in Repos \X Fns : cleaned'[k] = cleaned[k] =>
          (cleaned'[k] # NoFile => CoveredIn(cleaned'[k].of, k[1], edits', list'))
  BY ListsTyped DEF FilesInv, CoveredIn
<1>. QED  BY <1>1, <1>2, <1>3, <1>4

LEMMA FilesOfStep ==
    ASSUME WfInv, NEW p \in Procs, Step(p), cleaned' = cleaned
    PROVE  FilesInv'
<1>1. /\ edits \in [Repos -> Nat] /\ list \in Maybe(List) /\ xref \in Maybe(Index)
      /\ tags \in Maybe(Index) /\ db \in [Repos -> Maybe(Database)]
      /\ cg \in [Repos \X Fns -> Maybe(Graph)] /\ run \in [Procs -> Run]
      /\ TypeOK /\ WfTypeOK /\ FilesInv /\ OwnAt(p)
  BY DEF WfInv, FlowInv, WfTypeOK, TypeOK
<1>2. Repo(p) \in Repos /\ Target(p) \in Repos \X Fns /\ Target(p)[1] = Repo(p)
  BY <1>1, RunFields DEF Repo, Target
<1>3. edits' = edits
  BY DEF Step, OpenList, FillList, Cscope, Ctags, MakeDb, CreateCqmakedb, Cqmakedb, Cqsearch, Sed,
         CleanIntermediateFiles
<1>4. CASE (OpenList(p) \/ FillList(p)) /\ list' # list
  <2>1. xref' = xref /\ db' = db /\ cg' = cg  BY <1>4 DEF OpenList, FillList
  <2>2. list'.repo = Repo(p) /\ list'.ver = edits[Repo(p)]  BY <1>1, <1>4, StepMoves DEF ListBy
  <2>3. \A l \in List : Covered(l, edits, list) => Covered(l, edits', list')
    BY <1>1, <1>2, <1>3, <2>2, CoveredByLater
  <2>4. list'.ver <= edits'[list'.repo]  BY <1>1, <1>2, <1>3, <2>2
  <2>. QED  BY <1>1, <2>1, <2>3, <2>4, FilesKept DEF FilesInv
<1>5. ASSUME list' = list
      PROVE  /\ \A l \in List : Covered(l, edits, list) => Covered(l, edits', list')
             /\ list' # NoFile => list'.ver <= edits'[list'.repo]
  BY <1>1, <1>3, <1>5 DEF FilesInv
<1>12. CASE (OpenList(p) \/ FillList(p)) /\ list' = list
  <2>1. xref' = xref /\ db' = db /\ cg' = cg  BY <1>12 DEF OpenList, FillList
  <2>. QED  BY <1>1, <1>5, <1>12, <2>1, FilesKept DEF FilesInv
<1>6. CASE Cscope(p)
  <2>1. list' = list /\ db' = db /\ cg' = cg  BY <1>6 DEF Cscope
  <2>2. xref' = xref \/ (list # NoFile /\ xref' = IndexOf(list))  BY <1>1, <1>6, StepMoves
  <2>3. list # NoFile => Covered(list, edits, list)
    <3>1. list # NoFile => list.ver \in Nat  BY <1>1 DEF Maybe, List
    <3>. QED  BY <1>1, <3>1 DEF FilesInv, Covered
  <2>4. xref' # NoFile => Covered(xref'.list, edits', list')
    BY <1>1, <1>3, <1>5, <2>1, <2>2, <2>3, FilesKept, IndexTyped
  <2>. QED  BY <1>1, <1>5, <2>1, <2>4, FilesKept DEF FilesInv
<1>7. CASE Ctags(p)
  <2>1. list' = list /\ xref' = xref /\ db' = db /\ cg' = cg  BY <1>7 DEF Ctags
  <2>. QED  BY <1>1, <1>5, <2>1, FilesKept DEF FilesInv
<1>8. CASE MakeDb(p) \/ CreateCqmakedb(p)
  <2>1. list' = list /\ xref' = xref /\ cg' = cg
    BY <1>8 DEF MakeDb, CreateCqmakedb, Cqmakedb
  <2>2. "makedb" \in Pcs /\ "makedb again" \in Pcs /\ "search" \in Pcs  BY DEF Pcs, Steps
  <2>3. \/ \E t : xref # NoFile /\ db' = [db EXCEPT ![Repo(p)] = [xref |-> xref, tags |-> t]]
        \/ db' = db
    BY <1>1, <1>8, <2>2, StepMoves DEF MakeDb, CreateCqmakedb
  <2>4. xref # NoFile => xref.list.repo = Repo(p)
    <3>1. run[p].pc \in {"ctags", "makedb", "makedb again"}
      BY <1>8 DEF MakeDb, CreateCqmakedb, Cqmakedb, At
    <3>. QED  BY <1>1, <3>1 DEF OwnAt, Own, Fresh, Mine, Repo
  <2>5. ASSUME NEW r \in Repos, db'[r] # NoFile PROVE CoveredIn(db'[r], r, edits', list')
    <3>1. CASE db'[r] = db[r]  BY <1>1, <1>5, <2>1, <2>5, <3>1, FilesKept
    <3>2. CASE db'[r] # db[r]
      <4>1. r = Repo(p) /\ xref # NoFile /\ db'[r].xref = xref  BY <1>1, <1>2, <2>3, <3>2
      <4>2. Covered(xref.list, edits, list)  BY <1>1, <4>1 DEF FilesInv
      <4>. QED  BY <1>3, <2>1, <2>4, <4>1, <4>2 DEF CoveredIn
    <3>. QED  BY <3>1, <3>2
  <2>. QED  BY <1>1, <1>5, <2>1, <2>5, FilesKept DEF FilesInv
<1>9. CASE Cqsearch(p)
  <2>1. list' = list /\ xref' = xref /\ db' = db  BY <1>9 DEF Cqsearch
  <2>2. \/ /\ db[Repo(p)] # NoFile
           /\ cg' = [cg EXCEPT ![Target(p)] = [of |-> db[Repo(p)], rebased |-> FALSE]]
        \/ cg' = cg
    BY <1>1, <1>9, StepMoves
  <2>3. ASSUME NEW k \in Repos \X Fns, cg'[k] # NoFile PROVE CoveredIn(cg'[k].of, k[1], edits', list')
    <3>1. CASE cg'[k] = cg[k]  BY <1>1, <1>5, <2>1, <2>3, <3>1, FilesKept
    <3>2. CASE cg'[k] # cg[k]
      <4>1. k = Target(p) /\ db[Repo(p)] # NoFile /\ cg'[k].of = db[Repo(p)]  BY <1>1, <1>2, <2>2, <3>2
      <4>2. CoveredIn(db[Repo(p)], Repo(p), edits, list)  BY <1>1, <1>2, <4>1 DEF FilesInv
      <4>. QED  BY <1>2, <1>3, <2>1, <4>1, <4>2
    <3>. QED  BY <3>1, <3>2
  <2>. QED  BY <1>1, <1>5, <2>1, <2>3, FilesKept DEF FilesInv
<1>10. CASE Sed(p)
  <2>1. list' = list /\ xref' = xref /\ db' = db  BY <1>10 DEF Sed
  <2>2. cg' = [cg EXCEPT ![Target(p)].rebased = TRUE] \/ cg' = cg  BY <1>1, <1>10, StepMoves
  <2>3. cg[Target(p)] \in Graph  BY <1>10 DEF WfInv, FlowInv, Sed, At, SedInv
  <2>4. \A k \in Repos \X Fns : cg'[k].of = cg[k].of /\ (cg'[k] # NoFile => cg[k] # NoFile \/ k = Target(p))
    BY <1>1, <1>2, <2>2, <2>3 DEF Graph
  <2>5. ASSUME NEW k \in Repos \X Fns, cg'[k] # NoFile PROVE CoveredIn(cg'[k].of, k[1], edits', list')
    <3>1. cg[k] # NoFile  BY <2>3, <2>4, <2>5, NoFileAssumption
    <3>. QED  BY <1>1, <1>3, <2>1, <2>4, <3>1 DEF FilesInv
  <2>. QED  BY <1>1, <1>5, <2>1, <2>5, FilesKept DEF FilesInv
<1>11. CASE CleanIntermediateFiles(p)
  <2>1. list' = list /\ db' = db /\ cg' = cg /\ xref' \in {xref, NoFile}
    BY <1>11 DEF CleanIntermediateFiles
  <2>2. xref' # NoFile => Covered(xref'.list, edits', list')
    BY <1>1, <1>5, <2>1, FilesKept
  <2>. QED  BY <1>1, <1>5, <2>1, <2>2, FilesKept DEF FilesInv
<1>. QED  BY <1>4, <1>6, <1>7, <1>8, <1>9, <1>10, <1>11, <1>12 DEF Step

LEMMA SedOfStep ==
    ASSUME TypeOK, SedInv, NEW p \in Procs, Step(p)
    PROVE  SedInv'
<1>1. cg \in [Repos \X Fns -> Maybe(Graph)] /\ run \in [Procs -> Run] /\ db \in [Repos -> Maybe(Database)]
  BY DEF TypeOK
<1>2. \A q \in Procs : Repo(q) \in Repos /\ Target(q) \in Repos \X Fns  BY <1>1, RunFields DEF Repo, Target
<1>3. /\ \A q \in Procs : run'[q].repo = run[q].repo /\ run'[q].fn = run[q].fn
      /\ \A q \in Procs : q # p => run'[q] = run[q]
  <2>1. "makedb" \in Pcs /\ "makedb again" \in Pcs /\ "search" \in Pcs  BY DEF Pcs, Steps
  <2>2. \E s, g : Moved(p, s, g)  BY <2>1, StepMoves DEF Step, MakeDb, CreateCqmakedb
  <2>. QED  BY <2>2 DEF Moved
<1>4. \A k \in Repos \X Fns : cg[k] \in Graph => cg'[k] \in Graph
  <2>1. CASE Cqsearch(p)
    <3>1. \/ /\ db[Repo(p)] # NoFile
             /\ cg' = [cg EXCEPT ![Target(p)] = [of |-> db[Repo(p)], rebased |-> FALSE]]
          \/ cg' = cg
      BY <2>1, StepMoves
    <3>2. db[Repo(p)] # NoFile => [of |-> db[Repo(p)], rebased |-> FALSE] \in Graph
      BY <1>1, <1>2 DEF Maybe, Graph
    <3>. QED  BY <1>1, <3>1, <3>2
  <2>2. CASE Sed(p)
    <3>1. cg' = [cg EXCEPT ![Target(p)].rebased = TRUE] \/ cg' = cg  BY <2>2, StepMoves
    <3>2. \A g \in Graph : [g EXCEPT !.rebased = TRUE] \in Graph  BY DEF Graph
    <3>. QED  BY <1>1, <3>1, <3>2
  <2>3. CASE ~Cqsearch(p) /\ ~Sed(p)
    <3>1. cg' = cg
      BY <2>3 DEF Step, OpenList, FillList, Cscope, Ctags, MakeDb, CreateCqmakedb, Cqmakedb,
                  CleanIntermediateFiles
    <3>. QED  BY <3>1
  <2>. QED  BY <2>1, <2>2, <2>3
<1>5. run'[p].pc = "sed" => cg'[Target(p)] \in Graph
  <2>1. CASE Cqsearch(p)
    <3>1. \/ /\ db[Repo(p)] # NoFile
             /\ cg' = [cg EXCEPT ![Target(p)] = [of |-> db[Repo(p)], rebased |-> FALSE]]
          \/ run'[p].pc = "failed"
      BY <2>1, StepMoves DEF Moved
    <3>2. db[Repo(p)] # NoFile => [of |-> db[Repo(p)], rebased |-> FALSE] \in Graph
      BY <1>1, <1>2 DEF Maybe, Graph
    <3>. QED  BY <1>1, <1>2, <3>1, <3>2
  <2>2. CASE ~Cqsearch(p)
    <3>1. "makedb" \in Pcs /\ "makedb again" \in Pcs /\ "search" \in Pcs  BY DEF Pcs, Steps
    <3>. QED  BY <2>2, <3>1, StepMoves DEF Step, MakeDb, CreateCqmakedb, Moved
  <2>. QED  BY <2>1, <2>2
<1>6. ASSUME NEW q \in Procs, run'[q].pc = "sed" PROVE cg'[Target(q)] \in Graph
  <2>1. CASE q = p  BY <1>5, <1>6, <2>1
  <2>2. CASE q # p
    <3>1. cg[Target(q)] \in Graph  BY <1>3, <1>6, <2>2 DEF SedInv
    <3>. QED  BY <1>2, <1>4, <3>1
  <2>. QED  BY <2>1, <2>2
<1>7. \A q \in Procs : Target(q)' = Target(q)  BY <1>3 DEF Target, Repo
<1>. QED  BY <1>6, <1>7 DEF SedInv

-----------------------------------------------------------------------------
(* Runs. *)
(* The run of a shell is as right as before if what it relies on is, and   *)
(* edits only get more.                                                    *)
LEMMA OwnKept ==
    ASSUME NEW p, NEW x \in Run, NEW e \in Nat, NEW e2 \in Nat, e <= e2,
           NEW li, NEW xr, NEW tg, NEW d, NEW li2, NEW xr2, NEW tg2, NEW d2,
           Own(p, x, e, li, xr, tg, d),
           p \in Indexers => li2 = li /\ xr2 \in {xr, NoFile} /\ tg2 \in {tg, NoFile} /\ d2 = d
    PROVE  Own(p, x, e2, li2, xr2, tg2, d2)
<1>1. x.began \in Nat  BY RunFields
<1>2. x.began <= e2
  <2>1. x.began <= e  BY DEF Own
  <2>. QED  BY <1>1, <2>1
<1>3. CASE p \in Indexers
  <2>1. xr = NoFile \/ Fresh(x, xr) => xr2 = NoFile \/ Fresh(x, xr2)  BY <1>3
  <2>2. tg = NoFile \/ Fresh(x, tg) => tg2 = NoFile \/ Fresh(x, tg2)  BY <1>3
  <2>3. li2 = li /\ d2 = d  BY <1>3
  <2>. HIDE DEF Fresh, Mine, Complete, Indexing
  <2>. QED  BY <1>2, <1>3, <2>1, <2>2, <2>3 DEF Own
<1>4. CASE p \notin Indexers
  <2>1. x.pc \notin Indexing /\ ~(x.own /\ x.pc = "search")  BY <1>4 DEF Own
  <2>2. x.pc \notin {"fill", "cscope", "ctags", "makedb", "makedb again"}  BY <2>1 DEF Indexing
  <2>. QED  BY <1>2, <2>1, <2>2 DEF Own
<1>. QED  BY <1>3, <1>4

(* Every step of a run but the query finds the run where the one before    *)
(* left it.                                                                *)
LEMMA OwnOfActor ==
    ASSUME WfInv, NEW p \in Procs, Step(p)
    PROVE  OwnAt(p)'
<1>1. /\ edits \in [Repos -> Nat] /\ list \in Maybe(List) /\ xref \in Maybe(Index)
      /\ tags \in Maybe(Index) /\ db \in [Repos -> Maybe(Database)] /\ run \in [Procs -> Run]
      /\ TypeOK
      /\ Own(p, run[p], edits[Repo(p)], list, xref, tags, db[Repo(p)])
  BY DEF WfInv, FlowInv, WfTypeOK, TypeOK, OwnAt
<1>2. Repo(p) = run[p].repo /\ Repo(p) \in Repos /\ run[p].began \in Nat /\ edits[Repo(p)] \in Nat
  BY <1>1, RunFields DEF Repo
<1>3. edits' = edits
  BY DEF Step, OpenList, FillList, Cscope, Ctags, MakeDb, CreateCqmakedb, Cqmakedb, Cqsearch, Sed,
         CleanIntermediateFiles
<1>. DEFINE x == run[p]
            y == run'[p]
            e == edits[Repo(p)]
            d == db[Repo(p)]
<1>4. y.repo = x.repo /\ y.own = x.own /\ y.began = x.began
  <2>1. "makedb" \in Pcs /\ "makedb again" \in Pcs /\ "search" \in Pcs  BY DEF Pcs, Steps
  <2>2. \E s, g : Moved(p, s, g)  BY <1>1, <2>1, StepMoves DEF Step, MakeDb, CreateCqmakedb
  <2>. QED  BY <2>2 DEF Moved
<1>5. SUFFICES Own(p, y, e, list', xref', tags', db'[Repo(p)])
  BY <1>3, <1>4 DEF OwnAt, Repo
<1>6. /\ \A i : Fresh(y, i) <=> Fresh(x, i)
      /\ \A c : Complete(y, c) <=> Complete(x, c)
      /\ \A l : Mine(y, l) <=> Mine(x, l)
  BY <1>4 DEF Fresh, Complete, Mine
<1>7. x.began <= e  BY <1>1 DEF Own
<1>8. CASE y.pc = "failed"
  BY <1>4, <1>7, <1>8 DEF Own, Indexing
<1>9. CASE OpenList(p) /\ y.pc # "failed"
  <2>1. list' = ListBy(p, FALSE) /\ y.pc = "fill" /\ x.pc = "list"
    BY <1>1, <1>9, StepMoves DEF OpenList, At, Moved
  <2>2. x.own /\ p \in Indexers  BY <1>1, <2>1 DEF Own, Indexing
  <2>3. list'.by = p  BY <2>1 DEF ListBy
  <2>. QED  BY <1>4, <1>7, <2>1, <2>2, <2>3 DEF Own
<1>15. CASE FillList(p) /\ y.pc # "failed"
  <2>1. y.pc = "cscope" /\ x.pc = "fill" /\ (list.by = p => list' = ListBy(p, TRUE))
    BY <1>1, <1>15, StepMoves DEF FillList, At, Moved
  <2>2. x.own /\ p \in Indexers /\ list.by = p  BY <1>1, <2>1 DEF Own, Indexing
  <2>3. list'.repo = Repo(p) /\ list'.ver = e /\ list'.whole  BY <2>1, <2>2 DEF ListBy
  <2>4. Mine(y, list')  BY <1>2, <1>4, <1>7, <2>3 DEF Mine
  <2>. QED  BY <1>4, <1>7, <2>1, <2>2, <2>4 DEF Own
<1>10. CASE Cscope(p) /\ y.pc # "failed"
  <2>1. /\ list' = list /\ list # NoFile /\ xref' = IndexOf(list) /\ y.pc = "ctags" /\ x.pc = "cscope"
    BY <1>1, <1>10, StepMoves DEF Cscope, At, Moved
  <2>2. x.own /\ p \in Indexers /\ Mine(x, list)
    BY <1>1, <2>1 DEF Own, Indexing
  <2>3. Fresh(x, xref') \/ xref' = NoFile  BY <1>1, <2>1, <2>2, IndexTyped DEF Fresh
  <2>. QED  BY <1>4, <1>6, <1>7, <2>1, <2>2, <2>3 DEF Own
<1>11. CASE Ctags(p) /\ y.pc # "failed"
  <2>1. /\ list' = list /\ list # NoFile /\ tags' = IndexOf(list) /\ y.pc = "makedb" /\ x.pc = "ctags"
        /\ xref' = xref
    BY <1>1, <1>11, StepMoves DEF Ctags, At, Moved
  <2>2. /\ x.own /\ p \in Indexers /\ Mine(x, list)
        /\ Fresh(x, xref) \/ xref = NoFile
    BY <1>1, <2>1 DEF Own, Indexing
  <2>3. Fresh(x, tags') \/ tags' = NoFile  BY <1>1, <2>1, <2>2, IndexTyped DEF Fresh
  <2>. QED  BY <1>4, <1>6, <1>7, <2>1, <2>2, <2>3 DEF Own
<1>12. CASE (MakeDb(p) \/ CreateCqmakedb(p)) /\ y.pc # "failed"
  <2>1. "makedb" \in Pcs /\ "makedb again" \in Pcs /\ "search" \in Pcs  BY DEF Pcs, Steps
  <2>2. /\ list' = list /\ xref' = xref /\ tags' = tags /\ xref # NoFile /\ tags # NoFile
        /\ \/ x.pc = "makedb" /\ y.pc = "makedb again"
           \/ x.pc = "makedb again" /\ y.pc = "search"
        /\ db' = [db EXCEPT ![Repo(p)] = [xref |-> xref, tags |-> tags]]
    BY <1>1, <1>12, <2>1, StepMoves DEF MakeDb, CreateCqmakedb, Cqmakedb, At, Moved
  <2>3. /\ x.own /\ p \in Indexers /\ Mine(x, list)
        /\ Fresh(x, xref) /\ Fresh(x, tags)
    BY <1>1, <2>2 DEF Own, Indexing
  <2>4. db'[Repo(p)] = [xref |-> xref, tags |-> tags]  BY <1>1, <1>2, <2>2
  <2>5. Complete(x, db'[Repo(p)])  BY <2>3, <2>4 DEF Complete
  <2>. QED  BY <1>4, <1>6, <1>7, <2>2, <2>3, <2>5 DEF Own
<1>13. CASE Cqsearch(p) /\ y.pc # "failed"
  <2>1. x.pc = "search" /\ y.pc = "sed" /\ y.got = d
    BY <1>1, <1>13, StepMoves DEF Cqsearch, At, Moved
  <2>2. x.own => Complete(x, d)  BY <1>1, <2>1 DEF Own
  <2>. QED  BY <1>4, <1>6, <1>7, <2>1, <2>2 DEF Own, Indexing
<1>14. CASE (Sed(p) \/ CleanIntermediateFiles(p)) /\ y.pc # "failed"
  <2>1. /\ x.pc \in {"sed", "clean"} /\ y.pc \in {"clean", "ok"} /\ y.got = x.got
    BY <1>1, <1>14, StepMoves DEF Sed, CleanIntermediateFiles, At, Moved
  <2>2. x.own => Complete(x, x.got)  BY <1>1, <2>1 DEF Own
  <2>. QED  BY <1>4, <1>6, <1>7, <2>1, <2>2 DEF Own, Indexing
<1>. QED  BY <1>8, <1>9, <1>10, <1>11, <1>12, <1>13, <1>14, <1>15 DEF Step

(* A step of one shell does not disturb what another one relies on: only   *)
(* an indexing run overwrites the index.                                   *)
LEMMA OwnOfOthers ==
    ASSUME SingleIndexer, WfInv, NEW p \in Procs, Step(p), NEW q \in Procs, q # p
    PROVE  OwnAt(q)'
<1>1. /\ edits \in [Repos -> Nat] /\ run \in [Procs -> Run] /\ TypeOK
      /\ Own(q, run[q], edits[Repo(q)], list, xref, tags, db[Repo(q)])
      /\ Own(p, run[p], edits[Repo(p)], list, xref, tags, db[Repo(p)])
  BY DEF WfInv, FlowInv, WfTypeOK, TypeOK, OwnAt
<1>2. run[q] \in Run /\ Repo(q) \in Repos /\ edits[Repo(q)] \in Nat  BY <1>1, RunFields DEF Repo
<1>3. edits' = edits
  BY DEF Step, OpenList, FillList, Cscope, Ctags, MakeDb, CreateCqmakedb, Cqmakedb, Cqsearch, Sed,
         CleanIntermediateFiles
<1>4. run'[q] = run[q]
  <2>1. "makedb" \in Pcs /\ "makedb again" \in Pcs /\ "search" \in Pcs  BY DEF Pcs, Steps
  <2>2. \E s, g : Moved(p, s, g)  BY <1>1, <2>1, StepMoves DEF Step, MakeDb, CreateCqmakedb
  <2>. QED  BY <2>2 DEF Moved
<1>5. q \in Indexers => list' = list /\ xref' \in {xref, NoFile} /\ tags' \in {tags, NoFile} /\ db' = db
  <2>1. CASE run[p].pc \in Indexing
    BY <1>1, <2>1 DEF Own, SingleIndexer
  <2>2. CASE run[p].pc \notin Indexing
    BY <2>2 DEF Indexing, At, Step, OpenList, FillList, Cscope, Ctags, MakeDb, CreateCqmakedb,
                Cqmakedb, Cqsearch, Sed, CleanIntermediateFiles
  <2>. QED  BY <2>1, <2>2
<1>6. Own(q, run[q], edits[Repo(q)], list', xref', tags', db'[Repo(q)])
  BY <1>1, <1>2, <1>5, OwnKept
<1>. QED  BY <1>3, <1>4, <1>6 DEF OwnAt, Repo

-----------------------------------------------------------------------------
(* The whole workflow. *)
LEMMA StartTyped ==
    ASSUME TypeOK, SedInv, NEW p \in Procs, NEW r \in Repos, NEW f \in Fns, NEW own \in BOOLEAN,
           Start(p, r, f, own)
    PROVE  TypeOK' /\ SedInv'
<1>1. /\ edits' = edits /\ list' = list /\ xref' = xref /\ tags' = tags /\ db' = db /\ cg' = cg
  BY DEF Start
<1>2. /\ run' \in [Procs -> Run] /\ \A q \in Procs : q # p => run'[q] = run[q]
      /\ run'[p].pc \in {IF own THEN "list" ELSE "search", "failed"}
  BY StartRun
<1>3. TypeOK'  BY <1>1, <1>2 DEF TypeOK
<1>4. ASSUME NEW q \in Procs, run'[q].pc = "sed" PROVE cg[Target(q)'] \in Graph
  <2>1. q # p  BY <1>2, <1>4
  <2>2. run'[q] = run[q]  BY <1>2, <2>1
  <2>. QED  BY <1>4, <2>2 DEF SedInv, Target, Repo
<1>. QED  BY <1>1, <1>3, <1>4 DEF SedInv

LEMMA EditTyped ==
    ASSUME TypeOK, SedInv, NEW r \in Repos, Edit(r)
    PROVE  TypeOK' /\ SedInv'
<1>1. /\ list' = list /\ xref' = xref /\ tags' = tags /\ db' = db /\ cg' = cg /\ run' = run
      /\ edits' = [edits EXCEPT ![r] = @ + 1]
  BY DEF Edit
<1>2. edits' \in [Repos -> Nat]  BY <1>1 DEF TypeOK
<1>. QED  BY <1>1, <1>2 DEF TypeOK, SedInv, Target, Repo

LEMMA WfTypedNext ==
    ASSUME WfTypeOK, SedInv, [WfNext]_wfVars
    PROVE  WfTypeOK' /\ SedInv'
<1>1. /\ TypeOK
      /\ cg \in [Repos \X Fns -> Maybe(Graph)] /\ cleaned \in [Repos \X Fns -> Maybe(Graph)]
      /\ list \in Maybe(List) /\ out \in [Repos -> Maybe(Output)]
      /\ phase3 \in Maybe([key : Repos \X Fns, headers : List])
  BY DEF WfTypeOK, TypeOK
<1>2. CASE PhaseI
  <2>1. cleaned' = cleaned /\ phase3' = phase3 /\ out' = out /\ Next  BY <1>2 DEF PhaseI
  <2>2. TypeOK' /\ SedInv'  BY <1>1, <2>1, RunsTyped, SedOfStep, StartTyped, EditTyped DEF Next
  <2>. QED  BY <2>1, <2>2 DEF WfTypeOK
<1>3. ASSUME UNCHANGED vars PROVE TypeOK' /\ SedInv'
  BY <1>1, <1>3 DEF TypeOK, SedInv, Target, Repo, vars
<1>4. ASSUME NEW k \in Repos \X Fns, PhaseII(k) PROVE WfTypeOK' /\ SedInv'
  <2>1. /\ UNCHANGED vars /\ phase3' = phase3 /\ out' = out /\ cleaned' = [cleaned EXCEPT ![k] = cg[k]]
    BY <1>4 DEF PhaseII
  <2>2. cleaned' \in [Repos \X Fns -> Maybe(Graph)]  BY <1>1, <2>1
  <2>. QED  BY <1>1, <1>3, <2>1, <2>2 DEF WfTypeOK
<1>5. ASSUME NEW k \in Repos \X Fns, CopyHeaders(k) PROVE WfTypeOK' /\ SedInv'
  <2>1. /\ UNCHANGED vars /\ cleaned' = cleaned /\ out' = [out EXCEPT ![k[1]] = NoFile]
        /\ \/ list = NoFile /\ phase3' = NoFile
           \/ list # NoFile /\ phase3' = [key |-> k, headers |-> list]
           \/ list # NoFile /\ phase3' = [key |-> k, headers |-> [list EXCEPT !.whole = FALSE]]
    BY <1>5 DEF CopyHeaders
  <2>2. out' \in [Repos -> Maybe(Output)]  BY <1>1, <2>1 DEF Maybe
  <2>3. list # NoFile => list \in List /\ [list EXCEPT !.whole = FALSE] \in List
    BY <1>1 DEF Maybe, List
  <2>4. phase3' = NoFile \/ \E l \in List : phase3' = [key |-> k, headers |-> l]
    BY <2>1, <2>3
  <2>5. phase3' \in Maybe([key : Repos \X Fns, headers : List])  BY <2>4 DEF Maybe
  <2>. QED  BY <1>1, <1>3, <2>1, <2>2, <2>5 DEF WfTypeOK
<1>6. CASE ExtractFunctions
  <2>. DEFINE k == phase3.key
              g == cleaned[k]
              o == [headers |-> phase3.headers, graph |-> g]
  <2>1. /\ UNCHANGED vars /\ cleaned' = cleaned /\ phase3 # NoFile /\ phase3' = NoFile
        /\ out' = out \/ (g # NoFile /\ out' = [out EXCEPT ![k[1]] = o])
    BY <1>6 DEF ExtractFunctions
  <2>2. k \in Repos \X Fns /\ phase3.headers \in List  BY <1>1, <2>1 DEF Maybe
  <2>3. g # NoFile => o \in Maybe(Output)  BY <1>1, <2>2 DEF Maybe, Output
  <2>4. out' \in [Repos -> Maybe(Output)]
    <3>. HIDE DEF o, k
    <3>. QED  BY <1>1, <2>1, <2>3
  <2>5. phase3' \in Maybe([key : Repos \X Fns, headers : List])  BY <2>1 DEF Maybe
  <2>. QED  BY <1>1, <1>3, <2>1, <2>4, <2>5 DEF WfTypeOK
<1>7. CASE UNCHANGED wfVars
  <2>1. UNCHANGED vars /\ cleaned' = cleaned /\ phase3' = phase3 /\ out' = out  BY <1>7 DEF wfVars
  <2>. QED  BY <1>1, <1>3, <2>1 DEF WfTypeOK
<1>. QED  BY <1>2, <1>4, <1>5, <1>6, <1>7 DEF WfNext

-----------------------------------------------------------------------------
(* What flows from one phase to the next. *)
LEMMA StepKeepsFlow ==
    ASSUME SingleIndexer, WfInv, NEW p \in Procs, Step(p), UNCHANGED <<cleaned, phase3, out>>
    PROVE  FlowInv'
<1>1. cleaned' = cleaned /\ phase3' = phase3 /\ out' = out  OBVIOUS
<1>2. FilesInv'  BY <1>1, FilesOfStep
<1>3. \A q \in Procs : OwnAt(q)'  BY OwnOfActor, OwnOfOthers
<1>4. PhaseInv' /\ HeadersCoverGraph'
  BY <1>1 DEF WfInv, FlowInv, PhaseInv, HeadersCoverGraph
<1>. QED  BY <1>2, <1>3, <1>4 DEF FlowInv

(* A run that starts without -d is an indexer's, and relies on nothing yet. *)
LEMMA StartKeepsFlow ==
    ASSUME WfInv, NEW p \in Procs, NEW r \in Repos, NEW f \in Fns, NEW own \in BOOLEAN,
           Start(p, r, f, own), UNCHANGED <<cleaned, phase3, out>>
    PROVE  FlowInv'
<1>1. /\ cleaned' = cleaned /\ phase3' = phase3 /\ out' = out /\ edits' = edits /\ list' = list
      /\ xref' = xref /\ tags' = tags /\ db' = db /\ cg' = cg
  BY DEF Start
<1>2. TypeOK /\ FilesInv /\ PhaseInv /\ HeadersCoverGraph
  BY DEF WfInv, FlowInv, WfTypeOK
<1>3. /\ run' \in [Procs -> Run] /\ \A q \in Procs : q # p => run'[q] = run[q]
      /\ run'[p].repo = r /\ run'[p].own = own /\ run'[p].began = edits[r]
      /\ run'[p].pc \in {IF own THEN "list" ELSE "search", "failed"}
      /\ own => p \in Indexers
  BY <1>2, StartRun
<1>4. FilesInv'  BY <1>1, <1>2 DEF FilesInv
<1>5. ASSUME NEW q \in Procs PROVE OwnAt(q)'
  <2>1. CASE q # p
    <3>1. OwnAt(q) /\ run'[q] = run[q]  BY <1>3, <2>1 DEF WfInv, FlowInv
    <3>. QED  BY <1>1, <3>1 DEF OwnAt, Repo
  <2>2. CASE q = p
    <3>1. run'[p].began <= edits[r]  BY <1>2, <1>3 DEF TypeOK
    <3>2. \/ own /\ run'[p].pc = "list" /\ p \in Indexers
          \/ ~own /\ run'[p].pc = "search"
          \/ run'[p].pc = "failed"
      BY <1>3
    <3>3. Own(p, run'[p], edits[r], list, xref, tags, db[r])
      BY <1>3, <3>1, <3>2 DEF Own, Indexing
    <3>. QED  BY <1>1, <1>3, <2>2, <3>3 DEF OwnAt, Repo
  <2>. QED  BY <2>1, <2>2
<1>6. PhaseInv' /\ HeadersCoverGraph'  BY <1>1, <1>2 DEF PhaseInv, HeadersCoverGraph
<1>. QED  BY <1>4, <1>5, <1>6 DEF FlowInv

LEMMA EditKeepsFlow ==
    ASSUME WfInv, NEW r \in Repos, Edit(r), UNCHANGED <<cleaned, phase3, out>>
    PROVE  FlowInv'
<1>1. /\ cleaned' = cleaned /\ phase3' = phase3 /\ out' = out /\ list' = list
      /\ xref' = xref /\ tags' = tags /\ db' = db /\ cg' = cg /\ run' = run
      /\ edits' = [edits EXCEPT ![r] = @ + 1]
  BY DEF Edit
<1>2. WfTypeOK /\ TypeOK /\ FilesInv /\ PhaseInv /\ HeadersCoverGraph
  BY DEF WfInv, FlowInv, WfTypeOK
<1>3. edits \in [Repos -> Nat] /\ list \in Maybe(List) /\ run \in [Procs -> Run]
  BY <1>2 DEF TypeOK
<1>4. edits' \in [Repos -> Nat] /\ \A x \in Repos : edits[x] <= edits'[x]  BY <1>1, <1>3
<1>5. FilesInv'
  <2>1. \A l \in List : Covered(l, edits, list) => Covered(l, edits', list')
    BY <1>1, <1>3, CoveredByLater
  <2>2. list' # NoFile => list'.ver <= edits'[list'.repo]
    <3>1. list # NoFile => list.repo \in Repos /\ list.ver \in Nat  BY <1>3 DEF Maybe, List
    <3>2. list # NoFile => list.ver <= edits[list.repo]  BY <1>2 DEF FilesInv
    <3>. QED  BY <1>1, <1>3, <1>4, <3>1, <3>2
  <2>. QED  BY <1>1, <1>2, <2>1, <2>2, FilesKept DEF FilesInv
<1>6. ASSUME NEW p \in Procs PROVE OwnAt(p)'
  <2>1. Own(p, run[p], edits[Repo(p)], list, xref, tags, db[Repo(p)])
    BY DEF WfInv, FlowInv, OwnAt
  <2>2. /\ run[p] \in Run /\ Repo(p) \in Repos /\ edits[Repo(p)] \in Nat /\ edits'[Repo(p)] \in Nat
        /\ edits[Repo(p)] <= edits'[Repo(p)]
    BY <1>3, <1>4, RunFields DEF Repo
  <2>3. Own(p, run[p], edits'[Repo(p)], list, xref, tags, db[Repo(p)])
    BY <2>1, <2>2, OwnKept
  <2>. QED  BY <1>1, <2>3 DEF OwnAt, Repo
<1>7. PhaseInv' /\ HeadersCoverGraph'  BY <1>1, <1>2 DEF PhaseInv, HeadersCoverGraph
<1>. QED  BY <1>5, <1>6, <1>7 DEF FlowInv

(* Phases II and III leave the files of Phase I alone. *)
LEMMA LaterPhasesKeepFlow ==
    ASSUME WfInv, UNCHANGED vars,
           \A k \in Repos \X Fns :
               cleaned'[k] # NoFile => CoveredIn(cleaned'[k].of, k[1], edits, list),
           PhaseInv', HeadersCoverGraph'
    PROVE  FlowInv'
<1>1. /\ list' = list /\ xref' = xref /\ tags' = tags /\ db' = db /\ cg' = cg /\ run' = run
      /\ edits' = edits
  BY DEF vars
<1>2. FilesInv'  BY <1>1 DEF WfInv, FlowInv, FilesInv
<1>3. \A p \in Procs : OwnAt(p)'  BY <1>1 DEF WfInv, FlowInv, OwnAt, Repo
<1>. QED  BY <1>2, <1>3 DEF FlowInv

LEMMA WfNextKeepsInv ==
    ASSUME SingleIndexer, WfInv, [WfNext]_wfVars
    PROVE  WfInv'
<1>. SUFFICES FlowInv'  BY WfTypedNext DEF WfInv
<1>1. /\ FilesInv /\ PhaseInv /\ HeadersCoverGraph
      /\ cg \in [Repos \X Fns -> Maybe(Graph)] /\ cleaned \in [Repos \X Fns -> Maybe(Graph)]
      /\ out \in [Repos -> Maybe(Output)] /\ list \in Maybe(List)
      /\ phase3 \in Maybe([key : Repos \X Fns, headers : List])
  BY DEF WfInv, FlowInv, WfTypeOK, TypeOK
<1>2. CASE PhaseI  BY <1>2, StepKeepsFlow, StartKeepsFlow, EditKeepsFlow DEF PhaseI, Next
<1>3. cleaned' = cleaned =>
          \A j \in Repos \X Fns : cleaned'[j] # NoFile => CoveredIn(cleaned'[j].of, j[1], edits, list)
  BY <1>1 DEF FilesInv
<1>4. ASSUME NEW k \in Repos \X Fns, PhaseII(k) PROVE FlowInv'
  <2>1. /\ cg[k] # NoFile /\ phase3 = NoFile /\ UNCHANGED vars /\ phase3' = phase3 /\ out' = out
        /\ cleaned' = [cleaned EXCEPT ![k] = cg[k]]
    BY <1>4 DEF PhaseII
  <2>2. ASSUME NEW j \in Repos \X Fns, cleaned'[j] # NoFile
        PROVE  CoveredIn(cleaned'[j].of, j[1], edits, list)
    <3>1. cleaned'[j] = IF j = k THEN cg[k] ELSE cleaned[j]  BY <1>1, <2>1
    <3>. QED  BY <1>1, <2>2, <3>1 DEF FilesInv
  <2>3. PhaseInv' /\ HeadersCoverGraph'  BY <1>1, <2>1 DEF PhaseInv, HeadersCoverGraph
  <2>. QED  BY <2>1, <2>2, <2>3, LaterPhasesKeepFlow
<1>5. ASSUME NEW k \in Repos \X Fns, CopyHeaders(k) PROVE FlowInv'
  <2>1. /\ UNCHANGED vars /\ cleaned' = cleaned /\ out' = [out EXCEPT ![k[1]] = NoFile]
        /\ \/ list = NoFile /\ phase3' = NoFile
           \/ list # NoFile /\ phase3' = [key |-> k, headers |-> list]
           \/ list # NoFile /\ phase3' = [key |-> k, headers |-> [list EXCEPT !.whole = FALSE]]
    BY <1>5 DEF CopyHeaders
  <2>2. PhaseInv'
    <3>1. CASE phase3' = NoFile  BY <3>1 DEF PhaseInv
    <3>2. ASSUME NEW l, l.repo = list.repo, l.ver = list.ver, list # NoFile,
                 phase3' = [key |-> k, headers |-> l]
          PROVE  PhaseInv'
      <4>1. cleaned'[k] # NoFile /\ l.repo = k[1] => cleaned'[k].of.xref.list.ver <= l.ver
        BY <1>3, <2>1, <3>2 DEF CoveredIn, Covered
      <4>. QED  BY <3>2, <4>1 DEF PhaseInv
    <3>3. list # NoFile => LET l == [list EXCEPT !.whole = FALSE]
                           IN  l.repo = list.repo /\ l.ver = list.ver
      BY <1>1 DEF Maybe, List
    <3>. QED  BY <2>1, <3>1, <3>2, <3>3
  <2>3. \A r \in Repos : out'[r] # NoFile => out'[r] = out[r]  BY <1>1, <2>1
  <2>4. HeadersCoverGraph'  BY <1>1, <2>3 DEF HeadersCoverGraph
  <2>. QED  BY <1>3, <2>1, <2>2, <2>4, LaterPhasesKeepFlow
<1>6. CASE ExtractFunctions
  <2>. DEFINE k == phase3.key
              g == cleaned[k]
              o == [headers |-> phase3.headers, graph |-> g]
  <2>1. /\ UNCHANGED vars /\ cleaned' = cleaned /\ phase3 # NoFile /\ phase3' = NoFile
        /\ out' = out \/ (g # NoFile /\ out' = [out EXCEPT ![k[1]] = o])
    BY <1>6 DEF ExtractFunctions
  <2>2. k \in Repos \X Fns /\ k[1] \in Repos  BY <1>1, <2>1 DEF Maybe
  <2>3. PhaseInv'  BY <2>1 DEF PhaseInv
  <2>4. ASSUME NEW r \in Repos, out'[r] # NoFile, out'[r].headers.repo = r, out'[r].headers.whole
        PROVE  out'[r].graph.of.xref.list.ver <= out'[r].headers.ver
    <3>1. CASE out'[r] = out[r]  BY <1>1, <2>4, <3>1 DEF HeadersCoverGraph
    <3>2. CASE out'[r] # out[r]
      <4>1. g # NoFile /\ r = k[1] /\ out'[r] = o  BY <1>1, <2>1, <2>2, <3>2
      <4>2. out'[r].headers = phase3.headers /\ out'[r].graph = g  BY <4>1
      <4>3. g.of.xref.list.ver <= phase3.headers.ver
        BY <1>1, <2>1, <2>4, <4>1, <4>2 DEF PhaseInv
      <4>. QED  BY <4>2, <4>3
    <3>. QED  BY <3>1, <3>2
  <2>5. HeadersCoverGraph'  BY <2>4 DEF HeadersCoverGraph
  <2>. QED  BY <1>3, <2>1, <2>3, <2>5, LaterPhasesKeepFlow
<1>7. CASE UNCHANGED wfVars
  <2>1. UNCHANGED vars /\ cleaned' = cleaned /\ phase3' = phase3 /\ out' = out  BY <1>7 DEF wfVars
  <2>2. PhaseInv' /\ HeadersCoverGraph'  BY <1>1, <2>1 DEF PhaseInv, HeadersCoverGraph
  <2>. QED  BY <1>3, <2>1, <2>2, LaterPhasesKeepFlow
<1>. QED  BY <1>2, <1>4, <1>5, <1>6, <1>7 DEF WfNext

LEMMA WfInitHasInv == WfInit => WfInv
<1>. SUFFICES ASSUME WfInit PROVE WfInv  OBVIOUS
<1>1. /\ edits = [r \in Repos |-> 0] /\ list = NoFile /\ xref = NoFile /\ tags = NoFile
      /\ db = [r \in Repos |-> NoFile] /\ cg = [k \in Repos \X Fns |-> NoFile]
      /\ cleaned = [k \in Repos \X Fns |-> NoFile] /\ phase3 = NoFile /\ out = [r \in Repos |-> NoFile]
  BY DEF WfInit, Init
<1>2. PICK r \in Repos, f \in Fns :
          run = [p \in Procs |-> [pc |-> "idle", repo |-> r, fn |-> f, own |-> FALSE,
                                  began |-> 0, got |-> NoFile, nr |-> 0]]
  BY DEF WfInit, Init
<1>3. run \in [Procs -> Run]
  <2>1. NoFile \in Maybe(Database) /\ "idle" \in Steps \cup {"idle", "ok", "failed"}  BY DEF Maybe
  <2>. QED  BY <1>2, <2>1 DEF Run
<1>4. WfTypeOK  BY <1>1, <1>3 DEF WfTypeOK, TypeOK, Maybe
<1>5. \A p \in Procs : run[p].pc = "idle" /\ run[p].repo = r /\ run[p].began = 0  BY <1>2
<1>6. SedInv  BY <1>5 DEF SedInv
<1>7. FilesInv  BY <1>1 DEF FilesInv
<1>8. ASSUME NEW p \in Procs PROVE OwnAt(p)
  <2>1. run[p].pc = "idle" /\ Repo(p) = r /\ run[p].began <= edits[Repo(p)]
    BY <1>1, <1>5 DEF Repo
  <2>. QED  BY <2>1 DEF OwnAt, Own, Indexing
<1>9. PhaseInv /\ HeadersCoverGraph  BY <1>1 DEF PhaseInv, HeadersCoverGraph
<1>. QED  BY <1>4, <1>6, <1>7, <1>8, <1>9 DEF WfInv, FlowInv

LEMMA WorkflowInvariant == ASSUME SingleIndexer PROVE WfSpec => []WfInv
<1>1. WfInv /\ [WfNext]_wfVars => WfInv'  BY WfNextKeepsInv
<1>. QED  BY <1>1, WfInitHasInv, PTL DEF WfSpec

(* Whatever the shells do, also if several of them index at once: each     *)
(* file is absent or complete in form, and sed finds the call graph.       *)
THEOREM TypeCorrect == WfSpec => []WfTypeOK
<1>. DEFINE T == WfTypeOK /\ SedInv
<1>1. WfInit => T  BY WfInitHasInv DEF WfInv
<1>2. T /\ [WfNext]_wfVars => T'  BY WfTypedNext
<1>. QED  BY <1>1, <1>2, PTL DEF WfSpec

(* As long as one shell at most indexes in the working directory, a run of *)
(* extraction_runner.py without -d that ends normally asked a complete     *)
(* database of its own repository, of all its files and not older than the *)
(* run: whatever runs before it left half way, whatever runs with -d       *)
(* deleted meanwhile.                                                      *)
THEOREM IndexedRunsAreRight == ASSUME SingleIndexer PROVE WfSpec => []OwnIndexRight
<1>1. WfInv => OwnIndexRight
  <2>. SUFFICES ASSUME WfInv, NEW p \in Procs, At(p, "ok"), run[p].own
                PROVE  FreshFor(p, run[p].got.xref) /\ FreshFor(p, run[p].got.tags)
    BY DEF OwnIndexRight
  <2>1. Complete(run[p], run[p].got)  BY DEF WfInv, FlowInv, OwnAt, Own, At
  <2>. QED  BY <2>1 DEF Complete, Fresh, Mine, FreshFor, Repo
<1>. QED  BY <1>1, WorkflowInvariant, PTL

(* Then the headers that function-extractor.py copies of a repository are  *)
(* those that its call graph was computed from, or more, if it read the    *)
(* whole of cscope.files: not between the opening and the last line of a   *)
(* run of Phase I, and not after one that failed there.                    *)
THEOREM HeadersAreCovered == ASSUME SingleIndexer PROVE WfSpec => []HeadersCoverGraph
<1>1. WfInv => HeadersCoverGraph  BY DEF WfInv, FlowInv
<1>. QED  BY <1>1, WorkflowInvariant, PTL

-----------------------------------------------------------------------------
(* verify_extraction.py.                                                   *)
LEMMA Cat ==
    ASSUME NEW S, NEW a \in Seq(S), NEW b \in Seq(S)
    PROVE  /\ a \o b \in Seq(S) /\ Len(a \o b) = Len(a) + Len(b)
           /\ Len(a) \in Nat /\ Len(b) \in Nat
           /\ \A k \in 1 .. Len(a) : (a \o b)[k] = a[k]
           /\ \A k \in 1 .. Len(b) : (a \o b)[Len(a) + k] = b[k]
OBVIOUS

LEMMA CatTwice ==
    ASSUME NEW S, NEW a \in Seq(S), NEW b \in Seq(S), NEW c \in Seq(S)
    PROVE  (a \o b) \o c = a \o (b \o c)
OBVIOUS

AttachCmds == {"xdp obj", "qdisc add", "filter add", "bpftool net"}
XdpCmd == Load!Cmd("xdp obj", 1)
QdiscCmd == Load!Cmd("qdisc add", 1)
FilterCmd == Load!Cmd("filter add", 1)
ListCmd == Load!Cmd("bpftool net", 1)
Setup1 == Load!SetupInterfaces(1)
Setup2 == Load!SetupInterfaces(2)
Attaching(hs) == (Load!AttachAtXdp(hs) \o Load!AttachAtTc(hs)) \o <<ListCmd>>

LEMMA CommandFacts ==
    /\ XdpCmd \in Load!Commands /\ QdiscCmd \in Load!Commands
    /\ FilterCmd \in Load!Commands /\ ListCmd \in Load!Commands
<1>1. Load!Attach[1] = "xdp obj" /\ Load!Attach[2] = "qdisc add"
      /\ Load!Attach[3] = "filter add" /\ Load!Attach[4] = "bpftool net"
      /\ 1 \in 1 .. Len(Load!Attach) /\ 2 \in 1 .. Len(Load!Attach)
      /\ 3 \in 1 .. Len(Load!Attach) /\ 4 \in 1 .. Len(Load!Attach)
  BY DEF Load!Attach
<1>2. AttachCmds \subseteq {Load!Attach[k] : k \in 1 .. Len(Load!Attach)}
  BY <1>1 DEF AttachCmds
<1>. DEFINE N == {Load!Setup[k] : k \in 1 .. Len(Load!Setup)} \cup {Load!Attach[k] : k \in 1 .. Len(Load!Attach)}
<1>3. Load!Commands = [c : N, i : 1 .. 2] /\ AttachCmds \subseteq N  BY <1>2 DEF Load!Commands, Load!Peers
<1>. HIDE DEF N
<1>4. ASSUME NEW c \in AttachCmds PROVE Load!Cmd(c, 1) \in Load!Commands  BY <1>3 DEF Load!Cmd
<1>. QED  BY <1>4 DEF AttachCmds, XdpCmd, QdiscCmd, FilterCmd, ListCmd

LEMMA CommandNames ==
    XdpCmd.c = "xdp obj" /\ QdiscCmd.c = "qdisc add" /\ FilterCmd.c = "filter add" /\ ListCmd.c = "bpftool net"
BY DEF Load!Cmd, XdpCmd, QdiscCmd, FilterCmd, ListCmd

LEMMA SetupFacts ==
    /\ Setup1 \in Seq(Load!Commands) /\ Len(Setup1) = 9
    /\ Setup2 \in Seq(Load!Commands) /\ Len(Setup2) = 9
    /\ \A k \in 1 .. 9 : Setup1[k].c \notin AttachCmds /\ Setup2[k].c \notin AttachCmds
<1>1. Len(Load!Setup) = 9 /\ \A k \in 1 .. 9 : Load!Setup[k] \notin AttachCmds
  BY DEF Load!Setup, AttachCmds
<1>2. ASSUME NEW i \in Load!Peers
      PROVE  /\ Load!SetupInterfaces(i) \in Seq(Load!Commands) /\ Len(Load!SetupInterfaces(i)) = 9
             /\ \A k \in 1 .. 9 : Load!SetupInterfaces(i)[k].c \notin AttachCmds
  <2>1. \A k \in 1 .. 9 : /\ Load!Cmd(Load!Setup[k], i) \in Load!Commands
                          /\ Load!Cmd(Load!Setup[k], i).c \notin AttachCmds
    BY <1>1 DEF Load!Cmd, Load!Commands
  <2>2. Load!SetupInterfaces(i) = [k \in 1 .. 9 |-> Load!Cmd(Load!Setup[k], i)]
    BY <1>1 DEF Load!SetupInterfaces
  <2>. QED  BY <2>1, <2>2
<1>. QED  BY <1>2 DEF Load!Peers, Setup1, Setup2

(* What a script attaches, and how it ends. *)
LEMMA AttachFacts ==
    ASSUME NEW hs \in SUBSET Load!Hooks, NEW s, s = Attaching(hs)
    PROVE  /\ s \in Seq(Load!Commands) /\ Len(s) \in Nat /\ Len(s) > 0
           /\ "xdp" \in hs => \E k \in 1 .. Len(s) : s[k] = XdpCmd
           /\ "tc" \in hs => \E k \in 1 .. Len(s) : s[k] = FilterCmd
<1>. DEFINE x == Load!AttachAtXdp(hs)
            t == Load!AttachAtTc(hs)
            b == <<ListCmd>>
            y == x \o t
<1>1. /\ x \in Seq(Load!Commands) /\ Len(x) \in Nat
      /\ "xdp" \in hs => Len(x) = 1 /\ x[1] = XdpCmd
  <2>1. x = IF "xdp" \in hs THEN <<XdpCmd>> ELSE <<>>  BY DEF Load!AttachAtXdp, XdpCmd
  <2>. QED  BY <2>1, CommandFacts
<1>2. /\ t \in Seq(Load!Commands) /\ Len(t) \in Nat
      /\ "tc" \in hs => Len(t) = 2 /\ t[2] = FilterCmd
  <2>1. t = IF "tc" \in hs THEN <<QdiscCmd, FilterCmd>> ELSE <<>>
    BY DEF Load!AttachAtTc, QdiscCmd, FilterCmd
  <2>. QED  BY <2>1, CommandFacts
<1>3. b \in Seq(Load!Commands) /\ Len(b) = 1  BY CommandFacts
<1>4. s = y \o b  BY DEF Attaching
<1>. HIDE DEF x, t, b
<1>5. /\ y \in Seq(Load!Commands) /\ Len(y) = Len(x) + Len(t)
      /\ \A k \in 1 .. Len(x) : y[k] = x[k]
      /\ \A k \in 1 .. Len(t) : y[Len(x) + k] = t[k]
  BY <1>1, <1>2, Cat
<1>. HIDE DEF y
<1>6. /\ s \in Seq(Load!Commands) /\ Len(s) = Len(y) + Len(b)
      /\ \A k \in 1 .. Len(y) : s[k] = y[k]
  <2>1. /\ y \o b \in Seq(Load!Commands) /\ Len(y \o b) = Len(y) + Len(b)
        /\ \A k \in 1 .. Len(y) : (y \o b)[k] = y[k]
    BY <1>3, <1>5, Cat
  <2>. QED  BY <1>4, <2>1
<1>10. Len(x) \in Nat /\ Len(t) \in Nat /\ Len(y) = Len(x) + Len(t) /\ Len(s) = Len(y) + 1
  BY <1>1, <1>2, <1>3, <1>5, <1>6
<1>7. ASSUME "xdp" \in hs PROVE \E k \in 1 .. Len(s) : s[k] = XdpCmd
  <2>1. 1 \in 1 .. Len(x) /\ 1 \in 1 .. Len(y) /\ 1 \in 1 .. Len(s)
    <3>1. Len(x) = 1  BY <1>1, <1>7
    <3>. QED  BY <1>10, <3>1
  <2>. QED  BY <1>1, <1>5, <1>6, <1>7, <2>1
<1>8. ASSUME "tc" \in hs PROVE \E k \in 1 .. Len(s) : s[k] = FilterCmd
  <2>1. 2 \in 1 .. Len(t) /\ Len(x) + 2 \in 1 .. Len(y) /\ Len(x) + 2 \in 1 .. Len(s)
    <3>1. Len(t) = 2  BY <1>2, <1>8
    <3>. QED  BY <1>10, <3>1
  <2>. QED  BY <1>2, <1>5, <1>6, <1>8, <2>1
<1>9. Len(s) \in Nat /\ Len(s) > 0  BY <1>10
<1>. QED  BY <1>6, <1>7, <1>8, <1>9

(* The script sets up both namespaces, in this order, before it attaches. *)
LEMMA ScriptFacts ==
    ASSUME NEW hs \in SUBSET Load!Hooks, NEW s, s = Load!Script(hs)
    PROVE  /\ s \in Seq(Load!Commands) /\ Len(s) \in Nat /\ Len(s) > 18
           /\ \A k \in 1 .. 9 : s[k] = Setup1[k] /\ s[9 + k] = Setup2[k]
           /\ \A k \in 1 .. Len(s) : s[k].c \in AttachCmds => k > 18
           /\ "xdp" \in hs => \E k \in 1 .. Len(s) : s[k] = XdpCmd
           /\ "tc" \in hs => \E k \in 1 .. Len(s) : s[k] = FilterCmd
<1>. DEFINE t == Attaching(hs)
            u == Setup1 \o Setup2
<1>1. s = u \o t
  <2>. DEFINE x == Load!AttachAtXdp(hs)
              y == Load!AttachAtTc(hs)
              b == <<ListCmd>>
  <2>1. x \in Seq(Load!Commands) /\ y \in Seq(Load!Commands) /\ b \in Seq(Load!Commands)
    <3>1. x = (IF "xdp" \in hs THEN <<XdpCmd>> ELSE <<>>)
          /\ y = IF "tc" \in hs THEN <<QdiscCmd, FilterCmd>> ELSE <<>>
      BY DEF Load!AttachAtXdp, Load!AttachAtTc, XdpCmd, QdiscCmd, FilterCmd
    <3>. QED  BY <3>1, CommandFacts
  <2>2. u \in Seq(Load!Commands)  BY SetupFacts, Cat
  <2>3. s = ((u \o x) \o y) \o b /\ t = (x \o y) \o b
    BY DEF Load!Script, Setup1, Setup2, ListCmd, Attaching
  <2>. HIDE DEF x, y, b, u, t
  <2>. DEFINE z == x \o y
  <2>4. z \in Seq(Load!Commands)  BY <2>1, Cat
  <2>5. (u \o x) \o y = u \o z  BY <2>1, <2>2, CatTwice
  <2>6. s = (u \o z) \o b /\ t = z \o b  BY <2>3, <2>5
  <2>. HIDE DEF z
  <2>7. (u \o z) \o b = u \o (z \o b)  BY <2>1, <2>2, <2>4, CatTwice
  <2>. QED  BY <2>6, <2>7
<1>2. /\ t \in Seq(Load!Commands) /\ Len(t) \in Nat /\ Len(t) > 0
      /\ "xdp" \in hs => \E k \in 1 .. Len(t) : t[k] = XdpCmd
      /\ "tc" \in hs => \E k \in 1 .. Len(t) : t[k] = FilterCmd
  BY AttachFacts
<1>. HIDE DEF t
<1>3. /\ u \in Seq(Load!Commands) /\ Len(u) = 18
      /\ \A k \in 1 .. 9 : u[k] = Setup1[k] /\ u[9 + k] = Setup2[k]
  <2>1. /\ u \in Seq(Load!Commands) /\ Len(u) = Len(Setup1) + Len(Setup2)
        /\ \A k \in 1 .. Len(Setup1) : u[k] = Setup1[k]
        /\ \A k \in 1 .. Len(Setup2) : u[Len(Setup1) + k] = Setup2[k]
    <3>1. Setup1 \in Seq(Load!Commands) /\ Setup2 \in Seq(Load!Commands)  BY SetupFacts
    <3>. QED  BY <3>1, Cat
  <2>2. Len(Setup1) = 9 /\ Len(Setup2) = 9  BY SetupFacts
  <2>. QED  BY <2>1, <2>2
<1>. HIDE DEF u
<1>4. /\ s \in Seq(Load!Commands) /\ Len(s) = 18 + Len(t)
      /\ \A k \in 1 .. 18 : s[k] = u[k]
      /\ \A k \in 1 .. Len(t) : s[18 + k] = t[k]
  <2>1. /\ u \o t \in Seq(Load!Commands) /\ Len(u \o t) = Len(u) + Len(t)
        /\ \A k \in 1 .. Len(u) : (u \o t)[k] = u[k]
        /\ \A k \in 1 .. Len(t) : (u \o t)[Len(u) + k] = t[k]
    <3>1. u \in Seq(Load!Commands) /\ t \in Seq(Load!Commands)  BY <1>2, <1>3
    <3>. QED  BY <3>1, Cat
  <2>2. Len(u) = 18  BY <1>3
  <2>. QED  BY <1>1, <2>1, <2>2
<1>5. Len(s) \in Nat /\ Len(s) > 18  BY <1>2, <1>4
<1>6. \A k \in 1 .. 9 : s[k] = Setup1[k] /\ s[9 + k] = Setup2[k]
  <2>. TAKE k \in 1 .. 9
  <2>1. k \in 1 .. 18 /\ 9 + k \in 1 .. 18  OBVIOUS
  <2>. QED  BY <1>3, <1>4, <2>1
<1>7. \A k \in 1 .. Len(s) : s[k].c \in AttachCmds => k > 18
  <2>. TAKE k \in 1 .. Len(s)
  <2>. SUFFICES ASSUME ~(k > 18) PROVE s[k].c \notin AttachCmds  OBVIOUS
  <2>1. k \in 1 .. 18  BY <1>5
  <2>2. CASE k \in 1 .. 9  BY <1>6, <2>2, SetupFacts
  <2>3. CASE k \notin 1 .. 9
    <3>1. PICK i \in 1 .. 9 : k = 9 + i
      <4>1. k - 9 \in 1 .. 9 /\ k = 9 + (k - 9)  BY <2>1, <2>3
      <4>. QED  BY <4>1
    <3>. QED  BY <1>6, <3>1, SetupFacts
  <2>. QED  BY <2>2, <2>3
<1>8. \A c : (\E k \in 1 .. Len(t) : t[k] = c) => \E k \in 1 .. Len(s) : s[k] = c
  <2>. TAKE c
  <2>. SUFFICES ASSUME NEW k \in 1 .. Len(t), t[k] = c PROVE \E j \in 1 .. Len(s) : s[j] = c
    OBVIOUS
  <2>1. 18 + k \in 1 .. Len(s) /\ s[18 + k] = c  BY <1>2, <1>4
  <2>. QED  BY <2>1
<1>. QED  BY <1>2, <1>4, <1>5, <1>6, <1>7, <1>8
(* The commands before those left to run have been run. *)
Progress(s) ==
    /\ Len(todo) <= Len(s)
    /\ \A k \in 1 .. Len(todo) : todo[k] = s[Len(s) - Len(todo) + k]
    /\ \A k \in 1 .. Len(s) - Len(todo) : s[k] \in done
Ran(s) == \A k \in 1 .. Len(s) : s[k] \in done
BothSetUp == \A k \in 1 .. 9 : Setup1[k] \in done /\ Setup2[k] \in done
LoadInv ==
    /\ Load!TypeOK
    /\ status = "running" => Progress(Load!Script(hooks))
    /\ status = "ok" => Ran(Load!Script(hooks))
    /\ XdpCmd \in done \/ FilterCmd \in done => BothSetUp

LEMMA LoadTerms ==
    /\ Load!Attached # {} => XdpCmd \in done \/ FilterCmd \in done
    /\ XdpCmd \in done => "xdp" \in Load!Attached
    /\ FilterCmd \in done => "tc" \in Load!Attached
    /\ BothSetUp => \A i \in Load!Peers : Load!Configured(i)
<1>1. \A h \in Load!Hooks : h \in Load!Attached <=>
         (IF h = "xdp" THEN XdpCmd ELSE FilterCmd) \in done
  BY DEF Load!Attached, XdpCmd, FilterCmd
<1>2. Load!Attached \subseteq Load!Hooks /\ "xdp" \in Load!Hooks /\ "tc" \in Load!Hooks
  BY DEF Load!Attached, Load!Hooks
<1>3. ASSUME BothSetUp, NEW i \in Load!Peers PROVE Load!Configured(i)
  <2>1. Len(Load!Setup) = 9  BY DEF Load!Setup
  <2>2. \A k \in 1 .. 9 : Load!SetupInterfaces(i)[k] \in done
    BY <1>3 DEF Load!Peers, BothSetUp, Setup1, Setup2
  <2>3. Load!SetupInterfaces(i) = [k \in 1 .. 9 |-> Load!Cmd(Load!Setup[k], i)]
    BY <2>1 DEF Load!SetupInterfaces
  <2>. QED  BY <2>1, <2>2, <2>3 DEF Load!Configured
<1>. QED  BY <1>1, <1>2, <1>3

LEMMA LoadInit == ASSUME Load!Init PROVE LoadInv
<1>1. Load!TypeOK  BY DEF Load!Init, Load!TypeOK
<1>. QED  BY <1>1 DEF Load!Init, LoadInv

LEMMA LoadStart ==
    ASSUME LoadInv, NEW hs \in SUBSET Load!Hooks, Load!Start(hs)
    PROVE  LoadInv'
<1>1. Load!TypeOK  BY DEF LoadInv
<1>2. /\ hooks' = hs /\ runs' = runs + 1 /\ done' = done /\ boots' = boots
      /\ \/ status' = "rejected" /\ todo' = <<>>
         \/ status' = "running" /\ todo' = Load!Script(hs)
  BY DEF Load!Start
<1>3. Load!Script(hs) \in Seq(Load!Commands) /\ Len(Load!Script(hs)) \in Nat  BY ScriptFacts
<1>4. Load!TypeOK'
  <2>1. todo' \in Seq(Load!Commands)
    <3>1. CASE todo' = <<>>  BY <3>1
    <3>2. CASE todo' = Load!Script(hs)  BY <1>3, <3>2
    <3>. QED  BY <1>2, <3>1, <3>2
  <2>2. hooks' \subseteq Load!Hooks /\ done' \subseteq Load!Commands /\ runs' \in Nat /\ boots' \in Nat
    BY <1>1, <1>2 DEF Load!TypeOK
  <2>3. status' \in {"idle", "running", "ok", "failed", "rejected"}  BY <1>2
  <2>. QED  BY <2>1, <2>2, <2>3 DEF Load!TypeOK
<1>5. (XdpCmd \in done \/ FilterCmd \in done => BothSetUp)'  BY <1>2 DEF LoadInv, BothSetUp
<1>6. CASE status' = "rejected"  BY <1>4, <1>5, <1>6 DEF LoadInv
<1>7. CASE status' = "running" /\ todo' = Load!Script(hs)
  <2>. DEFINE s == Load!Script(hs)
  <2>1. Len(s) \in Nat /\ todo' = s  BY <1>3, <1>7
  <2>. HIDE DEF s
  <2>2. Progress(s)'  BY <2>1 DEF Progress
  <2>3. Load!Script(hooks)' = s  BY <1>2 DEF s, Load!Script, Load!AttachAtXdp, Load!AttachAtTc
  <2>4. Progress(Load!Script(hooks))'  BY <2>2, <2>3 DEF Progress
  <2>. QED  BY <1>4, <1>5, <1>7, <2>4 DEF LoadInv
<1>. QED  BY <1>2, <1>6, <1>7

LEMMA LoadRunCmd ==
    ASSUME LoadInv, Load!RunCmd
    PROVE  LoadInv'
<1>. PICK s : s = Load!Script(hooks)  OBVIOUS
<1>1. Load!TypeOK /\ Progress(s)  BY DEF LoadInv, Load!RunCmd
<1>2. hooks \in SUBSET Load!Hooks /\ todo \in Seq(Load!Commands) /\ done \subseteq Load!Commands
  BY <1>1 DEF Load!TypeOK
<1>3. /\ s \in Seq(Load!Commands) /\ Len(s) \in Nat /\ Len(s) > 18
      /\ \A k \in 1 .. 9 : s[k] = Setup1[k] /\ s[9 + k] = Setup2[k]
      /\ \A k \in 1 .. Len(s) : s[k].c \in AttachCmds => k > 18
  BY <1>2, ScriptFacts
<1>4. todo # <<>> /\ hooks' = hooks /\ runs' = runs /\ boots' = boots  BY DEF Load!RunCmd
<1>5. Load!Script(hooks)' = s
  BY <1>4 DEF Load!Script, Load!AttachAtXdp, Load!AttachAtTc
<1>6. CASE status' = "failed" /\ done' = done /\ todo' = todo
  <2>1. Load!TypeOK'  BY <1>1, <1>4, <1>6 DEF Load!TypeOK
  <2>. QED  BY <1>6, <2>1 DEF LoadInv, BothSetUp
<1>7. CASE /\ done' = done \cup {Head(todo)} /\ todo' = Tail(todo)
           /\ status' = IF Tail(todo) = <<>> THEN "ok" ELSE "running"
  <2>. DEFINE m == Len(todo)
              i == Len(s) - m + 1
  <2>1. m \in Nat /\ m > 0 /\ Head(todo) = todo[1] /\ todo[1] \in Load!Commands
        /\ Tail(todo) \in Seq(Load!Commands) /\ Len(Tail(todo)) = m - 1
        /\ \A k \in 1 .. m - 1 : Tail(todo)[k] = todo[k + 1]
    BY <1>2, <1>4
  <2>2. /\ m <= Len(s) /\ \A k \in 1 .. m : todo[k] = s[Len(s) - m + k]
        /\ \A k \in 1 .. Len(s) - m : s[k] \in done
    BY <1>1 DEF Progress
  <2>3. i \in 1 .. Len(s) /\ todo[1] = s[i]
    <3>1. 1 \in 1 .. m  BY <2>1
    <3>2. todo[1] = s[i]  BY <2>2, <3>1
    <3>3. i \in 1 .. Len(s)  BY <1>3, <2>1, <2>2
    <3>. QED  BY <3>2, <3>3
  <2>4. done' = done \cup {s[i]}  BY <1>7, <2>1, <2>3
  <2>5. \A k \in 1 .. i : s[k] \in done'
    <3>. TAKE k \in 1 .. i
    <3>1. CASE k = i  BY <2>4, <3>1
    <3>2. CASE k # i
      <4>1. k \in 1 .. Len(s) - m  BY <1>3, <2>1, <2>2, <3>2
      <4>. QED  BY <2>2, <2>4, <4>1
    <3>. QED  BY <3>1, <3>2
  <2>6. Len(todo') = m - 1 /\ Len(s) - Len(todo') = i  BY <1>3, <1>7, <2>1
  <2>7. Progress(s)'
    <3>1. \A k \in 1 .. m - 1 : todo'[k] = s[i + k]
      <4>. TAKE k \in 1 .. m - 1
      <4>1. k + 1 \in 1 .. m /\ Len(s) - m + (k + 1) = i + k  BY <1>3, <2>1
      <4>2. todo'[k] = todo[k + 1]  BY <1>7, <2>1
      <4>. QED  BY <2>2, <4>1, <4>2
    <3>2. m - 1 <= Len(s)  BY <1>3, <2>1, <2>2
    <3>. QED  BY <2>5, <2>6, <3>1, <3>2 DEF Progress
  <2>8. status' = "ok" => Ran(s)'
    <3>. SUFFICES ASSUME status' = "ok" PROVE \A k \in 1 .. Len(s) : s[k] \in done'
      BY DEF Ran
    <3>1. Tail(todo) = <<>>  BY <1>7
    <3>2. m = 1
      <4>1. m - 1 = 0  BY <2>1, <3>1
      <4>2. m \in Nat  BY <2>1
      <4>. QED  BY <4>1, <4>2
    <3>3. Len(s) \in Nat  BY <1>3
    <3>4. i = Len(s)  BY <3>2, <3>3
    <3>. QED  BY <2>5, <3>4
  <2>9. (XdpCmd \in done \/ FilterCmd \in done => BothSetUp)'
    <3>. SUFFICES ASSUME XdpCmd \in done' \/ FilterCmd \in done' PROVE BothSetUp'
      OBVIOUS
    <3>1. CASE XdpCmd \in done \/ FilterCmd \in done
      BY <1>7, <3>1 DEF LoadInv, BothSetUp
    <3>2. CASE s[i] = XdpCmd \/ s[i] = FilterCmd
      <4>1. s[i].c \in AttachCmds  BY <3>2, CommandNames DEF AttachCmds
      <4>2. i > 18  BY <1>3, <2>3, <4>1
      <4>3. \A k \in 1 .. 9 : k \in 1 .. i /\ 9 + k \in 1 .. i  BY <2>3, <4>2
      <4>. QED  BY <1>3, <2>5, <4>3 DEF BothSetUp
    <3>. QED  BY <2>4, <3>1, <3>2
  <2>10. Load!TypeOK'
    <3>1. done' \subseteq Load!Commands  BY <1>2, <1>7, <2>1
    <3>2. status' \in {"idle", "running", "ok", "failed", "rejected"}  BY <1>7
    <3>. QED  BY <1>1, <1>4, <1>7, <2>1, <3>1, <3>2 DEF Load!TypeOK
  <2>11. Progress(Load!Script(hooks))' /\ (status' = "ok" => Ran(Load!Script(hooks))')
    BY <1>5, <2>7, <2>8 DEF Progress, Ran
  <2>. QED  BY <2>9, <2>10, <2>11 DEF LoadInv
<1>. QED  BY <1>6, <1>7 DEF Load!RunCmd

LEMMA LoadReboot == ASSUME LoadInv, Load!Reboot PROVE LoadInv'
<1>1. /\ done' = {} /\ runs' = 0 /\ boots' = boots + 1 /\ status' = "idle" /\ todo' = <<>>
      /\ hooks' = hooks
  BY DEF Load!Reboot
<1>2. Load!TypeOK'  BY <1>1 DEF LoadInv, Load!TypeOK
<1>. QED  BY <1>1, <1>2 DEF LoadInv

LEMMA LoadNext == ASSUME LoadInv, Load!Next PROVE LoadInv'
BY LoadStart, LoadRunCmd, LoadReboot DEF Load!Next

LEMMA LoadPromises ==
    ASSUME LoadInv
    PROVE  Load!TypeOK /\ Load!OkMeansAttached /\ Load!AttachedLast
<1>1. Load!TypeOK /\ Load!AttachedLast  BY LoadTerms DEF LoadInv, Load!AttachedLast
<1>2. ASSUME status = "ok" PROVE hooks \subseteq Load!Attached /\ \A i \in Load!Peers : Load!Configured(i)
  <2>. DEFINE s == Load!Script(hooks)
  <2>1. Ran(s) /\ hooks \in SUBSET Load!Hooks  BY <1>1, <1>2 DEF LoadInv, Load!TypeOK
  <2>2. /\ Len(s) \in Nat /\ Len(s) > 18
        /\ \A k \in 1 .. 9 : s[k] = Setup1[k] /\ s[9 + k] = Setup2[k]
        /\ "xdp" \in hooks => \E k \in 1 .. Len(s) : s[k] = XdpCmd
        /\ "tc" \in hooks => \E k \in 1 .. Len(s) : s[k] = FilterCmd
    BY <2>1, ScriptFacts
  <2>. HIDE DEF s
  <2>3. \A k \in 1 .. 9 : k \in 1 .. Len(s) /\ 9 + k \in 1 .. Len(s)
    <3>1. PICK n \in Nat : n = Len(s) /\ n > 18  BY <2>2
    <3>2. \A k \in 1 .. 9 : k \in 1 .. n /\ 9 + k \in 1 .. n  BY <3>1
    <3>. QED  BY <3>1, <3>2, Zenon
  <2>4. BothSetUp  BY <2>1, <2>2, <2>3 DEF Ran, BothSetUp
  <2>5. ("xdp" \in hooks => XdpCmd \in done) /\ ("tc" \in hooks => FilterCmd \in done)
    BY <2>1, <2>2 DEF Ran
  <2>. QED  BY <2>1, <2>4, <2>5, LoadTerms DEF Load!Hooks
<1>. QED  BY <1>1, <1>2 DEF Load!OkMeansAttached
-----------------------------------------------------------------------------
(* update_ai_comments.py.                                                  *)
Descs == Seq(Comments!Comment \cup {Blank})
(* The descriptions that the comment c makes of those that were read. *)
With(ds, c) == IF Len(ds) = 1 THEN <<c>> ELSE Append(ds, c)

Extends(w, ds, c) ==
    /\ Len(w) \in Nat /\ Len(w) > 0 /\ w[Len(w)] = c
    /\ \A k \in 1 .. Len(w) : k = Len(w) \/ (k \in 1 .. Len(ds) /\ w[k] = ds[k])
    /\ Len(ds) # 1 => Len(ds) <= Len(w) /\ \A k \in 1 .. Len(ds) : w[k] = ds[k]

LEMMA WithFacts ==
    ASSUME NEW S, NEW ds \in Seq(S), NEW c \in S, NEW w, w = With(ds, c)
    PROVE  w \in Seq(S) /\ Extends(w, ds, c)
<1>1. CASE Len(ds) = 1
  <2>1. w = <<c>>  BY <1>1 DEF With
  <2>. QED  BY <1>1, <2>1 DEF Extends
<1>2. CASE Len(ds) # 1
  <2>1. w = Append(ds, c)  BY <1>2 DEF With
  <2>2. Len(w) = Len(ds) + 1 /\ Len(ds) \in Nat /\ w \in Seq(S)  BY <2>1
  <2>3. w[Len(w)] = c /\ \A k \in 1 .. Len(ds) : w[k] = ds[k]  BY <2>1
  <2>4. \A k \in 1 .. Len(w) : k = Len(w) \/ k \in 1 .. Len(ds)  BY <2>2
  <2>5. Len(w) \in Nat /\ Len(w) > 0 /\ Len(ds) <= Len(w)  BY <2>2
  <2>. QED  BY <2>2, <2>3, <2>4, <2>5 DEF Extends
<1>. QED  BY <1>1, <1>2

LEMMA WithGives ==
    \A S, ds, c : ds \in Seq(S) /\ c \in S => With(ds, c) \in Seq(S) /\ Extends(With(ds, c), ds, c)
<1>. SUFFICES ASSUME NEW S, NEW ds \in Seq(S), NEW c \in S
              PROVE  With(ds, c) \in Seq(S) /\ Extends(With(ds, c), ds, c)
  OBVIOUS
<1>. QED  BY WithFacts

(* Records only change in their descriptions, and those that match all get *)
(* what was made of one record found.                                      *)
SameRecords ==
    /\ Len(fdb) = Len(old)
    /\ \A i \in 1 .. Len(old) : fdb[i].fn = old[i].fn /\ fdb[i].file = old[i].file
Rewritten(k) ==
    \A i \in 1 .. Len(old) :
        fdb[i].descs = IF Comments!Matches(com, old[i]) THEN With(old[k].descs, com) ELSE old[i].descs
Visited ==
    \/ fdb = old /\ \A i \in 1 .. Len(old) : Comments!Found(com, old[i]) => i \in res
    \/ \E k \in 1 .. Len(old) : Comments!Found(com, old[k]) /\ Rewritten(k)
Dated(d, u) ==
    \A i \in 1 .. Len(d) : \A k \in 1 .. Len(d[i].descs) : d[i].descs[k] # Blank => d[i].descs[k].nr \in 0 .. u
OwnIn(d) == \A i \in 1 .. Len(d) : Comments!Own(d[i])
CommentsInv ==
    /\ Comments!TypeOK /\ SameRecords
    /\ com = Blank => fdb = old /\ res = {} /\ updates = 0
    /\ com # Blank => com.nr = updates /\ Visited /\ Dated(old, updates - 1)
    /\ \A k \in res : Comments!Found(com, old[k])
    /\ Dated(old, updates)
    /\ Comments!Distinct => OwnIn(old)

LEMMA CommentsInit == ASSUME Comments!Init PROVE CommentsInv
<1>1. /\ rel \in Relations /\ fdb \in InitialDBs /\ com = Blank /\ res = {} /\ old = fdb /\ updates = 0
  BY DEF Comments!Init
<1>2. /\ fdb \in Seq(Comments!Record)
      /\ \A i \in 1 .. Len(fdb) : \A k \in 1 .. Len(fdb[i].descs) : fdb[i].descs[k] # Blank =>
            fdb[i].descs[k] = [fn |-> fdb[i].fn, file |-> fdb[i].file, nr |-> 0]
  BY <1>1, CommentsAssumption
<1>3. Comments!TypeOK  BY <1>1, <1>2 DEF Comments!TypeOK
<1>7. ASSUME NEW i \in 1 .. Len(fdb), NEW k \in 1 .. Len(fdb[i].descs), fdb[i].descs[k] # Blank
      PROVE  /\ fdb[i].descs[k].nr = 0
             /\ fdb[i].descs[k].fn = fdb[i].fn /\ fdb[i].descs[k].file = fdb[i].file
  <2>1. fdb[i].descs[k] = [fn |-> fdb[i].fn, file |-> fdb[i].file, nr |-> 0]  BY <1>2, <1>7
  <2>. QED  BY <2>1
<1>4. Dated(old, updates)
  <2>1. \A i \in 1 .. Len(fdb) : \A k \in 1 .. Len(fdb[i].descs) :
           fdb[i].descs[k] # Blank => fdb[i].descs[k].nr \in 0 .. updates
    BY <1>1, <1>7
  <2>. QED  BY <1>1, <2>1 DEF Dated
<1>5. OwnIn(old)
  <2>1. \A i \in 1 .. Len(fdb) : Comments!Own(fdb[i])  BY <1>7 DEF Comments!Own
  <2>. QED  BY <1>1, <2>1 DEF OwnIn
<1>6. SameRecords  BY <1>1 DEF SameRecords
<1>. QED  BY <1>1, <1>3, <1>4, <1>5, <1>6 DEF CommentsInv

(* What holds of the records read holds of those written. *)
LEMMA WrittenFacts ==
    ASSUME CommentsInv
    PROVE  /\ Dated(fdb, updates)
           /\ Comments!Distinct => OwnIn(fdb)
<1>1. Comments!TypeOK /\ SameRecords /\ Dated(old, updates)  BY DEF CommentsInv
<1>2. CASE fdb = old  BY <1>1, <1>2 DEF CommentsInv
<1>3. CASE com # Blank /\ \E k \in 1 .. Len(old) : Comments!Found(com, old[k]) /\ Rewritten(k)
  <2>1. PICK k \in 1 .. Len(old) : Comments!Found(com, old[k]) /\ Rewritten(k)  BY <1>3
  <2>2. com \in Comments!Comment /\ com.nr = updates /\ updates \in Nat
    BY <1>1, <1>3 DEF CommentsInv, Comments!TypeOK
  <2>. DEFINE w == With(old[k].descs, com)
  <2>3. old[k].descs \in Descs
    <3>1. old \in Seq(Comments!Record)  BY <1>1 DEF Comments!TypeOK
    <3>2. old[k] \in Comments!Record  BY <3>1
    <3>. QED  BY <3>2 DEF Comments!Record, Descs
  <2>4. \A x \in 1 .. Len(w) : w[x] = com \/ (x \in 1 .. Len(old[k].descs) /\ w[x] = old[k].descs[x])
    <3>1. com \in Comments!Comment \cup {Blank}  BY <2>2
    <3>2. old[k].descs \in Seq(Comments!Comment \cup {Blank})  BY <2>3 DEF Descs
    <3>3. Extends(w, old[k].descs, com)  BY <3>1, <3>2, WithGives, Zenon
    <3>. HIDE DEF w
    <3>. QED  BY <3>3 DEF Extends
  <2>5. \A i \in 1 .. Len(old) :
           fdb[i].descs = IF Comments!Matches(com, old[i]) THEN w ELSE old[i].descs
    BY <2>1 DEF Rewritten
  <2>. HIDE DEF w
  <2>6. ASSUME NEW i \in 1 .. Len(fdb), NEW x \in 1 .. Len(fdb[i].descs), fdb[i].descs[x] # Blank
        PROVE  /\ fdb[i].descs[x].nr \in 0 .. updates
               /\ Comments!Distinct => fdb[i].descs[x].fn = fdb[i].fn /\ fdb[i].descs[x].file = fdb[i].file
    <3>1. i \in 1 .. Len(old) /\ fdb[i].fn = old[i].fn /\ fdb[i].file = old[i].file
      BY <1>1 DEF SameRecords
    <3>2. CASE ~Comments!Matches(com, old[i])
      <4>1. fdb[i].descs = old[i].descs  BY <2>5, <3>1, <3>2
      <4>2. old[i].descs[x].nr \in 0 .. updates  BY <1>1, <2>6, <3>1, <4>1 DEF Dated
      <4>3. Comments!Distinct => old[i].descs[x].fn = old[i].fn /\ old[i].descs[x].file = old[i].file
        BY <2>6, <3>1, <4>1 DEF CommentsInv, OwnIn, Comments!Own
      <4>. QED  BY <3>1, <4>1, <4>2, <4>3
    <3>3. CASE Comments!Matches(com, old[i])
      <4>1. fdb[i].descs = w  BY <2>5, <3>1, <3>3
      <4>2. ASSUME Comments!Distinct
            PROVE  /\ com.fn = old[i].fn /\ com.file = old[i].file
                   /\ com.fn = old[k].fn /\ com.file = old[k].file
        <5>1. /\ <<com.fn, old[i].fn>> \in rel.occurs /\ <<com.file, old[i].file>> \in rel.inPath
              /\ <<com.fn, old[k].fn>> \in rel.occurs /\ <<com.file, old[k].file>> \in rel.inPath
          BY <1>1, <2>1, <3>3, CommentsAssumption DEF Comments!TypeOK, Comments!Matches, Comments!Found
        <5>. QED  BY <4>2, <5>1 DEF Comments!Distinct
      <4>3. CASE w[x] = com
        <5>1. com.nr \in 0 .. updates  BY <2>2
        <5>. QED  BY <3>1, <4>1, <4>2, <4>3, <5>1
      <4>4. CASE x \in 1 .. Len(old[k].descs) /\ w[x] = old[k].descs[x]
        <5>1. old[k].descs[x] # Blank  BY <2>6, <4>1, <4>4
        <5>2. old[k].descs[x].nr \in 0 .. updates  BY <1>1, <4>4, <5>1 DEF Dated
        <5>3. Comments!Distinct => old[k].descs[x].fn = old[k].fn /\ old[k].descs[x].file = old[k].file
          BY <4>4, <5>1 DEF CommentsInv, OwnIn, Comments!Own
        <5>. QED  BY <3>1, <4>1, <4>2, <4>4, <5>2, <5>3
      <4>. QED  BY <2>4, <2>6, <4>1, <4>3, <4>4
    <3>. QED  BY <3>2, <3>3
  <2>. QED  BY <2>6 DEF Dated, OwnIn, Comments!Own
<1>. QED  BY <1>2, <1>3 DEF CommentsInv, Visited
LEMMA CommentsSearch ==
    ASSUME CommentsInv, NEW n \in Names, NEW f \in Files, Comments!Search(n, f) PROVE CommentsInv'
<1>. DEFINE c == [fn |-> n, file |-> f, nr |-> updates + 1]
<1>1. /\ com' = c /\ updates' = updates + 1
      /\ res' = {i \in 1 .. Len(fdb) : Comments!Found(c, fdb[i])}
      /\ old' = fdb /\ rel' = rel /\ fdb' = fdb
  BY DEF Comments!Search
<1>2. Comments!TypeOK /\ updates \in Nat  BY DEF CommentsInv, Comments!TypeOK
<1>3. c \in Comments!Comment /\ c # Blank /\ c.nr = updates + 1
  BY <1>2, CommentsAssumption DEF Comments!Comment
<1>4. Dated(fdb, updates) /\ (Comments!Distinct => OwnIn(fdb))  BY WrittenFacts
<1>. HIDE DEF c
<1>6. Comments!TypeOK'
  <2>1. res' \subseteq 1 .. Len(fdb)  BY <1>1
  <2>. QED  BY <1>1, <1>2, <1>3, <2>1 DEF Comments!TypeOK
<1>7. SameRecords'  BY <1>1 DEF SameRecords
<1>8. \A i \in 1 .. Len(fdb) : i \in res' <=> Comments!Found(com, old[i])'
  BY <1>1 DEF Comments!Found
<1>9. Visited'  BY <1>1, <1>8 DEF Visited
<1>10. \A k \in res' : Comments!Found(com, old[k])'  BY <1>1, <1>8
<1>11. (com.nr = updates)' /\ updates' - 1 = updates /\ 0 .. updates \subseteq 0 .. updates'
  BY <1>1, <1>2, <1>3
<1>12. Dated(old, updates - 1)'  BY <1>1, <1>4, <1>11 DEF Dated
<1>13. Dated(old, updates)'  BY <1>1, <1>4, <1>11 DEF Dated
<1>14. (Comments!Distinct => OwnIn(old))'  BY <1>1, <1>4 DEF Comments!Distinct, OwnIn, Comments!Own
<1>. QED  BY <1>1, <1>3, <1>6, <1>7, <1>9, <1>10, <1>11, <1>12, <1>13, <1>14 DEF CommentsInv

LEMMA CommentsUpdate == ASSUME CommentsInv, Comments!UpdateMatching PROVE CommentsInv'
<1>1. PICK k \in res :
        /\ fdb' = [i \in 1 .. Len(fdb) |->
                     IF Comments!Matches(com, fdb[i])
                     THEN [fdb[i] EXCEPT !.descs = Comments!NewDescs(old[k].descs)] ELSE fdb[i]]
        /\ res' = res \ {k}
        /\ rel' = rel /\ com' = com /\ old' = old /\ updates' = updates
  BY DEF Comments!UpdateMatching
<1>2. /\ Comments!TypeOK /\ SameRecords /\ com # Blank /\ k \in 1 .. Len(old)
      /\ Comments!Found(com, old[k]) /\ fdb \in Seq(Comments!Record)
      /\ old[k].descs \in Descs /\ com \in Comments!Comment
  <2>1. /\ Comments!TypeOK /\ SameRecords /\ com # Blank /\ k \in 1 .. Len(old)
        /\ Comments!Found(com, old[k])
    BY <1>1 DEF CommentsInv, Comments!TypeOK
  <2>2. old \in Seq(Comments!Record) /\ fdb \in Seq(Comments!Record) /\ com \in Comments!Comment
    BY <2>1 DEF Comments!TypeOK
  <2>3. old[k] \in Comments!Record  BY <2>1, <2>2
  <2>. QED  BY <2>1, <2>2, <2>3 DEF Comments!Record, Descs
<1>. DEFINE w == With(old[k].descs, com)
<1>3. w = Comments!NewDescs(old[k].descs) /\ w \in Descs
  <2>1. w = Comments!NewDescs(old[k].descs)  BY DEF With, Comments!NewDescs
  <2>2. com \in Comments!Comment \cup {Blank} /\ old[k].descs \in Seq(Comments!Comment \cup {Blank})
    BY <1>2 DEF Descs
  <2>3. w \in Seq(Comments!Comment \cup {Blank})  BY <2>2, WithGives, Zenon
  <2>. QED  BY <2>1, <2>3 DEF Descs
<1>4. PICK m \in Nat : m = Len(fdb) /\ m = Len(old)  BY <1>2 DEF SameRecords
<1>. HIDE DEF w
<1>5. \A i \in 1 .. m : Comments!Matches(com, fdb[i]) <=> Comments!Matches(com, old[i])
  BY <1>2, <1>4 DEF SameRecords, Comments!Matches
<1>6. ASSUME NEW i \in 1 .. m
      PROVE  /\ fdb'[i] \in Comments!Record
             /\ fdb'[i].fn = old[i].fn /\ fdb'[i].file = old[i].file
             /\ fdb'[i].descs = IF Comments!Matches(com, old[i]) THEN w ELSE old[i].descs
  <2>1. fdb[i] \in Comments!Record
    <3>1. fdb \in Seq(Comments!Record)  BY <1>2
    <3>2. i \in 1 .. Len(fdb)  BY <1>4
    <3>. QED  BY <3>1, <3>2
  <2>2. fdb[i].fn = old[i].fn /\ fdb[i].file = old[i].file  BY <1>2, <1>4 DEF SameRecords
  <2>3. CASE Comments!Matches(com, old[i])
    <3>1. fdb'[i] = [fdb[i] EXCEPT !.descs = w]  BY <1>1, <1>3, <1>4, <1>5, <2>3
    <3>2. [fdb[i] EXCEPT !.descs = w] \in Comments!Record  BY <1>3, <2>1 DEF Comments!Record, Descs
    <3>3. /\ [fdb[i] EXCEPT !.descs = w].fn = fdb[i].fn
          /\ [fdb[i] EXCEPT !.descs = w].file = fdb[i].file
          /\ [fdb[i] EXCEPT !.descs = w].descs = w
      BY <2>1 DEF Comments!Record
    <3>. QED  BY <2>2, <2>3, <3>1, <3>2, <3>3
  <2>4. CASE ~Comments!Matches(com, old[i])
    <3>1. fdb'[i] = fdb[i]  BY <1>1, <1>4, <1>5, <2>4
    <3>2. fdb[i].descs = old[i].descs
      <4>1. CASE fdb = old  BY <4>1
      <4>2. CASE \E x \in 1 .. Len(old) : Rewritten(x)  BY <1>4, <2>4, <4>2 DEF Rewritten
      <4>. QED  BY <1>2, <4>1, <4>2 DEF CommentsInv, Visited
    <3>. QED  BY <2>1, <2>2, <2>4, <3>1, <3>2
  <2>. QED  BY <2>3, <2>4
<1>7. Len(fdb') = m /\ fdb' \in Seq(Comments!Record)
  <2>1. PICK F : F = fdb'  OBVIOUS
  <2>2. F \in [1 .. m -> Comments!Record]
    <3>1. DOMAIN F = 1 .. m /\ F = [i \in 1 .. m |-> F[i]]  BY <1>1, <1>4, <2>1
    <3>2. \A i \in 1 .. m : F[i] \in Comments!Record  BY <1>6, <2>1
    <3>. QED  BY <3>1, <3>2
  <2>3. F \in Seq(Comments!Record) /\ Len(F) = m  BY <2>2
  <2>. QED  BY <2>1, <2>3
<1>8. Comments!TypeOK'  BY <1>1, <1>2, <1>7 DEF Comments!TypeOK
<1>9. SameRecords'  BY <1>1, <1>4, <1>6, <1>7 DEF SameRecords
<1>10. Rewritten(k)'
  <2>1. \A i \in 1 .. m : Comments!Matches(com, old[i])' <=> Comments!Matches(com, old[i])
    BY <1>1 DEF Comments!Matches
  <2>2. w' = w  BY <1>1 DEF w, With
  <2>. QED  BY <1>1, <1>4, <1>6, <2>1 DEF Rewritten, w, With
<1>11. \A x \in 1 .. Len(old) : Comments!Found(com, old[x])' <=> Comments!Found(com, old[x])
  BY <1>1 DEF Comments!Found
<1>12. Visited'  BY <1>1, <1>2, <1>10, <1>11 DEF Visited
<1>13. \A x \in res' : Comments!Found(com, old[x])'
  BY <1>1, <1>2, <1>11 DEF CommentsInv, Comments!TypeOK
<1>14. Dated(old, updates)' /\ Dated(old, updates - 1)'  BY <1>1, <1>2 DEF CommentsInv, Dated
<1>15. (Comments!Distinct => OwnIn(old))'  BY <1>1 DEF CommentsInv, Comments!Distinct, OwnIn, Comments!Own
<1>16. (com.nr = updates)'  BY <1>1, <1>2 DEF CommentsInv
<1>. QED  BY <1>1, <1>2, <1>8, <1>9, <1>12, <1>13, <1>14, <1>15, <1>16 DEF CommentsInv
LEMMA CommentsNext == ASSUME CommentsInv, Comments!Next PROVE CommentsInv'
BY CommentsSearch, CommentsUpdate DEF Comments!Next

(* After an update the records that match hold what was made of one record *)
(* found.                                                                  *)
LEMMA Updated ==
    ASSUME CommentsInv, res = {}, com # Blank,
           NEW i \in 1 .. Len(fdb), Comments!Matches(com, fdb[i])
    PROVE  \E k \in 1 .. Len(old) : Comments!Found(com, old[k]) /\ Rewritten(k)
<1>1. i \in 1 .. Len(old) /\ Comments!Matches(com, old[i])
  BY DEF CommentsInv, SameRecords, Comments!Matches
<1>2. Comments!Found(com, old[i])
  <2>1. rel.begins \subseteq rel.occurs  BY CommentsAssumption DEF CommentsInv, Comments!TypeOK
  <2>. QED  BY <1>1, <2>1 DEF Comments!Found, Comments!Matches
<1>. QED  BY <1>1, <1>2 DEF CommentsInv, Visited

LEMMA CommentsAnnotated == ASSUME CommentsInv PROVE Comments!Annotated
<1>. SUFFICES ASSUME res = {}, com # Blank, NEW i \in 1 .. Len(fdb), NEW j \in 1 .. Len(fdb),
                     Comments!Matches(com, fdb[i]), Comments!Matches(com, fdb[j])
              PROVE  /\ fdb[i].descs = fdb[j].descs
                     /\ fdb[i].descs # <<>>
                     /\ \A k \in 1 .. Len(fdb[i].descs) :
                           fdb[i].descs[k] = com <=> k = Len(fdb[i].descs)
  BY DEF Comments!Annotated, Comments!Idle
<1>1. PICK k \in 1 .. Len(old) : Comments!Found(com, old[k]) /\ Rewritten(k)  BY Updated
<1>2. /\ i \in 1 .. Len(old) /\ Comments!Matches(com, old[i])
      /\ j \in 1 .. Len(old) /\ Comments!Matches(com, old[j])
  BY DEF CommentsInv, SameRecords, Comments!Matches
<1>. DEFINE w == With(old[k].descs, com)
<1>3. fdb[i].descs = w /\ fdb[j].descs = w  BY <1>1, <1>2 DEF Rewritten
<1>4. Extends(w, old[k].descs, com)
  <2>1. old \in Seq(Comments!Record) /\ com \in Comments!Comment  BY DEF CommentsInv, Comments!TypeOK
  <2>2. old[k] \in Comments!Record  BY <2>1
  <2>3. old[k].descs \in Seq(Comments!Comment \cup {Blank})  BY <2>2 DEF Comments!Record
  <2>4. com \in Comments!Comment \cup {Blank}  BY <2>1
  <2>. QED  BY <2>3, <2>4, WithGives, Zenon
<1>5. \A x \in 1 .. Len(old[k].descs) : old[k].descs[x] # com
  <2>. SUFFICES ASSUME NEW x \in 1 .. Len(old[k].descs), old[k].descs[x] = com PROVE FALSE
    OBVIOUS
  <2>1. com.nr = updates /\ updates \in Nat  BY DEF CommentsInv, Comments!TypeOK
  <2>2. com.nr \in 0 .. updates - 1  BY DEF CommentsInv, Dated
  <2>. QED  BY <2>1, <2>2
<1>. HIDE DEF w
<1>6. Len(w) \in Nat /\ Len(w) > 0 /\ w[Len(w)] = com  BY <1>4 DEF Extends
<1>7. \A x \in 1 .. Len(w) : w[x] = com <=> x = Len(w)  BY <1>4, <1>5, <1>6 DEF Extends
<1>8. w # <<>>  BY <1>6
<1>. QED  BY <1>3, <1>7, <1>8

LEMMA CommentsKept == ASSUME CommentsInv PROVE Comments!OwnDescriptions /\ Comments!HistoryKept
<1>1. Comments!OwnDescriptions  BY WrittenFacts DEF Comments!OwnDescriptions, OwnIn
<1>2. ASSUME Comments!Distinct, Comments!OneEach, res = {}, NEW i \in 1 .. Len(fdb),
             Len(old[i].descs) # 1
      PROVE  /\ Len(old[i].descs) <= Len(fdb[i].descs)
             /\ \A x \in 1 .. Len(old[i].descs) : fdb[i].descs[x] = old[i].descs[x]
  <2>1. i \in 1 .. Len(old) /\ SameRecords  BY DEF CommentsInv, SameRecords
  <2>2. old[i].descs \in Seq(Comments!Comment \cup {Blank})
    <3>1. old \in Seq(Comments!Record)  BY DEF CommentsInv, Comments!TypeOK
    <3>2. old[i] \in Comments!Record  BY <2>1, <3>1
    <3>. QED  BY <3>2 DEF Comments!Record
  <2>3. CASE fdb[i].descs = old[i].descs
    <3>1. Len(old[i].descs) \in Nat  BY <2>2
    <3>. QED  BY <2>3, <3>1
  <2>4. CASE fdb[i].descs # old[i].descs
    <3>1. com # Blank /\ com \in Comments!Comment /\ \E k \in 1 .. Len(old) : Comments!Found(com, old[k]) /\ Rewritten(k)
      BY <2>4 DEF CommentsInv, Visited, Comments!TypeOK
    <3>2. PICK k \in 1 .. Len(old) : Comments!Found(com, old[k]) /\ Rewritten(k)  BY <3>1
    <3>3. Comments!Matches(com, old[i]) /\ fdb[i].descs = With(old[k].descs, com)
      BY <2>1, <2>4, <3>2 DEF Rewritten
    <3>4. /\ com.fn = old[i].fn /\ com.file = old[i].file
          /\ com.fn = old[k].fn /\ com.file = old[k].file
      <4>1. /\ <<com.fn, old[i].fn>> \in rel.occurs /\ <<com.file, old[i].file>> \in rel.inPath
            /\ <<com.fn, old[k].fn>> \in rel.occurs /\ <<com.file, old[k].file>> \in rel.inPath
        BY <3>2, <3>3, CommentsAssumption DEF CommentsInv, Comments!TypeOK, Comments!Matches, Comments!Found
      <4>. QED  BY <1>2, <4>1 DEF Comments!Distinct
    <3>5. k = i  BY <1>2, <2>1, <3>4 DEF Comments!OneEach, SameRecords
    <3>6. com \in Comments!Comment \cup {Blank}  BY <3>1
    <3>7. Extends(With(old[i].descs, com), old[i].descs, com)  BY <2>2, <3>6, WithGives, Zenon
    <3>8. Extends(fdb[i].descs, old[i].descs, com)  BY <3>3, <3>5, <3>7
    <3>. QED  BY <1>2, <3>8 DEF Extends
  <2>. QED  BY <2>3, <2>4
<1>3. Comments!HistoryKept  BY <1>2 DEF Comments!HistoryKept, Comments!Idle
<1>. QED  BY <1>1, <1>3
-----------------------------------------------------------------------------
(* The three together: the invariant of the script that runs.              *)
ScriptsInv ==
    /\ WfTypeOK /\ SedInv
    /\ script = "verify" => LoadInv
    /\ script = "comments" => CommentsInv

LEMMA SameWorkflow == ASSUME WfTypeOK, SedInv, UNCHANGED wfVars PROVE WfTypeOK' /\ SedInv'
BY WfTypedNext

LEMMA SameLoad == ASSUME LoadInv, UNCHANGED verifyVars PROVE LoadInv'
BY DEF verifyVars, LoadInv, Load!TypeOK, Progress, Ran, BothSetUp

LEMMA SameComments == ASSUME CommentsInv, UNCHANGED commentVars PROVE CommentsInv'
<1>. USE DEF commentVars
<1>1. Comments!TypeOK' /\ SameRecords'  BY DEF CommentsInv, Comments!TypeOK, SameRecords
<1>2. (com = Blank => fdb = old /\ res = {} /\ updates = 0)'  BY DEF CommentsInv
<1>3. (\A k \in res : Comments!Found(com, old[k]))'  BY DEF CommentsInv, Comments!Found
<1>4. Dated(old, updates)' /\ (com # Blank => com.nr = updates /\ Dated(old, updates - 1))'
  BY DEF CommentsInv, Dated
<1>5. (com # Blank => Visited)'
  BY DEF CommentsInv, Visited, Rewritten, With, Comments!Found, Comments!Matches
<1>6. (Comments!Distinct => OwnIn(old))'
  BY DEF CommentsInv, Comments!Distinct, OwnIn, Comments!Own
<1>. QED  BY <1>1, <1>2, <1>3, <1>4, <1>5, <1>6 DEF CommentsInv

(* The invariant of whichever script runs holds: the files of Phase I and  *)
(* sed's part in them, what verify_extraction.py has executed so far, and  *)
(* what update_ai_comments.py has read and written.                        *)
THEOREM ScriptsHaveInv == ScriptsSpec => []ScriptsInv
<1>1. ScriptsInit => ScriptsInv
  <2>. SUFFICES ASSUME ScriptsInit PROVE ScriptsInv  OBVIOUS
  <2>1. WfTypeOK /\ SedInv  BY WfInitHasInv DEF ScriptsInit, WfInv
  <2>2. script = "verify" => LoadInv  BY LoadInit DEF ScriptsInit
  <2>3. script = "comments" => CommentsInv  BY CommentsInit DEF ScriptsInit
  <2>. QED  BY <2>1, <2>2, <2>3 DEF ScriptsInv
<1>2. ScriptsInv /\ [ScriptsNext]_scriptVars => ScriptsInv'
  <2>. SUFFICES ASSUME ScriptsInv, [ScriptsNext]_scriptVars PROVE ScriptsInv'  OBVIOUS
  <2>1. /\ WfTypeOK /\ SedInv
        /\ script = "verify" => LoadInv
        /\ script = "comments" => CommentsInv
    BY DEF ScriptsInv
  <2>2. CASE script = "workflow" /\ WfNext /\ UNCHANGED <<script, verifyVars, commentVars>>
    <3>1. WfTypeOK' /\ SedInv'  BY <2>1, <2>2, WfTypedNext
    <3>. QED  BY <2>2, <3>1 DEF ScriptsInv
  <2>3. CASE script = "verify" /\ Load!Next /\ UNCHANGED <<script, wfVars, commentVars>>
    <3>1. WfTypeOK' /\ SedInv'  BY <2>1, <2>3, SameWorkflow
    <3>2. LoadInv'  BY <2>1, <2>3, LoadNext
    <3>. QED  BY <2>3, <3>1, <3>2 DEF ScriptsInv
  <2>4. CASE script = "comments" /\ Comments!Next /\ UNCHANGED <<script, wfVars, verifyVars>>
    <3>1. WfTypeOK' /\ SedInv'  BY <2>1, <2>4, SameWorkflow
    <3>2. CommentsInv'  BY <2>1, <2>4, CommentsNext
    <3>. QED  BY <2>4, <3>1, <3>2 DEF ScriptsInv
  <2>5. CASE UNCHANGED scriptVars
    <3>1. script' = script /\ UNCHANGED wfVars /\ UNCHANGED verifyVars /\ UNCHANGED commentVars
      BY <2>5 DEF scriptVars
    <3>2. WfTypeOK' /\ SedInv'  BY <2>1, <3>1, SameWorkflow
    <3>3. (script = "verify" => LoadInv)'  BY <2>1, <3>1, SameLoad
    <3>4. (script = "comments" => CommentsInv)'  BY <2>1, <3>1, SameComments
    <3>. QED  BY <3>2, <3>3, <3>4 DEF ScriptsInv
  <2>. QED  BY <2>2, <2>3, <2>4, <2>5 DEF ScriptsNext
<1>. QED  BY <1>1, <1>2, PTL DEF ScriptsSpec

(* Whichever script runs, its variables and files have their types: in     *)
(* particular update_ai_comments.py leaves a sequence of records.          *)
THEOREM ScriptsTyped == ScriptsSpec => []ScriptsTypeOK
<1>1. ScriptsInv => ScriptsTypeOK  BY DEF ScriptsInv, ScriptsTypeOK, LoadInv, CommentsInv
<1>. QED  BY <1>1, ScriptsHaveInv, PTL

(* If verify_extraction.py ends without an error, every program it was     *)
(* given is attached to interfaces that all have their qdisc, addresses    *)
(* and state; and at no time is a program attached to an interface that is *)
(* not set up, whichever command fails and however often it is run again.  *)
THEOREM LoadIsEvidence == ScriptsSpec => []Loaded
<1>1. ScriptsInv => Loaded  BY LoadPromises DEF ScriptsInv, Loaded
<1>. QED  BY <1>1, ScriptsHaveInv, PTL

(* After update_ai_comments.py has visited all the records it found, those *)
(* that match the function agree and hold the new description last, once:  *)
(* writing from the records read first, not from those written, makes a    *)
(* second turn of the loop repeat the first instead of adding to it.       *)
THEOREM CommentsAreWritten == ScriptsSpec => []Described
<1>1. ScriptsInv => Described  BY CommentsAnnotated DEF ScriptsInv, Described
<1>. QED  BY <1>1, ScriptsHaveInv, PTL

(* Where no name occurs in another and no two paths share their last       *)
(* component, update_ai_comments.py never files a description under        *)
(* another function and never loses one of several descriptions.           *)
THEOREM DescriptionsAreOwn == ScriptsSpec => []DescribedOwn
<1>1. ScriptsInv => DescribedOwn  BY CommentsKept DEF ScriptsInv, DescribedOwn
<1>. QED  BY <1>1, ScriptsHaveInv, PTL
=============================================================================
