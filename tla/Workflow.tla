------------------------------ MODULE Workflow ------------------------------
(***************************************************************************)
(* The three phases of an extraction, which communicate through files of   *)
(* the working directory: runs of Phase I (ExtractionRunner), the call     *)
(* graph that a developer takes over from it in Phase II, and Phase III    *)
(* (src/function-extractor.py), which copies the headers that cscope.files *)
(* lists at that time and then reads the developer's call graph.  The rest *)
(* of Phase III is FunctionExtractor.                                      *)
(***************************************************************************)
EXTENDS ExtractionRunner

VARIABLES
    cleaned,    \* <repo>.<function>.cg.out.cleaned, of Phase II
    phase3,     \* the run of function-extractor.py
    out         \* the output directory of each repository

wfVars == <<vars, cleaned, phase3, out>>

Output == [headers : List, graph : Graph]

WfInit ==
    /\ Init
    /\ cleaned = [k \in Repos \X Fns |-> NoFile]
    /\ phase3 = NoFile
    /\ out = [r \in Repos |-> NoFile]

PhaseI == Next /\ UNCHANGED <<cleaned, phase3, out>>

(* The developer removes duplicate definitions from the call graph, after  *)
(* the run that writes it has ended and while no Phase III runs.           *)
PhaseII(k) ==
    /\ cg[k] # NoFile /\ phase3 = NoFile
    /\ \A p \in Procs : Running(p) => Target(p) # k
    /\ cleaned' = [cleaned EXCEPT ![k] = cg[k]]
    /\ UNCHANGED <<vars, phase3, out>>

CopyHeaders_NoCheck(k) ==
    /\ phase3 = NoFile
    /\ out' = [out EXCEPT ![k[1]] = NoFile]
    /\ phase3' = [key |-> k, headers |-> list]
    /\ UNCHANGED <<vars, cleaned>>
(* make_extraction_dir and copy_include_files, which reads cscope.files as *)
(* it is, also while a run of Phase I writes it; only a part is read if    *)
(* such a run empties it meanwhile.  Without cscope.files the run dies     *)
(* with an empty directory.                                                *)
CopyHeaders(k) ==
    /\ phase3 = NoFile
    /\ out' = [out EXCEPT ![k[1]] = NoFile]
    /\ \/ list = NoFile /\ UNCHANGED phase3
       \/ list # NoFile /\ phase3' = [key |-> k, headers |-> list]
       \/ /\ list # NoFile /\ \E p \in Procs : At(p, "list")
          /\ phase3' = [key |-> k, headers |-> [list EXCEPT !.whole = FALSE]]
    /\ UNCHANGED <<vars, cleaned>>

(* The rest of the run; addDependsOn dies on a path that still begins with *)
(* $HOME.                                                                  *)
ExtractFunctions ==
    /\ phase3 # NoFile
    /\ LET g == cleaned[phase3.key]
       IN  out' = IF g = NoFile \/ ~g.rebased THEN out
                  ELSE [out EXCEPT ![phase3.key[1]] = [headers |-> phase3.headers, graph |-> g]]
    /\ phase3' = NoFile
    /\ UNCHANGED <<vars, cleaned>>

WfNext ==
    \/ PhaseI
    \/ \E k \in Repos \X Fns : PhaseII(k) \/ CopyHeaders(k)
    \/ ExtractFunctions

WfSpec == WfInit /\ [][WfNext]_wfVars
-----------------------------------------------------------------------------
(* Type correctness of the files of the workflow. *)
WfTypeOK ==
    /\ TypeOK
    /\ cleaned \in [Repos \X Fns -> Maybe(Graph)]
    /\ phase3 \in Maybe([key : Repos \X Fns, headers : List])
    /\ out \in [Repos -> Maybe(Output)]

(* However runs fail, overlap with edits or skip the index: if Phase III   *)
(* read the whole of a list of its repository, it copied every header that *)
(* the call graph was computed from.  A list that a run of Phase I was     *)
(* writing just then, or left unfinished, lacks headers, and nothing says  *)
(* so.                                                                     *)
HeadersCoverGraph ==
    \A r \in Repos :
        out[r] # NoFile /\ out[r].headers.repo = r /\ out[r].headers.whole =>
            out[r].graph.of.xref.list.ver <= out[r].headers.ver
=============================================================================
