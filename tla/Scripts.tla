------------------------------- MODULE Scripts -------------------------------
(***************************************************************************)
(* The scripts around the function extractor: the workflow of the three    *)
(* phases, verify_extraction.py and update_ai_comments.py.  They share no  *)
(* state, so that a behaviour is one of a single script: the workflow does *)
(* not start, and the variables of the others are Off.                     *)
(***************************************************************************)
EXTENDS Workflow, Sequences

CONSTANTS
    Off,                        \* the value of the variables of a script that does not run
    Faulty, MaxVerifyRuns,      \* of VerifyExtraction
    Names, Files, Relations, Blank, InitialDBs, MaxUpdates  \* of CommentsDB

VARIABLES
    script,                                 \* the script that runs
    hooks, status, todo, done, runs, boots, \* of verify_extraction.py
    rel, fdb, com, res, old, updates        \* of update_ai_comments.py

verifyVars == <<hooks, status, todo, done, runs, boots>>
commentVars == <<rel, fdb, com, res, old, updates>>

Load == INSTANCE VerifyExtraction WITH MaxRuns <- MaxVerifyRuns
Comments == INSTANCE CommentsDB WITH db <- fdb

\* A name that another begins with occurs in it.  Databases come with descriptions
\* of earlier times, each of the function of its record.
ASSUME CommentsAssumption ==
    /\ Blank \notin Comments!Comment /\ MaxUpdates \in Nat
    /\ \A r \in Relations : r.begins \subseteq r.occurs
    /\ \A d \in InitialDBs :
          /\ d \in Seq(Comments!Record)
          /\ \A i \in 1 .. Len(d) : \A k \in 1 .. Len(d[i].descs) : d[i].descs[k] # Blank =>
                d[i].descs[k] = [fn |-> d[i].fn, file |-> d[i].file, nr |-> 0]

LoadOff ==
    hooks = Off /\ status = Off /\ todo = Off /\ done = Off /\ runs = Off /\ boots = Off
CommentsOff ==
    rel = Off /\ fdb = Off /\ com = Off /\ res = Off /\ old = Off /\ updates = Off

ScriptsInit ==
    \/ script = "workflow" /\ WfInit /\ LoadOff /\ CommentsOff
    \/ script = "verify" /\ Load!Init /\ WfInit /\ CommentsOff
    \/ script = "comments" /\ Comments!Init /\ WfInit /\ LoadOff
ScriptsNext ==
    \/ script = "workflow" /\ WfNext /\ UNCHANGED <<script, verifyVars, commentVars>>
    \/ script = "verify" /\ Load!Next /\ UNCHANGED <<script, wfVars, commentVars>>
    \/ script = "comments" /\ Comments!Next /\ UNCHANGED <<script, wfVars, verifyVars>>
scriptVars == <<script, wfVars, verifyVars, commentVars>>
ScriptsSpec == ScriptsInit /\ [][ScriptsNext]_scriptVars
-----------------------------------------------------------------------------
(* Type correctness of the files and variables of the script that runs. *)
ScriptsTypeOK ==
    /\ WfTypeOK
    /\ script = "verify" => Load!TypeOK
    /\ script = "comments" => Comments!TypeOK

(* If verify_extraction.py ends normally, the programs it was given are    *)
(* attached, and only to interfaces that are completely set up.            *)
Loaded == script = "verify" => Load!OkMeansAttached /\ Load!AttachedLast

(* After an update of the comment database the records that match the      *)
(* function agree, and hold the new description last and once.             *)
Described == script = "comments" => Comments!Annotated

(* A record of a function whose name and path are unlike all others never  *)
(* gets the description of another function, and never loses one of        *)
(* several descriptions.                                                   *)
DescribedOwn == script = "comments" => Comments!OwnDescriptions /\ Comments!HistoryKept
=============================================================================
