----------------------------- MODULE DefineScan -----------------------------
(***************************************************************************)
(* addDefines of src/function-extractor.py, called for every .c file that  *)
(* something is extracted from: it copies the #defines of the file to the  *)
(* extracted program, each within "#ifndef <name> ... #endif", following   *)
(* the lines a backslash continues.  The files come from a Python set, so  *)
(* their order is arbitrary.                                               *)
(*                                                                         *)
(* A line is blank, holds a #define, or is anything else.  macro is the    *)
(* macro the #define defines; tok is the token addDefines takes for its    *)
(* name, which for "#define F(a, b)" is "F(a,".                            *)
(***************************************************************************)
EXTENDS Integers, Sequences

CONSTANTS
    Files,      \* extract_defines_files_set
    NoFile,     \* not a file
    Macros,     \* the macros the files define
    Toks,       \* the first tokens after #define
    Lines,      \* the lines a file may hold
    MaxLines,   \* bound on the length of a file
    Tidy        \* TRUE: a continued #define goes on with a line that is not blank

Line == [kind : {"blank", "define", "other"}, macro : Macros, tok : Toks, cont : BOOLEAN]

ASSUME LinesAssumption ==
    /\ Lines \subseteq Line
    /\ \A l \in Lines : l.kind = "blank" => ~l.cont
ASSUME TidyAssumption == Tidy \in BOOLEAN
ASSUME BoundAssumption == MaxLines \in Nat

ASSUME NoFileAssumption == NoFile \notin Files

VARIABLES
    todo,       \* the files of the set not yet iterated over
    file,       \* the file being read, or NoFile
    lineCt,     \* lines of it read so far
    multi,      \* addDefines believes it is inside a continued #define
    names,      \* preprocessor_names
    dups,       \* dup_preprocessor_names
    inDir,      \* C: the next line continues a #define
    sites,      \* C: the #defines of the files, in the order they are read
    guards,     \* C, of the output: for each open #ifndef, was its test true
    defs,       \* C, of the output: the #defines that take effect
    stray       \* lines that were written but belong to no #define

inVars == <<inDir, sites>>
outVars == <<guards, defs, stray>>
vars == <<todo, file, lineCt, multi, names, dups, inDir, sites, guards, defs, stray>>

Site == [macro : Macros, tok : Toks, file : Files, line : Nat]

Init ==
    /\ todo = Files /\ file = NoFile /\ lineCt = 0 /\ multi = FALSE
    /\ names = {} /\ dups = {}
    /\ inDir = FALSE /\ sites = <<>>
    /\ guards = <<>> /\ defs = <<>> /\ stray = {}

-----------------------------------------------------------------------------
(* What a C compiler makes of the lines that are written: a #define takes  *)
(* effect unless an enclosing #ifndef, or its own, found its macro defined.*)

Defined(m) == \E i \in 1 .. Len(defs) : defs[i].macro = m
Enabled == \A i \in 1 .. Len(guards) : guards[i]
WriteDefine(site) ==
    defs' = IF Enabled /\ ~Defined(site.macro) THEN Append(defs, site) ELSE defs

(* What a C compiler makes of the line that is read. *)
ReadDefine(site, l) == inDir' = l.cont /\ sites' = Append(sites, site)
ReadOther(l) == inDir' = (inDir /\ l.cont) /\ UNCHANGED sites

-----------------------------------------------------------------------------
(* addDefines opens the file: multi and lineCt are its local variables. *)
OpenFile(f) ==
    /\ file = NoFile /\ f \in todo
    /\ todo' = todo \ {f} /\ file' = f
    /\ lineCt' = 0 /\ multi' = FALSE /\ inDir' = FALSE
    /\ UNCHANGED <<names, dups, sites, guards, defs, stray>>

(* The next line of the file: a #define starts no line that continues      *)
(* another one.                                                            *)
InFile(l) ==
    /\ file # NoFile /\ lineCt < MaxLines
    /\ inDir => l.kind # "define" /\ (Tidy => l.kind # "blank")
    /\ lineCt' = lineCt + 1
    /\ UNCHANGED <<todo, file>>

SkipBlank(l) ==
    /\ l.kind = "blank" /\ InFile(l)
    /\ ReadOther(l)
    /\ UNCHANGED <<multi, names, dups, outVars>>

Register_Swapped(tok) ==
    IF tok \in names THEN names' = names \cup {tok} /\ UNCHANGED dups
                     ELSE dups' = dups \cup {tok} /\ UNCHANGED names
Register_Keep(tok) == names' = names \cup {tok} /\ UNCHANGED dups
Register(tok) ==
    IF tok \in names THEN dups' = dups \cup {tok} /\ UNCHANGED names
                     ELSE names' = names \cup {tok} /\ UNCHANGED dups

SiteOf(l) == [macro |-> l.macro, tok |-> l.tok, file |-> file, line |-> lineCt + 1]

CopyDefine_Unguarded(l) ==
    /\ l.kind = "define" /\ ~l.cont /\ InFile(l)
    /\ ReadDefine(SiteOf(l), l) /\ Register(l.tok)
    /\ defs' = IF Enabled THEN Append(defs, SiteOf(l)) ELSE defs
    /\ UNCHANGED <<multi, guards, stray>>
(* "#ifndef", the line and "#endif". *)
CopyDefine(l) ==
    /\ l.kind = "define" /\ ~l.cont /\ InFile(l)
    /\ ReadDefine(SiteOf(l), l)
    /\ Register(l.tok)
    /\ WriteDefine(SiteOf(l))
    /\ UNCHANGED <<multi, guards, stray>>

(* "#ifndef" and the line; multi remembers that "#endif" is due. *)
StartDefine(l) ==
    /\ l.kind = "define" /\ l.cont /\ InFile(l)
    /\ ReadDefine(SiteOf(l), l)
    /\ Register(l.tok)
    /\ WriteDefine(SiteOf(l))
    /\ guards' = Append(guards, Enabled /\ ~Defined(l.macro))
    /\ multi' = TRUE
    /\ UNCHANGED stray

WriteLine == stray' = IF inDir THEN stray ELSE stray \cup {<<file, lineCt + 1>>}

ContinueDefine(l) ==
    /\ l.kind = "other" /\ l.cont /\ multi /\ InFile(l)
    /\ ReadOther(l)
    /\ WriteLine
    /\ UNCHANGED <<multi, names, dups, guards, defs>>

EndDefine_NoEndif(l) ==
    /\ l.kind = "other" /\ ~l.cont /\ multi /\ InFile(l)
    /\ ReadOther(l) /\ WriteLine /\ multi' = FALSE
    /\ UNCHANGED <<names, dups, guards, defs>>
(* The last line of the #define and "#endif". *)
EndDefine(l) ==
    /\ l.kind = "other" /\ ~l.cont /\ multi /\ InFile(l)
    /\ ReadOther(l)
    /\ WriteLine
    /\ guards' = SubSeq(guards, 1, Len(guards) - 1)
    /\ multi' = FALSE
    /\ UNCHANGED <<names, dups, defs>>

SkipOther(l) ==
    /\ l.kind = "other" /\ ~multi /\ InFile(l)
    /\ ReadOther(l)
    /\ UNCHANGED <<multi, names, dups, outVars>>

(* End of file: nothing is written, whatever multi says. *)
CloseFile ==
    /\ file # NoFile
    /\ Tidy => ~inDir
    /\ file' = NoFile
    /\ UNCHANGED <<todo, lineCt, multi, names, dups, inVars, outVars>>

ReadLine(l) ==
    SkipBlank(l) \/ CopyDefine(l) \/ StartDefine(l) \/ ContinueDefine(l) \/ EndDefine(l) \/ SkipOther(l)

Next ==
    \/ \E f \in Files : OpenFile(f)
    \/ \E l \in Lines : ReadLine(l)
    \/ CloseFile

Spec == Init /\ [][Next]_vars

-----------------------------------------------------------------------------
(* Type correctness of addDefines' variables and of their C counterparts. *)
TypeOK ==
    /\ todo \subseteq Files /\ file \in Files \cup {NoFile} /\ lineCt \in 0 .. MaxLines
    /\ multi \in BOOLEAN /\ inDir \in BOOLEAN
    /\ names \subseteq Toks /\ dups \subseteq names
    /\ sites \in Seq(Site) /\ defs \in Seq(Site)
    /\ guards \in Seq(BOOLEAN)
    /\ stray \subseteq Files \X Nat

(* When addDefines is done with a file, every #ifndef it wrote is closed:  *)
(* what the extractor writes next (headers, maps, functions) is not inside *)
(* the guard of a #define of an earlier file.  For files that are Tidy.    *)
GuardsClosed == Tidy /\ file = NoFile => guards = <<>>

(* multi tells, before each line of a tidy file, whether the line belongs  *)
(* to the #define that is being copied, so that one "#endif" is due.       *)
MultiTracksDirective ==
    Tidy /\ file # NoFile => multi = inDir /\ Len(guards) = IF multi THEN 1 ELSE 0

(* Only lines of #defines are written ("dump #defines to output file").    *)
DefinesOnly == Tidy => stray = {}

(* Whatever order the set of files is iterated in, each macro is defined   *)
(* in the extracted program, once, and by the first of its #defines that   *)
(* was read.                                                               *)
FirstSite(i) == \A j \in 1 .. i - 1 : sites[j].macro # sites[i].macro
FirstDefinitionWins ==
    Tidy => /\ \A i \in 1 .. Len(sites) : FirstSite(i) => \E k \in 1 .. Len(defs) : defs[k] = sites[i]
            /\ \A k, m \in 1 .. Len(defs) : defs[k].macro = defs[m].macro => k = m

(* A name is reported as a duplicate exactly if two #defines spell it,     *)
(* within a file or across files, whether or not the files are tidy.       *)
Twice(t) == \E i, j \in 1 .. Len(sites) : i < j /\ sites[i].tok = t /\ sites[j].tok = t
DuplicatesExact ==
    /\ names = {sites[i].tok : i \in 1 .. Len(sites)}
    /\ \A t \in Toks : t \in dups <=> Twice(t)
=============================================================================
