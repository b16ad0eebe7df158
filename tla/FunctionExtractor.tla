------------------------- MODULE FunctionExtractor -------------------------
(***************************************************************************)
(* Phase III: the main program of src/function-extractor.py, run once or   *)
(* several times over the same output directory.  It reads the call graph  *)
(* that Phase I wrote and a human edited, and two JSON dictionaries of the *)
(* struct and function definitions of the repository, and writes           *)
(*   - the extracted program: a preamble, the #defines of the files that   *)
(*     functions come from, #includes, maps, functions, the license line,  *)
(*   - duplicates.out and a copy of the headers and the Makefile beside it,*)
(*   - extractedFuncList.out in the working directory.                     *)
(* A failed command, a missing file or an exception ends it where it is,   *)
(* and so may the user; source files may be removed while it runs.         *)
(*                                                                         *)
(* The guard that extractAndDump puts around a function is the subject of  *)
(* PreprocessorMap and the #defines of a file that of DefineScan: here     *)
(* each is one item of the program.                                        *)
(***************************************************************************)
EXTENDS Integers, Sequences, FiniteSets, Functions

CONSTANTS
    Names,      \* names of functions and of maps
    Srcs,       \* source files
    Ext,        \* "c" or "h": the extension of each source file
    Headers,    \* the headers that source files include
    Token,      \* the last word of the #include line of each header
    Angle,      \* the headers whose token contains '<'
    GuardMacro, \* the macro built from the last component of each token
    Includes,   \* the #include lines of each source file, in order
    Spans,      \* (startLine, endLine) pairs
    NoSpan,     \* the (None, None, None, None) of a function not found yet
    Inputs,     \* what one run of the program may find
    Repeated,   \* bound: the inputs of runs that another run precedes or follows
    MaxRuns     \* bound on the number of runs

Inventory == {"cscope.files", "Makefile", "call graph", "json",
              "duplicates.out", "extractedFuncList.out", "program"}
CgLine == [k : {"brace", "item"}, name : Names, count : Nat, src : Srcs]
StructDef == [text : Nat, words : SUBSET Names, file : Srcs]
FuncDef == [fn : Names, file : Srcs, span : Spans]
Input == [cg : Seq(CgLine),             \* lines of the call graph
          structs : Seq(StructDef),     \* struct_info: definitions, by their text
          funcs : Seq(FuncDef),         \* func_info: definitions, by name
          missing : SUBSET (Srcs \cup Inventory),   \* cannot be opened or copied
          unscannable : SUBSET Srcs,    \* create_preprocessor_map raises IndexError
          vanishing : SUBSET Srcs,      \* may be removed while the program runs
          interrupted : BOOLEAN]        \* the program may be stopped from outside

ASSUME InputsAssumption == Inputs \subseteq Input /\ Repeated \subseteq Inputs
ASSUME SrcsAssumption == Ext \in [Srcs -> {"c", "h"}] /\ Includes \in [Srcs -> Seq(Headers)]
ASSUME SpansAssumption == NoSpan \notin Spans
ASSUME MaxRunsAssumption == MaxRuns \in Nat

VARIABLES
    inp, runs,          \* the input of this run, the number of runs
    gone,               \* source files removed since the list was begun
    stage, at, dead,    \* the loop the program is in, its index, has it failed
    opdir,              \* the files in the output directory
    program, dupFile,   \* the contents of two of them
    plist,              \* the contents of extractedFuncList.out
    ct, fns, duplicates, headers, maps, opMaps,     \* as in the code
    inc,                \* #include lines that addDependsOn has read of its file
    listed,             \* is the function that is dumped on the list already
    scanned,            \* the keys of presDict
    todo                \* extract_defines_files_set

env == <<inp, runs, gone>>
ctl == <<stage, at, dead>>
disk == <<opdir, program, dupFile, plist>>
mem == <<ct, fns, duplicates, headers, inc, maps, opMaps, scanned, todo, listed>>
vars == <<env, ctl, disk, mem>>

Stages == {"clean", "include", "makefile", "open duplicates", "open graph", "open list",
           "open program", "parse", "structs", "funcs", "defines", "headers", "maps", "dump",
           "license", "report", "done"}
Entries == {"headers", "Makefile", "duplicates.out", "program"}

At(s) == stage = s /\ ~dead
Goto(s) == stage' = s /\ at' = 1 /\ UNCHANGED dead
Step == at' = at + 1 /\ UNCHANGED <<stage, dead>>
Die == dead' = TRUE /\ UNCHANGED <<stage, at>>
Item(k, x) == [k |-> k, of |-> x]
Write(k, x) == program' = Append(program, Item(k, x))

MemInit ==
    /\ ct = 0 /\ fns = <<>> /\ duplicates = <<>> /\ headers = <<>> /\ inc = 0
    /\ maps = <<>> /\ opMaps = <<>> /\ scanned = {} /\ todo = {} /\ listed = FALSE

Init ==
    /\ inp \in Inputs /\ runs = 1 /\ gone = {}
    /\ stage = "clean" /\ at = 1 /\ dead = FALSE
    /\ opdir = {} /\ program = <<>> /\ dupFile = <<>> /\ plist = <<>>
    /\ MemInit

-----------------------------------------------------------------------------
(* The output directory. *)

(* Every entry is deleted; a deletion that fails is printed and forgotten. *)
MakeExtractionDir ==
    /\ At("clean")
    /\ \E kept \in SUBSET opdir :
          /\ opdir' = kept
          /\ program' = IF "program" \in kept THEN program ELSE <<>>
          /\ dupFile' = IF "duplicates.out" \in kept THEN dupFile ELSE <<>>
    /\ Goto("include")
    /\ UNCHANGED <<env, plist, mem>>

(* copy_include_files stops at the first header it cannot copy. *)
CopyIncludeFiles ==
    /\ At("include")
    /\ IF "cscope.files" \notin inp.missing
         THEN opdir' = opdir \cup {"headers"} /\ Goto("makefile")
         ELSE opdir' \in {opdir, opdir \cup {"headers"}} /\ Die
    /\ UNCHANGED <<env, program, dupFile, plist, mem>>

CopyMakefile ==
    /\ At("makefile")
    /\ IF "Makefile" \notin inp.missing
         THEN opdir' = opdir \cup {"Makefile"} /\ Goto("open duplicates")
         ELSE UNCHANGED opdir /\ Die
    /\ UNCHANGED <<env, program, dupFile, plist, mem>>

(* The main program opens four files, each of which may fail: the first    *)
(* and the last two are emptied.                                           *)
OpenDuplicates ==
    /\ At("open duplicates")
    /\ IF "duplicates.out" \notin inp.missing
         THEN dupFile' = <<>> /\ opdir' = opdir \cup {"duplicates.out"} /\ Goto("open graph")
         ELSE UNCHANGED <<dupFile, opdir>> /\ Die
    /\ UNCHANGED <<env, program, plist, mem>>

OpenGraph ==
    /\ At("open graph")
    /\ IF "call graph" \notin inp.missing THEN Goto("open list") ELSE Die
    /\ UNCHANGED <<env, disk, mem>>

OpenList_Appends ==
    /\ At("open list") /\ Goto("open program")
    /\ gone' = {} /\ UNCHANGED <<inp, runs, disk, mem>>
(* The list is empty from here on, whatever becomes of the program. *)
OpenList ==
    /\ At("open list")
    /\ IF "extractedFuncList.out" \notin inp.missing
         THEN plist' = <<>> /\ gone' = {} /\ Goto("open program")
         ELSE UNCHANGED <<plist, gone>> /\ Die
    /\ UNCHANGED <<inp, runs, opdir, program, dupFile, mem>>

OpenProgram ==
    /\ At("open program")
    /\ IF "program" \notin inp.missing
         THEN program' = <<>> /\ opdir' = opdir \cup {"program"} /\ Goto("parse")
         ELSE UNCHANGED <<program, opdir>> /\ Die
    /\ UNCHANGED <<env, dupFile, plist, mem>>

Absent == inp.missing \cup gone

-----------------------------------------------------------------------------
(* parseFunctionCallGraph: functions up to the second brace, maps between  *)
(* the third and the fourth.                                               *)

CgAt(k) == At("parse") /\ at <= Len(inp.cg) /\ inp.cg[at].k = k

ParseBrace ==
    /\ CgAt("brace")
    /\ ct' = ct + 1
    /\ Step
    /\ UNCHANGED <<env, disk, fns, duplicates, headers, inc, maps, opMaps, scanned, todo, listed>>

(* A function with several definitions is set aside. *)
ProcessDuplicate ==
    /\ CgAt("item") /\ ct < 2
    /\ inp.cg[at].count > 1
    /\ duplicates' = Append(duplicates, inp.cg[at])
    /\ Step
    /\ UNCHANGED <<env, disk, ct, fns, headers, inc, maps, opMaps, scanned, todo, listed>>

HasKey(fn, file) == \E i \in 1 .. Len(fns) : fns[i].fn = fn /\ fns[i].file = file
(* fns[key] = (None, ...): a new key goes to the end of the OrderedDict. *)
InsertFn(l) ==
    fns' = IF HasKey(l.name, l.src) THEN fns
           ELSE Append(fns, [fn |-> l.name, file |-> l.src, span |-> NoSpan])

(* A function with a single definition.  If that is in a .c file, the      *)
(* #include lines of the file are gone through first.                      *)
FnLine == CgAt("item") /\ ct < 2 /\ inp.cg[at].count <= 1
FnSrc == inp.cg[at].src
Unread == Ext[FnSrc] = "c" /\ inc < Len(Includes[FnSrc])
CannotRead == Ext[FnSrc] = "c" /\ inc = 0 /\ FnSrc \in Absent

AddDependsOn_Nested ==
    /\ FnLine /\ Unread /\ ~CannotRead
    /\ headers' = Append(headers, <<Token[Includes[FnSrc][inc + 1]]>>)
    /\ inc' = inc + 1
    /\ UNCHANGED <<env, ctl, disk, ct, fns, duplicates, maps, opMaps, scanned, todo, listed>>
AddDependsOn_Overwrites ==
    /\ FnLine /\ Unread /\ ~CannotRead
    /\ headers' = <<Token[Includes[FnSrc][inc + 1]]>>
    /\ inc' = inc + 1
    /\ UNCHANGED <<env, ctl, disk, ct, fns, duplicates, maps, opMaps, scanned, todo, listed>>
(* One iteration: a token that headers does not have yet goes to its end. *)
AddDependsOn ==
    /\ FnLine /\ Unread /\ ~CannotRead
    /\ LET h == Token[Includes[FnSrc][inc + 1]]
       IN  headers' = IF h \in Range(headers) THEN headers ELSE Append(headers, h)
    /\ inc' = inc + 1
    /\ UNCHANGED <<env, ctl, disk, ct, fns, duplicates, maps, opMaps, scanned, todo, listed>>

DependsOnFails ==
    /\ FnLine /\ CannotRead
    /\ Die
    /\ UNCHANGED <<env, disk, mem>>

ProcessFuncLine ==
    /\ FnLine /\ ~Unread /\ ~CannotRead
    /\ InsertFn(inp.cg[at])
    /\ inc' = 0
    /\ Step
    /\ UNCHANGED <<env, disk, ct, duplicates, headers, maps, opMaps, scanned, todo, listed>>

ProcessMapLine ==
    /\ CgAt("item") /\ ct = 3
    /\ maps' = IF inp.cg[at].name \in Range(maps) THEN maps ELSE Append(maps, inp.cg[at].name)
    /\ Step
    /\ UNCHANGED <<env, disk, ct, fns, duplicates, headers, inc, opMaps, scanned, todo, listed>>

(* The duplicate map definitions that follow: "IGNORE FOR NOW". *)
IgnoreLine ==
    /\ CgAt("item") /\ ct >= 2 /\ ct # 3
    /\ Step
    /\ UNCHANGED <<env, disk, mem>>

(* The preamble is written, then both JSON files are loaded. *)
EndParse ==
    /\ At("parse") /\ at > Len(inp.cg)
    /\ Write("preamble", NoSpan)
    /\ IF "json" \in inp.missing THEN Die ELSE Goto("structs")
    /\ UNCHANGED <<env, opdir, dupFile, plist, mem>>

-----------------------------------------------------------------------------
(* extract_maps_from_struct_defs and build_fn_list_to_extract.             *)

Def == IF stage = "structs" THEN inp.structs[at] ELSE inp.funcs[at]
DefAt(s) == At(s) /\ at <= IF s = "structs" THEN Len(inp.structs) ELSE Len(inp.funcs)
Scannable(file) == file \in scanned \/ file \notin Absent \cup inp.unscannable
Scan(file) == scanned' = scanned \cup {file}

(* create_preprocessor_map raises, for any definition of the repository. *)
ScanFails ==
    /\ DefAt("structs") \/ DefAt("funcs")
    /\ ~Scannable(Def.file)
    /\ Die
    /\ UNCHANGED <<env, disk, mem>>

(* doesStructContainMap: map i is the first that is a word of the text. *)
FirstMap(d, i) == maps[i] \in d.words /\ \A j \in 1 .. i - 1 : maps[j] \notin d.words

SkipStruct ==
    /\ DefAt("structs") /\ Scannable(Def.file)
    /\ Range(maps) \cap Def.words = {}
    /\ Scan(Def.file)
    /\ Step
    /\ UNCHANGED <<env, disk, ct, fns, duplicates, headers, inc, maps, opMaps, todo, listed>>

(* The text is kept with a "//fileName ..." line for this definition and   *)
(* for each earlier definition of the same text.                           *)
Heads == {inp.structs[j].file : j \in {k \in 1 .. at : inp.structs[k].text = Def.text}}
AddMapDef(m) ==
    IF \E i \in 1 .. Len(opMaps) : opMaps[i].map = m
    THEN [i \in 1 .. Len(opMaps) |->
             IF opMaps[i].map = m THEN [map |-> m, defs |-> Append(opMaps[i].defs, Heads)]
                                  ELSE opMaps[i]]
    ELSE Append(opMaps, [map |-> m, defs |-> <<Heads>>])

ExtractMap ==
    /\ DefAt("structs") /\ Scannable(Def.file)
    /\ Scan(Def.file)
    /\ \E i \in 1 .. Len(maps) : FirstMap(Def, i) /\ opMaps' = AddMapDef(maps[i])
    /\ IF Ext[Def.file] = "c" THEN Die    \* NameError: fileNmae is not defined
                              ELSE Step
    /\ UNCHANGED <<env, disk, ct, fns, duplicates, headers, inc, maps, todo, listed>>

EndStructs ==
    /\ At("structs") /\ at > Len(inp.structs)
    /\ Goto("funcs")
    /\ UNCHANGED <<env, disk, mem>>

BuildFn_FirstWins ==
    /\ DefAt("funcs") /\ Scannable(Def.file) /\ Scan(Def.file)
    /\ fns' = [i \in 1 .. Len(fns) |->
                 IF fns[i].fn = Def.fn /\ fns[i].file = Def.file /\ fns[i].span = NoSpan
                   THEN Def ELSE fns[i]]
    /\ todo' = IF HasKey(Def.fn, Def.file) /\ Ext[Def.file] = "c" THEN todo \cup {Def.file} ELSE todo
    /\ Step
    /\ UNCHANGED <<env, disk, ct, duplicates, headers, inc, maps, opMaps, listed>>
BuildFn_HeadersOnly ==
    /\ DefAt("funcs") /\ Scannable(Def.file) /\ Scan(Def.file)
    /\ fns' = [i \in 1 .. Len(fns) |->
                 IF fns[i].fn = Def.fn /\ fns[i].file = Def.file THEN Def ELSE fns[i]]
    /\ todo' = IF HasKey(Def.fn, Def.file) /\ Ext[Def.file] = "h" THEN todo \cup {Def.file} ELSE todo
    /\ Step
    /\ UNCHANGED <<env, disk, ct, duplicates, headers, inc, maps, opMaps, listed>>
(* The last definition with a key of the call graph is the one extracted. *)
BuildFn ==
    /\ DefAt("funcs") /\ Scannable(Def.file)
    /\ Scan(Def.file)
    /\ fns' = [i \in 1 .. Len(fns) |->
                 IF fns[i].fn = Def.fn /\ fns[i].file = Def.file THEN Def ELSE fns[i]]
    /\ todo' = IF HasKey(Def.fn, Def.file) /\ Ext[Def.file] = "c" THEN todo \cup {Def.file} ELSE todo
    /\ Step
    /\ UNCHANGED <<env, disk, ct, duplicates, headers, inc, maps, opMaps, listed>>

EndFuncs ==
    /\ At("funcs") /\ at > Len(inp.funcs)
    /\ Goto("defines")
    /\ UNCHANGED <<env, disk, mem>>

-----------------------------------------------------------------------------
(* The program is written. *)

(* A set is iterated over in an arbitrary order. *)
AddDefines(c) ==
    /\ At("defines") /\ c \in todo \ gone
    /\ Write("defines", c)
    /\ todo' = todo \ {c}
    /\ UNCHANGED <<env, ctl, opdir, dupFile, plist, ct, fns, duplicates, headers, inc, maps, opMaps,
                   scanned, listed>>

DefinesFail ==
    /\ At("defines") /\ todo \cap gone # {}
    /\ Die
    /\ UNCHANGED <<env, disk, mem>>

EndDefines ==
    /\ At("defines") /\ todo = {}
    /\ Goto("headers")
    /\ UNCHANGED <<env, disk, mem>>

WriteHeader ==
    /\ At("headers") /\ at <= Len(headers)
    /\ Write("include", headers[at])
    /\ Step
    /\ UNCHANGED <<env, opdir, dupFile, plist, mem>>

EndHeaders ==
    /\ At("headers") /\ at > Len(headers)
    /\ Goto("maps")
    /\ UNCHANGED <<env, disk, mem>>

(* A definition is written unless ".h" occurs in the lines before it. *)
FromHeader(heads) == \E h \in heads : Ext[h] = "h"
WriteMap ==
    /\ At("maps") /\ at <= Len(opMaps)
    /\ program' = program \o
          [i \in 1 .. Cardinality({d \in 1 .. Len(opMaps[at].defs) : ~FromHeader(opMaps[at].defs[d])})
              |-> Item("map", opMaps[at].map)]
    /\ Step
    /\ UNCHANGED <<env, opdir, dupFile, plist, mem>>

EndMaps ==
    /\ At("maps") /\ at > Len(opMaps)
    /\ Goto("dump")
    /\ UNCHANGED <<env, disk, mem>>

ToDump(e) == e.span # NoSpan /\ Ext[e.file] # "h"

(* One iteration of dumpFns: the line of the list, *)
ListFn ==
    /\ At("dump") /\ at <= Len(fns) /\ ~listed
    /\ ToDump(fns[at])
    /\ plist' = Append(plist, fns[at])
    /\ listed' = TRUE
    /\ UNCHANGED <<env, ctl, opdir, program, dupFile, ct, fns, duplicates, headers, inc, maps, opMaps,
                   scanned, todo>>

DumpFn_Raises ==
    /\ At("dump") /\ listed
    /\ Die
    /\ UNCHANGED <<env, disk, mem>>
(* then extractAndDump, which returns at once if the file is not there any *)
(* more,                                                                   *)
DumpFn ==
    /\ At("dump") /\ listed
    /\ IF fns[at].file \in gone THEN UNCHANGED program ELSE Write("fn", fns[at])
    /\ listed' = FALSE
    /\ Step
    /\ UNCHANGED <<env, opdir, dupFile, plist, ct, fns, duplicates, headers, inc, maps, opMaps, scanned,
                   todo>>

(* A function that is being written may stay a beginning of it. *)
LeavePart == program' = program \/ Write("part", fns[at])

(* or raises, perhaps after the line of the guard, if the file goes before *)
(* it is opened.                                                           *)
DumpFails ==
    /\ At("dump") /\ listed
    /\ fns[at].file \in gone
    /\ LeavePart
    /\ Die
    /\ UNCHANGED <<env, opdir, dupFile, plist, mem>>

SkipFn ==
    /\ At("dump") /\ at <= Len(fns)
    /\ ~ToDump(fns[at])
    /\ Step
    /\ UNCHANGED <<env, disk, mem>>

EndDump_Early ==
    /\ At("dump") /\ Goto("license")
    /\ UNCHANGED <<env, disk, mem>>
EndDump ==
    /\ At("dump") /\ at > Len(fns)
    /\ Goto("license")
    /\ UNCHANGED <<env, disk, mem>>

WriteLicense ==
    /\ At("license")
    /\ Write("license", NoSpan)
    /\ Goto("report")
    /\ UNCHANGED <<env, opdir, dupFile, plist, mem>>

ReportDuplicates ==
    /\ At("report")
    /\ dupFile' = duplicates
    /\ Goto("done")
    /\ UNCHANGED <<env, opdir, program, plist, mem>>

-----------------------------------------------------------------------------
(* What the program does not decide. *)

Stopped == dead \/ stage = "done"
Opened == stage \notin {"clean", "include", "makefile", "open duplicates", "open graph",
                       "open list", "open program"}

(* A source file is removed or renamed. *)
Vanish(c) ==
    /\ c \in inp.vanishing \ gone /\ Opened /\ ~Stopped
    /\ gone' = gone \cup {c}
    /\ UNCHANGED <<inp, runs, ctl, disk, mem>>

(* The user stops the program between two of its steps or within a         *)
(* function; what was written until then is flushed.                       *)
Interrupt ==
    /\ inp.interrupted /\ ~Stopped
    /\ IF listed THEN LeavePart ELSE UNCHANGED program
    /\ Die
    /\ UNCHANGED <<env, opdir, dupFile, plist, mem>>

(* The program is started again, with the same output directory. *)
Rerun(i) ==
    /\ runs' = runs + 1
    /\ inp' = i
    /\ stage' = "clean" /\ at' = 1 /\ dead' = FALSE
    /\ ct' = 0 /\ fns' = <<>> /\ duplicates' = <<>> /\ headers' = <<>> /\ inc' = 0
    /\ maps' = <<>> /\ opMaps' = <<>> /\ scanned' = {} /\ todo' = {} /\ listed' = FALSE
    /\ UNCHANGED <<gone, disk>>

Work ==
    \/ MakeExtractionDir \/ CopyIncludeFiles \/ CopyMakefile
    \/ OpenDuplicates \/ OpenGraph \/ OpenList \/ OpenProgram
    \/ ParseBrace \/ ProcessDuplicate \/ AddDependsOn \/ DependsOnFails \/ ProcessFuncLine
    \/ ProcessMapLine \/ IgnoreLine \/ EndParse
    \/ ScanFails \/ SkipStruct \/ ExtractMap \/ EndStructs \/ BuildFn \/ EndFuncs
    \/ (\E c \in Srcs : AddDefines(c)) \/ DefinesFail \/ EndDefines
    \/ WriteHeader \/ EndHeaders \/ WriteMap \/ EndMaps
    \/ ListFn \/ DumpFn \/ DumpFails \/ SkipFn \/ EndDump \/ WriteLicense \/ ReportDuplicates

Next ==
    \/ Work
    \/ \E c \in Srcs : Vanish(c)
    \/ Interrupt
    \/ (Stopped /\ runs < MaxRuns /\ inp \in Repeated /\ \E i \in Repeated : Rerun(i))

(* Nothing but the program decides when it takes its next step: it runs on. *)
Spec == Init /\ [][Next]_vars /\ WF_vars(Work)
-----------------------------------------------------------------------------
Tokens == {Token[h] : h \in Headers}
Fn == [fn : Names, file : Srcs, span : Spans \cup {NoSpan}]

(* Type correctness of the program's variables and files. *)
TypeOK ==
    /\ inp \in Input /\ runs \in Nat /\ gone \subseteq Srcs /\ listed \in BOOLEAN
    /\ stage \in Stages /\ at \in Nat \ {0} /\ dead \in BOOLEAN
    /\ opdir \subseteq Entries
    /\ ct \in Nat /\ fns \in Seq(Fn) /\ plist \in Seq(Fn)
    /\ duplicates \in Seq(CgLine) /\ dupFile \in Seq(CgLine)
    /\ headers \in Seq(Tokens) /\ inc \in Nat /\ maps \in Seq(Names)
    /\ opMaps \in Seq([map : Names, defs : Seq(SUBSET Srcs)])
    /\ scanned \subseteq Srcs /\ todo \subseteq Srcs

(* Whatever run wrote them, and wherever that run or a later one stopped:  *)
(* unless the list has just been emptied, the functions of the program are *)
(* listed, and in the same order, and the program has all those listed but *)
(* those whose file was removed meanwhile and, if it was not finished, the *)
(* last one.                                                               *)
Licensed == \E i \in 1 .. Len(program) : program[i].k = "license"
ListMatchesProgram ==
    program # <<>> /\ (plist # <<>> \/ Opened) =>
        /\ \A i \in 1 .. Len(program) : program[i].k = "fn" => program[i].of \in Range(plist)
        /\ \A i, j \in 1 .. Len(program), n, m \in 1 .. Len(plist) :
              i < j /\ program[i] = Item("fn", plist[n]) /\ program[j] = Item("fn", plist[m]) => n < m
        /\ \A n \in 1 .. Len(plist) :
              plist[n].file \notin gone /\ (n = Len(plist) => Licensed) =>
                  Item("fn", plist[n]) \in Range(program)

(* The run as Phase III promises it: what an earlier run left in the       *)
(* directory does not count until the files of this one are opened.  The   *)
(* functions are those listed; ListMatchesProgram says which of them are   *)
(* in the program.                                                         *)
Promise == INSTANCE Extraction WITH
    input <- inp,
    status <- IF dead THEN "failed" ELSE IF stage = "done" THEN "done" ELSE "running",
    written <- IF Opened THEN plist ELSE <<>>,
    reported <- IF Opened THEN dupFile ELSE <<>>

(* The extractor implements Extraction: it lists only functions that the   *)
(* input asks for, none twice, ends normally only when all are listed,     *)
(* reports every ambiguous line then, and after it stopped changes nothing *)
(* until it is run again.                                                  *)
ImplementsExtraction == Promise!Spec

(* The #defines of a file are in the program, once, before any function    *)
(* of that file.                                                           *)
DefinesPrecedeFunctions ==
    /\ \A i \in 1 .. Len(program) : program[i].k = "fn" =>
          \E j \in 1 .. i - 1 : program[j] = Item("defines", program[i].of.file)
    /\ \A i, j \in 1 .. Len(program) :
          program[i].k = "defines" /\ program[i] = program[j] => i = j

(* The license line is the last thing written: in this run's program it    *)
(* stands for completeness, however the run ends, but for files that were  *)
(* removed while it ran.                                                   *)
LicenseMeansComplete ==
    \A i \in 1 .. Len(program) : Opened /\ program[i].k = "license" =>
        /\ i = Len(program)
        /\ \A j \in 1 .. Len(fns) :
              ToDump(fns[j]) /\ fns[j].file \notin gone => Item("fn", fns[j]) \in Range(program)

(* Compiling the program includes a header if no header written before it  *)
(* defined the same guard macro.                                           *)
Included(h) ==
    \E j \in 1 .. Len(program) :
        /\ program[j] = Item("include", h)
        /\ h \in Angle \/ \A m \in 1 .. j - 1 :
              program[m].k = "include" /\ program[m].of \notin Angle
                  => GuardMacro[program[m].of] # GuardMacro[h]

(* "include required header files": every header that the file of a dumped *)
(* function includes is included by the program.                           *)
HeadersIncluded ==
    stage = "done" =>
        \A e \in Range(program) : e.k = "fn" => \A h \in Range(Includes[e.of.file]) : Included(h)

CMap(i) == Ext[inp.structs[i].file] = "c" /\ inp.structs[i].words \cap Promise!MapNames(inp.cg) # {}
Readable == inp.missing = {} /\ inp.unscannable = {} /\ (Opened => gone = {})

(* Every run stops; it completes unless a file cannot be opened, was       *)
(* removed or cannot be scanned, a map is defined in a .c file or somebody *)
(* stops it.                                                               *)
CompletesUnlessCause ==
    (stage = "clean") ~> \/ stage = "done"
                         \/ /\ dead
                            /\ ~Readable \/ inp.interrupted \/ \E i \in 1 .. Len(inp.structs) : CMap(i)
=============================================================================
