---------------------- MODULE FunctionExtractorProofs ----------------------
(***************************************************************************)
(* Proofs about FunctionExtractor, for any inputs and any number of runs   *)
(* into one directory.                                                     *)
(***************************************************************************)
EXTENDS FunctionExtractor, SequenceTheorems, FiniteSetTheorems, TLAPS

Restart == \E i \in Repeated : Rerun(i)
(* A step of the program, or of what stops it or removes a file meanwhile. *)
Outside == Interrupt \/ \E c \in Srcs : Vanish(c)
Act == Work \/ Outside

LEMMA OutsideKeeps ==
    ASSUME Outside
    PROVE  /\ ~dead /\ stage # "done" /\ stage' = stage /\ at' = at /\ inp' = inp /\ plist' = plist
           /\ mem' = mem /\ ct' = ct /\ fns' = fns /\ headers' = headers /\ inc' = inc
BY DEF Outside, Interrupt, Vanish, Stopped, Die, ctl, disk, mem, env

-----------------------------------------------------------------------------
(* Which actions write a variable. *)
LEMMA Writers ==
    ASSUME Act
    PROVE  /\ inp' = inp /\ runs' = runs
           /\ ct' = ct \/ ParseBrace
           /\ fns' = fns \/ ProcessFuncLine \/ BuildFn
           /\ duplicates' = duplicates \/ ProcessDuplicate
           /\ headers' = headers \/ AddDependsOn
           /\ inc' = inc \/ AddDependsOn \/ ProcessFuncLine
           /\ maps' = maps \/ ProcessMapLine
           /\ opMaps' = opMaps \/ ExtractMap
           /\ scanned' = scanned \/ SkipStruct \/ ExtractMap \/ BuildFn
           /\ todo' = todo \/ BuildFn \/ \E c \in Srcs : AddDefines(c)
           /\ gone' = gone \/ OpenList \/ \E c \in Srcs : Vanish(c)
           /\ listed' = listed \/ ListFn \/ DumpFn
           /\ plist' = plist \/ OpenList \/ ListFn
           /\ dupFile' = dupFile \/ MakeExtractionDir \/ OpenDuplicates \/ ReportDuplicates
           /\ \/ program' = program \/ MakeExtractionDir \/ OpenProgram \/ EndParse
              \/ \E c \in Srcs : AddDefines(c)
              \/ WriteHeader \/ WriteMap \/ DumpFn \/ DumpFails \/ WriteLicense \/ Interrupt
           /\ \/ opdir' = opdir \/ MakeExtractionDir \/ CopyIncludeFiles \/ CopyMakefile
              \/ OpenDuplicates \/ OpenProgram
BY DEF Act, Outside, Work, env, Vanish, Interrupt, Stopped, mem, disk, ctl, MakeExtractionDir,
       CopyIncludeFiles, CopyMakefile, OpenDuplicates, OpenGraph, OpenList, OpenProgram, ParseBrace,
       ProcessDuplicate, AddDependsOn, DependsOnFails, ProcessFuncLine, ProcessMapLine, IgnoreLine,
       EndParse, ScanFails, SkipStruct, ExtractMap, EndStructs, BuildFn, EndFuncs, AddDefines,
       DefinesFail, EndDefines, WriteHeader, EndHeaders, WriteMap, EndMaps, ListFn, DumpFn,
       DumpFails, SkipFn, LeavePart, EndDump, WriteLicense, ReportDuplicates

(* Where the program goes from each stage. *)
Follows ==
    {<<"clean", "include">>, <<"include", "makefile">>, <<"makefile", "open duplicates">>,
     <<"open duplicates", "open graph">>, <<"open graph", "open list">>,
     <<"open list", "open program">>, <<"open program", "parse">>, <<"parse", "structs">>,
     <<"structs", "funcs">>, <<"funcs", "defines">>, <<"defines", "headers">>, <<"headers", "maps">>,
     <<"maps", "dump">>, <<"dump", "license">>, <<"license", "report">>, <<"report", "done">>}

LEMMA Control ==
    ASSUME Act
    PROVE  /\ ~dead
           /\ \/ stage' = stage /\ at' = at /\ dead' \in {dead, TRUE}
              \/ stage' = stage /\ at' = at + 1 /\ dead' = dead
              \/ <<stage, stage'>> \in Follows /\ at' = 1 /\ dead' = dead
BY DEF Act, Outside, Work, env, Vanish, Interrupt, Stopped, mem, disk, ctl, Step, Goto, Die, At,
       CgAt, DefAt, FnLine, Follows, MakeExtractionDir, CopyIncludeFiles, CopyMakefile,
       OpenDuplicates, OpenGraph, OpenList, OpenProgram, ParseBrace, ProcessDuplicate, AddDependsOn,
       DependsOnFails, ProcessFuncLine, ProcessMapLine, IgnoreLine, EndParse, ScanFails, SkipStruct,
       ExtractMap, EndStructs, BuildFn, EndFuncs, AddDefines, DefinesFail, EndDefines, WriteHeader,
       EndHeaders, WriteMap, EndMaps, ListFn, DumpFn, DumpFails, SkipFn, LeavePart, EndDump,
       WriteLicense, ReportDuplicates

-----------------------------------------------------------------------------
(* Types. *)
Kinds == {"preamble", "defines", "include", "map", "fn", "part", "license"}
Things == {NoSpan} \cup Srcs \cup Tokens \cup Names \cup Fn
MapDefs == [map : Names, defs : Seq(SUBSET Srcs)]
Items == [k : Kinds, of : Things]
Typed ==
    /\ TypeOK /\ program \in Seq(Items)
    /\ listed => stage = "dump" /\ at \in 1 .. Len(fns) /\ ToDump(fns[at])

LEMMA InputTyped ==
    ASSUME inp \in Input
    PROVE  /\ inp.cg \in Seq(CgLine) /\ inp.structs \in Seq(StructDef) /\ inp.funcs \in Seq(FuncDef)
           /\ \A i \in 1 .. Len(inp.cg) :
                 /\ inp.cg[i] \in CgLine /\ inp.cg[i].name \in Names /\ inp.cg[i].src \in Srcs
                 /\ inp.cg[i].count \in Nat
           /\ \A i \in 1 .. Len(inp.structs) :
                 inp.structs[i] \in StructDef /\ inp.structs[i].file \in Srcs
           /\ \A i \in 1 .. Len(inp.funcs) :
                 /\ inp.funcs[i] \in FuncDef /\ inp.funcs[i].file \in Srcs /\ inp.funcs[i].fn \in Names
                 /\ inp.funcs[i].span \in Spans /\ inp.funcs[i] \in Fn
<1>1. /\ inp.cg \in Seq(CgLine) /\ inp.structs \in Seq(StructDef) /\ inp.funcs \in Seq(FuncDef)
  BY DEF Input
<1>2. /\ \A i \in 1 .. Len(inp.cg) : inp.cg[i] \in CgLine
      /\ \A i \in 1 .. Len(inp.structs) : inp.structs[i] \in StructDef
      /\ \A i \in 1 .. Len(inp.funcs) : inp.funcs[i] \in FuncDef
  BY <1>1
<1>3. \A l \in CgLine : l.name \in Names /\ l.src \in Srcs /\ l.count \in Nat  BY DEF CgLine
<1>4. \A d \in StructDef : d.file \in Srcs  BY DEF StructDef
<1>5. \A d \in FuncDef : d.file \in Srcs /\ d.fn \in Names /\ d.span \in Spans /\ d \in Fn
  BY DEF FuncDef, Fn
<1>. QED  BY <1>1, <1>2, <1>3, <1>4, <1>5

LEMMA ItemTyped ==
    ASSUME NEW k \in Kinds, NEW x \in Things
    PROVE  Item(k, x) \in Items /\ Item(k, x).k = k /\ Item(k, x).of = x
BY DEF Item, Items

(* What item a step appends to the program, in which stage. *)
From(x) ==
    \/ stage = "parse" /\ x.k = "preamble"
    \/ stage = "defines" /\ x.k = "defines" /\ x.of \in todo /\ todo' = todo \ {x.of}
    \/ stage = "headers" /\ x.k = "include" /\ at \in 1 .. Len(headers) /\ x.of = headers[at] /\ at' = at + 1
    \/ stage = "maps" /\ x.k = "map"
    \/ /\ stage = "dump" /\ x.k = "fn" /\ at \in 1 .. Len(fns) /\ x.of = fns[at] /\ ToDump(fns[at])
       /\ stage' = "dump" /\ at' = at + 1
    \/ stage = "dump" /\ x.k = "part"
    \/ stage = "license" /\ x.k = "license" /\ stage' = "report"
Appends(w) ==
    /\ program' = program \o w
    /\ \A i \in 1 .. Len(w) : From(w[i])
    /\ stage # "maps" => Len(w) <= 1

LEMMA Cat ==
    ASSUME NEW S, NEW p \in Seq(S), NEW w \in Seq(S)
    PROVE  /\ p \o w \in Seq(S) /\ Len(p \o w) = Len(p) + Len(w)
           /\ Len(p) \in Nat /\ Len(w) \in Nat
           /\ \A i \in 1 .. Len(p) : i \in 1 .. Len(p \o w) /\ (p \o w)[i] = p[i]
           /\ \A i \in 1 .. Len(w) : Len(p) + i \in 1 .. Len(p \o w) /\ (p \o w)[Len(p) + i] = w[i]
           /\ \A i \in 1 .. Len(p \o w) :
                 \/ i \in 1 .. Len(p) /\ (p \o w)[i] = p[i]
                 \/ i > Len(p) /\ i - Len(p) \in 1 .. Len(w) /\ (p \o w)[i] = w[i - Len(p)]
<1>1. /\ p \o w \in Seq(S) /\ Len(p \o w) = Len(p) + Len(w) /\ Len(p) \in Nat /\ Len(w) \in Nat
  BY ConcatProperties
<1>2. \A i \in 1 .. Len(p) + Len(w) :
         (p \o w)[i] = IF i <= Len(p) THEN p[i] ELSE w[i - Len(p)]
  BY ConcatProperties
<1>. QED  BY <1>1, <1>2

LEMMA AtMostOne ==
    ASSUME NEW S, NEW w \in Seq(S), NEW i \in 1 .. Len(w), Len(w) <= 1
    PROVE  Len(w) = 1
OBVIOUS

LEMMA Grows ==
    ASSUME Typed, Act, Opened
    PROVE  \E w \in Seq(Items) : Appends(w)
<1>. DEFINE Grown == \E w \in Seq(Items) : Appends(w)
<1>p. program \in Seq(Items)  BY DEF Typed
<1>0. ASSUME program' = program PROVE Grown
  <2>1. <<>> \in Seq(Items) /\ program \o <<>> = program /\ Len(<<>>) = 0  BY <1>p
  <2>2. \A i \in 1 .. Len(<<>>) : From(<<>>[i])  BY <2>1
  <2>3. Appends(<<>>)  BY <1>0, <2>1, <2>2 DEF Appends
  <2>. QED  BY <2>1, <2>3
<1>1. ASSUME NEW k \in Kinds, NEW x \in Things, Write(k, x), From(Item(k, x))
      PROVE  Grown
  <2>. DEFINE e == Item(k, x)
  <2>1. e \in Items /\ From(e)  BY <1>1, ItemTyped
  <2>2. program' = Append(program, e)  BY <1>1 DEF Write
  <2>. HIDE DEF e
  <2>3. <<e>> \in Seq(Items) /\ Len(<<e>>) = 1 /\ <<e>>[1] = e  BY <2>1
  <2>4. program' = program \o <<e>>  BY <1>p, <2>1, <2>2
  <2>5. \A i \in 1 .. Len(<<e>>) : From(<<e>>[i])  BY <2>1, <2>3
  <2>6. Appends(<<e>>)  BY <2>3, <2>4, <2>5 DEF Appends
  <2>. QED  BY <2>3, <2>6
<1>2. NoSpan \in Things /\ \A c \in Srcs : c \in Things  BY DEF Things
<1>3. CASE EndParse
  <2>1. Write("preamble", NoSpan) /\ From(Item("preamble", NoSpan))  BY <1>3 DEF EndParse, At, From, Item
  <2>. QED  BY <1>1, <1>2, <2>1 DEF Kinds
<1>4. CASE WriteLicense
  <2>1. Write("license", NoSpan) /\ From(Item("license", NoSpan))
    BY <1>4 DEF WriteLicense, At, Goto, From, Item
  <2>. QED  BY <1>1, <1>2, <2>1 DEF Kinds
<1>5. ASSUME NEW c \in Srcs, AddDefines(c) PROVE Grown
  <2>1. Write("defines", c) /\ From(Item("defines", c))  BY <1>5 DEF AddDefines, At, From, Item
  <2>. QED  BY <1>1, <1>2, <2>1 DEF Kinds
<1>t. at \in Nat \ {0} /\ fns \in Seq(Fn) /\ headers \in Seq(Tokens)  BY DEF Typed, TypeOK
<1>6. CASE WriteHeader
  <2>1. at \in 1 .. Len(headers) /\ Write("include", headers[at])
    BY <1>t, <1>6 DEF WriteHeader
  <2>2. headers[at] \in Things  BY <1>t, <2>1 DEF Things
  <2>3. From(Item("include", headers[at]))  BY <1>6, <2>1 DEF WriteHeader, At, Step, From, Item
  <2>. QED  BY <1>1, <2>1, <2>2, <2>3 DEF Kinds
<1>l. ASSUME listed
      PROVE  at \in 1 .. Len(fns) /\ ToDump(fns[at]) /\ fns[at] \in Things /\ stage = "dump"
  <2>1. at \in 1 .. Len(fns) /\ ToDump(fns[at]) /\ stage = "dump"  BY <1>l DEF Typed
  <2>. QED  BY <1>t, <2>1 DEF Things
<1>7. CASE DumpFn
  <2>1. listed /\ stage' = "dump" /\ at' = at + 1  BY <1>7 DEF DumpFn, Step, At
  <2>2. CASE fns[at].file \in gone  BY <1>0, <1>7, <2>2 DEF DumpFn
  <2>3. CASE fns[at].file \notin gone
    <3>1. Write("fn", fns[at])  BY <1>7, <2>3 DEF DumpFn
    <3>2. From(Item("fn", fns[at]))  BY <1>l, <2>1 DEF From, Item
    <3>. QED  BY <1>1, <1>l, <2>1, <3>1, <3>2 DEF Kinds
  <2>. QED  BY <2>2, <2>3
<1>10. ASSUME listed, LeavePart PROVE Grown
  <2>1. From(Item("part", fns[at]))  BY <1>l, <1>10 DEF From, Item
  <2>2. Write("part", fns[at]) => Grown  BY <1>1, <1>l, <1>10, <2>1 DEF Kinds
  <2>. QED  BY <1>0, <1>10, <2>2 DEF LeavePart
<1>11. CASE DumpFails  BY <1>10, <1>11 DEF DumpFails
<1>12. CASE Interrupt  BY <1>0, <1>10, <1>12 DEF Interrupt
<1>8. CASE WriteMap
  <2>. DEFINE D == {d \in 1 .. Len(opMaps[at].defs) : ~FromHeader(opMaps[at].defs[d])}
              w == [i \in 1 .. Cardinality(D) |-> Item("map", opMaps[at].map)]
  <2>1. opMaps \in Seq(MapDefs)  BY DEF Typed, TypeOK, MapDefs
  <2>2. at \in 1 .. Len(opMaps)  BY <1>t, <2>1, <1>8 DEF WriteMap
  <2>3. program' = program \o w  BY <1>8, Zenon DEF WriteMap
  <2>4. opMaps[at].defs \in Seq(SUBSET Srcs) /\ opMaps[at].map \in Names
    <3>1. opMaps[at] \in MapDefs  BY <2>1, <2>2
    <3>. QED  BY <3>1 DEF MapDefs
  <2>5. Cardinality(D) \in Nat
    <3>1. IsFiniteSet(1 .. Len(opMaps[at].defs))  BY <2>4, FS_Interval
    <3>. QED  BY <3>1, FS_Subset, FS_CardinalityType
  <2>6. Item("map", opMaps[at].map) \in Items /\ Item("map", opMaps[at].map).k = "map"
    BY <2>4, ItemTyped DEF Kinds, Things
  <2>7. stage = "maps"  BY <1>8 DEF WriteMap, At
  <2>. HIDE DEF D
  <2>8. w \in Seq(Items)  BY <2>5, <2>6, IsASeq
  <2>9. \A i \in 1 .. Len(w) : w[i] = Item("map", opMaps[at].map)  BY <2>5, <2>8
  <2>. HIDE DEF w
  <2>10. \A i \in 1 .. Len(w) : From(w[i])  BY <2>6, <2>7, <2>9 DEF From
  <2>11. Appends(w)  BY <2>3, <2>7, <2>10 DEF Appends
  <2>. QED  BY <2>8, <2>11
<1>9. ~MakeExtractionDir /\ ~OpenProgram  BY DEF MakeExtractionDir, OpenProgram, At, Opened
<1>. QED  BY <1>0, <1>3, <1>4, <1>5, <1>6, <1>7, <1>8, <1>9, <1>11, <1>12, Writers

(* Between the line of the list and the function nothing else happens. *)
LEMMA WhileListed ==
    ASSUME Typed, Act, listed
    PROVE  DumpFn \/ (stage' = stage /\ at' = at /\ fns' = fns /\ listed' = listed /\ plist' = plist)
<1>1. stage = "dump" /\ at <= Len(fns) /\ ToDump(fns[at])  BY DEF Typed
<1>2. ~ListFn /\ ~SkipFn /\ ~EndDump
  <2>1. at \in 1 .. Len(fns)  BY DEF Typed
  <2>. QED  BY <1>1, <2>1 DEF ListFn, SkipFn, EndDump
<1>3. DumpFn \/ DumpFails \/ Interrupt \/ \E c \in Srcs : Vanish(c)
  BY <1>1, <1>2
  DEF Act, Outside, Work, At, CgAt, DefAt, FnLine, MakeExtractionDir, CopyIncludeFiles,
      CopyMakefile, OpenDuplicates, OpenGraph, OpenList, OpenProgram, ParseBrace, ProcessDuplicate,
      AddDependsOn, DependsOnFails, ProcessFuncLine, ProcessMapLine, IgnoreLine, EndParse,
      ScanFails, SkipStruct, ExtractMap, EndStructs, BuildFn, EndFuncs, AddDefines, DefinesFail,
      EndDefines, WriteHeader, EndHeaders, WriteMap, EndMaps, WriteLicense, ReportDuplicates
<1>. QED  BY <1>3 DEF DumpFails, Interrupt, Vanish, Die, ctl, mem, disk

LEMMA ActTyped ==
    ASSUME Typed, Act
    PROVE  Typed'
<1>1. inp \in Input /\ runs \in Nat /\ at \in Nat \ {0} /\ ct \in Nat /\ inc \in Nat
  BY DEF Typed, TypeOK
<1>f. fns \in Seq(Fn) /\ plist \in Seq(Fn)  BY DEF Typed, TypeOK
<1>d. duplicates \in Seq(CgLine) /\ dupFile \in Seq(CgLine)  BY DEF Typed, TypeOK
<1>h. headers \in Seq(Tokens) /\ maps \in Seq(Names)  BY DEF Typed, TypeOK
<1>o. opMaps \in Seq(MapDefs)  BY DEF Typed, TypeOK, MapDefs
<1>p. program \in Seq(Items)  BY DEF Typed
<1>s. opdir \subseteq Entries /\ scanned \subseteq Srcs /\ todo \subseteq Srcs  BY DEF Typed, TypeOK
<1>2. /\ inp' = inp /\ runs' = runs  BY Writers
<1>3. stage' \in Stages /\ at' \in Nat \ {0} /\ dead' \in BOOLEAN
  <2>1. stage \in Stages  BY DEF Typed, TypeOK
  <2>5. dead' = dead \/ dead' = TRUE  BY Control, Zenon
  <2>6. dead \in BOOLEAN  BY DEF Typed, TypeOK
  <2>2. dead' \in BOOLEAN  BY <2>5, <2>6, Zenon
  <2>7. at' = at \/ at' = at + 1 \/ at' = 1  BY Control, Zenon
  <2>3. at' \in Nat \ {0}  BY <1>1, <2>7
  <2>8. stage' = stage \/ <<stage, stage'>> \in Follows  BY Control, Zenon
  <2>4. stage' \in Stages  BY <2>1, <2>8 DEF Follows, Stages
  <2>. QED  BY <2>2, <2>3, <2>4
<1>4. opdir' \subseteq Entries
  BY <1>s, Writers DEF MakeExtractionDir, CopyIncludeFiles, CopyMakefile, OpenDuplicates,
       OpenProgram, Entries
<1>5. ct' \in Nat  BY <1>1, Writers DEF ParseBrace
<1>6. ASSUME FnLine
      PROVE  /\ at \in 1 .. Len(inp.cg) /\ inp.cg[at] \in CgLine /\ FnSrc \in Srcs
             /\ inp.cg[at].name \in Names
  <2>1. at \in 1 .. Len(inp.cg)
    <3>1. Len(inp.cg) \in Nat /\ at <= Len(inp.cg)  BY <1>1, <1>6, InputTyped DEF FnLine, CgAt
    <3>. QED  BY <1>1, <3>1
  <2>. QED  BY <1>1, <2>1, InputTyped DEF FnSrc
<1>7. ASSUME DefAt("funcs")
      PROVE  at \in 1 .. Len(inp.funcs) /\ Def = inp.funcs[at] /\ Def \in Fn /\ Def.file \in Srcs
  BY <1>1, <1>7, InputTyped DEF DefAt, Def, At
<1>8. ASSUME DefAt("structs")
      PROVE  at \in 1 .. Len(inp.structs) /\ Def = inp.structs[at] /\ Def.file \in Srcs
  BY <1>1, <1>8, InputTyped DEF DefAt, Def, At
<1>9. fns' \in Seq(Fn)
  <2>1. CASE fns' = fns  BY <1>f, <2>1
  <2>2. CASE ProcessFuncLine
    <3>1. FnLine /\ InsertFn(inp.cg[at])  BY <2>2 DEF ProcessFuncLine
    <3>2. [fn |-> inp.cg[at].name, file |-> inp.cg[at].src, span |-> NoSpan] \in Fn
      BY <1>6, <3>1 DEF Fn, FnSrc
    <3>. QED  BY <1>f, <3>1, <3>2 DEF InsertFn
  <2>3. CASE BuildFn
    <3>1. /\ DefAt("funcs")
          /\ fns' = [i \in 1 .. Len(fns) |->
                 IF fns[i].fn = Def.fn /\ fns[i].file = Def.file THEN Def ELSE fns[i]]
      BY <2>3 DEF BuildFn
    <3>2. Def \in Fn /\ \A i \in 1 .. Len(fns) : fns[i] \in Fn  BY <1>f, <1>7, <3>1
    <3>3. Len(fns) \in Nat  BY <1>f
    <3>. HIDE DEF Def
    <3>4. \A i \in 1 .. Len(fns) :
             (IF fns[i].fn = Def.fn /\ fns[i].file = Def.file THEN Def ELSE fns[i]) \in Fn
      BY <3>2
    <3>. QED  BY <3>1, <3>3, <3>4, IsASeq
  <2>. QED  BY <2>1, <2>2, <2>3, Writers
<1>10. plist' \in Seq(Fn)
  <2>1. CASE ListFn
    <3>1. at \in 1 .. Len(fns)  BY <1>1, <1>f, <2>1 DEF ListFn
    <3>2. plist' = Append(plist, fns[at])  BY <2>1 DEF ListFn
    <3>3. fns[at] \in Fn  BY <1>f, <3>1
    <3>. QED  BY <1>f, <3>2, <3>3
  <2>2. CASE OpenList
    <3>1. plist' = plist \/ plist' = <<>>  BY <2>2 DEF OpenList
    <3>. QED  BY <1>f, <3>1, EmptySeq
  <2>. QED  BY <1>f, <2>1, <2>2, Writers
<1>11. duplicates' \in Seq(CgLine)
  <2>1. CASE ProcessDuplicate
    <3>1. at \in 1 .. Len(inp.cg) /\ duplicates' = Append(duplicates, inp.cg[at])
      BY <1>1, <2>1, InputTyped DEF ProcessDuplicate, CgAt
    <3>2. inp.cg[at] \in CgLine  BY <1>1, <3>1, InputTyped
    <3>. QED  BY <1>d, <3>1, <3>2
  <2>. QED  BY <1>d, <2>1, Writers
<1>12. dupFile' \in Seq(CgLine)
  <2>1. dupFile' = dupFile \/ dupFile' = <<>> \/ dupFile' = duplicates
    BY Writers DEF MakeExtractionDir, OpenDuplicates, ReportDuplicates
  <2>. QED  BY <1>d, <2>1, EmptySeq
<1>13. headers' \in Seq(Tokens) /\ inc' \in Nat
  <2>1. CASE AddDependsOn
    <3>1. FnLine /\ Unread  BY <2>1 DEF AddDependsOn
    <3>2. Includes[FnSrc] \in Seq(Headers) /\ inc + 1 \in 1 .. Len(Includes[FnSrc])
      BY <1>1, <1>6, <3>1, SrcsAssumption DEF Unread
    <3>3. Token[Includes[FnSrc][inc + 1]] \in Tokens  BY <3>2 DEF Tokens
    <3>. QED  BY <1>1, <1>h, <2>1, <3>3 DEF AddDependsOn
  <2>2. CASE ProcessFuncLine  BY <1>1, <1>h, <2>2 DEF ProcessFuncLine
  <2>3. CASE headers' = headers /\ inc' = inc  BY <1>1, <1>h, <2>3
  <2>. QED  BY <2>1, <2>2, <2>3, Writers DEF ProcessFuncLine
<1>14. maps' \in Seq(Names)
  <2>1. CASE ProcessMapLine
    <3>1. at \in 1 .. Len(inp.cg)  BY <1>1, <2>1, InputTyped DEF ProcessMapLine, CgAt
    <3>2. inp.cg[at].name \in Names  BY <1>1, <3>1, InputTyped
    <3>3. maps' = maps \/ maps' = Append(maps, inp.cg[at].name)  BY <2>1 DEF ProcessMapLine
    <3>. QED  BY <1>h, <3>2, <3>3
  <2>. QED  BY <1>h, <2>1, Writers
<1>15. opMaps' \in Seq(MapDefs)
  <2>1. CASE opMaps' = opMaps  BY <1>o, <2>1
  <2>2. CASE ExtractMap
    <3>1. DefAt("structs")  BY <2>2 DEF ExtractMap
    <3>2. PICK i \in 1 .. Len(maps) : opMaps' = AddMapDef(maps[i])  BY <2>2 DEF ExtractMap
    <3>3. maps[i] \in Names  BY <1>h
    <3>4. Heads \in SUBSET Srcs  BY <1>1, <1>8, <3>1, InputTyped DEF Heads
    <3>. DEFINE m == maps[i]
                E == MapDefs
    <3>. HIDE DEF Heads, m
    <3>5. [map |-> m, defs |-> <<Heads>>] \in E  BY <3>3, <3>4 DEF m, MapDefs
    <3>6. ASSUME NEW j \in 1 .. Len(opMaps)
          PROVE  opMaps[j] \in E /\ [map |-> m, defs |-> Append(opMaps[j].defs, Heads)] \in E
      <4>1. opMaps[j] \in E  BY <1>o
      <4>2. opMaps[j].defs \in Seq(SUBSET Srcs)  BY <4>1 DEF MapDefs
      <4>3. Append(opMaps[j].defs, Heads) \in Seq(SUBSET Srcs)  BY <3>4, <4>2, AppendProperties
      <4>. QED  BY <3>3, <4>1, <4>3 DEF m, MapDefs
    <3>7. CASE \E j \in 1 .. Len(opMaps) : opMaps[j].map = m
      <4>1. opMaps' = [j \in 1 .. Len(opMaps) |->
                          IF opMaps[j].map = m THEN [map |-> m, defs |-> Append(opMaps[j].defs, Heads)]
                                               ELSE opMaps[j]]
        BY <3>2, <3>7 DEF AddMapDef, m
      <4>2. Len(opMaps) \in Nat  BY <1>o
      <4>. HIDE DEF E
      <4>3. \A j \in 1 .. Len(opMaps) :
               (IF opMaps[j].map = m THEN [map |-> m, defs |-> Append(opMaps[j].defs, Heads)]
                ELSE opMaps[j]) \in E
        BY <3>6
      <4>. DEFINE F(j) == IF opMaps[j].map = m THEN [map |-> m, defs |-> Append(opMaps[j].defs, Heads)]
                          ELSE opMaps[j]
                  n == Len(opMaps)
      <4>5. opMaps' = [j \in 1 .. n |-> F(j)] /\ n \in Nat /\ \A j \in 1 .. n : F(j) \in E
        BY <4>1, <4>2, <4>3
      <4>. HIDE DEF F, n
      <4>4. opMaps' \in Seq(E)  BY <4>5, IsASeq
      <4>. QED  BY <4>4 DEF E
    <3>8. CASE ~\E j \in 1 .. Len(opMaps) : opMaps[j].map = m
      <4>1. opMaps' = Append(opMaps, [map |-> m, defs |-> <<Heads>>])
        BY <3>2, <3>8 DEF AddMapDef, m
      <4>. QED  BY <1>o, <3>5, <4>1
    <3>. QED  BY <3>7, <3>8
  <2>. QED  BY <2>1, <2>2, Writers
<1>16. scanned' \subseteq Srcs
  BY <1>s, <1>7, <1>8, Writers DEF SkipStruct, ExtractMap, BuildFn, Scan
<1>17. todo' \subseteq Srcs
  <2>1. CASE BuildFn  BY <1>s, <1>7, <2>1 DEF BuildFn
  <2>. QED  BY <1>s, <2>1, Writers DEF AddDefines
<1>18. program' \in Seq(Items)
  <2>1. CASE Opened
    <3>1. PICK w \in Seq(Items) : program' = program \o w  BY <2>1, Grows DEF Appends
    <3>. QED  BY <1>p, <3>1, Cat
  <2>2. CASE ~Opened
    <3>1. program' = program \/ program' = <<>>
      BY <2>2, Writers
      DEF Typed, Opened, MakeExtractionDir, OpenProgram, EndParse, AddDefines, WriteHeader,
          WriteMap, DumpFn, DumpFails, Interrupt, WriteLicense, At
    <3>. QED  BY <1>p, <3>1, EmptySeq
  <2>. QED  BY <2>1, <2>2
<1>19. inp' \in Input /\ runs' \in Nat  BY <1>1, <1>2
<1>20. gone' \subseteq Srcs
  <2>1. gone \subseteq Srcs  BY DEF Typed, TypeOK
  <2>. QED  BY <2>1, Writers DEF OpenList, Vanish
<1>21. listed' \in BOOLEAN
  <2>1. listed \in BOOLEAN  BY DEF Typed, TypeOK
  <2>2. listed' = listed \/ listed' = TRUE \/ listed' = FALSE  BY Writers DEF ListFn, DumpFn
  <2>. QED  BY <2>1, <2>2, Zenon
<1>22. ASSUME listed' PROVE stage' = "dump" /\ at' \in 1 .. Len(fns') /\ ToDump(fns'[at'])
  <2>1. CASE ListFn
    <3>1. /\ stage' = stage /\ stage = "dump" /\ at' = at /\ fns' = fns
          /\ at <= Len(fns) /\ ToDump(fns[at])
      BY <2>1 DEF ListFn, At, ctl
    <3>. QED  BY <1>1, <1>f, <3>1 DEF ToDump
  <2>2. ~DumpFn  BY <1>22 DEF DumpFn
  <2>3. CASE ~ListFn
    <3>1. listed  BY <1>22, <2>2, <2>3, Writers
    <3>2. stage' = stage /\ at' = at /\ fns' = fns  BY <2>2, <3>1, WhileListed
    <3>. QED  BY <3>1, <3>2 DEF Typed, ToDump
  <2>. QED  BY <2>1, <2>3
<1>23. (ToDump(fns[at]))' <=> ToDump(fns'[at'])  BY DEF ToDump
<1>. QED
  BY <1>3, <1>4, <1>5, <1>9, <1>10, <1>11, <1>12, <1>13, <1>14, <1>15, <1>16, <1>17, <1>18, <1>19,
     <1>20, <1>21, <1>22, <1>23
  DEF Typed, TypeOK, MapDefs

LEMMA RestartTyped ==
    ASSUME Typed, Restart
    PROVE  Typed'
<1>1. PICK i \in Repeated : Rerun(i)  BY DEF Restart
<1>2. i \in Input  BY InputsAssumption
<1>3. disk' = disk /\ opdir' = opdir /\ program' = program /\ dupFile' = dupFile /\ plist' = plist
  BY <1>1 DEF Rerun, disk
<1>4. runs' \in Nat  BY <1>1 DEF Typed, TypeOK, Rerun
<1>5. /\ fns' \in Seq(Fn) /\ duplicates' \in Seq(CgLine) /\ headers' \in Seq(Tokens)
      /\ maps' \in Seq(Names) /\ opMaps' \in Seq([map : Names, defs : Seq(SUBSET Srcs)])
  BY <1>1, EmptySeq DEF Rerun
<1>6. /\ inp' \in Input /\ stage' \in Stages /\ at' \in Nat \ {0}
      /\ ct' \in Nat /\ inc' \in Nat /\ scanned' \subseteq Srcs /\ todo' \subseteq Srcs
  BY <1>1, <1>2 DEF Rerun, Stages
<1>7. dead' \in BOOLEAN /\ listed' = FALSE  BY <1>1 DEF Rerun
<1>8. gone' \subseteq Srcs  BY <1>1 DEF Rerun, Typed, TypeOK
<1>. QED  BY <1>3, <1>4, <1>5, <1>6, <1>7, <1>8 DEF Typed, TypeOK

LEMMA NextTyped == Typed /\ [Next]_vars => Typed'
<1>. SUFFICES ASSUME Typed, [Next]_vars PROVE Typed'  OBVIOUS
<1>1. CASE Act  BY <1>1, ActTyped
<1>2. CASE Restart  BY <1>2, RestartTyped
<1>3. CASE UNCHANGED vars
  BY <1>3 DEF Typed, TypeOK, ToDump, vars, env, ctl, disk, mem
<1>. QED  BY <1>1, <1>2, <1>3 DEF Next, Restart, Act, Outside

LEMMA InitTyped == Init => Typed
<1>1. Inputs \subseteq Input  BY InputsAssumption
<1>. SUFFICES ASSUME Init PROVE Typed  OBVIOUS
<1>2. /\ fns \in Seq(Fn) /\ duplicates \in Seq(CgLine) /\ headers \in Seq(Tokens)
      /\ maps \in Seq(Names) /\ opMaps \in Seq([map : Names, defs : Seq(SUBSET Srcs)])
      /\ program \in Seq(Items) /\ dupFile \in Seq(CgLine) /\ plist \in Seq(Fn)
  BY EmptySeq DEF Init, MemInit
<1>4. dead \in BOOLEAN /\ listed = FALSE  BY DEF Init, MemInit
<1>3. /\ inp \in Input /\ runs \in Nat /\ stage \in Stages /\ at \in Nat \ {0}
      /\ opdir \subseteq Entries /\ ct \in Nat /\ inc \in Nat /\ scanned \subseteq Srcs
      /\ todo \subseteq Srcs /\ gone \subseteq Srcs
  BY <1>1 DEF Init, MemInit, Stages
<1>. QED  BY <1>2, <1>3, <1>4 DEF Typed, TypeOK

(* Every variable and every file keeps its type: an index never leaves its *)
(* list, and what is written to a file is complete.                        *)
THEOREM TypeCorrect == Spec => []TypeOK
<1>1. Typed => TypeOK  BY DEF Typed
<1>. QED  BY <1>1, InitTyped, NextTyped, PTL DEF Spec

-----------------------------------------------------------------------------
(* The inductive invariant: what the program of this run holds, by stage.  *)
(* Before the files are opened it is the program an earlier run left.      *)
Early == {"parse", "structs", "funcs"}
Late == {"dump", "license", "report", "done"}
In(p, x) == \E i \in 1 .. Len(p) : p[i] = x

(* Nothing is remembered until the files are opened, no #define is waiting *)
(* once the #defines are written.                                          *)
Blank ==
    /\ ~Opened => fns = <<>> /\ headers = <<>> /\ inc = 0 /\ todo = {}
    /\ stage \in {"headers", "maps"} \cup Late => todo = {}

(* The list is empty until functions are dumped. *)
ListInv == (Opened \/ stage = "open program") /\ stage \notin Late => plist = <<>>

(* A file whose #defines are written is not waiting; one is either for     *)
(* every function that will be dumped.                                     *)
DefInv ==
    /\ DefinesPrecedeFunctions
    /\ \A i \in 1 .. Len(program) : Opened /\ program[i].k = "defines" =>
          stage \notin Early /\ program[i].of \notin todo
    /\ \A j \in 1 .. Len(fns) : ToDump(fns[j]) =>
          fns[j].file \in todo \/ In(program, Item("defines", fns[j].file))

(* The functions of the program are entries of the table gone through,    *)
(* and all those gone through are in it, but those of files removed;       *)
(* nothing follows the license.                                            *)
Passed(j) == stage \in Late /\ (stage = "dump" => j < at) /\ ToDump(fns[j])
DumpInv ==
    /\ \A i \in 1 .. Len(program) : Opened /\ program[i].k = "license" =>
          stage \in {"report", "done"} /\ i = Len(program)
    /\ \A j \in 1 .. Len(fns) : Passed(j) => In(program, Item("fn", fns[j])) \/ fns[j].file \in gone
    /\ \A i \in 1 .. Len(program) : Opened /\ program[i].k = "fn" =>
          \E j \in 1 .. Len(fns) : program[i].of = fns[j] /\ Passed(j)

(* The headers of the file being read: those of the lines read are known.  *)
ReadInv ==
    inc > 0 => /\ stage = "parse" /\ at <= Len(inp.cg) /\ inp.cg[at].k = "item"
               /\ ct < 2 /\ inp.cg[at].count <= 1
               /\ \A i \in 1 .. inc : In(headers, Token[Includes[FnSrc][i]])
KnownInv ==
    \A j \in 1 .. Len(fns) : Ext[fns[j].file] = "c" =>
        \A i \in 1 .. Len(Includes[fns[j].file]) : In(headers, Token[Includes[fns[j].file][i]])

(* No header is known twice; those gone through are written once each.     *)
OnceInv ==
    /\ \A i, j \in 1 .. Len(headers) : headers[i] = headers[j] => i = j
    /\ \A i \in 1 .. Len(program) : Opened /\ program[i].k = "include" =>
          /\ stage \notin Early \cup {"defines"}
          /\ \E n \in 1 .. Len(headers) : program[i].of = headers[n] /\ (stage = "headers" => n < at)
    /\ \A i, j \in 1 .. Len(program) :
          Opened /\ program[i].k = "include" /\ program[i] = program[j] => i = j
    /\ \A n \in 1 .. Len(headers) :
          stage \in {"headers", "maps"} \cup Late /\ (stage = "headers" => n < at) =>
              In(program, Item("include", headers[n]))

RunInv ==
    Typed /\ Blank /\ ListInv /\ DefInv /\ DumpInv /\ ReadInv /\ KnownInv /\ OnceInv

-----------------------------------------------------------------------------
(* What a step leaves alone, by the stage it is taken in. *)
LEMMA Frame ==
    ASSUME Typed, Act
    PROVE  /\ stage # "parse" => headers' = headers /\ inc' = inc
           /\ stage \notin {"parse", "funcs"} => fns' = fns
           /\ stage \notin {"funcs", "defines"} => todo' = todo
           /\ stage \notin {"open list", "dump"} => plist' = plist
           /\ stage # "open list" => gone \subseteq gone'
           /\ stage \in {"include", "makefile", "open duplicates", "open graph", "open list",
                         "structs", "funcs", "report", "done"} => program' = program
<1>1. ParseBrace \/ ProcessDuplicate \/ AddDependsOn \/ ProcessFuncLine => stage = "parse"
  BY DEF ParseBrace, ProcessDuplicate, AddDependsOn, ProcessFuncLine, FnLine, CgAt, At
<1>2. BuildFn => stage = "funcs"  BY DEF BuildFn, DefAt, At
<1>3. (\E c \in Srcs : AddDefines(c)) => stage = "defines"  BY DEF AddDefines, At
<1>4. /\ MakeExtractionDir => stage = "clean"
      /\ OpenList => stage = "open list"
      /\ OpenProgram => stage = "open program"
      /\ ListFn \/ DumpFn \/ DumpFails => stage = "dump"
      /\ EndParse => stage = "parse"
      /\ WriteHeader => stage = "headers"
      /\ WriteMap => stage = "maps"
      /\ WriteLicense => stage = "license"
  BY DEF MakeExtractionDir, OpenList, OpenProgram, ListFn, DumpFn, DumpFails, EndParse, WriteHeader,
         WriteMap, WriteLicense, At
<1>5. Interrupt => program' = program \/ stage = "dump"  BY DEF Interrupt, Typed
<1>6. (\E c \in Srcs : Vanish(c)) => gone \subseteq gone'  BY DEF Vanish
<1>. QED  BY <1>1, <1>2, <1>3, <1>4, <1>5, <1>6, Writers

(* A loop is left when it is through. *)
LEMMA Exits ==
    ASSUME Act, stage' # stage
    PROVE  /\ stage = "open duplicates" => dupFile' = <<>>
           /\ stage = "open list" => plist' = <<>>
           /\ stage = "open program" => program' = <<>>
           /\ stage = "parse" => at > Len(inp.cg)
           /\ stage = "defines" => todo = {} /\ program' = program
           /\ stage = "headers" => at > Len(headers) /\ program' = program
           /\ stage = "maps" => program' = program
           /\ stage = "dump" => at > Len(fns) /\ program' = program /\ plist' = plist
BY DEF Act, Outside, Work, env, Vanish, Interrupt, Stopped, mem, disk, ctl, Step, Goto, Die, At,
       CgAt, DefAt, FnLine, MakeExtractionDir, CopyIncludeFiles, CopyMakefile, OpenDuplicates,
       OpenGraph, OpenList, OpenProgram, ParseBrace, ProcessDuplicate, AddDependsOn, DependsOnFails,
       ProcessFuncLine, ProcessMapLine, IgnoreLine, EndParse, ScanFails, SkipStruct, ExtractMap,
       EndStructs, BuildFn, EndFuncs, AddDefines, DefinesFail, EndDefines, WriteHeader, EndHeaders,
       WriteMap, EndMaps, ListFn, DumpFn, DumpFails, SkipFn, LeavePart, EndDump, WriteLicense,
       ReportDuplicates

(* The order of the stages. *)
LEMMA Moves ==
    ASSUME Act
    PROVE  stage' = stage \/ <<stage, stage'>> \in Follows
BY Control, Zenon

LEMMA OpenedMoves ==
    ASSUME Typed, Act
    PROVE  /\ Opened => Opened'
           /\ Opened' /\ ~Opened => stage = "open program" /\ stage' = "parse"
           /\ Opened /\ stage' \notin Late => stage \notin Late
           /\ stage' = "dump" => stage = "dump" \/ stage = "maps"
           /\ stage' = "headers" => stage = "headers" \/ stage = "defines"
           /\ stage' \in Early => stage = "open program" \/ stage \in Early
           /\ stage' \in Early \cup {"defines"} => stage \in {"open program", "defines"} \cup Early
           /\ stage \in Late => stage' \in Late
<1>1. stage \in Stages  BY DEF Typed, TypeOK
<1>. QED  BY <1>1, Moves DEF Follows, Opened, Late, Early, Stages

(* Until its files are opened, a run only empties them. *)
LEMMA Unopened ==
    ASSUME Typed, Act, ~Opened
    PROVE  /\ program' = program \/ program' = <<>>
           /\ plist' = plist \/ plist' = <<>>
           /\ plist' # <<>> => gone' = gone
           /\ stage' # stage /\ stage = "open program" => program' = <<>>
           /\ fns' = fns /\ headers' = headers /\ inc' = inc /\ todo' = todo
<1>1. program' = program \/ program' = <<>>
  BY Writers
  DEF Typed, Opened, MakeExtractionDir, OpenProgram, EndParse, AddDefines, WriteHeader, WriteMap,
      DumpFn, DumpFails, Interrupt, WriteLicense, At
<1>2. plist' = plist \/ plist' = <<>>  BY Writers DEF OpenList, ListFn, At, Opened
<1>3. plist' # <<>> => gone' = gone  BY Writers DEF OpenList, Vanish
<1>4. fns' = fns /\ headers' = headers /\ inc' = inc /\ todo' = todo  BY Frame DEF Opened
<1>. QED  BY <1>1, <1>2, <1>3, <1>4, Exits

LEMMA BlankStep ==
    ASSUME Typed, Blank, Act
    PROVE  Blank'
<1>1. ~Opened' => fns' = <<>> /\ headers' = <<>> /\ inc' = 0 /\ todo' = {}
  BY OpenedMoves, Unopened DEF Blank
<1>2. ASSUME stage' \in {"headers", "maps"} \cup Late PROVE todo' = {}
  <2>1. stage \in {"defines", "headers", "maps"} \cup Late
    <3>1. stage \in Stages  BY DEF Typed, TypeOK
    <3>. QED  BY <1>2, <3>1, Moves DEF Follows, Late, Stages
  <2>2. CASE stage = "defines"
    <3>1. todo = {} /\ stage' # stage  BY <1>2, <2>2, Exits DEF Late
    <3>2. todo' = todo  BY <2>2, <3>1, Writers DEF BuildFn, DefAt, At, AddDefines, Late
    <3>. QED  BY <3>1, <3>2
  <2>3. CASE stage # "defines"
    <3>1. todo = {}  BY <2>1, <2>3 DEF Blank
    <3>2. todo' = todo  BY <2>1, <2>3, Frame DEF Late
    <3>. QED  BY <3>1, <3>2
  <2>. QED  BY <2>2, <2>3
<1>. QED  BY <1>1, <1>2 DEF Blank

-----------------------------------------------------------------------------
(* The list is begun empty. *)
LEMMA ListStep ==
    ASSUME Typed, ListInv, Act
    PROVE  ListInv'
<1>. SUFFICES ASSUME Opened' \/ stage' = "open program", stage' \notin Late PROVE plist' = <<>>
  BY DEF ListInv
<1>1. CASE stage = "open list"
  <2>1. stage' # stage  BY <1>1 DEF Opened
  <2>. QED  BY <1>1, <2>1, Exits
<1>2. CASE stage # "open list"
  <2>1. stage \notin Late  BY OpenedMoves
  <2>2. Opened \/ stage = "open program"
    <3>1. stage' = "open program" => stage = "open program"  BY <1>2, Moves DEF Follows
    <3>. QED  BY <3>1, OpenedMoves
  <2>3. plist' = plist  BY <1>2, <2>1, Frame DEF Late
  <2>. QED  BY <2>1, <2>2, <2>3 DEF ListInv
<1>. QED  BY <1>1, <1>2

-----------------------------------------------------------------------------
(* The #defines of a file precede its functions. *)
Precedes(p) ==
    /\ \A i \in 1 .. Len(p) : p[i].k = "fn" =>
          \E j \in 1 .. i - 1 : p[j] = Item("defines", p[i].of.file)
    /\ \A i, j \in 1 .. Len(p) : p[i].k = "defines" /\ p[i] = p[j] => i = j

LEMMA InMore ==
    ASSUME NEW S, NEW p \in Seq(S), NEW w \in Seq(S), NEW x
    PROVE  /\ In(p, x) \/ In(w, x) => In(p \o w, x)
           /\ In(p \o w, x) => In(p, x) \/ In(w, x)
<1>1. ASSUME NEW i \in 1 .. Len(p), p[i] = x PROVE In(p \o w, x)
  <2>1. i \in 1 .. Len(p \o w) /\ (p \o w)[i] = p[i]  BY Cat
  <2>. QED  BY <1>1, <2>1 DEF In
<1>2. ASSUME NEW i \in 1 .. Len(w), w[i] = x PROVE In(p \o w, x)
  <2>1. Len(p) + i \in 1 .. Len(p \o w) /\ (p \o w)[Len(p) + i] = w[i]  BY Cat
  <2>. QED  BY <1>2, <2>1 DEF In
<1>3. ASSUME NEW i \in 1 .. Len(p \o w), (p \o w)[i] = x PROVE In(p, x) \/ In(w, x)
  <2>1. \/ i \in 1 .. Len(p) /\ (p \o w)[i] = p[i]
        \/ i - Len(p) \in 1 .. Len(w) /\ (p \o w)[i] = w[i - Len(p)]
    BY Cat
  <2>. QED  BY <1>3, <2>1 DEF In
<1>. QED  BY <1>1, <1>2, <1>3 DEF In

LEMMA PrecedesMore ==
    ASSUME NEW p \in Seq(Items), NEW w \in Seq(Items), Precedes(p),
           \A i \in 1 .. Len(w) : /\ w[i].k = "fn" => In(p, Item("defines", w[i].of.file))
                                  /\ w[i].k = "defines" => ~In(p, w[i]),
           \A i \in 1 .. Len(w) : w[i].k = "defines" => Len(w) = 1
    PROVE  Precedes(p \o w)
<1>. DEFINE q == p \o w
<1>1. /\ Len(q) = Len(p) + Len(w) /\ Len(p) \in Nat /\ Len(w) \in Nat
      /\ \A i \in 1 .. Len(p) : q[i] = p[i]
      /\ \A i \in 1 .. Len(q) : \/ i \in 1 .. Len(p) /\ q[i] = p[i]
                                \/ i > Len(p) /\ i - Len(p) \in 1 .. Len(w) /\ q[i] = w[i - Len(p)]
  BY Cat
<1>. HIDE DEF q
<1>2. ASSUME NEW i \in 1 .. Len(q), q[i].k = "fn"
      PROVE  \E j \in 1 .. i - 1 : q[j] = Item("defines", q[i].of.file)
  <2>1. CASE i \in 1 .. Len(p) /\ q[i] = p[i]
    <3>1. PICK j \in 1 .. i - 1 : p[j] = Item("defines", p[i].of.file)  BY <1>2, <2>1 DEF Precedes
    <3>2. j \in 1 .. Len(p)  BY <1>1, <2>1
    <3>. QED  BY <1>1, <2>1, <3>1, <3>2
  <2>2. CASE i > Len(p) /\ i - Len(p) \in 1 .. Len(w) /\ q[i] = w[i - Len(p)]
    <3>1. In(p, Item("defines", q[i].of.file))  BY <1>2, <2>2
    <3>2. PICK j \in 1 .. Len(p) : p[j] = Item("defines", q[i].of.file)  BY <3>1 DEF In
    <3>3. j \in 1 .. i - 1  BY <1>1, <2>2
    <3>. QED  BY <1>1, <3>2, <3>3
  <2>. QED  BY <1>1, <2>1, <2>2
<1>3. ASSUME NEW i \in 1 .. Len(q), NEW j \in 1 .. Len(q), q[i].k = "defines", q[i] = q[j]
      PROVE  i = j
  <2>1. CASE i \in 1 .. Len(p) /\ j \in 1 .. Len(p)  BY <1>1, <1>3, <2>1 DEF Precedes
  <2>2. ASSUME NEW a \in 1 .. Len(p), NEW b \in 1 .. Len(q), b \notin 1 .. Len(p), q[a] = q[b],
               q[b].k = "defines"
        PROVE  FALSE
    <3>1. b - Len(p) \in 1 .. Len(w) /\ q[b] = w[b - Len(p)]  BY <1>1, <2>2
    <3>2. ~In(p, q[b])  BY <2>2, <3>1
    <3>. QED  BY <1>1, <2>2, <3>2 DEF In
  <2>3. CASE i \notin 1 .. Len(p) /\ j \notin 1 .. Len(p)
    <3>1. i - Len(p) \in 1 .. Len(w) /\ j - Len(p) \in 1 .. Len(w) /\ w[i - Len(p)].k = "defines"
      BY <1>1, <1>3, <2>3
    <3>2. Len(w) = 1  BY <3>1
    <3>3. i \in Nat /\ j \in Nat  BY <1>1
    <3>. QED  BY <1>1, <3>1, <3>2, <3>3
  <2>. QED  BY <1>3, <2>1, <2>2, <2>3
<1>. QED  BY <1>2, <1>3 DEF Precedes, q

LEMMA DefStep ==
    ASSUME Typed, Blank, DefInv, Act
    PROVE  DefInv'
<1>t. program \in Seq(Items) /\ fns \in Seq(Fn) /\ at \in Nat \ {0} /\ todo \subseteq Srcs
  BY DEF Typed, TypeOK
<1>p. Precedes(program) /\ (DefinesPrecedeFunctions' <=> Precedes(program'))
  BY DEF DefInv, DefinesPrecedeFunctions, Precedes
<1>1. CASE ~Opened
  <2>1. fns' = <<>>  BY <1>1, Unopened DEF Blank
  <2>2. Precedes(program')
    <3>1. Precedes(<<>>)  BY DEF Precedes
    <3>. QED  BY <1>1, <1>p, <3>1, Unopened
  <2>3. Opened' => program' = <<>>  BY <1>1, OpenedMoves, Unopened
  <2>4. Len(<<>>) = 0  OBVIOUS
  <2>. QED  BY <1>p, <2>1, <2>2, <2>3, <2>4 DEF DefInv
<1>2. CASE Opened
  <2>w. PICK w \in Seq(Items) : Appends(w)  BY <1>2, Grows
  <2>0. Opened'  BY <1>2, OpenedMoves
  <2>n. Len(w) \in Nat  OBVIOUS
  <2>1. program' = program \o w /\ Opened' /\ Len(w) \in Nat  BY <2>0, <2>n, <2>w DEF Appends
  <2>2. Precedes(program')
    <3>1. ASSUME NEW i \in 1 .. Len(w), w[i].k = "fn"
          PROVE  In(program, Item("defines", w[i].of.file))
      <4>1. stage = "dump" /\ at \in 1 .. Len(fns) /\ w[i].of = fns[at] /\ ToDump(fns[at])
        BY <2>w, <3>1 DEF Appends, From
      <4>2. todo = {}  BY <4>1 DEF Blank, Late
      <4>. QED  BY <4>1, <4>2 DEF DefInv
    <3>2. ASSUME NEW i \in 1 .. Len(w), w[i].k = "defines"
          PROVE  ~In(program, w[i]) /\ Len(w) = 1
      <4>1. stage = "defines" /\ w[i].of \in todo /\ Len(w) <= 1  BY <2>w, <3>2 DEF Appends, From
      <4>2. ~In(program, w[i])  BY <1>2, <3>2, <4>1 DEF DefInv, In
      <4>4. Len(w) = 1  BY <4>1, AtMostOne
      <4>. QED  BY <4>2, <4>4
    <3>. QED  BY <1>t, <1>p, <2>1, <3>1, <3>2, PrecedesMore
  <2>3. ASSUME NEW i \in 1 .. Len(program'), program'[i].k = "defines"
        PROVE  stage' \notin Early /\ program'[i].of \notin todo'
    <3>1. CASE i \in 1 .. Len(program) /\ program'[i] = program[i]
      <4>1. stage \notin Early /\ program[i].of \notin todo  BY <1>2, <2>3, <3>1 DEF DefInv
      <4>2. stage' \notin Early  BY <1>2, <4>1, OpenedMoves DEF Opened
      <4>3. todo' \subseteq todo
        BY <4>1, Writers DEF BuildFn, DefAt, At, Early, AddDefines
      <4>. QED  BY <3>1, <4>1, <4>2, <4>3
    <3>2. CASE i - Len(program) \in 1 .. Len(w) /\ program'[i] = w[i - Len(program)]
      <4>1. stage = "defines" /\ todo' = todo \ {program'[i].of}
        BY <2>w, <2>3, <3>2 DEF Appends, From
      <4>2. stage' \notin Early  BY <4>1, OpenedMoves DEF Early
      <4>. QED  BY <4>1, <4>2
    <3>. QED  BY <1>t, <2>1, <3>1, <3>2, Cat
  <2>4. ASSUME NEW j \in 1 .. Len(fns'), ToDump(fns'[j])
        PROVE  fns'[j].file \in todo' \/ In(program', Item("defines", fns'[j].file))
    <3>1. ASSUME j \in 1 .. Len(fns), fns'[j] = fns[j]
          PROVE  fns'[j].file \in todo' \/ In(program', Item("defines", fns'[j].file))
      <4>1. fns[j].file \in todo \/ In(program, Item("defines", fns[j].file))
        BY <2>4, <3>1 DEF DefInv
      <4>2. \A x : In(program, x) => In(program', x)  BY <1>t, <2>1, InMore
      <4>3. ASSUME NEW c \in todo, c \notin todo' PROVE In(program', Item("defines", c))
        <5>1. ~BuildFn  BY <4>3 DEF BuildFn
        <5>2. PICK d \in Srcs : AddDefines(d)  BY <4>3, <5>1, Writers
        <5>3. d = c /\ program' = Append(program, Item("defines", c))
          BY <4>3, <5>2 DEF AddDefines, Write
        <5>4. Len(program) \in Nat /\ Len(program') = Len(program) + 1
              /\ program'[Len(program) + 1] = Item("defines", c)
          BY <1>t, <5>3
        <5>. QED  BY <5>4 DEF In
      <4>. QED  BY <3>1, <4>1, <4>2, <4>3
    <3>2. CASE ProcessFuncLine
      <4>1. \/ fns' = fns
            \/ fns' = Append(fns, [fn |-> inp.cg[at].name, file |-> inp.cg[at].src, span |-> NoSpan])
        BY <3>2 DEF ProcessFuncLine, InsertFn
      <4>. DEFINE e == [fn |-> inp.cg[at].name, file |-> inp.cg[at].src, span |-> NoSpan]
      <4>2. ~ToDump(e)  BY DEF ToDump
      <4>. HIDE DEF e
      <4>3. CASE fns' = fns  BY <3>1, <4>3
      <4>4. CASE fns' = Append(fns, e)
        <5>1. (j \in 1 .. Len(fns) /\ fns'[j] = fns[j]) \/ fns'[j] = e
          BY <1>t, <4>4
        <5>. QED  BY <2>4, <3>1, <4>2, <5>1
      <4>. QED  BY <4>1, <4>3, <4>4 DEF e
    <3>3. CASE BuildFn
      <4>1. /\ fns' = [i \in 1 .. Len(fns) |->
                 IF fns[i].fn = Def.fn /\ fns[i].file = Def.file THEN Def ELSE fns[i]]
            /\ todo' = IF HasKey(Def.fn, Def.file) /\ Ext[Def.file] = "c"
                         THEN todo \cup {Def.file} ELSE todo
        BY <3>3 DEF BuildFn
      <4>2. Def.file \in Srcs /\ Len(fns) \in Nat
        <5>1. inp \in Input  BY DEF Typed, TypeOK
        <5>. QED  BY <1>t, <3>3, <5>1, InputTyped DEF BuildFn, DefAt, Def, At
      <4>. HIDE DEF Def
      <4>3. Len(fns') = Len(fns) /\ j \in 1 .. Len(fns)  BY <4>1, <4>2
      <4>4. CASE fns[j].fn = Def.fn /\ fns[j].file = Def.file
        <5>1. fns'[j] = Def  BY <4>1, <4>3, <4>4
        <5>2. Ext[Def.file] = "c"  BY <2>4, <4>2, <5>1, SrcsAssumption DEF ToDump
        <5>3. HasKey(Def.fn, Def.file)  BY <4>3, <4>4 DEF HasKey
        <5>. QED  BY <4>1, <5>1, <5>2, <5>3
      <4>5. CASE ~(fns[j].fn = Def.fn /\ fns[j].file = Def.file)
        <5>1. fns'[j] = fns[j]  BY <4>1, <4>3, <4>5
        <5>. QED  BY <3>1, <4>3, <5>1
      <4>. QED  BY <4>4, <4>5
    <3>. QED  BY <3>1, <3>2, <3>3, Writers
  <2>. QED  BY <1>p, <2>2, <2>3, <2>4 DEF DefInv
<1>. QED  BY <1>1, <1>2

-----------------------------------------------------------------------------
(* Which step moves an index. *)
LEMMA Turns ==
    ASSUME Act
    PROVE  /\ stage' # stage => at' = 1
           /\ stage = "dump" /\ stage' = stage => at' = at \/ DumpFn \/ SkipFn
           /\ stage = "headers" /\ stage' = stage => at' = at \/ WriteHeader
<1>1. stage' # stage => at' = 1  BY Control, Zenon
<1>2. (stage = "dump" \/ stage = "headers") /\ stage' = stage =>
         at' = at \/ DumpFn \/ SkipFn \/ WriteHeader
  BY DEF Act, Outside, Work, env, Vanish, Interrupt, Stopped, mem, disk, ctl, Step, Goto, Die, At,
         CgAt, DefAt, FnLine, MakeExtractionDir, CopyIncludeFiles, CopyMakefile, OpenDuplicates,
         OpenGraph, OpenList, OpenProgram, ParseBrace, ProcessDuplicate, AddDependsOn,
         DependsOnFails, ProcessFuncLine, ProcessMapLine, IgnoreLine, EndParse, ScanFails,
         SkipStruct, ExtractMap, EndStructs, BuildFn, EndFuncs, AddDefines, DefinesFail, EndDefines,
         WriteHeader, EndHeaders, WriteMap, EndMaps, ListFn, DumpFn, DumpFails, SkipFn, LeavePart,
         EndDump, WriteLicense, ReportDuplicates
<1>3. (DumpFn \/ SkipFn => stage = "dump") /\ (WriteHeader => stage = "headers")
  BY DEF DumpFn, SkipFn, WriteHeader, At
<1>. QED  BY <1>1, <1>2, <1>3

LEMMA InAppend ==
    ASSUME NEW S, NEW p \in Seq(S), NEW x \in S
    PROVE  In(Append(p, x), x) /\ \A y : In(p, y) => In(Append(p, x), y)
<1>1. /\ Len(p) \in Nat /\ Len(Append(p, x)) = Len(p) + 1 /\ Append(p, x)[Len(p) + 1] = x
      /\ \A i \in 1 .. Len(p) : Append(p, x)[i] = p[i]
  BY AppendProperties
<1>2. In(Append(p, x), x)
  <2>1. Len(p) + 1 \in 1 .. Len(Append(p, x))  BY <1>1
  <2>. QED  BY <1>1, <2>1 DEF In
<1>3. ASSUME NEW y, NEW i \in 1 .. Len(p), p[i] = y PROVE In(Append(p, x), y)
  <2>1. i \in 1 .. Len(Append(p, x)) /\ Append(p, x)[i] = p[i]  BY <1>1
  <2>. QED  BY <1>3, <2>1 DEF In
<1>. QED  BY <1>2, <1>3 DEF In

LEMMA DumpStep ==
    ASSUME Typed, Blank, DumpInv, Act
    PROVE  DumpInv'
<1>t. program \in Seq(Items) /\ fns \in Seq(Fn) /\ at \in Nat \ {0} /\ stage \in Stages
  BY DEF Typed, TypeOK
<1>1. CASE ~Opened
  <2>1. fns' = <<>>  BY <1>1, Unopened DEF Blank
  <2>2. Opened' => program' = <<>>  BY <1>1, OpenedMoves, Unopened
  <2>3. Len(<<>>) = 0  OBVIOUS
  <2>. QED  BY <2>1, <2>2, <2>3 DEF DumpInv
<1>2. CASE Opened
  <2>w. PICK w \in Seq(Items) : Appends(w)  BY <1>2, Grows
  <2>1. program' = program \o w  BY <2>w DEF Appends
  <2>2. Opened' /\ (stage \in Late => stage' \in Late)  BY <1>2, OpenedMoves
  <2>3. stage \in Late => fns' = fns  BY Frame DEF Late
  <2>4. ASSUME NEW i \in 1 .. Len(program'), program'[i].k = "license"
        PROVE  stage' \in {"report", "done"} /\ i = Len(program')
    <3>1. CASE i \in 1 .. Len(program) /\ program'[i] = program[i]
      <4>1. stage \in {"report", "done"} /\ i = Len(program)  BY <1>2, <2>4, <3>1 DEF DumpInv
      <4>2. program' = program  BY <4>1, Frame
      <4>3. stage' \in {"report", "done"}  BY <4>1, Moves DEF Follows
      <4>. QED  BY <4>1, <4>2, <4>3
    <3>2. CASE i > Len(program) /\ i - Len(program) \in 1 .. Len(w) /\ program'[i] = w[i - Len(program)]
      <4>1. stage = "license" /\ stage' = "report"  BY <2>w, <2>4, <3>2 DEF Appends, From
      <4>2. Len(w) <= 1  BY <2>w, <4>1 DEF Appends
      <4>3. Len(w) = 1  BY <3>2, <4>2, AtMostOne
      <4>6. Len(program') = Len(program) + Len(w) /\ Len(program) \in Nat  BY <1>t, <2>1, Cat
      <4>4. Len(program') = Len(program) + 1 /\ Len(program) \in Nat  BY <4>3, <4>6
      <4>5. i = Len(program')  BY <3>2, <4>4
      <4>. QED  BY <4>1, <4>5
    <3>. QED  BY <1>t, <2>1, <3>1, <3>2, Cat
  <2>g. gone \subseteq gone'  BY <1>2, Frame DEF Opened
  <2>5. ASSUME NEW j \in 1 .. Len(fns'), stage' \in Late, stage' = "dump" => j < at', ToDump(fns'[j])
        PROVE  In(program', Item("fn", fns'[j])) \/ fns'[j].file \in gone'
    <3>1. stage \in Late \cup {"maps"}  BY <1>t, <2>5, Moves DEF Follows, Late, Stages
    <3>2. fns' = fns /\ j \in 1 .. Len(fns)
      <4>1. fns' = fns  BY <3>1, Frame DEF Late
      <4>. QED  BY <4>1
    <3>3. stage # "maps"
      <4>1. SUFFICES ASSUME stage = "maps" PROVE FALSE  OBVIOUS
      <4>2. stage' = "dump"  BY <2>5, <4>1, Moves DEF Follows, Late
      <4>3. at' = 1  BY <4>1, <4>2, Turns
      <4>. QED  BY <2>5, <4>2, <4>3
    <3>4. ASSUME stage = "dump" => j < at
          PROVE  In(program', Item("fn", fns'[j])) \/ fns'[j].file \in gone'
      <4>1. In(program, Item("fn", fns[j])) \/ fns[j].file \in gone
        BY <2>5, <3>1, <3>2, <3>3, <3>4 DEF DumpInv, Passed
      <4>. QED  BY <1>t, <2>1, <2>g, <3>2, <4>1, InMore
    <3>5. CASE stage = "dump" /\ ~(j < at)
      <4>1. stage' = "dump"
        <5>1. SUFFICES ASSUME stage' # stage PROVE FALSE  BY <3>5
        <5>2. at > Len(fns)  BY <3>5, <5>1, Exits
        <5>. QED  BY <1>t, <3>2, <3>5, <5>2
      <4>2. at' # at  BY <1>t, <2>5, <3>5, <4>1
      <4>3. DumpFn \/ SkipFn  BY <3>5, <4>1, <4>2, Turns
      <4>4. at' = at + 1  BY <4>3 DEF DumpFn, SkipFn, Step
      <4>5. j = at  BY <1>t, <2>5, <3>5, <4>1, <4>4
      <4>6. DumpFn  BY <2>5, <3>2, <4>3, <4>5 DEF SkipFn
      <4>7. CASE fns[at].file \in gone  BY <2>g, <3>2, <4>5, <4>7
      <4>8. CASE fns[at].file \notin gone
        <5>1. program' = Append(program, Item("fn", fns[at]))  BY <4>6, <4>8 DEF DumpFn, Write
        <5>2. fns[at] \in Things  BY <1>t, <3>2, <4>5 DEF Things
        <5>3. Item("fn", fns[at]) \in Items  BY <5>2, ItemTyped DEF Kinds
        <5>. QED  BY <1>t, <3>2, <4>5, <5>1, <5>3, InAppend
      <4>. QED  BY <4>7, <4>8
    <3>. QED  BY <3>4, <3>5
  <2>6. ASSUME NEW i \in 1 .. Len(program'), program'[i].k = "fn"
        PROVE  \E j \in 1 .. Len(fns') : program'[i].of = fns'[j] /\ Passed(j)'
    <3>1. CASE i \in 1 .. Len(program) /\ program'[i] = program[i]
      <4>1. PICK j \in 1 .. Len(fns) : program[i].of = fns[j] /\ Passed(j)
        BY <1>2, <2>6, <3>1 DEF DumpInv
      <4>2. stage \in Late /\ stage' \in Late /\ fns' = fns  BY <2>2, <2>3, <4>1 DEF Passed
      <4>3. stage' = "dump" => j < at'
        <5>1. stage' = "dump" => stage = "dump"  BY <4>2, OpenedMoves DEF Late
        <5>2. stage = "dump" => j < at  BY <4>1 DEF Passed
        <5>3. stage = "dump" /\ stage' = "dump" => at' = at \/ at' = at + 1
          BY Turns DEF DumpFn, SkipFn, Step
        <5>. QED  BY <1>t, <5>1, <5>2, <5>3
      <4>4. Passed(j)'  BY <4>1, <4>2, <4>3 DEF Passed, ToDump
      <4>. QED  BY <3>1, <4>1, <4>2, <4>4
    <3>2. CASE i - Len(program) \in 1 .. Len(w) /\ program'[i] = w[i - Len(program)]
      <4>1. /\ stage = "dump" /\ at \in 1 .. Len(fns) /\ program'[i].of = fns[at] /\ ToDump(fns[at])
            /\ stage' = "dump" /\ at' = at + 1
        BY <2>w, <2>6, <3>2 DEF Appends, From
      <4>2. fns' = fns  BY <2>3, <4>1 DEF Late
      <4>3. PICK j \in 1 .. Len(fns) : j = at  BY <4>1
      <4>4. Passed(j)'  BY <1>t, <4>1, <4>2, <4>3 DEF Passed, ToDump, Late
      <4>. QED  BY <4>1, <4>2, <4>3, <4>4
    <3>3. \/ i \in 1 .. Len(program) /\ program'[i] = program[i]
          \/ i - Len(program) \in 1 .. Len(w) /\ program'[i] = w[i - Len(program)]
      BY <1>t, <2>1, Cat
    <3>. QED  BY <3>1, <3>2, <3>3
  <2>7. \A j : Passed(j)' <=> stage' \in Late /\ (stage' = "dump" => j < at') /\ ToDump(fns'[j])
    BY DEF Passed, ToDump
  <2>. QED  BY <2>4, <2>5, <2>6, <2>7 DEF DumpInv
<1>. QED  BY <1>1, <1>2

-----------------------------------------------------------------------------
(* The headers of the files that functions come from. *)
NextHeader == Token[Includes[FnSrc][inc + 1]]

LEMMA HeaderRead ==
    ASSUME Typed, AddDependsOn
    PROVE  /\ NextHeader \in Tokens
           /\ In(headers', NextHeader) /\ \A y : In(headers, y) => In(headers', y)
           /\ headers' = headers \/ (headers' = Append(headers, NextHeader) /\ ~In(headers, NextHeader))
<1>t. headers \in Seq(Tokens) /\ at \in Nat \ {0} /\ inp \in Input /\ inc \in Nat
  BY DEF Typed, TypeOK
<1>1. NextHeader \in Tokens
  <2>1. at \in 1 .. Len(inp.cg)  BY <1>t, InputTyped DEF AddDependsOn, FnLine, CgAt
  <2>2. FnSrc \in Srcs  BY <1>t, <2>1, InputTyped DEF FnSrc
  <2>3. Includes[FnSrc] \in Seq(Headers)  BY <2>2, SrcsAssumption
  <2>4. inc + 1 \in 1 .. Len(Includes[FnSrc])  BY <1>t, <2>3 DEF AddDependsOn, Unread
  <2>. QED  BY <2>3, <2>4 DEF Tokens, NextHeader
<1>2. headers' = IF NextHeader \in Range(headers) THEN headers ELSE Append(headers, NextHeader)
  BY DEF AddDependsOn, NextHeader
<1>3. NextHeader \in Range(headers) <=> In(headers, NextHeader)  BY <1>t DEF Range, In
<1>4. CASE NextHeader \in Range(headers)
  <2>1. headers' = headers  BY <1>2, <1>4
  <2>2. In(headers', NextHeader)  BY <1>3, <1>4, <2>1
  <2>3. \A y : In(headers, y) => In(headers', y)  BY <2>1
  <2>. QED  BY <1>1, <2>1, <2>2, <2>3
<1>5. CASE NextHeader \notin Range(headers)
  <2>1. headers' = Append(headers, NextHeader)  BY <1>2, <1>5
  <2>2. In(headers', NextHeader) /\ \A y : In(headers, y) => In(headers', y)
    BY <1>t, <1>1, <2>1, InAppend
  <2>. QED  BY <1>1, <1>3, <1>5, <2>1, <2>2
<1>. QED  BY <1>4, <1>5

LEMMA HeadersGrow ==
    ASSUME Typed, Act
    PROVE  \A y : In(headers, y) => In(headers', y)
BY HeaderRead, Writers

(* On a line of a function only these steps are possible. *)
LEMMA AtFunction ==
    ASSUME Act, stage = "parse", at <= Len(inp.cg), inp.cg[at].k = "item", ct < 2,
           inp.cg[at].count <= 1, Typed
    PROVE  AddDependsOn \/ DependsOnFails \/ ProcessFuncLine \/ Outside
<1>1. at \in Nat /\ ct \in Nat /\ inp \in Input  BY DEF Typed, TypeOK
<1>2. at \in 1 .. Len(inp.cg)  BY <1>1, InputTyped DEF Typed, TypeOK
<1>3. inp.cg[at].count \in Nat /\ Len(inp.cg) \in Nat  BY <1>1, <1>2, InputTyped
<1>4. ~ProcessDuplicate /\ ~ParseBrace /\ ~ProcessMapLine /\ ~IgnoreLine /\ ~EndParse
  BY <1>1, <1>2, <1>3 DEF ProcessDuplicate, ParseBrace, ProcessMapLine, IgnoreLine, EndParse, CgAt
<1>. QED
  BY <1>4
  DEF Act, Work, At, DefAt, MakeExtractionDir, CopyIncludeFiles, CopyMakefile, OpenDuplicates,
      OpenGraph, OpenList, OpenProgram, ScanFails, SkipStruct, ExtractMap, EndStructs, BuildFn,
      EndFuncs, AddDefines, DefinesFail, EndDefines, WriteHeader, EndHeaders, WriteMap, EndMaps,
      ListFn, DumpFn, DumpFails, SkipFn, LeavePart, EndDump, WriteLicense, ReportDuplicates

LEMMA ReadStep ==
    ASSUME Typed, ReadInv, Act
    PROVE  ReadInv'
<1>t. inc \in Nat /\ headers \in Seq(Tokens)  BY DEF Typed, TypeOK
<1>1. CASE AddDependsOn
  <2>1. /\ stage = "parse" /\ at <= Len(inp.cg) /\ inp.cg[at].k = "item"
        /\ ct < 2 /\ inp.cg[at].count <= 1
    BY <1>1 DEF AddDependsOn, FnLine, CgAt, At
  <2>2. stage' = stage /\ at' = at /\ inp' = inp /\ ct' = ct /\ inc' = inc + 1 /\ FnSrc' = FnSrc
    BY <1>1 DEF AddDependsOn, ctl, env, FnSrc
  <2>3. ASSUME NEW i \in 1 .. inc + 1 PROVE In(headers', Token[Includes[FnSrc][i]])
    <3>1. CASE i \in 1 .. inc
      <4>1. In(headers, Token[Includes[FnSrc][i]])  BY <1>t, <3>1 DEF ReadInv
      <4>. QED  BY <4>1, HeadersGrow
    <3>2. CASE i = inc + 1  BY <1>1, <3>2, HeaderRead DEF NextHeader
    <3>. QED  BY <1>t, <3>1, <3>2
  <2>. QED  BY <2>1, <2>2, <2>3 DEF ReadInv
<1>2. CASE ProcessFuncLine  BY <1>2 DEF ProcessFuncLine, ReadInv
<1>3. CASE ~AddDependsOn /\ ~ProcessFuncLine
  <2>1. inc' = inc /\ headers' = headers /\ inp' = inp  BY <1>3, Writers
  <2>2. CASE inc > 0
    <3>1. DependsOnFails \/ Outside  BY <1>3, <2>2, AtFunction DEF ReadInv
    <3>2. stage' = stage /\ at' = at /\ ct' = ct /\ FnSrc' = FnSrc
      BY <2>1, <3>1, OutsideKeeps DEF DependsOnFails, Die, mem, FnSrc
    <3>. QED  BY <2>1, <2>2, <3>2 DEF ReadInv
  <2>3. CASE ~(inc > 0)  BY <2>1, <2>3 DEF ReadInv
  <2>. QED  BY <2>2, <2>3
<1>. QED  BY <1>1, <1>2, <1>3

LEMMA KnownStep ==
    ASSUME Typed, ReadInv, KnownInv, Act
    PROVE  KnownInv'
<1>t. fns \in Seq(Fn) /\ inc \in Nat /\ at \in Nat \ {0} /\ inp \in Input  BY DEF Typed, TypeOK
<1>1. SUFFICES ASSUME NEW j \in 1 .. Len(fns'), Ext[fns'[j].file] = "c",
                      NEW i \in 1 .. Len(Includes[fns'[j].file])
               PROVE  In(headers', Token[Includes[fns'[j].file][i]])
  BY DEF KnownInv
<1>2. ASSUME j \in 1 .. Len(fns), fns'[j].file = fns[j].file
      PROVE  In(headers', Token[Includes[fns'[j].file][i]])
  <2>1. In(headers, Token[Includes[fns[j].file][i]])  BY <1>1, <1>2 DEF KnownInv
  <2>. QED  BY <1>2, <2>1, HeadersGrow
<1>3. CASE ProcessFuncLine
  <2>. DEFINE e == [fn |-> inp.cg[at].name, file |-> inp.cg[at].src, span |-> NoSpan]
  <2>1. fns' = fns \/ fns' = Append(fns, e)  BY <1>3 DEF ProcessFuncLine, InsertFn
  <2>2. e.file = FnSrc  BY DEF FnSrc
  <2>. HIDE DEF e
  <2>3. CASE fns'[j] = e /\ ~(j \in 1 .. Len(fns) /\ fns'[j] = fns[j])
    <3>1. at \in 1 .. Len(inp.cg)  BY <1>3, <1>t, InputTyped DEF ProcessFuncLine, FnLine, CgAt
    <3>2. FnSrc \in Srcs  BY <1>t, <3>1, InputTyped DEF FnSrc
    <3>3. Len(Includes[FnSrc]) \in Nat  BY <3>2, SrcsAssumption
    <3>4. ~(inc < Len(Includes[FnSrc]))  BY <1>1, <1>3, <2>2, <2>3 DEF ProcessFuncLine, Unread
    <3>5. i \in 1 .. inc /\ inc > 0  BY <1>1, <1>t, <2>2, <2>3, <3>3, <3>4
    <3>6. In(headers, Token[Includes[FnSrc][i]])  BY <3>5 DEF ReadInv
    <3>. QED  BY <2>2, <2>3, <3>6, HeadersGrow
  <2>4. (j \in 1 .. Len(fns) /\ fns'[j] = fns[j]) \/ fns'[j] = e  BY <1>t, <2>1
  <2>. QED  BY <1>2, <2>3, <2>4
<1>4. CASE BuildFn
  <2>1. fns' = [k \in 1 .. Len(fns) |->
                 IF fns[k].fn = Def.fn /\ fns[k].file = Def.file THEN Def ELSE fns[k]]
    BY <1>4 DEF BuildFn
  <2>2. Len(fns) \in Nat  BY <1>t
  <2>. HIDE DEF Def
  <2>3. j \in 1 .. Len(fns)  BY <2>1, <2>2
  <2>4. fns'[j] = IF fns[j].fn = Def.fn /\ fns[j].file = Def.file THEN Def ELSE fns[j]
    BY <2>1, <2>3
  <2>5. fns'[j].file = fns[j].file  BY <2>4
  <2>. QED  BY <1>2, <2>3, <2>5
<1>. QED  BY <1>2, <1>3, <1>4, Writers

LEMMA OnceStep ==
    ASSUME Typed, Blank, OnceInv, Act
    PROVE  OnceInv'
<1>t. program \in Seq(Items) /\ headers \in Seq(Tokens) /\ at \in Nat \ {0} /\ stage \in Stages
  BY DEF Typed, TypeOK
<1>1. ASSUME NEW i \in 1 .. Len(headers'), NEW j \in 1 .. Len(headers'), headers'[i] = headers'[j]
      PROVE  i = j
  <2>1. CASE headers' = headers  BY <1>1, <2>1 DEF OnceInv
  <2>2. CASE headers' = Append(headers, NextHeader) /\ ~In(headers, NextHeader)
    <3>1. /\ Len(headers) \in Nat /\ Len(headers') = Len(headers) + 1
          /\ headers'[Len(headers) + 1] = NextHeader
          /\ \A k \in 1 .. Len(headers) : headers'[k] = headers[k]
      BY <1>t, <2>2, AppendProperties
    <3>2. \A k \in 1 .. Len(headers) : headers'[k] # NextHeader  BY <2>2, <3>1 DEF In
    <3>3. CASE i \in 1 .. Len(headers) /\ j \in 1 .. Len(headers)
      BY <1>1, <3>1, <3>3 DEF OnceInv
    <3>4. i \in 1 .. Len(headers) \/ i = Len(headers) + 1  BY <3>1
    <3>5. j \in 1 .. Len(headers) \/ j = Len(headers) + 1  BY <3>1
    <3>. QED  BY <1>1, <3>1, <3>2, <3>3, <3>4, <3>5
  <2>. QED  BY <2>1, <2>2, HeaderRead, Writers
<1>2. CASE ~Opened
  <2>1. headers' = <<>>  BY <1>2, Unopened DEF Blank
  <2>2. Opened' => program' = <<>>  BY <1>2, OpenedMoves, Unopened
  <2>3. Len(<<>>) = 0  OBVIOUS
  <2>. QED  BY <1>1, <2>1, <2>2, <2>3 DEF OnceInv
<1>3. CASE Opened
  <2>w. PICK w \in Seq(Items) : Appends(w)  BY <1>3, Grows
  <2>1. program' = program \o w  BY <2>w DEF Appends
  <2>2. Opened'  BY <1>3, OpenedMoves
  <2>3. /\ Len(program') = Len(program) + Len(w) /\ Len(program) \in Nat /\ Len(w) \in Nat
        /\ \A i \in 1 .. Len(program') :
              \/ i \in 1 .. Len(program) /\ program'[i] = program[i]
              \/ i > Len(program) /\ i - Len(program) \in 1 .. Len(w) /\ program'[i] = w[i - Len(program)]
    BY <1>t, <2>1, Cat
  <2>4. ASSUME NEW i \in 1 .. Len(w), w[i].k = "include"
        PROVE  /\ stage = "headers" /\ at \in 1 .. Len(headers) /\ w[i].of = headers[at]
               /\ at' = at + 1 /\ Len(w) = 1
    <3>1. /\ stage = "headers" /\ at \in 1 .. Len(headers) /\ w[i].of = headers[at] /\ at' = at + 1
          /\ Len(w) <= 1
      BY <2>w, <2>4 DEF Appends, From
    <3>2. Len(w) = 1  BY <3>1, AtMostOne
    <3>. QED  BY <3>1, <3>2
  <2>5. stage # "parse" => headers' = headers  BY Frame
  <2>6. stage \notin Early \cup {"defines"} => stage' \notin Early \cup {"defines"}
    BY <1>3, OpenedMoves DEF Opened
  <2>7. ASSUME NEW i \in 1 .. Len(program'), program'[i].k = "include"
        PROVE  /\ stage' \notin Early \cup {"defines"}
               /\ \E n \in 1 .. Len(headers') :
                     program'[i].of = headers'[n] /\ (stage' = "headers" => n < at')
    <3>1. CASE i \in 1 .. Len(program) /\ program'[i] = program[i]
      <4>1. stage \notin Early \cup {"defines"}  BY <1>3, <2>7, <3>1 DEF OnceInv
      <4>2. PICK n \in 1 .. Len(headers) : program[i].of = headers[n] /\ (stage = "headers" => n < at)
        BY <1>3, <2>7, <3>1 DEF OnceInv
      <4>3. headers' = headers  BY <2>5, <4>1 DEF Early
      <4>4. stage' = "headers" => stage = "headers"  BY <4>1, OpenedMoves
      <4>5. stage = "headers" /\ stage' = "headers" => at' = at \/ at' = at + 1
        BY Turns DEF WriteHeader, Step
      <4>6. stage' = "headers" => n < at'  BY <1>t, <4>2, <4>4, <4>5
      <4>. QED  BY <2>6, <3>1, <4>1, <4>2, <4>3, <4>6
    <3>2. CASE i - Len(program) \in 1 .. Len(w) /\ program'[i] = w[i - Len(program)]
      <4>1. /\ stage = "headers" /\ at \in 1 .. Len(headers) /\ program'[i].of = headers[at]
            /\ at' = at + 1
        BY <2>4, <2>7, <3>2
      <4>2. headers' = headers /\ stage \notin Early \cup {"defines"}  BY <2>5, <4>1 DEF Early
      <4>3. at < at'  BY <1>t, <4>1
      <4>. QED  BY <2>6, <4>1, <4>2, <4>3
    <3>. QED  BY <2>3, <3>1, <3>2
  <2>8. ASSUME NEW i \in 1 .. Len(program'), NEW j \in 1 .. Len(program'),
               program'[i].k = "include", program'[i] = program'[j]
        PROVE  i = j
    <3>1. CASE i \in 1 .. Len(program) /\ j \in 1 .. Len(program)
      BY <1>3, <2>3, <2>8, <3>1 DEF OnceInv
    <3>2. ASSUME NEW a \in 1 .. Len(program), NEW b \in 1 .. Len(program'), b \notin 1 .. Len(program),
                 program'[b].k = "include", program'[a] = program'[b]
          PROVE  FALSE
      <4>1. b - Len(program) \in 1 .. Len(w) /\ program'[b] = w[b - Len(program)]  BY <2>3, <3>2
      <4>2. /\ stage = "headers" /\ at \in 1 .. Len(headers) /\ program'[b].of = headers[at]
        BY <2>4, <3>2, <4>1
      <4>3. program'[a] = program[a] /\ program[a].k = "include"  BY <2>3, <3>2
      <4>4. PICK n \in 1 .. Len(headers) : program[a].of = headers[n] /\ n < at
        BY <1>3, <4>2, <4>3 DEF OnceInv
      <4>5. headers[n] = headers[at]  BY <3>2, <4>2, <4>3, <4>4
      <4>6. n = at  BY <4>2, <4>5 DEF OnceInv
      <4>. QED  BY <1>t, <4>4, <4>6
    <3>3. CASE i \notin 1 .. Len(program) /\ j \notin 1 .. Len(program)
      <4>1. i - Len(program) \in 1 .. Len(w) /\ j - Len(program) \in 1 .. Len(w)
            /\ w[i - Len(program)].k = "include"
        BY <2>3, <2>8, <3>3
      <4>2. Len(w) = 1  BY <2>4, <4>1
      <4>. QED  BY <2>3, <4>1, <4>2
    <3>. QED  BY <2>8, <3>1, <3>2, <3>3
  <2>9. ASSUME NEW n \in 1 .. Len(headers'), stage' \in {"headers", "maps"} \cup Late,
               stage' = "headers" => n < at'
        PROVE  In(program', Item("include", headers'[n]))
    <3>1. stage \in {"defines", "headers", "maps"} \cup Late
      BY <1>t, <2>9, Moves DEF Follows, Late, Stages
    <3>2. headers' = headers /\ n \in 1 .. Len(headers)
      <4>1. headers' = headers  BY <2>5, <3>1 DEF Late
      <4>. QED  BY <4>1
    <3>3. stage # "defines"
      <4>1. SUFFICES ASSUME stage = "defines" PROVE FALSE  OBVIOUS
      <4>2. stage' = "headers"  BY <2>9, <4>1, Moves DEF Follows, Late
      <4>3. at' = 1  BY <4>1, <4>2, Turns
      <4>. QED  BY <2>9, <4>2, <4>3
    <3>4. ASSUME stage = "headers" => n < at PROVE In(program', Item("include", headers'[n]))
      <4>1. In(program, Item("include", headers[n]))  BY <3>1, <3>2, <3>3, <3>4 DEF OnceInv
      <4>. QED  BY <1>t, <2>1, <3>2, <4>1, InMore
    <3>5. CASE stage = "headers" /\ ~(n < at)
      <4>1. stage' = "headers"
        <5>1. SUFFICES ASSUME stage' # stage PROVE FALSE  BY <3>5
        <5>2. at > Len(headers)  BY <3>5, <5>1, Exits
        <5>. QED  BY <1>t, <3>2, <3>5, <5>2
      <4>2. at' # at  BY <1>t, <2>9, <3>5, <4>1
      <4>3. WriteHeader  BY <3>5, <4>1, <4>2, Turns
      <4>4. at' = at + 1  BY <4>3 DEF WriteHeader, Step
      <4>5. n = at  BY <1>t, <2>9, <3>5, <4>1, <4>4
      <4>6. program' = Append(program, Item("include", headers[at]))  BY <4>3 DEF WriteHeader, Write
      <4>7. Item("include", headers[at]) \in Items
        <5>1. headers[at] \in Things  BY <1>t, <3>2, <4>5 DEF Things
        <5>. QED  BY <5>1, ItemTyped DEF Kinds
      <4>. QED  BY <1>t, <3>2, <4>5, <4>6, <4>7, InAppend
    <3>. QED  BY <3>4, <3>5
  <2>. QED  BY <1>1, <2>7, <2>8, <2>9 DEF OnceInv
<1>. QED  BY <1>2, <1>3

-----------------------------------------------------------------------------
LEMMA RunInit == Init => RunInv
<1>. SUFFICES ASSUME Init PROVE RunInv  OBVIOUS
<1>1. Typed  BY InitTyped
<1>2. stage = "clean" /\ program = <<>> /\ fns = <<>> /\ headers = <<>> /\ inc = 0 /\ todo = {}
  BY DEF Init, MemInit
<1>3. ~Opened /\ stage \notin Late /\ stage \notin {"headers", "maps"}  BY <1>2 DEF Opened, Late
<1>4. Len(<<>>) = 0  OBVIOUS
<1>5. Blank /\ ListInv  BY <1>2, <1>3 DEF Blank, ListInv, Late
<1>6. DefInv /\ DumpInv  BY <1>2, <1>3, <1>4 DEF DefInv, DefinesPrecedeFunctions, DumpInv
<1>7. ReadInv /\ KnownInv /\ OnceInv  BY <1>2, <1>3, <1>4 DEF ReadInv, KnownInv, OnceInv
<1>. QED  BY <1>1, <1>5, <1>6, <1>7 DEF RunInv

(* Another run starts with what the last one left in the directory. *)
LEMMA RunAgain == RunInv /\ Restart => RunInv'
<1>. SUFFICES ASSUME RunInv, Restart PROVE RunInv'  OBVIOUS
<1>1. /\ stage' = "clean" /\ fns' = <<>> /\ headers' = <<>> /\ inc' = 0 /\ todo' = {}
      /\ program' = program /\ plist' = plist
  BY DEF Restart, Rerun, disk
<1>2. Typed'
  <2>1. Typed /\ Restart => Typed'  BY RestartTyped
  <2>. QED  BY <2>1 DEF RunInv
<1>3. ~Opened' /\ stage' \notin Late /\ stage' \notin {"headers", "maps"}  BY <1>1 DEF Opened, Late
<1>4. Len(<<>>) = 0  OBVIOUS
<1>5. Blank'  BY <1>1, <1>3 DEF Blank
<1>6. ListInv'  BY <1>1, <1>3 DEF RunInv, ListInv, Late
<1>7. DefInv'  BY <1>1, <1>3, <1>4 DEF RunInv, DefInv, DefinesPrecedeFunctions
<1>8. DumpInv' /\ ReadInv' /\ KnownInv' /\ OnceInv'
  BY <1>1, <1>3, <1>4 DEF DumpInv, ReadInv, KnownInv, OnceInv
<1>. QED  BY <1>2, <1>5, <1>6, <1>7, <1>8 DEF RunInv

LEMMA RunStep == RunInv /\ [Next]_vars => RunInv'
<1>. SUFFICES ASSUME RunInv, [Next]_vars PROVE RunInv'  OBVIOUS
<1>0. Typed /\ Blank /\ ListInv /\ DefInv /\ DumpInv /\ ReadInv /\ KnownInv /\ OnceInv  BY DEF RunInv
<1>1. CASE Act
  <2>1. Typed' /\ Blank' /\ ListInv'  BY <1>0, <1>1, ActTyped, BlankStep, ListStep
  <2>2. DefInv' /\ DumpInv'  BY <1>0, <1>1, DefStep, DumpStep
  <2>3. ReadInv' /\ KnownInv' /\ OnceInv'  BY <1>0, <1>1, ReadStep, KnownStep, OnceStep
  <2>. QED  BY <2>1, <2>2, <2>3 DEF RunInv
<1>2. CASE Restart  BY <1>2, RunAgain
<1>3. CASE UNCHANGED vars
  <2>1. /\ inp' = inp /\ gone' = gone /\ stage' = stage /\ at' = at /\ program' = program /\ plist' = plist
        /\ ct' = ct /\ fns' = fns /\ headers' = headers /\ inc' = inc /\ todo' = todo
    BY <1>3 DEF vars, env, ctl, disk, mem
  <2>2. Typed'  BY <1>0, <1>3, NextTyped
  <2>3. Blank' /\ ListInv'  BY <1>0, <2>1 DEF Blank, ListInv, Opened
  <2>4. DefInv' /\ DumpInv'  BY <1>0, <2>1 DEF DefInv, DefinesPrecedeFunctions, DumpInv, Passed, Opened
  <2>5. ReadInv' /\ KnownInv' /\ OnceInv'  BY <1>0, <2>1 DEF ReadInv, FnSrc, KnownInv, OnceInv, Opened
  <2>. QED  BY <2>2, <2>3, <2>4, <2>5 DEF RunInv
<1>. QED  BY <1>1, <1>2, <1>3 DEF Next, Restart, Act, Outside

LEMMA RunsKeepInvariant == Spec => []RunInv
BY RunInit, RunStep, PTL DEF Spec

(* In every program, complete or not, a file's #defines are written once   *)
(* and before every function of the file.                                  *)
THEOREM DefinesComeFirst == Spec => []DefinesPrecedeFunctions
<1>1. RunInv => DefinesPrecedeFunctions  BY DEF RunInv, DefInv
<1>. QED  BY <1>1, RunsKeepInvariant, PTL

(* A program with the license line is complete, but for functions of files *)
(* that were removed while it was written.                                 *)
THEOREM LicensedIsComplete == Spec => []LicenseMeansComplete
<1>1. RunInv => LicenseMeansComplete
  <2>. SUFFICES ASSUME RunInv, NEW i \in 1 .. Len(program), Opened, program[i].k = "license"
                PROVE  /\ i = Len(program)
                       /\ \A j \in 1 .. Len(fns) : ToDump(fns[j]) /\ fns[j].file \notin gone =>
                             Item("fn", fns[j]) \in Range(program)
    BY DEF LicenseMeansComplete
  <2>1. stage \in {"report", "done"} /\ i = Len(program)  BY DEF RunInv, DumpInv
  <2>2. \A j \in 1 .. Len(fns) : ToDump(fns[j]) /\ fns[j].file \notin gone =>
           In(program, Item("fn", fns[j]))
    BY <2>1 DEF RunInv, DumpInv, Passed, Late
  <2>3. program \in Seq(Items)  BY DEF RunInv, Typed
  <2>4. \A x : In(program, x) => x \in Range(program)  BY <2>3 DEF In, Range
  <2>. QED  BY <2>1, <2>2, <2>4
<1>. QED  BY <1>1, RunsKeepInvariant, PTL

(* If the last word of an #include line names the header and no two quoted *)
(* headers have the same guard macro, then a complete program includes     *)
(* every header that a file of its functions includes.                     *)
THEOREM HeadersAreIncluded ==
    ASSUME \A h \in Headers : Token[h] = h,
           \A g, h \in Headers \ Angle : GuardMacro[g] = GuardMacro[h] => g = h
    PROVE  Spec => []HeadersIncluded
<1>1. RunInv => HeadersIncluded
  <2>. SUFFICES ASSUME RunInv, stage = "done", NEW e \in Range(program), e.k = "fn",
                       NEW h \in Range(Includes[e.of.file])
                PROVE  Included(h)
    BY DEF HeadersIncluded
  <2>t. program \in Seq(Items) /\ fns \in Seq(Fn) /\ headers \in Seq(Tokens)
    BY DEF RunInv, Typed, TypeOK
  <2>o. Opened /\ stage \in Late /\ stage # "headers" /\ stage # "dump"  BY DEF Opened, Late
  <2>1. PICK i \in 1 .. Len(program) : program[i] = e  BY <2>t DEF Range
  <2>2. PICK j \in 1 .. Len(fns) : e.of = fns[j] /\ ToDump(fns[j])
    BY <2>o, <2>1 DEF RunInv, DumpInv, Passed
  <2>3. fns[j].file \in Srcs /\ Ext[fns[j].file] = "c"
    <3>1. fns[j] \in Fn  BY <2>t
    <3>2. fns[j].file \in Srcs  BY <3>1 DEF Fn
    <3>. QED  BY <2>2, <3>2, SrcsAssumption DEF ToDump
  <2>4. Includes[fns[j].file] \in Seq(Headers)  BY <2>3, SrcsAssumption
  <2>5. PICK k \in 1 .. Len(Includes[fns[j].file]) : h = Includes[fns[j].file][k]
    BY <2>2, <2>4 DEF Range
  <2>6. h \in Headers /\ Token[h] = h
    <3>1. h \in Headers  BY <2>4, <2>5
    <3>. QED  BY <3>1
  <2>7. In(headers, h)
    <3>1. In(headers, Token[Includes[fns[j].file][k]])  BY <2>3 DEF RunInv, KnownInv
    <3>. QED  BY <2>5, <2>6, <3>1
  <2>8. PICK n \in 1 .. Len(headers) : headers[n] = h  BY <2>7 DEF In
  <2>9. In(program, Item("include", h))  BY <2>o, <2>8 DEF RunInv, OnceInv
  <2>10. PICK q \in 1 .. Len(program) : program[q] = Item("include", h)  BY <2>9 DEF In
  <2>11. ASSUME h \notin Angle, NEW m \in 1 .. q - 1, program[m].k = "include",
                program[m].of \notin Angle
         PROVE  GuardMacro[program[m].of] # GuardMacro[h]
    <3>1. m \in 1 .. Len(program) /\ m # q  BY <2>t
    <3>2. program[q].k = "include" /\ program[q].of = h  BY <2>10 DEF Item
    <3>3. program[m] # program[q]  BY <2>o, <2>11, <3>1 DEF RunInv, OnceInv
    <3>4. program[m] \in Items /\ program[q] \in Items  BY <2>t, <3>1
    <3>5. program[m].of # h  BY <2>11, <3>2, <3>3, <3>4 DEF Items
    <3>6. program[m].of \in Headers
      <4>1. PICK o \in 1 .. Len(headers) : program[m].of = headers[o]
        BY <2>o, <2>11, <3>1 DEF RunInv, OnceInv
      <4>2. headers[o] \in Tokens  BY <2>t
      <4>. QED  BY <4>1, <4>2 DEF Tokens
    <3>. QED  BY <2>6, <2>11, <3>5, <3>6
  <2>. QED  BY <2>10, <2>11 DEF Included
<1>. QED  BY <1>1, RunsKeepInvariant, PTL

-----------------------------------------------------------------------------
(* FunctionExtractor implements Extraction, for any inputs and any number  *)
(* of runs.                                                                *)

SameKey(d, e) == d.fn = e.fn /\ d.file = e.file
KeyIn(t, fn, file) == \E i \in 1 .. Len(t) : t[i].fn = fn /\ t[i].file = file
FnAt(i) == inp.cg[i].k = "item" /\ Promise!Section(inp.cg, i) < 2
HasLine(e) == \E i \in 1 .. Len(inp.cg) :
    FnAt(i) /\ inp.cg[i].count <= 1 /\ inp.cg[i].name = e.fn /\ inp.cg[i].src = e.file

(* ct counts the braces of the lines read. *)
CtInv ==
    /\ ~Opened => ct = 0
    /\ stage = "parse" => at <= Len(inp.cg) + 1 /\ ct = Promise!Section(inp.cg, at - 1)

(* The table has one entry for each function of a single definition that   *)
(* a line read names, the duplicates are the other such lines.             *)
KeysInv ==
    /\ \A i, j \in 1 .. Len(fns) : SameKey(fns[i], fns[j]) => i = j
    /\ \A j \in 1 .. Len(fns) : HasLine(fns[j])
    /\ \A i \in 1 .. Len(inp.cg) :
          Opened /\ (stage = "parse" => i < at) /\ FnAt(i) /\ inp.cg[i].count <= 1 =>
              KeyIn(fns, inp.cg[i].name, inp.cg[i].src)
DupInv ==
    /\ \A j \in 1 .. Len(duplicates) : \E i \in 1 .. Len(inp.cg) :
          FnAt(i) /\ inp.cg[i].count > 1 /\ duplicates[j] = inp.cg[i]
    /\ \A i \in 1 .. Len(inp.cg) :
          Opened /\ (stage = "parse" => i < at) /\ FnAt(i) /\ inp.cg[i].count > 1 =>
              In(duplicates, inp.cg[i])

(* The definitions of func_info that have been read. *)
ReadDefs ==
    {k \in 1 .. Len(inp.funcs) :
        Opened /\ stage \notin {"parse", "structs"} /\ (stage = "funcs" => k < at)}
(* The last definition of the key of e among those in R is e, or there is  *)
(* none and e has no span.                                                 *)
LastOf(funcs, R, e) ==
    /\ e.span # NoSpan =>
          \E i \in 1 .. Len(funcs) :
              i \in R /\ funcs[i] = e /\ \A k \in i + 1 .. Len(funcs) : k \in R => ~SameKey(funcs[k], e)
    /\ e.span = NoSpan => \A k \in 1 .. Len(funcs) : k \in R => ~SameKey(funcs[k], e)
SpanInv == \A j \in 1 .. Len(fns) : LastOf(inp.funcs, ReadDefs, fns[j])

(* The list has the entries gone through that are to be dumped, and the    *)
(* one being dumped.                                                       *)
Dumped(j) == stage \in Late /\ (stage = "dump" => j < at \/ (listed /\ j = at)) /\ ToDump(fns[j])
WrittenInv ==
    /\ \A i \in 1 .. Len(plist) : Opened => \E j \in 1 .. Len(fns) : Dumped(j) /\ plist[i] = fns[j]
    /\ \A j \in 1 .. Len(fns) : Dumped(j) => In(plist, fns[j])

(* Nothing is reported before the end. *)
ReportInv ==
    /\ ~Opened => duplicates = <<>>
    /\ stage \notin {"clean", "include", "makefile", "open duplicates", "done"} => dupFile = <<>>

ExInv == CtInv /\ KeysInv /\ DupInv /\ SpanInv /\ WrittenInv /\ ReportInv

-----------------------------------------------------------------------------
(* The lines of the call graph. *)
LEMMA SectionStep ==
    ASSUME NEW cg, NEW i \in Nat
    PROVE  /\ Promise!Section(cg, 0) = 0 /\ Promise!Section(cg, i) \in Nat
           /\ cg[i + 1].k = "brace" => Promise!Section(cg, i + 1) = Promise!Section(cg, i) + 1
           /\ cg[i + 1].k # "brace" => Promise!Section(cg, i + 1) = Promise!Section(cg, i)
<1>. DEFINE B(n) == {j \in 1 .. n : cg[j].k = "brace"}
<1>0. \A S : Promise!Cardinality(S) = Cardinality(S)  BY DEF Promise!Cardinality, Cardinality
<1>1. \A n : Promise!Section(cg, n) = Cardinality(B(n))  BY <1>0 DEF Promise!Section
<1>2. B(0) = {}  OBVIOUS
<1>3. IsFiniteSet(B(i))
  <2>1. IsFiniteSet(1 .. i)  BY FS_Interval
  <2>. QED  BY <2>1, FS_Subset
<1>4. i + 1 \notin B(i)  OBVIOUS
<1>5. cg[i + 1].k = "brace" => B(i + 1) = B(i) \cup {i + 1}  OBVIOUS
<1>6. cg[i + 1].k # "brace" => B(i + 1) = B(i)  OBVIOUS
<1>. HIDE DEF B
<1>7. Cardinality(B(0)) = 0  BY <1>2, FS_EmptySet
<1>8. Cardinality(B(i)) \in Nat  BY <1>3, FS_CardinalityType
<1>9. Cardinality(B(i) \cup {i + 1}) = Cardinality(B(i)) + 1  BY <1>3, <1>4, FS_AddElement
<1>. QED  BY <1>1, <1>5, <1>6, <1>7, <1>8, <1>9

(* What reading the call graph does. *)
LEMMA ParseTurns ==
    ASSUME Act, stage = "parse", stage' = "parse"
    PROVE  \/ at' = at /\ ct' = ct /\ fns' = fns /\ duplicates' = duplicates
           \/ at' = at + 1 /\ ct' = ct + 1 /\ CgAt("brace") /\ fns' = fns /\ duplicates' = duplicates
           \/ at' = at + 1 /\ ct' = ct /\ CgAt("item")
BY DEF Act, Outside, Work, env, Vanish, Interrupt, Stopped, mem, disk, ctl, Step, Goto, Die, At,
       CgAt, DefAt, FnLine, MakeExtractionDir, CopyIncludeFiles, CopyMakefile, OpenDuplicates,
       OpenGraph, OpenList, OpenProgram, ParseBrace, ProcessDuplicate, AddDependsOn, DependsOnFails,
       ProcessFuncLine, ProcessMapLine, IgnoreLine, EndParse, ScanFails, SkipStruct, ExtractMap,
       EndStructs, BuildFn, EndFuncs, AddDefines, DefinesFail, EndDefines, WriteHeader, EndHeaders,
       WriteMap, EndMaps, ListFn, DumpFn, DumpFails, SkipFn, LeavePart, EndDump, WriteLicense,
       ReportDuplicates

LEMMA CtStep ==
    ASSUME Typed, CtInv, Act
    PROVE  CtInv'
<1>t. at \in Nat \ {0} /\ inp \in Input /\ inp' = inp  BY Writers DEF Typed, TypeOK
<1>n. Len(inp.cg) \in Nat  BY <1>t, InputTyped
<1>1. ASSUME ~Opened' PROVE ct' = 0
  <2>1. ~Opened  BY <1>1, OpenedMoves
  <2>2. ct' = ct  BY <2>1, Writers DEF ParseBrace, CgAt, At, Opened
  <2>. QED  BY <2>1, <2>2 DEF CtInv
<1>2. ASSUME stage' = "parse"
      PROVE  at' <= Len(inp.cg) + 1 /\ ct' = Promise!Section(inp.cg, at' - 1)
  <2>1. stage = "open program" \/ stage = "parse"  BY <1>2, Moves DEF Follows
  <2>2. CASE stage = "open program"
    <3>1. at' = 1  BY <1>2, <2>2, Turns
    <3>2. ct = 0  BY <2>2 DEF CtInv, Opened
    <3>3. ct' = ct  BY <2>2, Writers DEF ParseBrace, CgAt, At
    <3>4. Promise!Section(inp.cg, 0) = 0  BY SectionStep
    <3>. QED  BY <1>n, <3>1, <3>2, <3>3, <3>4
  <2>3. CASE stage = "parse"
    <3>0. at <= Len(inp.cg) + 1 /\ ct = Promise!Section(inp.cg, at - 1)  BY <2>3 DEF CtInv
    <3>1. CASE at' = at /\ ct' = ct  BY <3>0, <3>1
    <3>. DEFINE i == at - 1
    <3>2. i \in Nat /\ i + 1 = at  BY <1>t
    <3>i. at' = at + 1 => at' - 1 = at  BY <1>t
    <3>. HIDE DEF i
    <3>3. ct = Promise!Section(inp.cg, i)  BY <3>0 DEF i
    <3>4. CASE at' = at + 1 /\ ct' = ct + 1 /\ CgAt("brace")
      <4>1. at <= Len(inp.cg) /\ inp.cg[at].k = "brace"  BY <3>4 DEF CgAt
      <4>2. Promise!Section(inp.cg, at) = ct + 1
        BY <3>2, <3>3, <4>1, SectionStep
      <4>. QED  BY <1>n, <1>t, <3>4, <3>i, <4>1, <4>2
    <3>5. CASE at' = at + 1 /\ ct' = ct /\ CgAt("item")
      <4>1. at <= Len(inp.cg) /\ inp.cg[at].k = "item"  BY <3>5 DEF CgAt
      <4>2. Promise!Section(inp.cg, at) = ct
        BY <3>2, <3>3, <4>1, SectionStep
      <4>. QED  BY <1>n, <1>t, <3>5, <3>i, <4>1, <4>2
    <3>. QED  BY <1>2, <2>3, <3>1, <3>4, <3>5, ParseTurns
  <2>. QED  BY <2>1, <2>2, <2>3
<1>. QED  BY <1>1, <1>2, <1>t DEF CtInv

(* The section of the line being read. *)
LEMMA CurrentLine ==
    ASSUME Typed, CtInv, CgAt("item")
    PROVE  at \in 1 .. Len(inp.cg) /\ inp.cg[at].count \in Nat /\ (FnAt(at) <=> ct < 2)
<1>t. at \in Nat \ {0} /\ inp \in Input  BY DEF Typed, TypeOK
<1>1. at \in 1 .. Len(inp.cg) /\ inp.cg[at].k = "item"  BY <1>t, InputTyped DEF CgAt
<1>2. ct = Promise!Section(inp.cg, at - 1)  BY DEF CtInv, CgAt, At
<1>. DEFINE i == at - 1
<1>3. i \in Nat /\ i + 1 = at  BY <1>t
<1>4. ct = Promise!Section(inp.cg, i)  BY <1>2
<1>. HIDE DEF i
<1>5. Promise!Section(inp.cg, at) = ct  BY <1>1, <1>3, <1>4, SectionStep
<1>6. inp.cg[at].count \in Nat  BY <1>t, <1>1, InputTyped
<1>. QED  BY <1>1, <1>5, <1>6 DEF FnAt

(* Lines read before a step and lines read after it. *)
LEMMA NewLine ==
    ASSUME Typed, CtInv, Act, NEW i \in 1 .. Len(inp.cg), Opened', stage' = "parse" => i < at', FnAt(i)
    PROVE  \/ Opened /\ (stage = "parse" => i < at)
           \/ /\ i = at /\ CgAt("item") /\ ct < 2 /\ at' = at + 1
<1>t. at \in Nat \ {0} /\ inp \in Input  BY DEF Typed, TypeOK
<1>n. Len(inp.cg) \in Nat  BY <1>t, InputTyped
<1>1. CASE ~Opened
  <2>1. stage' = "parse" /\ at' = 1  BY <1>1, OpenedMoves, Turns DEF Opened
  <2>. QED  BY <2>1
<1>2. CASE Opened /\ stage # "parse"  BY <1>2
<1>3. CASE stage = "parse" /\ stage' # "parse"
  <2>1. at > Len(inp.cg) /\ Opened  BY <1>3, Exits DEF Opened
  <2>2. i < at  BY <1>t, <1>n, <2>1
  <2>. QED  BY <2>1, <2>2
<1>4. CASE stage = "parse" /\ stage' = "parse"
  <2>1. Opened  BY <1>4 DEF Opened
  <2>2. CASE i < at  BY <2>1, <2>2
  <2>3. CASE ~(i < at)
    <3>1. i < at' /\ at' # at  BY <1>t, <1>4, <2>3
    <3>2. at' = at + 1 /\ (CgAt("brace") \/ CgAt("item"))  BY <1>4, <3>1, ParseTurns
    <3>3. i = at  BY <1>t, <2>3, <3>1, <3>2
    <3>4. CgAt("item")  BY <3>2, <3>3 DEF FnAt, CgAt
    <3>. QED  BY <3>2, <3>3, <3>4, CurrentLine
  <2>. QED  BY <2>2, <2>3
<1>. QED  BY <1>1, <1>2, <1>3, <1>4

(* Entries of the table keep their keys. *)
KeysKept == Len(fns') = Len(fns) /\ \A j \in 1 .. Len(fns) : SameKey(fns'[j], fns[j])
NewEntry == [fn |-> inp.cg[at].name, file |-> inp.cg[at].src, span |-> NoSpan]

LEMMA TableSteps ==
    ASSUME Typed, Act
    PROVE  \/ fns' = fns
           \/ BuildFn /\ KeysKept
           \/ ProcessFuncLine /\ fns' = Append(fns, NewEntry) /\ ~KeyIn(fns, NewEntry.fn, NewEntry.file)
<1>t. fns \in Seq(Fn)  BY DEF Typed, TypeOK
<1>1. CASE BuildFn
  <2>1. fns' = [k \in 1 .. Len(fns) |->
                 IF fns[k].fn = Def.fn /\ fns[k].file = Def.file THEN Def ELSE fns[k]]
    BY <1>1 DEF BuildFn
  <2>2. Len(fns) \in Nat  BY <1>t
  <2>. HIDE DEF Def
  <2>3. Len(fns') = Len(fns)  BY <2>1, <2>2
  <2>4. ASSUME NEW j \in 1 .. Len(fns) PROVE SameKey(fns'[j], fns[j])
    <3>1. fns'[j] = IF fns[j].fn = Def.fn /\ fns[j].file = Def.file THEN Def ELSE fns[j]  BY <2>1
    <3>. QED  BY <3>1 DEF SameKey
  <2>. QED  BY <1>1, <2>3, <2>4 DEF KeysKept
<1>2. CASE ProcessFuncLine
  <2>1. fns' = fns \/ (fns' = Append(fns, NewEntry) /\ ~HasKey(NewEntry.fn, NewEntry.file))
    BY <1>2 DEF ProcessFuncLine, InsertFn, NewEntry
  <2>2. HasKey(NewEntry.fn, NewEntry.file) <=> KeyIn(fns, NewEntry.fn, NewEntry.file)
    BY DEF HasKey, KeyIn
  <2>. QED  BY <1>2, <2>1, <2>2
<1>. QED  BY <1>1, <1>2, Writers

LEMMA KeysStep ==
    ASSUME Typed, Blank, CtInv, KeysInv, Act
    PROVE  KeysInv'
<1>t. fns \in Seq(Fn) /\ inp' = inp  BY Writers DEF Typed, TypeOK
<1>n. Len(fns) \in Nat  BY <1>t
<1>l. /\ \A i : FnAt(i)' <=> FnAt(i)
      /\ \A e : HasLine(e) <=>
            \E i \in 1 .. Len(inp'.cg) :
               FnAt(i)' /\ inp'.cg[i].count <= 1 /\ inp'.cg[i].name = e.fn /\ inp'.cg[i].src = e.file
  BY <1>t DEF FnAt, HasLine
<1>1. /\ \A i, j \in 1 .. Len(fns) : SameKey(fns[i], fns[j]) => i = j
      /\ \A j \in 1 .. Len(fns) : HasLine(fns[j])
  BY DEF KeysInv
(* An entry stays. *)
<1>2. ASSUME NEW f, NEW c, KeyIn(fns, f, c) PROVE KeyIn(fns', f, c)
  <2>1. PICK j \in 1 .. Len(fns) : fns[j].fn = f /\ fns[j].file = c  BY <1>2 DEF KeyIn
  <2>2. CASE fns' = fns  BY <2>1, <2>2 DEF KeyIn
  <2>3. CASE KeysKept  BY <2>1, <2>3 DEF KeyIn, KeysKept, SameKey
  <2>4. CASE fns' = Append(fns, NewEntry)
    <3>1. j \in 1 .. Len(fns') /\ fns'[j] = fns[j]  BY <1>t, <1>n, <2>4
    <3>. QED  BY <2>1, <3>1 DEF KeyIn
  <2>. QED  BY <2>2, <2>3, <2>4, TableSteps
<1>3. ASSUME NEW i \in 1 .. Len(inp.cg), Opened', stage' = "parse" => i < at', FnAt(i),
             inp.cg[i].count <= 1
      PROVE  KeyIn(fns', inp.cg[i].name, inp.cg[i].src)
  <2>1. CASE Opened /\ (stage = "parse" => i < at)
    <3>1. KeyIn(fns, inp.cg[i].name, inp.cg[i].src)  BY <1>3, <2>1 DEF KeysInv
    <3>. QED  BY <1>2, <3>1
  <2>2. CASE i = at /\ CgAt("item") /\ ct < 2 /\ at' = at + 1
    <3>1. AddDependsOn \/ DependsOnFails \/ ProcessFuncLine \/ Outside
      BY <1>3, <2>2, AtFunction DEF CgAt, At
    <3>2. at \in Nat  BY DEF Typed, TypeOK
    <3>3. ProcessFuncLine
      BY <2>2, <3>1, <3>2, OutsideKeeps DEF AddDependsOn, DependsOnFails, ctl, Die
    <3>4. CASE KeyIn(fns, inp.cg[at].name, inp.cg[at].src)
      BY <1>2, <2>2, <3>4
    <3>5. CASE ~KeyIn(fns, inp.cg[at].name, inp.cg[at].src)
      <4>1. fns' = Append(fns, NewEntry)  BY <3>3, <3>5 DEF ProcessFuncLine, InsertFn, NewEntry, HasKey, KeyIn
      <4>2. Len(fns) + 1 \in 1 .. Len(fns') /\ fns'[Len(fns) + 1] = NewEntry  BY <1>t, <1>n, <4>1
      <4>3. NewEntry.fn = inp.cg[i].name /\ NewEntry.file = inp.cg[i].src  BY <2>2 DEF NewEntry
      <4>. QED  BY <1>t, <4>2, <4>3 DEF KeyIn
    <3>. QED  BY <3>4, <3>5
  <2>. QED  BY <1>3, <2>1, <2>2, NewLine
<1>4. /\ \A i, j \in 1 .. Len(fns') : SameKey(fns'[i], fns'[j]) => i = j
      /\ \A j \in 1 .. Len(fns') : HasLine(fns'[j])
  <2>1. CASE fns' = fns  BY <1>1, <2>1
  <2>2. CASE KeysKept
    <3>1. Len(fns') = Len(fns) /\ \A j \in 1 .. Len(fns) : fns'[j].fn = fns[j].fn /\ fns'[j].file = fns[j].file
      BY <2>2 DEF KeysKept, SameKey
    <3>2. \A i, j \in 1 .. Len(fns) : SameKey(fns'[i], fns'[j]) => SameKey(fns[i], fns[j])
      BY <3>1 DEF SameKey
    <3>3. \A j \in 1 .. Len(fns) : HasLine(fns'[j])  BY <1>1, <3>1 DEF HasLine
    <3>. QED  BY <1>1, <3>1, <3>2, <3>3
  <2>3. CASE ProcessFuncLine /\ fns' = Append(fns, NewEntry) /\ ~KeyIn(fns, NewEntry.fn, NewEntry.file)
    <3>1. /\ Len(fns') = Len(fns) + 1 /\ fns'[Len(fns) + 1] = NewEntry
          /\ \A j \in 1 .. Len(fns) : fns'[j] = fns[j]
      BY <1>t, <1>n, <2>3
    <3>2. \A j \in 1 .. Len(fns) : ~SameKey(fns[j], NewEntry)  BY <2>3 DEF KeyIn, SameKey
    <3>3. HasLine(NewEntry)
      <4>1. CgAt("item") /\ ct < 2 /\ inp.cg[at].count <= 1  BY <2>3 DEF ProcessFuncLine, FnLine
      <4>2. at \in 1 .. Len(inp.cg) /\ FnAt(at)  BY <4>1, CurrentLine
      <4>3. NewEntry.fn = inp.cg[at].name /\ NewEntry.file = inp.cg[at].src  BY DEF NewEntry
      <4>. QED  BY <4>1, <4>2, <4>3 DEF HasLine
    <3>4. \A j \in 1 .. Len(fns') : j \in 1 .. Len(fns) \/ j = Len(fns) + 1  BY <1>n, <3>1
    <3>5. \A j \in 1 .. Len(fns') : HasLine(fns'[j])  BY <1>1, <3>1, <3>3, <3>4
    <3>6. ASSUME NEW i \in 1 .. Len(fns'), NEW j \in 1 .. Len(fns'), SameKey(fns'[i], fns'[j])
          PROVE  i = j
      <4>1. CASE i \in 1 .. Len(fns) /\ j \in 1 .. Len(fns)  BY <1>1, <3>1, <3>6, <4>1
      <4>2. \A a, b : SameKey(a, b) => SameKey(b, a)  BY DEF SameKey
      <4>. QED  BY <3>1, <3>2, <3>4, <3>6, <4>1, <4>2
    <3>. QED  BY <3>5, <3>6
  <2>. QED  BY <2>1, <2>2, <2>3, TableSteps
<1>6. \A i, j \in 1 .. Len(fns') : SameKey(fns[i], fns[j])' => i = j  BY <1>4 DEF SameKey
<1>7. \A j \in 1 .. Len(fns') : HasLine(fns[j])'  BY <1>4, <1>t DEF HasLine, FnAt
<1>. QED  BY <1>3, <1>6, <1>7, <1>t, <1>l DEF KeysInv

LEMMA DupStep ==
    ASSUME Typed, ReportInv, CtInv, DupInv, Act
    PROVE  DupInv'
<1>t. duplicates \in Seq(CgLine) /\ inp' = inp  BY Writers DEF Typed, TypeOK
<1>n. Len(duplicates) \in Nat  BY <1>t
<1>l. \A i : FnAt(i)' <=> FnAt(i)  BY <1>t DEF FnAt
<1>0. ASSUME ProcessDuplicate
      PROVE  /\ duplicates' = Append(duplicates, inp.cg[at]) /\ at \in 1 .. Len(inp.cg) /\ FnAt(at)
             /\ inp.cg[at].count > 1 /\ inp.cg[at] \in CgLine
  <2>1. /\ CgAt("item") /\ ct < 2 /\ inp.cg[at].count > 1
        /\ duplicates' = Append(duplicates, inp.cg[at])
    BY <1>0 DEF ProcessDuplicate
  <2>2. at \in 1 .. Len(inp.cg) /\ FnAt(at)  BY <2>1, CurrentLine
  <2>3. inp.cg[at] \in CgLine
    <3>1. inp \in Input  BY DEF Typed, TypeOK
    <3>. QED  BY <2>2, <3>1, InputTyped
  <2>. QED  BY <2>1, <2>2, <2>3
<1>1. ASSUME NEW j \in 1 .. Len(duplicates')
      PROVE  \E i \in 1 .. Len(inp.cg) : FnAt(i) /\ inp.cg[i].count > 1 /\ duplicates'[j] = inp.cg[i]
  <2>1. CASE duplicates' = duplicates  BY <2>1 DEF DupInv
  <2>2. CASE ProcessDuplicate
    <3>1. /\ j \in 1 .. Len(duplicates) \/ j = Len(duplicates) + 1
          /\ duplicates'[Len(duplicates) + 1] = inp.cg[at]
          /\ \A k \in 1 .. Len(duplicates) : duplicates'[k] = duplicates[k]
      BY <1>0, <1>n, <1>t, <2>2
    <3>2. CASE j \in 1 .. Len(duplicates)  BY <3>1, <3>2 DEF DupInv
    <3>3. CASE j = Len(duplicates) + 1  BY <1>0, <2>2, <3>1, <3>3
    <3>. QED  BY <3>1, <3>2, <3>3
  <2>. QED  BY <2>1, <2>2, Writers
<1>a. ASSUME ProcessDuplicate
      PROVE  In(duplicates', inp.cg[at]) /\ \A x : In(duplicates, x) => In(duplicates', x)
  <2>. DEFINE l == inp.cg[at]
  <2>1. duplicates' = Append(duplicates, l) /\ l \in CgLine  BY <1>0, <1>a
  <2>2. duplicates \in Seq(CgLine)  BY <1>t
  <2>. HIDE DEF l
  <2>3. In(duplicates', l) /\ \A x : In(duplicates, x) => In(duplicates', x)
    BY <2>1, <2>2, InAppend
  <2>. QED  BY <2>3 DEF l
<1>2. \A x : In(duplicates, x) => In(duplicates', x)
  <2>1. CASE duplicates' = duplicates  BY <2>1
  <2>2. CASE ProcessDuplicate  BY <1>a, <2>2
  <2>. QED  BY <2>1, <2>2, Writers
<1>3. ASSUME NEW i \in 1 .. Len(inp.cg), Opened', stage' = "parse" => i < at', FnAt(i),
             inp.cg[i].count > 1
      PROVE  In(duplicates', inp.cg[i])
  <2>1. CASE Opened /\ (stage = "parse" => i < at)
    <3>1. In(duplicates, inp.cg[i])  BY <1>3, <2>1 DEF DupInv
    <3>. QED  BY <1>2, <3>1
  <2>2. CASE i = at /\ CgAt("item") /\ ct < 2 /\ at' = at + 1
    <3>1. ProcessDuplicate
      <4>1. ct \in Nat /\ at \in Nat  BY DEF Typed, TypeOK
      <4>2. inp.cg[at].count \in Nat /\ ~(inp.cg[at].count <= 1)
        BY <1>3, <2>2, CurrentLine
      <4>3. stage = "parse" /\ ~dead /\ at <= Len(inp.cg) /\ inp.cg[at].k = "item"  BY <2>2 DEF CgAt, At
      <4>4. ~FnLine /\ ~ParseBrace /\ ~ProcessMapLine /\ ~IgnoreLine
        BY <2>2, <4>1, <4>2, <4>3 DEF FnLine, ParseBrace, ProcessMapLine, IgnoreLine, CgAt
      <4>5. ~EndParse
        <5>1. Len(inp.cg) \in Nat
          <6>1. inp \in Input  BY DEF Typed, TypeOK
          <6>. QED  BY <6>1, InputTyped
        <5>. QED  BY <4>1, <4>3, <5>1 DEF EndParse
      <4>6. ~Outside  BY <2>2, <4>1, OutsideKeeps
      <4>. QED
        BY <4>3, <4>4, <4>5, <4>6
        DEF Act, Work, At, DefAt, MakeExtractionDir, CopyIncludeFiles, CopyMakefile, OpenDuplicates,
            OpenGraph, OpenList, OpenProgram, ScanFails, AddDependsOn, DependsOnFails,
            ProcessFuncLine, SkipStruct, ExtractMap, EndStructs, BuildFn, EndFuncs, AddDefines,
            DefinesFail, EndDefines, WriteHeader, EndHeaders, WriteMap, EndMaps, ListFn, DumpFn,
            DumpFails, SkipFn, LeavePart, EndDump, WriteLicense, ReportDuplicates
    <3>. QED  BY <1>a, <2>2, <3>1
  <2>. QED  BY <1>3, <2>1, <2>2, NewLine
<1>. QED  BY <1>1, <1>3, <1>t, <1>l DEF DupInv

-----------------------------------------------------------------------------
(* The definitions. *)

LEMMA LastUnread ==
    ASSUME NEW funcs \in Seq(FuncDef), NEW e, e.span = NoSpan
    PROVE  LastOf(funcs, {}, e)
BY DEF LastOf

LEMMA LastRead ==
    ASSUME NEW funcs \in Seq(FuncDef), NEW n \in 1 .. Len(funcs), NEW R, NEW e, NEW e1,
           R \cap (n .. Len(funcs)) = {}, LastOf(funcs, R, e),
           SameKey(e, funcs[n]) => e1 = funcs[n],
           ~SameKey(e, funcs[n]) => e1 = e
    PROVE  LastOf(funcs, R \cup {n}, e1)
<1>t. Len(funcs) \in Nat /\ funcs[n] \in FuncDef  OBVIOUS
<1>1. CASE SameKey(e, funcs[n])
  <2>1. e1 = funcs[n] /\ e1.span # NoSpan  BY <1>t, <1>1, SpansAssumption DEF FuncDef
  <2>2. ASSUME NEW k \in n + 1 .. Len(funcs) PROVE k \notin R \cup {n}
    <3>1. k \in n .. Len(funcs) /\ k # n  BY <1>t
    <3>. QED  BY <3>1
  <2>. QED  BY <2>1, <2>2 DEF LastOf
<1>2. CASE ~SameKey(e, funcs[n])
  <2>1. e1 = e /\ ~SameKey(funcs[n], e)  BY <1>2 DEF SameKey
  <2>2. CASE e.span # NoSpan
    <3>1. PICK i \in 1 .. Len(funcs) : i \in R /\ funcs[i] = e
                 /\ \A k \in i + 1 .. Len(funcs) : k \in R => ~SameKey(funcs[k], e)
      BY <2>2 DEF LastOf
    <3>2. \A k \in i + 1 .. Len(funcs) : k \in R \cup {n} => ~SameKey(funcs[k], e)  BY <2>1, <3>1
    <3>. QED  BY <2>1, <2>2, <3>1, <3>2 DEF LastOf
  <2>3. CASE e.span = NoSpan  BY <2>1, <2>3 DEF LastOf
  <2>. QED  BY <2>2, <2>3
<1>. QED  BY <1>1, <1>2

LEMMA DefsRead ==
    ASSUME Typed, Act
    PROVE  /\ ~BuildFn => ReadDefs' = ReadDefs
           /\ BuildFn => /\ at \in 1 .. Len(inp.funcs) /\ Def = inp.funcs[at]
                         /\ ReadDefs' = ReadDefs \cup {at} /\ ReadDefs \cap (at .. Len(inp.funcs)) = {}
<1>t. at \in Nat \ {0} /\ inp \in Input /\ inp' = inp /\ stage \in Stages  BY Writers DEF Typed, TypeOK
<1>n. Len(inp.funcs) \in Nat  BY <1>t, InputTyped
<1>1. ASSUME BuildFn
      PROVE  /\ at \in 1 .. Len(inp.funcs) /\ Def = inp.funcs[at]
             /\ ReadDefs' = ReadDefs \cup {at} /\ ReadDefs \cap (at .. Len(inp.funcs)) = {}
  <2>1. stage = "funcs" /\ stage' = "funcs" /\ at' = at + 1 /\ at <= Len(inp.funcs) /\ Def = inp.funcs[at]
    BY <1>1 DEF BuildFn, DefAt, At, Step, Def
  <2>2. ReadDefs = {k \in 1 .. Len(inp.funcs) : k < at}  BY <2>1 DEF ReadDefs, Opened
  <2>3. ReadDefs' = {k \in 1 .. Len(inp.funcs) : k < at + 1}  BY <1>t, <2>1 DEF ReadDefs, Opened
  <2>. QED  BY <1>t, <1>n, <2>1, <2>2, <2>3
<1>2. ASSUME ~BuildFn PROVE ReadDefs' = ReadDefs
  <2>1. CASE stage = "funcs" /\ stage' = "funcs"
    <3>1. at' = at
      BY <1>2, <2>1
      DEF Act, Outside, Work, env, Vanish, Interrupt, Stopped, mem, disk, ctl, Step, Goto, Die, At,
          CgAt, DefAt, FnLine, MakeExtractionDir, CopyIncludeFiles, CopyMakefile, OpenDuplicates,
          OpenGraph, OpenList, OpenProgram, ParseBrace, ProcessDuplicate, AddDependsOn,
          DependsOnFails, ProcessFuncLine, ProcessMapLine, IgnoreLine, EndParse, ScanFails,
          SkipStruct, ExtractMap, EndStructs, EndFuncs, AddDefines, DefinesFail, EndDefines,
          WriteHeader, EndHeaders, WriteMap, EndMaps, ListFn, DumpFn, DumpFails, SkipFn, LeavePart,
          EndDump, WriteLicense, ReportDuplicates
    <3>. QED  BY <1>t, <2>1, <3>1 DEF ReadDefs, Opened
  <2>2. CASE stage = "funcs" /\ stage' # "funcs"
    <3>1. stage' = "defines"  BY <2>2, Moves DEF Follows
    <3>2. at > Len(inp.funcs)
      BY <2>2
      DEF Act, Outside, Work, env, Vanish, Interrupt, Stopped, mem, disk, ctl, Step, Goto, Die, At,
          CgAt, DefAt, FnLine, MakeExtractionDir, CopyIncludeFiles, CopyMakefile, OpenDuplicates,
          OpenGraph, OpenList, OpenProgram, ParseBrace, ProcessDuplicate, AddDependsOn,
          DependsOnFails, ProcessFuncLine, ProcessMapLine, IgnoreLine, EndParse, ScanFails,
          SkipStruct, ExtractMap, EndStructs, BuildFn, EndFuncs, AddDefines, DefinesFail,
          EndDefines, WriteHeader, EndHeaders, WriteMap, EndMaps, ListFn, DumpFn, DumpFails, SkipFn,
          LeavePart, EndDump, WriteLicense, ReportDuplicates
    <3>3. ReadDefs = 1 .. Len(inp.funcs)  BY <1>t, <1>n, <2>2, <3>2 DEF ReadDefs, Opened
    <3>4. ReadDefs' = 1 .. Len(inp.funcs)  BY <1>t, <3>1 DEF ReadDefs, Opened
    <3>. QED  BY <3>3, <3>4
  <2>3. CASE ~Opened \/ stage \in {"parse", "structs"}
    <3>1. ReadDefs = {}  BY <2>3 DEF ReadDefs, Opened
    <3>2. \/ ~Opened' \/ stage' \in {"parse", "structs"}
          \/ stage' = "funcs" /\ at' = 1
      <4>1. stage' = stage \/ <<stage, stage'>> \in Follows  BY Moves
      <4>2. stage' # stage => at' = 1  BY Turns
      <4>. QED  BY <2>3, <4>1, <4>2 DEF Opened, Follows
    <3>3. ReadDefs' = {}
      <4>1. CASE ~Opened' \/ stage' \in {"parse", "structs"}  BY <4>1 DEF ReadDefs, Opened
      <4>2. CASE stage' = "funcs" /\ at' = 1  BY <1>n, <1>t, <4>2 DEF ReadDefs
      <4>. QED  BY <3>2, <4>1, <4>2
    <3>. QED  BY <3>1, <3>3
  <2>4. CASE Opened /\ stage \notin {"parse", "structs", "funcs"}
    <3>1. stage' \notin {"parse", "structs", "funcs"} /\ Opened'
      BY <1>t, <2>4, Moves DEF Opened, Follows, Stages
    <3>2. ReadDefs = 1 .. Len(inp.funcs)  BY <2>4 DEF ReadDefs
    <3>3. ReadDefs' = 1 .. Len(inp.funcs)  BY <1>t, <3>1 DEF ReadDefs
    <3>. QED  BY <3>2, <3>3
  <2>. QED  BY <2>1, <2>2, <2>3, <2>4
<1>. QED  BY <1>1, <1>2

LEMMA SpanStep ==
    ASSUME Typed, SpanInv, Act
    PROVE  SpanInv'
<1>t. fns \in Seq(Fn) /\ inp \in Input /\ inp' = inp  BY Writers DEF Typed, TypeOK
<1>n. Len(fns) \in Nat /\ inp.funcs \in Seq(FuncDef)  BY <1>t, InputTyped
<1>. SUFFICES ASSUME NEW j \in 1 .. Len(fns') PROVE LastOf(inp.funcs, ReadDefs', fns'[j])
  BY <1>t DEF SpanInv, LastOf
<1>1. CASE BuildFn
  <2>1. /\ at \in 1 .. Len(inp.funcs) /\ Def = inp.funcs[at]
        /\ ReadDefs' = ReadDefs \cup {at} /\ ReadDefs \cap (at .. Len(inp.funcs)) = {}
    BY <1>1, DefsRead
  <2>2. fns' = [k \in 1 .. Len(fns) |->
                 IF fns[k].fn = Def.fn /\ fns[k].file = Def.file THEN Def ELSE fns[k]]
    BY <1>1 DEF BuildFn
  <2>. HIDE DEF Def
  <2>3. j \in 1 .. Len(fns)  BY <1>n, <2>2
  <2>4. fns'[j] = IF fns[j].fn = Def.fn /\ fns[j].file = Def.file THEN Def ELSE fns[j]  BY <2>2, <2>3
  <2>5. /\ SameKey(fns[j], inp.funcs[at]) => fns'[j] = inp.funcs[at]
        /\ ~SameKey(fns[j], inp.funcs[at]) => fns'[j] = fns[j]
    BY <2>1, <2>4 DEF SameKey
  <2>6. LastOf(inp.funcs, ReadDefs, fns[j])  BY <2>3 DEF SpanInv
  <2>7. LastOf(inp.funcs, ReadDefs \cup {at}, fns'[j])  BY <1>n, <2>1, <2>5, <2>6, LastRead
  <2>. QED  BY <2>1, <2>7
<1>2. CASE ~BuildFn
  <2>1. ReadDefs' = ReadDefs  BY <1>2, DefsRead
  <2>2. CASE fns' = fns  BY <2>1, <2>2 DEF SpanInv
  <2>3. CASE ProcessFuncLine /\ fns' = Append(fns, NewEntry)
    <3>1. \/ j \in 1 .. Len(fns) /\ fns'[j] = fns[j]
          \/ fns'[j] = NewEntry
      BY <1>t, <1>n, <2>3
    <3>2. CASE j \in 1 .. Len(fns) /\ fns'[j] = fns[j]  BY <2>1, <3>2 DEF SpanInv
    <3>3. CASE fns'[j] = NewEntry
      <4>1. NewEntry.span = NoSpan  BY DEF NewEntry
      <4>2. ReadDefs = {}  BY <2>3 DEF ReadDefs, ProcessFuncLine, FnLine, CgAt, At
      <4>3. LastOf(inp.funcs, {}, fns'[j])  BY <1>n, <3>3, <4>1, LastUnread
      <4>. QED  BY <2>1, <4>2, <4>3
    <3>. QED  BY <3>1, <3>2, <3>3
  <2>. QED  BY <1>2, <2>2, <2>3, TableSteps
<1>. QED  BY <1>1, <1>2

-----------------------------------------------------------------------------
(* The list and the report. *)
LEMMA WrittenStep ==
    ASSUME Typed, Blank, ListInv, WrittenInv, Act
    PROVE  WrittenInv'
<1>t. fns \in Seq(Fn) /\ plist \in Seq(Fn) /\ at \in Nat \ {0} /\ stage \in Stages  BY DEF Typed, TypeOK
<1>n. Len(fns) \in Nat  BY <1>t
<1>1. CASE stage' \notin Late
  <2>1. Opened' => plist' = <<>>  BY <1>1, ListStep DEF ListInv
  <2>2. Len(<<>>) = 0  OBVIOUS
  <2>. QED  BY <1>1, <2>1, <2>2 DEF WrittenInv, Dumped
<1>2. CASE stage' \in Late /\ stage \notin Late
  <2>1. stage = "maps" /\ stage' = "dump"  BY <1>2, <1>t, Moves DEF Follows, Late, Stages
  <2>2. at' = 1 /\ ~listed'
    <3>1. ~listed  BY <2>1 DEF Typed
    <3>. QED  BY <2>1, <3>1, Turns, Writers DEF ListFn, DumpFn, At
  <2>3. plist' = <<>>
    <3>1. plist = <<>>  BY <2>1 DEF ListInv, Opened, Late
    <3>. QED  BY <2>1, <3>1, Frame
  <2>4. Len(<<>>) = 0  OBVIOUS
  <2>5. \A j \in 1 .. Len(fns') : ~(j < at')  BY <2>2
  <2>. QED  BY <2>1, <2>2, <2>3, <2>4, <2>5 DEF WrittenInv, Dumped
<1>3. CASE stage \in Late
  <2>1. fns' = fns /\ Opened /\ stage' \in Late
    <3>1. stage' \in Late  BY <1>3, OpenedMoves
    <3>. QED  BY <1>3, <3>1, Frame DEF Late, Opened
  <2>i. /\ \A i \in 1 .. Len(plist) : \E j \in 1 .. Len(fns) : Dumped(j) /\ plist[i] = fns[j]
        /\ \A j \in 1 .. Len(fns) : Dumped(j) => In(plist, fns[j])
    BY <2>1 DEF WrittenInv
  <2>2. CASE ListFn
    <3>1. /\ at \in 1 .. Len(fns) /\ stage = "dump" /\ stage' = "dump" /\ at' = at /\ ~listed /\ listed'
          /\ ToDump(fns[at]) /\ plist' = Append(plist, fns[at])
      BY <1>t, <1>n, <2>2 DEF ListFn, At, ctl
    <3>2. \A j \in 1 .. Len(fns) : Dumped(j) <=> j < at /\ ToDump(fns[j])
      BY <3>1 DEF Dumped, Late
    <3>3. \A j \in 1 .. Len(fns) : Dumped(j)' <=> (j < at \/ j = at) /\ ToDump(fns[j])
      BY <2>1, <3>1 DEF Dumped, Late, ToDump
    <3>. DEFINE e == fns[at]
    <3>4. e \in Fn /\ plist' = Append(plist, e)  BY <1>t, <3>1
    <3>. HIDE DEF e
    <3>5. In(plist', e) /\ \A y : In(plist, y) => In(plist', y)  BY <1>t, <3>4, InAppend
    <3>6. ASSUME NEW i \in 1 .. Len(plist')
          PROVE  (i \in 1 .. Len(plist) /\ plist'[i] = plist[i]) \/ plist'[i] = e
      BY <1>t, <3>4
    <3>7. \A i \in 1 .. Len(plist') : \E j \in 1 .. Len(fns) : Dumped(j)' /\ plist'[i] = fns[j]
      <4>1. PICK n \in 1 .. Len(fns) : n = at  BY <3>1
      <4>2. Dumped(n)' /\ e = fns[n]  BY <3>1, <3>3, <4>1 DEF e
      <4>3. \A j \in 1 .. Len(fns) : Dumped(j) => Dumped(j)'  BY <3>2, <3>3
      <4>. QED  BY <2>i, <3>6, <4>2, <4>3
    <3>8. \A j \in 1 .. Len(fns) : Dumped(j)' => In(plist', fns[j])
      BY <2>i, <3>2, <3>3, <3>5 DEF e
    <3>. QED  BY <2>1, <3>7, <3>8 DEF WrittenInv
  <2>3. CASE ~ListFn
    <3>1. plist' = plist  BY <1>3, <2>3, Writers DEF OpenList, At, Late
    <3>2. \A j \in 1 .. Len(fns) : Dumped(j)' <=> Dumped(j)
      <4>1. CASE stage # "dump"
        <5>1. stage' # "dump"  BY <1>3, <4>1, OpenedMoves DEF Late
        <5>. QED  BY <1>3, <2>1, <4>1, <5>1 DEF Dumped, ToDump
      <4>2. CASE DumpFn
        <5>1. listed /\ ~listed' /\ at' = at + 1 /\ stage = "dump" /\ stage' = "dump"
          BY <4>2 DEF DumpFn, Step, At
        <5>2. \A j \in 1 .. Len(fns) : j < at + 1 <=> j < at \/ j = at  BY <1>t
        <5>. QED  BY <2>1, <5>1, <5>2 DEF Dumped, ToDump
      <4>3. CASE SkipFn
        <5>1. ~ToDump(fns[at]) /\ at' = at + 1 /\ stage = "dump" /\ stage' = "dump" /\ listed' = listed
          BY <4>3 DEF SkipFn, Step, At, mem
        <5>2. ~listed  BY <5>1 DEF Typed
        <5>3. \A j \in 1 .. Len(fns) : j < at + 1 <=> j < at \/ j = at  BY <1>t
        <5>. QED  BY <2>1, <5>1, <5>2, <5>3 DEF Dumped, ToDump
      <4>4. CASE stage = "dump" /\ stage' = stage /\ ~DumpFn /\ ~SkipFn
        <5>1. at' = at /\ listed' = listed  BY <2>3, <4>4, Turns, Writers
        <5>. QED  BY <2>1, <4>4, <5>1 DEF Dumped, ToDump
      <4>5. CASE stage = "dump" /\ stage' # stage
        <5>1. at > Len(fns)  BY <4>5, Exits
        <5>2. \A j \in 1 .. Len(fns) : j < at  BY <1>t, <1>n, <5>1
        <5>. QED  BY <1>3, <2>1, <4>5, <5>2 DEF Dumped, ToDump
      <4>. QED  BY <4>1, <4>2, <4>3, <4>4, <4>5
    <3>. QED  BY <2>i, <2>1, <3>1, <3>2 DEF WrittenInv
  <2>. QED  BY <2>2, <2>3
<1>. QED  BY <1>1, <1>2, <1>3

LEMMA ReportStep ==
    ASSUME Typed, ReportInv, Act
    PROVE  ReportInv'
<1>1. ASSUME ~Opened' PROVE duplicates' = <<>>
  <2>1. ~Opened  BY <1>1, OpenedMoves
  <2>2. duplicates' = duplicates  BY <2>1, Writers DEF ProcessDuplicate, CgAt, At, Opened
  <2>. QED  BY <2>1, <2>2 DEF ReportInv
<1>2. ASSUME stage' \notin {"clean", "include", "makefile", "open duplicates", "done"}
      PROVE  dupFile' = <<>>
  <2>1. CASE stage = "open duplicates"  BY <1>2, <2>1, Exits
  <2>2. CASE stage # "open duplicates"
    <3>1. stage \notin {"clean", "include", "makefile", "open duplicates", "done"}
      BY <1>2, <2>2, Moves DEF Follows
    <3>2. dupFile = <<>>  BY <3>1 DEF ReportInv
    <3>3. dupFile' = dupFile
      BY <1>2, <3>1, Writers DEF MakeExtractionDir, OpenDuplicates, ReportDuplicates, Goto, At
    <3>. QED  BY <3>2, <3>3
  <2>. QED  BY <2>1, <2>2
<1>. QED  BY <1>1, <1>2 DEF ReportInv

-----------------------------------------------------------------------------
(* What is dumped is what is wanted. *)
LEMMA Ranges == \A f : Promise!Range(f) = Range(f)
BY DEF Promise!Range, Range

LEMMA InRange ==
    ASSUME NEW S, NEW p \in Seq(S)
    PROVE  \A x : x \in Range(p) <=> In(p, x)
BY DEF Range, In

Wants == {fns[j] : j \in {i \in 1 .. Len(fns) : ToDump(fns[i])}}

LEMMA WantedIsDumped ==
    ASSUME Typed, KeysInv, SpanInv, stage \in Late
    PROVE  Promise!Wanted(inp) = Wants
<1>t. fns \in Seq(Fn) /\ inp \in Input  BY DEF Typed, TypeOK
<1>n. Len(fns) \in Nat /\ Len(inp.funcs) \in Nat /\ inp.funcs \in Seq(FuncDef) /\ inp.cg \in Seq(CgLine)
  BY <1>t, InputTyped
<1>r. ReadDefs = 1 .. Len(inp.funcs) /\ Opened /\ stage # "parse"  BY DEF ReadDefs, Opened, Late
<1>f. \A l : l \in Promise!FnLines(inp.cg) <=> \E i \in 1 .. Len(inp.cg) : FnAt(i) /\ l = inp.cg[i]
  BY DEF Promise!FnLines, FnAt
<1>w. \A d : d \in Promise!Wanted(inp) <=>
               /\ In(inp.funcs, d) /\ Ext[d.file] = "c" /\ HasLine(d)
               /\ \E i \in 1 .. Len(inp.funcs) :
                     /\ inp.funcs[i] = d
                     /\ \A j \in i + 1 .. Len(inp.funcs) : ~SameKey(inp.funcs[j], d)
  <2>1. \A d : HasLine(d) <=>
           \E l \in Promise!FnLines(inp.cg) : l.count <= 1 /\ l.name = d.fn /\ l.src = d.file
    BY <1>f DEF HasLine
  <2>2. \A d : d \in Promise!Range(inp.funcs) <=> In(inp.funcs, d)  BY <1>n, Ranges, InRange
  <2>. QED  BY <2>1, <2>2 DEF Promise!Wanted, SameKey
<1>1. ASSUME NEW j \in 1 .. Len(fns), ToDump(fns[j]) PROVE fns[j] \in Promise!Wanted(inp)
  <2>1. fns[j] \in Fn /\ fns[j].span # NoSpan /\ Ext[fns[j].file] # "h"  BY <1>1, <1>t DEF ToDump
  <2>2. Ext[fns[j].file] = "c"  BY <2>1, SrcsAssumption DEF Fn
  <2>3. HasLine(fns[j])  BY DEF KeysInv
  <2>4. PICK i \in 1 .. Len(inp.funcs) :
           /\ inp.funcs[i] = fns[j]
           /\ \A k \in i + 1 .. Len(inp.funcs) : k \in ReadDefs => ~SameKey(inp.funcs[k], fns[j])
    BY <2>1 DEF SpanInv, LastOf
  <2>5. \A k \in i + 1 .. Len(inp.funcs) : ~SameKey(inp.funcs[k], fns[j])
    <3>1. \A k \in i + 1 .. Len(inp.funcs) : k \in 1 .. Len(inp.funcs)  BY <1>n
    <3>. QED  BY <1>r, <2>4, <3>1
  <2>6. In(inp.funcs, fns[j])  BY <2>4 DEF In
  <2>. QED  BY <1>w, <2>2, <2>3, <2>4, <2>5, <2>6
<1>2. ASSUME NEW d \in Promise!Wanted(inp) PROVE \E j \in 1 .. Len(fns) : fns[j] = d /\ ToDump(fns[j])
  <2>1. Ext[d.file] = "c" /\ HasLine(d)  BY <1>w
  <2>2. PICK i \in 1 .. Len(inp.funcs) :
           /\ inp.funcs[i] = d
           /\ \A k \in i + 1 .. Len(inp.funcs) : ~SameKey(inp.funcs[k], d)
    BY <1>w
  <2>3. KeyIn(fns, d.fn, d.file)
    <3>1. PICK n \in 1 .. Len(inp.cg) :
             FnAt(n) /\ inp.cg[n].count <= 1 /\ inp.cg[n].name = d.fn /\ inp.cg[n].src = d.file
      BY <2>1 DEF HasLine
    <3>2. KeyIn(fns, inp.cg[n].name, inp.cg[n].src)  BY <1>r, <3>1 DEF KeysInv
    <3>. QED  BY <3>1, <3>2
  <2>4. PICK j \in 1 .. Len(fns) : SameKey(fns[j], d)  BY <2>3 DEF KeyIn, SameKey
  <2>5. LastOf(inp.funcs, ReadDefs, fns[j])  BY DEF SpanInv
  <2>6. SameKey(inp.funcs[i], fns[j])  BY <2>2, <2>4 DEF SameKey
  <2>7. fns[j].span # NoSpan  BY <1>r, <2>5, <2>6 DEF LastOf
  <2>8. PICK k \in 1 .. Len(inp.funcs) :
           /\ inp.funcs[k] = fns[j]
           /\ \A m \in k + 1 .. Len(inp.funcs) : m \in ReadDefs => ~SameKey(inp.funcs[m], fns[j])
    BY <2>5, <2>7 DEF LastOf
  <2>9. ~(i < k)
    <3>1. SameKey(inp.funcs[k], d)  BY <2>4, <2>8
    <3>2. i < k => k \in i + 1 .. Len(inp.funcs)  BY <1>n
    <3>. QED  BY <2>2, <3>1, <3>2
  <2>10. ~(k < i)
    <3>1. k < i => i \in k + 1 .. Len(inp.funcs)  BY <1>n
    <3>. QED  BY <1>r, <2>6, <2>8, <3>1
  <2>11. i = k  BY <1>n, <2>9, <2>10
  <2>12. fns[j] = d  BY <2>2, <2>8, <2>11
  <2>. QED  BY <2>1, <2>7, <2>12 DEF ToDump
<1>. QED  BY <1>1, <1>2 DEF Wants

(* What is reported is what is ambiguous. *)
LEMMA ReportedIsAmbiguous ==
    ASSUME Typed, DupInv, Opened, stage # "parse"
    PROVE  Promise!Range(duplicates) = Promise!Ambiguous(inp.cg)
<1>t. duplicates \in Seq(CgLine) /\ inp \in Input  BY DEF Typed, TypeOK
<1>1. \A x : x \in Promise!Range(duplicates) <=> In(duplicates, x)  BY <1>t, Ranges, InRange
<1>2. \A l : l \in Promise!Ambiguous(inp.cg) <=>
             \E i \in 1 .. Len(inp.cg) : FnAt(i) /\ inp.cg[i].count > 1 /\ l = inp.cg[i]
  BY DEF Promise!Ambiguous, Promise!FnLines, FnAt
<1>3. \A l \in Promise!Ambiguous(inp.cg) : In(duplicates, l)  BY <1>2 DEF DupInv
<1>4. ASSUME NEW l, In(duplicates, l) PROVE l \in Promise!Ambiguous(inp.cg)
  BY <1>2, <1>4 DEF DupInv, In
<1>. QED  BY <1>1, <1>3, <1>4

-----------------------------------------------------------------------------
LEMMA ExInit == Init => ExInv
<1>. SUFFICES ASSUME Init PROVE ExInv  OBVIOUS
<1>1. /\ stage = "clean" /\ fns = <<>> /\ duplicates = <<>> /\ plist = <<>> /\ ct = 0
  BY DEF Init, MemInit
<1>2. ~Opened /\ stage \notin Late /\ Len(<<>>) = 0  BY <1>1 DEF Opened, Late
<1>3. CtInv /\ KeysInv /\ DupInv  BY <1>1, <1>2 DEF CtInv, KeysInv, DupInv
<1>4. SpanInv /\ WrittenInv /\ ReportInv  BY <1>1, <1>2 DEF SpanInv, WrittenInv, ReportInv
<1>. QED  BY <1>3, <1>4 DEF ExInv

LEMMA ExStep == RunInv /\ ExInv /\ [Next]_vars => ExInv'
<1>. SUFFICES ASSUME RunInv, ExInv, [Next]_vars PROVE ExInv'  OBVIOUS
<1>0. Typed /\ Blank /\ ListInv  BY DEF RunInv
<1>i. CtInv /\ KeysInv /\ DupInv /\ SpanInv /\ WrittenInv /\ ReportInv  BY DEF ExInv
<1>1. CASE Act
  <2>1. CtInv' /\ KeysInv' /\ DupInv'  BY <1>0, <1>i, <1>1, CtStep, KeysStep, DupStep
  <2>2. SpanInv' /\ WrittenInv' /\ ReportInv'  BY <1>0, <1>i, <1>1, SpanStep, WrittenStep, ReportStep
  <2>. QED  BY <2>1, <2>2 DEF ExInv
<1>2. CASE Restart
  <2>1. stage' = "clean" /\ fns' = <<>> /\ duplicates' = <<>> /\ ct' = 0  BY <1>2 DEF Restart, Rerun
  <2>2. ~Opened' /\ stage' \notin Late /\ Len(<<>>) = 0  BY <2>1 DEF Opened, Late
  <2>3. CtInv' /\ KeysInv' /\ DupInv'  BY <2>1, <2>2 DEF CtInv, KeysInv, DupInv
  <2>4. SpanInv' /\ WrittenInv' /\ ReportInv'  BY <2>1, <2>2 DEF SpanInv, WrittenInv, ReportInv
  <2>. QED  BY <2>3, <2>4 DEF ExInv
<1>3. CASE UNCHANGED vars
  <2>1. /\ inp' = inp /\ stage' = stage /\ at' = at /\ plist' = plist /\ dupFile' = dupFile
        /\ listed' = listed /\ ct' = ct /\ fns' = fns /\ duplicates' = duplicates
    BY <1>3 DEF vars, env, ctl, disk, mem
  <2>2. Opened' = Opened  BY <2>1 DEF Opened
  <2>3. CtInv'  BY <1>i, <2>1, <2>2 DEF CtInv
  <2>4. KeysInv'  BY <1>i, <2>1, <2>2 DEF KeysInv, HasLine, FnAt
  <2>5. DupInv'  BY <1>i, <2>1, <2>2 DEF DupInv, FnAt
  <2>6. SpanInv'  BY <1>i, <2>1, <2>2 DEF SpanInv, ReadDefs
  <2>7. WrittenInv' /\ ReportInv'  BY <1>i, <2>1, <2>2 DEF WrittenInv, Dumped, ReportInv
  <2>. QED  BY <2>3, <2>4, <2>5, <2>6, <2>7 DEF ExInv
<1>. QED  BY <1>1, <1>2, <1>3 DEF Next, Restart, Act, Outside

-----------------------------------------------------------------------------
(* The order of the list and of the program is that of the table. *)
OrderInv ==
    /\ \A n, m \in 1 .. Len(plist), a, b \in 1 .. Len(fns) :
          Opened /\ n < m /\ plist[n] = fns[a] /\ plist[m] = fns[b] => a < b
    /\ \A i, j \in 1 .. Len(program), a, b \in 1 .. Len(fns) :
          Opened /\ i < j /\ program[i] = Item("fn", fns[a]) /\ program[j] = Item("fn", fns[b]) => a < b

LEMMA OneEntry ==
    ASSUME KeysInv, NEW a \in 1 .. Len(fns), NEW b \in 1 .. Len(fns), fns[a] = fns[b]
    PROVE  a = b
BY DEF KeysInv, SameKey

LEMMA FnItem ==
    ASSUME NEW x, NEW e, x = Item("fn", e)
    PROVE  x.k = "fn" /\ x.of = e
BY DEF Item

LEMMA OrderStep ==
    ASSUME RunInv, ExInv, OrderInv, Act
    PROVE  OrderInv'
<1>0. Typed /\ ListInv /\ DumpInv /\ KeysInv /\ WrittenInv  BY DEF RunInv, ExInv
<1>t. fns \in Seq(Fn) /\ plist \in Seq(Fn) /\ program \in Seq(Items) /\ at \in Nat \ {0}
  BY <1>0 DEF Typed, TypeOK
<1>1. CASE ~Opened'  BY <1>1 DEF OrderInv
<1>2. CASE Opened' /\ stage \notin Late
  <2>1. fns' = fns \/ stage' \notin Late
    <3>1. stage \in Stages  BY <1>0 DEF Typed, TypeOK
    <3>. QED  BY <1>0, <1>2, <3>1, Frame, Moves DEF Follows, Late, Stages
  <2>2. plist' = <<>>
    <3>1. ListInv'  BY <1>0, ListStep
    <3>2. CASE stage' \notin Late  BY <1>2, <3>1, <3>2 DEF ListInv
    <3>3. CASE stage' \in Late
      <4>1. stage = "maps"
        <5>1. stage \in Stages  BY <1>0 DEF Typed, TypeOK
        <5>. QED  BY <1>2, <3>3, <5>1, Moves DEF Follows, Late, Stages
      <4>2. plist = <<>>  BY <1>0, <4>1 DEF ListInv, Opened, Late
      <4>. QED  BY <1>0, <4>1, <4>2, Frame
    <3>. QED  BY <3>2, <3>3
  <2>3. \A i \in 1 .. Len(program') : program'[i].k # "fn"
    <3>1. CASE ~Opened
      <4>1. program' = <<>>  BY <1>0, <1>2, <3>1, OpenedMoves, Unopened
      <4>2. Len(<<>>) = 0  OBVIOUS
      <4>. QED  BY <4>1, <4>2
    <3>2. CASE Opened
      <4>1. PICK w \in Seq(Items) : Appends(w)  BY <1>0, <3>2, Grows
      <4>2. program' = program \o w  BY <4>1 DEF Appends
      <4>3. \A i \in 1 .. Len(w) : w[i].k # "fn"  BY <1>2, <4>1 DEF Appends, From, Late
      <4>4. \A i \in 1 .. Len(program) : program[i].k # "fn"  BY <1>0, <1>2, <3>2 DEF DumpInv, Passed
      <4>5. \A i \in 1 .. Len(program') :
               \/ i \in 1 .. Len(program) /\ program'[i] = program[i]
               \/ i - Len(program) \in 1 .. Len(w) /\ program'[i] = w[i - Len(program)]
        BY <1>t, <4>2, Cat
      <4>. QED  BY <4>3, <4>4, <4>5
    <3>. QED  BY <3>1, <3>2
  <2>4. Len(<<>>) = 0  OBVIOUS
  <2>. QED  BY <2>2, <2>3, <2>4, FnItem DEF OrderInv
<1>3. CASE stage \in Late
  <2>1. Opened /\ Opened' /\ fns' = fns
    <3>1. Opened  BY <1>3 DEF Opened, Late
    <3>. QED  BY <1>0, <1>3, <3>1, OpenedMoves, Frame DEF Late
  <2>2. ASSUME NEW n \in 1 .. Len(plist'), NEW m \in 1 .. Len(plist'), n < m,
               NEW a \in 1 .. Len(fns), NEW b \in 1 .. Len(fns), plist'[n] = fns[a], plist'[m] = fns[b]
        PROVE  a < b
    <3>1. CASE plist' = plist  BY <2>1, <2>2, <3>1 DEF OrderInv
    <3>2. CASE ListFn
      <4>1. /\ stage = "dump" /\ at \in 1 .. Len(fns) /\ ~listed /\ plist' = Append(plist, fns[at])
        BY <1>t, <3>2 DEF ListFn, At
      <4>2. /\ Len(plist) \in Nat /\ Len(plist') = Len(plist) + 1 /\ plist'[Len(plist) + 1] = fns[at]
            /\ \A k \in 1 .. Len(plist) : plist'[k] = plist[k]
        BY <1>t, <4>1
      <4>3. n \in 1 .. Len(plist) /\ (m \in 1 .. Len(plist) \/ m = Len(plist) + 1)  BY <2>2, <4>2
      <4>4. CASE m \in 1 .. Len(plist)  BY <2>1, <2>2, <4>2, <4>3, <4>4 DEF OrderInv
      <4>5. CASE m = Len(plist) + 1
        <5>1. b = at  BY <1>0, <2>2, <4>1, <4>2, <4>5, OneEntry
        <5>2. PICK c \in 1 .. Len(fns) : Dumped(c) /\ plist[n] = fns[c]
          BY <1>0, <2>1, <4>3 DEF WrittenInv
        <5>3. c < at  BY <4>1, <5>2 DEF Dumped
        <5>4. a = c  BY <1>0, <2>2, <4>2, <4>3, <5>2, OneEntry
        <5>. QED  BY <5>1, <5>3, <5>4
      <4>. QED  BY <4>3, <4>4, <4>5
    <3>. QED  BY <1>3, <3>1, <3>2, Writers DEF OpenList, At, Late
  <2>3. ASSUME NEW i \in 1 .. Len(program'), NEW j \in 1 .. Len(program'), i < j,
               NEW a \in 1 .. Len(fns), NEW b \in 1 .. Len(fns),
               program'[i] = Item("fn", fns[a]), program'[j] = Item("fn", fns[b])
        PROVE  a < b
    <3>1. PICK w \in Seq(Items) : Appends(w)  BY <1>0, <2>1, Grows
    <3>2. program' = program \o w  BY <3>1 DEF Appends
    <3>3. /\ Len(program) \in Nat /\ Len(w) \in Nat
          /\ \A k \in 1 .. Len(program') :
                \/ k \in 1 .. Len(program) /\ program'[k] = program[k]
                \/ k > Len(program) /\ k - Len(program) \in 1 .. Len(w) /\ program'[k] = w[k - Len(program)]
      BY <1>t, <3>2, Cat
    <3>w. Len(w) <= 1  BY <1>3, <3>1 DEF Appends, Late
    <3>4. i \in 1 .. Len(program) /\ program'[i] = program[i]
      <4>1. i <= Len(program)
        <5>1. SUFFICES ASSUME i > Len(program) PROVE FALSE  BY <3>3
        <5>2. i - Len(program) \in 1 .. Len(w) /\ j - Len(program) \in 1 .. Len(w)  BY <2>3, <3>3, <5>1
        <5>. QED  BY <2>3, <3>3, <3>w, <5>2
      <4>. QED  BY <3>3, <4>1
    <3>5. CASE j \in 1 .. Len(program) /\ program'[j] = program[j]
      BY <2>1, <2>3, <3>4, <3>5 DEF OrderInv
    <3>6. CASE j - Len(program) \in 1 .. Len(w) /\ program'[j] = w[j - Len(program)]
      <4>0. program'[j].k = "fn" /\ program'[j].of = fns[b]  BY <2>3, FnItem
      <4>1. stage = "dump" /\ at \in 1 .. Len(fns) /\ program'[j].of = fns[at]
        BY <3>1, <3>6, <4>0 DEF Appends, From
      <4>2. b = at  BY <1>0, <4>0, <4>1, OneEntry
      <4>3. program[i].k = "fn" /\ program[i].of = fns[a]  BY <2>3, <3>4, FnItem
      <4>4. PICK c \in 1 .. Len(fns) : program[i].of = fns[c] /\ Passed(c)
        BY <1>0, <2>1, <3>4, <4>3 DEF DumpInv
      <4>5. c < at  BY <4>1, <4>4 DEF Passed
      <4>6. a = c  BY <1>0, <4>3, <4>4, OneEntry
      <4>. QED  BY <4>2, <4>5, <4>6
    <3>. QED  BY <3>3, <3>5, <3>6
  <2>. QED  BY <2>1, <2>2, <2>3 DEF OrderInv, Item
<1>. QED  BY <1>1, <1>2, <1>3

(* While a run writes them, the program and the list agree because both    *)
(* follow the table;                                                       *)
LEMMA AgreeNow ==
    ASSUME RunInv, ExInv, OrderInv, Opened
    PROVE  ListMatchesProgram
<1>0. Typed /\ DumpInv /\ KeysInv /\ WrittenInv  BY DEF RunInv, ExInv
<1>t. fns \in Seq(Fn) /\ plist \in Seq(Fn) /\ program \in Seq(Items) /\ at \in Nat \ {0}
  BY <1>0 DEF Typed, TypeOK
<1>r. (\A x : x \in Range(plist) <=> In(plist, x)) /\ (\A x : x \in Range(program) <=> In(program, x))
  BY <1>t, InRange
<1>1. ASSUME NEW i \in 1 .. Len(program), program[i].k = "fn" PROVE program[i].of \in Range(plist)
  <2>1. PICK j \in 1 .. Len(fns) : program[i].of = fns[j] /\ Passed(j)  BY <1>0, <1>1 DEF DumpInv
  <2>2. Dumped(j)  BY <2>1 DEF Passed, Dumped
  <2>. QED  BY <1>0, <1>r, <2>1, <2>2 DEF WrittenInv
<1>w. ASSUME NEW n \in 1 .. Len(plist)
      PROVE  \E a \in 1 .. Len(fns) : Dumped(a) /\ plist[n] = fns[a]
  BY <1>0 DEF WrittenInv
<1>2. ASSUME NEW i \in 1 .. Len(program), NEW j \in 1 .. Len(program),
             NEW n \in 1 .. Len(plist), NEW m \in 1 .. Len(plist), i < j,
             program[i] = Item("fn", plist[n]), program[j] = Item("fn", plist[m])
      PROVE  n < m
  <2>1. PICK a \in 1 .. Len(fns) : plist[n] = fns[a]  BY <1>w
  <2>2. PICK b \in 1 .. Len(fns) : plist[m] = fns[b]  BY <1>w
  <2>3. a < b  BY <1>2, <2>1, <2>2 DEF OrderInv
  <2>4. n # m
    <3>1. SUFFICES ASSUME n = m PROVE FALSE  OBVIOUS
    <3>2. a = b  BY <1>0, <2>1, <2>2, <3>1, OneEntry
    <3>. QED  BY <2>3, <3>2
  <2>5. ~(m < n)
    <3>1. m < n => b < a  BY <2>1, <2>2 DEF OrderInv
    <3>. QED  BY <2>3, <3>1
  <2>. QED  BY <1>t, <2>4, <2>5
<1>3. ASSUME NEW n \in 1 .. Len(plist), plist[n].file \notin gone, n = Len(plist) => Licensed
      PROVE  Item("fn", plist[n]) \in Range(program)
  <2>1. PICK a \in 1 .. Len(fns) : Dumped(a) /\ plist[n] = fns[a]  BY <1>w
  <2>2. Passed(a)
    <3>1. SUFFICES ASSUME stage = "dump", a = at PROVE FALSE  BY <2>1 DEF Dumped, Passed
    <3>2. CASE n = Len(plist)
      <4>1. PICK i \in 1 .. Len(program) : program[i].k = "license"  BY <1>3, <3>2 DEF Licensed
      <4>. QED  BY <1>0, <3>1, <4>1 DEF DumpInv
    <3>3. CASE n # Len(plist)
      <4>1. Len(plist) \in 1 .. Len(plist) /\ n < Len(plist)  BY <1>t, <3>3
      <4>2. PICK b \in 1 .. Len(fns) : Dumped(b) /\ plist[Len(plist)] = fns[b]  BY <1>w, <4>1
      <4>3. a < b  BY <2>1, <4>1, <4>2 DEF OrderInv
      <4>4. b < at \/ b = at  BY <3>1, <4>2 DEF Dumped
      <4>. QED  BY <1>t, <3>1, <4>3, <4>4
    <3>. QED  BY <3>2, <3>3
  <2>3. In(program, Item("fn", fns[a]))  BY <1>0, <1>3, <2>1, <2>2 DEF DumpInv
  <2>. QED  BY <1>r, <2>1, <2>3
<1>. QED  BY <1>1, <1>2, <1>3 DEF ListMatchesProgram

(* what they were left as is not changed but by emptying one of them.      *)
LEMMA AgreeLater ==
    ASSUME ListMatchesProgram, ~Opened', program' = program \/ program' = <<>>,
           plist' = plist \/ plist' = <<>>, plist' # <<>> => gone' = gone
    PROVE  ListMatchesProgram'
<1>1. CASE program' # <<>> /\ plist' # <<>>
  <2>1. program' = program /\ plist' = plist /\ gone' = gone  BY <1>1
  <2>2. Licensed' = Licensed  BY <2>1 DEF Licensed
  <2>. QED  BY <1>1, <2>1, <2>2 DEF ListMatchesProgram
<1>2. CASE ~(program' # <<>> /\ plist' # <<>>)  BY <1>2 DEF ListMatchesProgram
<1>. QED  BY <1>1, <1>2

(* After any number of runs into one directory, wherever each of them      *)
(* stopped, between two writes or within one, and whatever files were      *)
(* removed meanwhile: if neither file is empty, every function of the      *)
(* program is on the list, in the same order, and every function listed    *)
(* but those of removed files and, without the license line, the last one, *)
(* is in the program.                                                      *)
THEOREM ListAgrees == Spec => []ListMatchesProgram
<1>. DEFINE Inv == RunInv /\ ExInv /\ OrderInv /\ ListMatchesProgram
<1>1. Init => Inv
  <2>. SUFFICES ASSUME Init PROVE Inv  OBVIOUS
  <2>1. program = <<>> /\ ~Opened  BY DEF Init, Opened
  <2>2. OrderInv /\ ListMatchesProgram  BY <2>1 DEF OrderInv, ListMatchesProgram
  <2>. QED  BY <2>2, RunInit, ExInit
<1>a. RunInv /\ ExInv /\ OrderInv /\ Opened => ListMatchesProgram  BY AgreeNow
<1>b. (RunInv /\ ExInv /\ OrderInv /\ Opened => ListMatchesProgram)'  BY <1>a, PTL
<1>2. Inv /\ [Next]_vars => Inv'
  <2>. SUFFICES ASSUME Inv, [Next]_vars PROVE Inv'  OBVIOUS
  <2>0. RunInv' /\ ExInv'  BY RunStep, ExStep
  <2>1. CASE Act
    <3>1. OrderInv'  BY <2>1, OrderStep
    <3>2. CASE Opened'
      <4>1. ListMatchesProgram'  BY <1>b, <2>0, <3>1, <3>2
      <4>. QED  BY <2>0, <3>1, <4>1
    <3>3. CASE ~Opened'
      <4>1. ~Opened /\ Typed  BY <2>1, <3>3, OpenedMoves DEF RunInv
      <4>2. ListMatchesProgram'  BY <2>1, <3>3, <4>1, Unopened, AgreeLater
      <4>. QED  BY <2>0, <3>1, <4>2
    <3>. QED  BY <3>2, <3>3
  <2>2. CASE Restart
    <3>1. ~Opened' /\ program' = program /\ plist' = plist /\ gone' = gone
      BY <2>2 DEF Restart, Rerun, disk, Opened
    <3>2. OrderInv'  BY <3>1 DEF OrderInv
    <3>3. ListMatchesProgram'  BY <3>1, AgreeLater
    <3>. QED  BY <2>0, <3>2, <3>3
  <2>3. CASE UNCHANGED vars
    <3>1. stage' = stage /\ program' = program /\ plist' = plist /\ gone' = gone /\ fns' = fns
      BY <2>3 DEF vars, env, ctl, disk, mem
    <3>3. Opened' = Opened /\ Licensed' = Licensed  BY <3>1 DEF Opened, Licensed
    <3>2. OrderInv'  BY <3>1, <3>3 DEF OrderInv, Item
    <3>4. ListMatchesProgram'  BY <3>1, <3>3 DEF ListMatchesProgram
    <3>. QED  BY <2>0, <3>2, <3>4
  <2>. QED  BY <2>1, <2>2, <2>3 DEF Next, Restart, Act, Outside
<1>3. Inv => ListMatchesProgram  OBVIOUS
<1>. QED  BY <1>1, <1>2, <1>3, PTL DEF Spec

-----------------------------------------------------------------------------
(* The state of Extraction. *)
Status == IF dead THEN "failed" ELSE IF stage = "done" THEN "done" ELSE "running"
Written == IF Opened THEN plist ELSE <<>>
Reported == IF Opened THEN dupFile ELSE <<>>

LEMMA Ending ==
    ASSUME Act
    PROVE  stage # "done" /\ (stage' = "done" <=> ReportDuplicates)
BY DEF Act, Outside, Work, env, Vanish, Interrupt, Stopped, mem, disk, ctl, Step, Goto, Die, At,
       CgAt, DefAt, FnLine, MakeExtractionDir, CopyIncludeFiles, CopyMakefile, OpenDuplicates,
       OpenGraph, OpenList, OpenProgram, ParseBrace, ProcessDuplicate, AddDependsOn, DependsOnFails,
       ProcessFuncLine, ProcessMapLine, IgnoreLine, EndParse, ScanFails, SkipStruct, ExtractMap,
       EndStructs, BuildFn, EndFuncs, AddDefines, DefinesFail, EndDefines, WriteHeader, EndHeaders,
       WriteMap, EndMaps, ListFn, DumpFn, DumpFails, SkipFn, LeavePart, EndDump, WriteLicense,
       ReportDuplicates

(* Most steps are not visible. *)
LEMMA Hidden ==
    ASSUME Typed, ListInv, ReportInv, Act, ~ListFn, ~ReportDuplicates
    PROVE  Written' = Written /\ Reported' = Reported
<1>1. CASE Opened
  <2>1. Opened'  BY <1>1, OpenedMoves
  <2>2. plist' = plist  BY <1>1, Writers DEF OpenList, At, Opened
  <2>3. dupFile' = dupFile  BY <1>1, Writers DEF MakeExtractionDir, OpenDuplicates, At, Opened
  <2>. QED  BY <1>1, <2>1, <2>2, <2>3 DEF Written, Reported
<1>2. CASE ~Opened /\ Opened'
  <2>1. stage = "open program" /\ stage' = "parse"  BY <1>2, OpenedMoves
  <2>2. plist' = <<>>
    <3>1. ListInv'  BY ListStep
    <3>. QED  BY <1>2, <2>1, <3>1 DEF ListInv, Late
  <2>3. dupFile' = <<>>
    <3>1. ReportInv'  BY ReportStep
    <3>. QED  BY <2>1, <3>1 DEF ReportInv
  <2>. QED  BY <1>2, <2>2, <2>3 DEF Written, Reported
<1>3. CASE ~Opened /\ ~Opened'  BY <1>3 DEF Written, Reported
<1>. QED  BY <1>1, <1>2, <1>3

LEMMA ActRefines ==
    ASSUME RunInv, ExInv, Act
    PROVE  Promise!Next \/ UNCHANGED Promise!vars
<1>t. Typed /\ Typed'
  <2>1. Typed  BY DEF RunInv
  <2>. QED  BY <2>1, ActTyped
<1>d. ~dead  BY Control, Zenon
<1>0. inp' = inp /\ Status = "running"  BY <1>d, Ending, Writers DEF Status
<1>1. CASE ListFn
  <2>t. fns \in Seq(Fn) /\ plist \in Seq(Fn) /\ at \in Nat \ {0}  BY <1>t DEF Typed, TypeOK
  <2>1. /\ stage = "dump" /\ stage' = "dump" /\ at \in 1 .. Len(fns) /\ ToDump(fns[at]) /\ ~listed
        /\ plist' = Append(plist, fns[at]) /\ dupFile' = dupFile
    BY <1>1, <2>t DEF ListFn, At, ctl
  <2>d. ~dead'  BY <1>d, <1>1 DEF ListFn, ctl
  <2>2. Status' = "running"  BY <2>1, <2>d DEF Status
  <2>3. Written = plist /\ Written' = Append(Written, fns[at]) /\ Reported' = Reported
    BY <2>1 DEF Written, Reported, Opened
  <2>4. fns[at] \in Promise!Wanted(inp)
    <3>1. Promise!Wanted(inp) = Wants
      BY <1>t, <2>1, WantedIsDumped DEF ExInv, Late
    <3>2. fns[at] \in Wants  BY <2>1 DEF Wants
    <3>. QED  BY <3>1, <3>2
  <2>5. fns[at] \notin Promise!Range(Written)
    <3>1. SUFFICES ASSUME In(plist, fns[at]) PROVE FALSE  BY <2>t, <2>3, Ranges, InRange
    <3>2. PICK i \in 1 .. Len(plist) : plist[i] = fns[at]  BY <3>1 DEF In
    <3>3. PICK j \in 1 .. Len(fns) : Dumped(j) /\ plist[i] = fns[j]
      BY <2>1 DEF ExInv, WrittenInv, Opened
    <3>4. j < at  BY <2>1, <3>3 DEF Dumped
    <3>5. SameKey(fns[j], fns[at])  BY <3>2, <3>3 DEF SameKey
    <3>6. j = at  BY <2>1, <3>5 DEF ExInv, KeysInv
    <3>. QED  BY <2>t, <3>4, <3>6
  <2>6. Promise!WriteFunction
    BY <1>0, <2>2, <2>3, <2>4, <2>5 DEF Promise!WriteFunction, Status, Written, Reported
  <2>. QED  BY <2>6 DEF Promise!Next
<1>2. CASE ReportDuplicates
  <2>t. plist \in Seq(Fn)  BY <1>t DEF Typed, TypeOK
  <2>1. stage = "report" /\ stage' = "done" /\ dupFile' = duplicates /\ plist' = plist
    BY <1>2 DEF ReportDuplicates, At, Goto
  <2>d. ~dead'  BY <1>d, <1>2 DEF ReportDuplicates, Goto
  <2>2. Status' = "done"  BY <2>1, <2>d DEF Status
  <2>3. Written = plist /\ Written' = Written /\ Reported' = duplicates
    BY <2>1 DEF Written, Reported, Opened
  <2>4. Promise!Range(Written) = Promise!Wanted(inp)
    <3>1. Promise!Wanted(inp) = Wants
      BY <1>t, <2>1, WantedIsDumped DEF ExInv, Late
    <3>2. \A x : x \in Promise!Range(Written) <=> In(plist, x)  BY <2>t, <2>3, Ranges, InRange
    <3>3. \A j \in 1 .. Len(fns) : Dumped(j) <=> ToDump(fns[j])  BY <2>1 DEF Dumped, Late
    <3>4. \A x : In(plist, x) <=> x \in Wants
      <4>1. /\ \A i \in 1 .. Len(plist) : \E j \in 1 .. Len(fns) : Dumped(j) /\ plist[i] = fns[j]
            /\ \A j \in 1 .. Len(fns) : Dumped(j) => In(plist, fns[j])
        BY <2>1 DEF ExInv, WrittenInv, Opened
      <4>. QED  BY <3>3, <4>1 DEF Wants, In
    <3>. QED  BY <3>1, <3>2, <3>4
  <2>5. Promise!Range(Reported') = Promise!Ambiguous(inp.cg)
    BY <1>t, <2>1, <2>3, ReportedIsAmbiguous DEF ExInv, Opened
  <2>6. Promise!Finish
    BY <1>0, <2>2, <2>3, <2>4, <2>5 DEF Promise!Finish, Status, Written, Reported
  <2>. QED  BY <2>6 DEF Promise!Next
<1>3. CASE ~ListFn /\ ~ReportDuplicates
  <2>1. Written' = Written /\ Reported' = Reported  BY <1>t, <1>3, Hidden DEF RunInv, ExInv
  <2>2. stage' # "done"  BY <1>3, Ending
  <2>3. CASE dead'
    <3>1. Status' = "failed"  BY <2>3 DEF Status
    <3>2. Promise!Fail  BY <1>0, <2>1, <3>1 DEF Promise!Fail, Status, Written, Reported
    <3>. QED  BY <3>2 DEF Promise!Next
  <2>4. CASE ~dead'
    <3>1. Status' = Status  BY <1>0, <2>2, <2>4 DEF Status
    <3>. QED  BY <1>0, <2>1, <3>1 DEF Promise!vars, Status, Written, Reported
  <2>. QED  BY <2>3, <2>4
<1>. QED  BY <1>1, <1>2, <1>3

LEMMA RestartRefines ==
    ASSUME Stopped, Restart
    PROVE  Promise!Next
<1>1. stage' = "clean" /\ ~dead'  BY DEF Restart, Rerun
<1>2. Status # "running"  BY DEF Status, Stopped
<1>3. Status' = "running" /\ Written' = <<>> /\ Reported' = <<>>
  BY <1>1 DEF Status, Written, Reported, Opened
<1>4. Promise!Restart  BY <1>2, <1>3 DEF Promise!Restart, Status, Written, Reported
<1>. QED  BY <1>4 DEF Promise!Next

(* Any run of the extractor, among any others into the same directory, is  *)
(* a run of Extraction: it lists only functions that its input asks for,   *)
(* none of them twice, ends normally only with all of them, and reports    *)
(* every ambiguous line then.                                              *)
THEOREM ExtractorKeepsPromise == Spec => ImplementsExtraction
<1>1. Init => Promise!Init
  <2>. SUFFICES ASSUME Init PROVE Promise!Init  OBVIOUS
  <2>1. stage = "clean" /\ ~dead  BY DEF Init
  <2>2. Status = "running" /\ Written = <<>> /\ Reported = <<>>
    BY <2>1 DEF Status, Written, Reported, Opened
  <2>. QED  BY <2>2 DEF Promise!Init, Status, Written, Reported
<1>2. RunInv /\ ExInv /\ [Next]_vars => [Promise!Next]_(Promise!vars)
  <2>. SUFFICES ASSUME RunInv, ExInv, [Next]_vars PROVE [Promise!Next]_(Promise!vars)  OBVIOUS
  <2>1. CASE Act  BY <2>1, ActRefines
  <2>2. CASE Stopped /\ Restart  BY <2>2, RestartRefines
  <2>3. CASE UNCHANGED vars
    <3>1. inp' = inp /\ stage' = stage /\ dead' = dead /\ plist' = plist /\ dupFile' = dupFile
      BY <2>3 DEF vars, env, ctl, disk, mem
    <3>2. Status' = Status /\ Written' = Written /\ Reported' = Reported
      BY <3>1 DEF Status, Written, Reported, Opened
    <3>. QED  BY <3>1, <3>2 DEF Promise!vars, Status, Written, Reported
  <2>. QED  BY <2>1, <2>2, <2>3 DEF Next, Restart, Act, Outside
<1>. QED
  BY <1>1, <1>2, RunInit, RunStep, ExInit, ExStep, PTL DEF Spec, ImplementsExtraction, Promise!Spec
=============================================================================
