-------------------------- MODULE DefineScanProofs --------------------------
(***************************************************************************)
(* Proofs about DefineScan, for any set of files, of any length, and any   *)
(* lines in them.                                                          *)
(***************************************************************************)
EXTENDS DefineScan, SequenceTheorems, TLAPS

-----------------------------------------------------------------------------
(* The types of addDefines' variables are kept by every step. *)
LEMMA TypeStep ==
    ASSUME TypeOK, [Next]_vars
    PROVE  TypeOK'
<1> USE LinesAssumption, BoundAssumption, NoFileAssumption
<1>1. CASE UNCHANGED vars
  BY <1>1 DEF vars, TypeOK
<1>2. ASSUME NEW f \in Files, OpenFile(f)
      PROVE  TypeOK'
  <2>1. multi' \in BOOLEAN /\ inDir' \in BOOLEAN
    BY <1>2, Zenon DEF OpenFile
  <2>2. lineCt' \in 0 .. MaxLines
    BY <1>2, SMT DEF OpenFile
  <2>3. todo' \subseteq Files /\ file' \in Files \cup {NoFile}
    BY <1>2 DEF OpenFile, TypeOK
  <2>4. QED
    BY <1>2, <2>1, <2>2, <2>3, Zenon DEF OpenFile, TypeOK
<1>3. CASE CloseFile
  BY <1>3 DEF CloseFile, TypeOK, inVars, outVars
<1>4. ASSUME NEW l \in Lines, ReadLine(l)
      PROVE  TypeOK'
  <2>1. PICK ll \in Line : ll = l
    OBVIOUS
  <2>2. InFile(l)
    BY <1>4 DEF ReadLine, SkipBlank, CopyDefine, StartDefine, ContinueDefine, EndDefine, SkipOther
  <2>3. /\ todo' \subseteq Files /\ file' \in Files \cup {NoFile} /\ lineCt' \in 0 .. MaxLines
        /\ file \in Files
    BY <2>2 DEF InFile, TypeOK
  <2>4. inDir' \in BOOLEAN /\ multi' \in BOOLEAN
    BY <1>4, <2>1 DEF ReadLine, SkipBlank, CopyDefine, StartDefine, ContinueDefine, EndDefine,
          SkipOther, ReadOther, ReadDefine, TypeOK, Line, outVars
  <2>5. SiteOf(l) \in Site
    BY <2>1, <2>3 DEF SiteOf, Site, Line, TypeOK
  <2>6. names' \subseteq Toks /\ dups' \subseteq names'
    BY <1>4, <2>1 DEF ReadLine, SkipBlank, CopyDefine, StartDefine, ContinueDefine, EndDefine,
          SkipOther, Register, TypeOK, Line, outVars
  <2>7. sites' \in Seq(Site) /\ defs' \in Seq(Site)
    <3>1. sites' \in {sites, Append(sites, SiteOf(l))}
      BY <1>4, Zenon DEF ReadLine, SkipBlank, CopyDefine, StartDefine, ContinueDefine, EndDefine,
            SkipOther, ReadOther, ReadDefine
    <3>2. defs' \in {defs, Append(defs, SiteOf(l))}
      <4>1. CopyDefine(l) \/ StartDefine(l) => WriteDefine(SiteOf(l))
        BY Zenon DEF CopyDefine, StartDefine
      <4>2. SkipBlank(l) \/ ContinueDefine(l) \/ EndDefine(l) \/ SkipOther(l) => defs' = defs
        BY DEF SkipBlank, ContinueDefine, EndDefine, SkipOther, outVars
      <4>3. WriteDefine(SiteOf(l)) \/ defs' = defs
        BY <1>4, <4>1, <4>2, Zenon DEF ReadLine
      <4>4. QED
        BY <4>3, Zenon DEF WriteDefine
    <3>3. sites \in Seq(Site) /\ defs \in Seq(Site)
      BY DEF TypeOK
    <3>4. Append(sites, SiteOf(l)) \in Seq(Site) /\ Append(defs, SiteOf(l)) \in Seq(Site)
      BY <2>5, <3>3, AppendProperties
    <3>5. QED
      BY <3>1, <3>2, <3>3, <3>4, Zenon
  <2>8. guards' \in Seq(BOOLEAN)
    <3>1. CASE StartDefine(l)
      <4>1. (Enabled /\ ~Defined(l.macro)) \in BOOLEAN
        OBVIOUS
      <4>2. QED
        BY <3>1, <4>1, AppendProperties DEF StartDefine, TypeOK
    <3>2. CASE EndDefine(l)
      BY <3>2 DEF EndDefine, TypeOK
    <3>3. QED
      BY <1>4, <3>1, <3>2 DEF ReadLine, SkipBlank, CopyDefine, ContinueDefine, SkipOther,
            TypeOK, outVars
  <2>9. stray' \subseteq Files \X Nat
    BY <1>4, <2>3 DEF ReadLine, SkipBlank, CopyDefine, StartDefine, ContinueDefine, EndDefine,
          SkipOther, WriteLine, TypeOK, outVars
  <2>10. QED
    BY <2>3, <2>4, <2>6, <2>7, <2>8, <2>9 DEF TypeOK
<1>5. QED
  BY <1>1, <1>2, <1>3, <1>4 DEF Next

(* addDefines keeps its variables well typed. *)
THEOREM TypeCorrect == Spec => []TypeOK
<1>1. Init => TypeOK
  <2>1. 0 \in 0 .. MaxLines
    BY BoundAssumption
  <2>2. <<>> \in Seq(Site) /\ <<>> \in Seq(BOOLEAN)
    OBVIOUS
  <2>3. QED
    BY <2>1, <2>2, Zenon DEF Init, TypeOK
<1>2. TypeOK /\ [Next]_vars => TypeOK'
  BY TypeStep
<1>3. QED
  BY <1>1, <1>2, PTL DEF Spec

-----------------------------------------------------------------------------
(* In tidy files addDefines is never out of step with C. *)
TidyInv == GuardsClosed /\ MultiTracksDirective /\ DefinesOnly

LEMMA TidyStep ==
    ASSUME TypeOK, TidyInv, [Next]_vars
    PROVE  TidyInv'
<1> SUFFICES ASSUME Tidy PROVE TidyInv'
  BY DEF TidyInv, GuardsClosed, MultiTracksDirective, DefinesOnly
<1> USE TidyAssumption, NoFileAssumption
<1>1. CASE UNCHANGED vars
  BY <1>1 DEF vars, TidyInv, GuardsClosed, MultiTracksDirective, DefinesOnly
<1>2. ASSUME NEW f \in Files, OpenFile(f)
      PROVE  TidyInv'
  <2>1. guards' = <<>> /\ multi' = FALSE /\ inDir' = FALSE /\ file' # NoFile /\ stray' = {}
    BY <1>2 DEF OpenFile, TidyInv, GuardsClosed, DefinesOnly
  <2>2. multi' = inDir' /\ Len(guards') = IF multi' THEN 1 ELSE 0
    BY <2>1
  <2>3. QED
    BY <2>1, <2>2, Zenon DEF TidyInv, GuardsClosed, MultiTracksDirective, DefinesOnly
<1>3. CASE CloseFile
  <2>1. multi = FALSE /\ Len(guards) = 0
    BY <1>3 DEF CloseFile, TidyInv, MultiTracksDirective, TypeOK
  <2>2. guards = <<>>
    BY <2>1, EmptySeq DEF TypeOK
  <2>3. QED
    BY <1>3, <2>2 DEF CloseFile, outVars, inVars, TidyInv, GuardsClosed, MultiTracksDirective, DefinesOnly
<1>4. ASSUME NEW l \in Lines, ReadLine(l)
      PROVE  TidyInv'
  <2>1. file # NoFile /\ file' = file /\ (inDir => l.kind = "other")
    <3>1. InFile(l)
      BY <1>4 DEF ReadLine, SkipBlank, CopyDefine, StartDefine, ContinueDefine, EndDefine, SkipOther
    <3>2. QED
      BY <3>1, LinesAssumption DEF InFile, Line
  <2>2. multi = inDir /\ Len(guards) = (IF multi THEN 1 ELSE 0) /\ stray = {}
    BY <2>1, Zenon DEF TidyInv, MultiTracksDirective, DefinesOnly
  <2>3. l.cont \in BOOLEAN
    BY LinesAssumption DEF Line
  <2>4. SUFFICES /\ multi' = inDir'
                 /\ Len(guards') = IF multi' THEN 1 ELSE 0
                 /\ stray' = {}
    BY <2>1, Zenon DEF TidyInv, GuardsClosed, MultiTracksDirective, DefinesOnly
  <2>5. CASE SkipBlank(l)
    <3>1. ~l.cont
      BY <2>5, LinesAssumption DEF SkipBlank
    <3>2. inDir = FALSE /\ inDir' = FALSE
      BY <2>1, <2>5, <3>1 DEF SkipBlank, ReadOther, TypeOK
    <3>3. QED
      BY <2>2, <2>5, <3>2 DEF SkipBlank, outVars
  <2>6. CASE CopyDefine(l)
    <3>1. inDir = FALSE /\ inDir' = FALSE
      BY <2>1, <2>3, <2>6 DEF CopyDefine, ReadDefine, TypeOK
    <3>2. QED
      BY <2>2, <2>6, <3>1 DEF CopyDefine
  <2>7. CASE StartDefine(l)
    <3>1. inDir = FALSE /\ inDir' = TRUE /\ multi' = TRUE /\ stray' = stray
      BY <2>1, <2>3, <2>7 DEF StartDefine, ReadDefine, TypeOK
    <3>2. Len(guards) = 0
      BY <2>2, <3>1
    <3>3. Len(guards') = 1
      BY <2>7, <3>2 DEF StartDefine, TypeOK
    <3>4. QED
      BY <2>2, <3>1, <3>3
  <2>8. CASE ContinueDefine(l)
    <3>1. inDir = TRUE /\ inDir' = TRUE /\ multi' = multi /\ guards' = guards /\ stray' = stray
      BY <2>2, <2>3, <2>8 DEF ContinueDefine, ReadOther, WriteLine, TypeOK
    <3>2. QED
      BY <2>2, <3>1
  <2>9. CASE EndDefine(l)
    <3>1. inDir = TRUE /\ inDir' = FALSE /\ multi' = FALSE /\ stray' = stray
      BY <2>2, <2>3, <2>9 DEF EndDefine, ReadOther, WriteLine, TypeOK
    <3>2. Len(guards) = 1
      BY <2>2, <3>1
    <3>3. Len(guards') = 0
      BY <2>9, <3>2 DEF EndDefine, TypeOK
    <3>4. QED
      BY <2>2, <3>1, <3>3
  <2>10. CASE SkipOther(l)
    <3>1. inDir = FALSE /\ inDir' = FALSE
      BY <2>2, <2>3, <2>10 DEF SkipOther, ReadOther, TypeOK
    <3>2. QED
      BY <2>2, <2>10, <3>1 DEF SkipOther, outVars
  <2>11. QED
    BY <1>4, <2>5, <2>6, <2>7, <2>8, <2>9, <2>10 DEF ReadLine
<1>5. QED
  BY <1>1, <1>2, <1>3, <1>4 DEF Next

(* In tidy files addDefines closes each #ifndef it writes, and writes no   *)
(* line that belongs to no #define.                                        *)
THEOREM GuardsAreClosed == Spec => [](GuardsClosed /\ MultiTracksDirective /\ DefinesOnly)
<1>1. Init => TidyInv
  BY DEF Init, TidyInv, GuardsClosed, MultiTracksDirective, DefinesOnly
<1>2. TypeOK /\ TidyInv /\ [Next]_vars => TidyInv'
  BY TidyStep
<1>3. QED
  BY <1>1, <1>2, TypeCorrect, PTL DEF Spec, TidyInv

(* Of tidy files addDefines copies lines of #defines and nothing else,     *)
(* whatever lines they hold and however the files are ordered.             *)
THEOREM OnlyDefinesCopied == Spec => []DefinesOnly
  BY GuardsAreClosed, PTL

-----------------------------------------------------------------------------
(* A step either reads and copies one #define, or leaves the #defines read *)
(* and copied, and the names, as they are.                                 *)
DefineStep(l) ==
    /\ l.kind = "define" /\ InFile(l)
    /\ sites' = Append(sites, SiteOf(l))
    /\ Register(l.tok)
    /\ WriteDefine(SiteOf(l))

LEMMA DefineOrQuiet ==
    ASSUME [Next]_vars
    PROVE  \/ \E l \in Lines : DefineStep(l)
           \/ UNCHANGED <<sites, names, dups, defs>>
<1>1. CASE UNCHANGED vars
  BY <1>1 DEF vars
<1>2. ASSUME NEW f \in Files, OpenFile(f)
      PROVE  UNCHANGED <<sites, names, dups, defs>>
  BY <1>2 DEF OpenFile
<1>3. CASE CloseFile
  BY <1>3 DEF CloseFile, inVars, outVars
<1>4. ASSUME NEW l \in Lines, ReadLine(l)
      PROVE  DefineStep(l) \/ UNCHANGED <<sites, names, dups, defs>>
  <2>1. CASE CopyDefine(l)
    BY <2>1, Zenon DEF CopyDefine, DefineStep, ReadDefine
  <2>2. CASE StartDefine(l)
    BY <2>2, Zenon DEF StartDefine, DefineStep, ReadDefine
  <2>3. CASE SkipBlank(l) \/ SkipOther(l)
    BY <2>3 DEF SkipBlank, SkipOther, ReadOther, outVars
  <2>4. CASE ContinueDefine(l) \/ EndDefine(l)
    BY <2>4 DEF ContinueDefine, EndDefine, ReadOther
  <2>5. QED
    BY <1>4, <2>1, <2>2, <2>3, <2>4 DEF ReadLine
<1>5. QED
  BY <1>1, <1>2, <1>3, <1>4 DEF Next

(* A name is reported as a duplicate exactly if two #defines spell it.     *)
THEOREM DuplicatesAreExact == Spec => []DuplicatesExact
<1>1. Init => DuplicatesExact
  BY DEF Init, DuplicatesExact, Twice
<1>2. TypeOK /\ DuplicatesExact /\ [Next]_vars => DuplicatesExact'
  <2> SUFFICES ASSUME TypeOK, DuplicatesExact, [Next]_vars PROVE DuplicatesExact'
    OBVIOUS
  <2>1. CASE UNCHANGED <<sites, names, dups, defs>>
    BY <2>1 DEF DuplicatesExact, Twice
  <2>2. ASSUME NEW l \in Lines, DefineStep(l)
        PROVE  DuplicatesExact'
    <3> DEFINE n == Len(sites)
    <3>1. /\ n \in Nat /\ Len(sites') = n + 1
          /\ sites'[n + 1].tok = l.tok
          /\ \A i \in 1 .. n : sites'[i] = sites[i]
      <4>1. sites' = Append(sites, SiteOf(l)) /\ SiteOf(l).tok = l.tok
        BY <2>2 DEF DefineStep, SiteOf
      <4>2. QED
        BY <4>1 DEF TypeOK
    <3>2. (l.tok \in names) <=> \E i \in 1 .. n : sites[i].tok = l.tok
      BY DEF DuplicatesExact
    <3>3. names' = names \cup {l.tok}
      BY <2>2 DEF DefineStep, Register
    <3>4. names' = {sites'[i].tok : i \in 1 .. n + 1}
      <4>1. names = {sites[i].tok : i \in 1 .. n}
        BY DEF DuplicatesExact
      <4>2. 1 .. n + 1 = (1 .. n) \cup {n + 1}
        BY <3>1
      <4> HIDE DEF n
      <4>3. QED
        BY <3>1, <3>3, <4>1, <4>2, Zenon
    <3>5. ASSUME NEW t \in Toks
          PROVE  t \in dups' <=> Twice(t)'
      <4>1. t \in dups <=> Twice(t)
        BY DEF DuplicatesExact
      <4>2. Twice(t)' <=> Twice(t) \/ (t = l.tok /\ l.tok \in names)
        <5>1. Twice(t)' <=> \E i, j \in 1 .. n + 1 : i < j /\ sites'[i].tok = t /\ sites'[j].tok = t
          BY <3>1 DEF Twice
        <5>2. Twice(t) <=> \E i, j \in 1 .. n : i < j /\ sites[i].tok = t /\ sites[j].tok = t
          BY DEF Twice
        <5> HIDE DEF n
        <5>3. QED
          BY <3>1, <3>2, <5>1, <5>2
      <4>3. t \in dups' <=> t \in dups \/ (t = l.tok /\ l.tok \in names)
        BY <2>2 DEF DefineStep, Register
      <4>4. QED
        BY <4>1, <4>2, <4>3
    <3>6. QED
      BY <3>1, <3>4, <3>5 DEF DuplicatesExact
  <2>3. QED
    BY <2>1, <2>2, DefineOrQuiet
<1>3. QED
  BY <1>1, <1>2, TypeCorrect, PTL DEF Spec

-----------------------------------------------------------------------------
(* What makes FirstDefinitionWins inductive: what takes effect was read.   *)
DefsAreSites == \A k \in 1 .. Len(defs) : \E i \in 1 .. Len(sites) : sites[i] = defs[k]
WinsInv == FirstDefinitionWins /\ DefsAreSites

(* Whatever the order of the files, each macro is defined once in the      *)
(* extracted program, by the first of its #defines that was read.          *)
THEOREM FirstDefinitionTakesEffect == Spec => []FirstDefinitionWins
<1>1. Init => WinsInv
  BY DEF Init, WinsInv, FirstDefinitionWins, DefsAreSites
<1>2. TypeOK /\ TidyInv /\ WinsInv /\ [Next]_vars => WinsInv'
  <2> SUFFICES ASSUME TypeOK, TidyInv, WinsInv, [Next]_vars PROVE WinsInv'
    OBVIOUS
  <2>1. CASE UNCHANGED <<sites, names, dups, defs>>
    BY <2>1 DEF WinsInv, FirstDefinitionWins, DefsAreSites, FirstSite
  <2>2. ASSUME NEW l \in Lines, DefineStep(l)
        PROVE  WinsInv'
    <3> DEFINE n == Len(sites)
               d == Len(defs)
               new == SiteOf(l)
    <3>1. /\ n \in Nat /\ Len(sites') = n + 1
          /\ sites'[n + 1] = new
          /\ \A i \in 1 .. n : sites'[i] = sites[i]
      <4>1. sites' = Append(sites, new)
        BY <2>2 DEF DefineStep
      <4> HIDE DEF new
      <4>2. QED
        BY <4>1 DEF TypeOK
    <3>2. new.macro = l.macro
      BY DEF SiteOf
    <3>3. Defined(l.macro) <=> \E k \in 1 .. d : defs[k].macro = l.macro
      BY DEF Defined
    <3>4. CASE Enabled /\ ~Defined(new.macro)
      <4>1. /\ d \in Nat /\ Len(defs') = d + 1 /\ defs'[d + 1] = new
            /\ \A k \in 1 .. d : defs'[k] = defs[k]
        <5>1. defs' = Append(defs, new)
          BY <2>2, <3>4, Zenon DEF DefineStep, WriteDefine
        <5> HIDE DEF new
        <5>2. QED
          BY <5>1 DEF TypeOK
      <4> HIDE DEF n, d, new
      <4>2. DefsAreSites'
        <5>1. DefsAreSites
          BY DEF WinsInv
        <5>2. QED
          BY <3>1, <4>1, <5>1 DEF DefsAreSites, n, d
      <4>3. FirstDefinitionWins'
        <5> SUFFICES ASSUME Tidy PROVE FirstDefinitionWins'
          BY TidyAssumption DEF FirstDefinitionWins
        <5>1. ASSUME NEW i \in 1 .. n + 1, FirstSite(i)'
              PROVE  \E k \in 1 .. d + 1 : defs'[k] = sites'[i]
          <6>1. CASE i = n + 1
            BY <3>1, <4>1, <6>1
          <6>2. CASE i \in 1 .. n
            <7>1. FirstSite(i)
              BY <3>1, <5>1, <6>2 DEF FirstSite
            <7>2. PICK k \in 1 .. d : defs[k] = sites[i]
              BY <6>2, <7>1 DEF WinsInv, FirstDefinitionWins, n, d
            <7>3. QED
              BY <3>1, <4>1, <6>2, <7>2
          <6>3. QED
            BY <3>1, <6>1, <6>2
        <5>2. ASSUME NEW k \in 1 .. d + 1, NEW m \in 1 .. d + 1, defs'[k].macro = defs'[m].macro
              PROVE  k = m
          <6>1. \A j \in 1 .. d : defs[j].macro # new.macro
            BY <3>2, <3>3, <3>4
          <6>2. \A i, j \in 1 .. d : defs[i].macro = defs[j].macro => i = j
            BY DEF WinsInv, FirstDefinitionWins, d
          <6>3. QED
            BY <4>1, <5>2, <6>1, <6>2
        <5>3. QED
          BY <3>1, <4>1, <5>1, <5>2 DEF FirstDefinitionWins
      <4>4. QED
        BY <4>2, <4>3 DEF WinsInv
    <3>5. CASE ~(Enabled /\ ~Defined(new.macro))
      <4>1. defs' = defs
        BY <2>2, <3>5, Zenon DEF DefineStep, WriteDefine
      <4> HIDE DEF n, d, new
      <4>2. DefsAreSites'
        <5>1. DefsAreSites
          BY DEF WinsInv
        <5>2. QED
          BY <3>1, <4>1, <5>1 DEF DefsAreSites, n, d
      <4>3. FirstDefinitionWins'
        <5> SUFFICES ASSUME Tidy PROVE FirstDefinitionWins'
          BY TidyAssumption DEF FirstDefinitionWins
        <5>1. Enabled
          <6>1. file # NoFile /\ inDir = FALSE
            BY <2>2 DEF DefineStep, InFile, TypeOK
          <6>2. multi = inDir /\ Len(guards) = (IF multi THEN 1 ELSE 0)
            BY <6>1, Zenon DEF TidyInv, MultiTracksDirective
          <6>3. QED
            BY <6>1, <6>2 DEF Enabled
        <5>2. PICK j \in 1 .. n : sites[j].macro = new.macro
          <6>1. PICK k \in 1 .. d : defs[k].macro = new.macro
            BY <3>2, <3>3, <3>5, <5>1
          <6>2. QED
            BY <6>1 DEF WinsInv, DefsAreSites, n, d
        <5>3. ASSUME NEW i \in 1 .. n + 1, FirstSite(i)'
              PROVE  \E k \in 1 .. d : defs'[k] = sites'[i]
          <6>1. CASE i = n + 1
            BY <3>1, <5>2, <5>3, <6>1 DEF FirstSite
          <6>2. CASE i \in 1 .. n
            <7>1. FirstSite(i)
              BY <3>1, <5>3, <6>2 DEF FirstSite
            <7>2. QED
              BY <3>1, <4>1, <6>2, <7>1 DEF WinsInv, FirstDefinitionWins, n, d
          <6>3. QED
            BY <3>1, <6>1, <6>2
        <5>4. \A k, m \in 1 .. d : defs'[k].macro = defs'[m].macro => k = m
          BY <4>1 DEF WinsInv, FirstDefinitionWins, d
        <5>5. QED
          BY <3>1, <4>1, <5>3, <5>4 DEF FirstDefinitionWins, d
      <4>4. QED
        BY <4>2, <4>3 DEF WinsInv
    <3>6. QED
      BY <3>4, <3>5
  <2>3. QED
    BY <2>1, <2>2, DefineOrQuiet
<1>3. Spec => []TidyInv
  BY GuardsAreClosed, PTL DEF TidyInv
<1>4. QED
  BY <1>1, <1>2, <1>3, TypeCorrect, PTL DEF Spec, WinsInv
=============================================================================
