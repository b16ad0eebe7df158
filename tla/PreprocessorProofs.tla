------------------------- MODULE PreprocessorProofs -------------------------
(***************************************************************************)
(* Proofs about create_preprocessor_map and contained_in_preprocessor, for *)
(* files of any length over any set of lines.                              *)
(***************************************************************************)
EXTENDS PreprocessorMap, SequenceTheorems, TLAPS

(* What list.pop() and list[-1] give: the last element and the others. *)
LEMMA DropLast ==
    ASSUME NEW S, NEW q \in Seq(S), q # <<>>
    PROVE  /\ Len(q) \in Nat \ {0}
           /\ q[Len(q)] \in S
           /\ SubSeq(q, 1, Len(q) - 1) \in Seq(S)
           /\ Len(SubSeq(q, 1, Len(q) - 1)) = Len(q) - 1
           /\ \A i \in 1 .. Len(q) - 1 : SubSeq(q, 1, Len(q) - 1)[i] = q[i]
<1>1. Len(q) \in Nat \ {0}
  BY EmptySeq
<1>2. \A i \in 1 .. Len(q) : q[i] \in S
  BY ElementOfSeq
<1>3. \A i \in 1 .. Len(q) - 1 : q[i] \in S
  BY <1>1, <1>2
<1>4. 1 \in Int /\ Len(q) - 1 \in Int
  BY <1>1
<1> DEFINE r == SubSeq(q, 1, Len(q) - 1)
<1>5. /\ r \in Seq(S)
      /\ Len(r) = IF 1 <= Len(q) - 1 THEN (Len(q) - 1) - 1 + 1 ELSE 0
      /\ \A i \in 1 .. (Len(q) - 1) - 1 + 1 : r[i] = q[1 + i - 1]
  BY <1>3, <1>4, SubSeqProperties
<1> HIDE DEF r
<1>6. Len(r) = Len(q) - 1
  <2>1. Len(r) = IF 1 <= Len(q) - 1 THEN (Len(q) - 1) - 1 + 1 ELSE 0
    BY <1>5, Zenon
  <2>2. \A n \in Nat \ {0} : (IF 1 <= n - 1 THEN (n - 1) - 1 + 1 ELSE 0) = n - 1
    OBVIOUS
  <2> QED
    BY <1>1, <2>1, <2>2, Zenon
<1>7. ASSUME NEW i \in 1 .. Len(q) - 1
      PROVE  r[i] = q[i]
  <2>1. i \in 1 .. (Len(q) - 1) - 1 + 1 /\ 1 + i - 1 = i
    BY <1>1
  <2>2. r[i] = q[1 + i - 1]
    BY <1>5, <2>1
  <2> QED
    BY <2>1, <2>2, Zenon
<1> QED
  BY <1>1, <1>2, <1>5, <1>6, <1>7 DEF r

-----------------------------------------------------------------------------
(* Reading a line keeps the preprocessor's own state well typed. *)
LEMMA CppLineType ==
    ASSUME CppTypeOK, NEW l \in Lines, CppLine(l)
    PROVE  CppTypeOK'
<1> USE LinesAssumption, MaxLinesAssumption DEF CppTypeOK
<1>1. l \in Line
  OBVIOUS
<1>2. lc' \in 1 .. MaxLines + 1
  BY DEF CppLine
<1>3. \A d \in Dirs, c \in Conds : LitOf(d, c) \in Literal /\ Negate(LitOf(d, c)) \in Literal
  BY DEF LitOf, Literal, Negate
<1>4. ASSUME open # <<>>
      PROVE  Top \in OpenGroup /\ Below \in Seq(OpenGroup) /\ CloseTop \in Seq(ClosedGroup)
  <2>1. Top \in OpenGroup /\ Below \in Seq(OpenGroup)
    BY <1>4, DropLast DEF Top, Below
  <2>2. [start |-> Top.start, end |-> lc - 1, form |-> Top.form, lits |-> Top.lits] \in ClosedGroup
    BY <2>1 DEF OpenGroup, ClosedGroup
  <2> QED
    BY <2>1, <2>2, AppendProperties DEF CloseTop
<1>5. CASE CppText(l)
  BY <1>2, <1>5 DEF CppText
<1>6. CASE CppOpen(l)
  <2> DEFINE lit == LitOf(l.dir, l.cond)
             g == [start |-> lc, form |-> l.dir, lits |-> {lit}, rest |-> {Negate(lit)}]
  <2>1. g \in OpenGroup
    BY <1>1, <1>3, <1>6 DEF CppOpen, OpenGroup, Forms, Line
  <2>2. open' = Append(open, g) /\ closed' = closed
    BY <1>6 DEF CppOpen
  <2> QED
    BY <1>2, <2>1, <2>2, AppendProperties
<1>7. CASE CppElif(l)
  <2> DEFINE lit == LitOf("if", l.cond)
             g == [start |-> lc, form |-> "elif", lits |-> Top.rest \cup {lit},
                   rest |-> Top.rest \cup {Negate(lit)}]
  <2>1. Top \in OpenGroup /\ Below \in Seq(OpenGroup) /\ CloseTop \in Seq(ClosedGroup)
    BY <1>4, <1>7 DEF CppElif
  <2>2. lit \in Literal /\ Negate(lit) \in Literal
    BY <1>1, <1>3 DEF Line, Dirs, Openers
  <2>3. g \in OpenGroup
    BY <2>1, <2>2 DEF OpenGroup, Forms
  <2>4. open' = Append(Below, g) /\ closed' = CloseTop
    BY <1>7 DEF CppElif
  <2> QED
    BY <1>2, <2>1, <2>3, <2>4, AppendProperties
<1>8. CASE CppElse(l)
  <2> DEFINE g == [start |-> lc, lits |-> Top.rest, rest |-> {},
                   form |-> IF Top.form = "ifdef" THEN "ifdef-else" ELSE "other-else"]
  <2>1. Top \in OpenGroup /\ Below \in Seq(OpenGroup) /\ CloseTop \in Seq(ClosedGroup)
    BY <1>4, <1>8 DEF CppElse
  <2>2. g \in OpenGroup
    BY <2>1 DEF OpenGroup, Forms, ElseForms
  <2>3. open' = Append(Below, g) /\ closed' = CloseTop
    BY <1>8 DEF CppElse
  <2> QED
    BY <1>2, <2>1, <2>2, <2>3, AppendProperties
<1>9. CASE CppEndif(l)
  BY <1>2, <1>4, <1>9 DEF CppEndif
<1> QED
  BY <1>5, <1>6, <1>7, <1>8, <1>9 DEF CppLine

(* The mark that a branch of the scanner pushes, and the region it lists,  *)
(* are well typed.                                                         *)
LEMMA PoppedType ==
    ASSUME TypeOK, stack # <<>>
    PROVE  /\ Popped \in Mark
           /\ Rest \in Seq(Mark)
           /\ PopRegion \in Seq(Region)
<1>1. Popped \in Mark /\ Rest \in Seq(Mark)
  BY DropLast DEF TypeOK, Popped, Rest
<1>2. [t |-> Popped.t, name |-> Popped.name, bg |-> Popped.bg, end |-> lc - 1] \in Region
  BY <1>1, MaxLinesAssumption DEF TypeOK, CppTypeOK, Mark, Region
<1> QED
  BY <1>1, <1>2, AppendProperties DEF PopRegion, TypeOK

(* Every step of the scanner keeps its state well typed. *)
LEMMA ScanType == TypeOK /\ [Next]_vars => TypeOK'
<1> SUFFICES ASSUME TypeOK, [Next]_vars
             PROVE  TypeOK'
  OBVIOUS
<1> USE LinesAssumption, FirstTokenAssumption
<1>1. CASE UNCHANGED vars
  BY <1>1 DEF vars, TypeOK, CppTypeOK
<1>2. CASE ReturnPres
  BY <1>2 DEF ReturnPres, TypeOK, CppTypeOK
<1>3. ASSUME NEW l \in Lines, ScanLine(l)
      PROVE  TypeOK'
  <2>1. CppTypeOK' /\ odd' \subseteq Oddities
    <3>1. CppTypeOK'
      BY <1>3, CppLineType DEF ScanLine, TypeOK
    <3>2. odd' = odd \cup Odd(l) /\ Odd(l) \subseteq Oddities
      BY <1>3 DEF ScanLine, Odd
    <3> QED
      BY <3>1, <3>2 DEF TypeOK
  <2>2. l \in Line /\ lc \in Nat
    BY MaxLinesAssumption DEF TypeOK, CppTypeOK
  <2>3. \A t \in Openers, n \in Conds : [t |-> t, name |-> n, bg |-> lc] \in Mark
    BY <2>2 DEF Mark
  <2>4. FirstToken[l.cond] \in Conds
    BY <2>2 DEF Line
  <2>5. CASE SkipLine(l)
    BY <2>1, <2>5 DEF SkipLine, scanVars, TypeOK
  <2>6. CASE PushIf(l)
    BY <2>1, <2>3, <2>4, <2>6, AppendProperties DEF PushIf, TypeOK
  <2>7. CASE SwapElif(l)
    <3>1. stack' = Append(Rest, [t |-> "ifdef", name |-> FirstToken[l.cond], bg |-> lc])
      BY <2>7 DEF SwapElif
    <3>2. [t |-> "ifdef", name |-> FirstToken[l.cond], bg |-> lc] \in Mark
      BY <2>3, <2>4 DEF Openers
    <3> QED
      BY <2>1, <2>7, <3>1, <3>2, PoppedType, AppendProperties DEF SwapElif, TypeOK
  <2>8. CASE SwapElse(l)
    <3>1. stack' = Append(Rest, [t |-> "ifndef", name |-> Popped.name, bg |-> lc])
      BY <2>8 DEF SwapElse
    <3>2. [t |-> "ifndef", name |-> Popped.name, bg |-> lc] \in Mark
      BY <2>3, <2>8, PoppedType DEF SwapElse, Openers, Mark
    <3> QED
      BY <2>1, <2>8, <3>1, <3>2, PoppedType, AppendProperties DEF SwapElse, TypeOK
  <2>9. CASE PopEndif(l)
    BY <2>1, <2>9, PoppedType DEF PopEndif, TypeOK
  <2>10. CASE PopEmpty(l)
    BY <2>1, <2>10 DEF PopEmpty, TypeOK
  <2> QED
    BY <1>3, <2>5, <2>6, <2>7, <2>8, <2>9, <2>10 DEF ScanLine
<1> QED
  BY <1>1, <1>2, <1>3 DEF Next

(* The scanner's stack and region list hold what the code says they hold,  *)
(* whatever lines the file has.                                            *)
THEOREM TypeCorrect == Spec => []TypeOK
<1>1. Init => TypeOK
  BY EmptySeq, MaxLinesAssumption DEF Init, CppInit, TypeOK, CppTypeOK
<1> QED
  BY <1>1, ScanType, PTL DEF Spec

-----------------------------------------------------------------------------
(* The marks and the regions have line numbers, which arithmetic needs. *)
LEMMA LineNumbers ==
    ASSUME TypeOK
    PROVE  /\ lc \in Nat \ {0} /\ Len(stack) \in Nat /\ Len(pres) \in Nat
           /\ \A k \in 1 .. Len(stack) : stack[k] \in Mark /\ stack[k].bg \in Nat
           /\ \A i \in 1 .. Len(pres) : pres[i] \in Region /\ pres[i].bg \in Nat /\ pres[i].end \in Nat
<1>1. lc \in Nat \ {0}
  BY MaxLinesAssumption DEF TypeOK, CppTypeOK
<1>2. Len(stack) \in Nat /\ \A k \in 1 .. Len(stack) : stack[k] \in Mark
  BY ElementOfSeq, LenProperties DEF TypeOK
<1>3. Len(pres) \in Nat /\ \A i \in 1 .. Len(pres) : pres[i] \in Region
  BY ElementOfSeq, LenProperties DEF TypeOK
<1> QED
  BY <1>1, <1>2, <1>3 DEF Mark, Region

(* Popping the innermost mark lists a region behind everything still open, *)
(* whether or not the line also pushes a mark of its own.                  *)
LEMMA PopKeepsScanInv ==
    ASSUME TypeOK, ScanInv, stack # <<>>,
           lc' = lc + 1, pres' = PopRegion,
           NEW m \in Mark, m.bg = lc,
           stack' = Rest \/ stack' = Append(Rest, m)
    PROVE  ScanInv'
<1> DEFINE n == Len(pres)
           d == Len(stack)
           r == [t |-> Popped.t, name |-> Popped.name, bg |-> Popped.bg, end |-> lc - 1]
<1>1. /\ lc \in Nat \ {0} /\ d \in Nat \ {0} /\ n \in Nat
      /\ \A k \in 1 .. d : stack[k].bg \in Nat
      /\ \A i \in 1 .. n : pres[i].bg \in Nat /\ pres[i].end \in Nat
  BY LineNumbers, DropLast DEF TypeOK
<1>2. /\ Len(pres') = n + 1
      /\ \A i \in 1 .. n : pres'[i] = pres[i]
      /\ pres'[n + 1].bg = stack[d].bg /\ pres'[n + 1].end = lc - 1
  <2>1. r \in Region /\ pres \in Seq(Region)
    BY PoppedType, MaxLinesAssumption DEF TypeOK, CppTypeOK, Mark, Region
  <2>2. pres' = Append(pres, r)
    BY DEF PopRegion
  <2>3. /\ Len(Append(pres, r)) = n + 1
        /\ \A i \in 1 .. n : Append(pres, r)[i] = pres[i]
        /\ Append(pres, r)[n + 1] = r
    BY <2>1, AppendProperties
  <2> QED
    BY <2>2, <2>3 DEF Popped
<1>3. /\ Len(Rest) = d - 1
      /\ Rest \in Seq(Mark)
      /\ \A k \in 1 .. d - 1 : Rest[k] = stack[k]
  BY DropLast DEF TypeOK, Rest
<1>4. /\ Len(stack') \in {d - 1, d}
      /\ \A k \in 1 .. d - 1 : stack'[k].bg = stack[k].bg
      /\ Len(stack') = d => stack'[d].bg = lc
  <2>1. CASE stack' = Rest
    BY <1>1, <1>3, <2>1
  <2>2. CASE stack' = Append(Rest, m)
    <3>1. /\ Len(Append(Rest, m)) = d - 1 + 1
          /\ \A k \in 1 .. d - 1 : Append(Rest, m)[k] = Rest[k]
          /\ Append(Rest, m)[d - 1 + 1] = m
      BY <1>3, AppendProperties
    <3>2. d - 1 + 1 = d
      BY <1>1
    <3> QED
      BY <1>3, <2>2, <3>1, <3>2
  <2> QED
    BY <2>1, <2>2
<1>5. /\ \A k \in 1 .. d : 1 <= stack[k].bg /\ stack[k].bg < lc
      /\ \A k \in 1 .. d - 1 : stack[k].bg < stack[d].bg
      /\ \A k, j \in 1 .. d : k < j => stack[k].bg < stack[j].bg
  BY <1>1 DEF ScanInv, StackOrdered
<1> HIDE DEF n, d, r
<1>6. StackOrdered'
  <2>1. \A k \in 1 .. Len(stack') : k \in 1 .. d - 1 \/ (k = d /\ stack'[k].bg = lc)
    BY <1>1, <1>4
  <2>2. \A k \in 1 .. Len(stack') : stack'[k].bg \in 1 .. lc' - 1
    BY <1>1, <1>4, <1>5, <2>1
  <2>3. \A k, j \in 1 .. Len(stack') : k < j => stack'[k].bg < stack'[j].bg
    BY <1>1, <1>4, <1>5, <2>1
  <2> QED
    BY <2>2, <2>3 DEF StackOrdered
<1>7. RegionsBehind'
  <2>1. ASSUME NEW i \in 1 .. n
        PROVE  /\ pres'[i].bg <= pres'[i].end /\ pres'[i].end < lc' - 1
               /\ \A k \in 1 .. Len(stack') :
                     pres'[i].end < stack'[k].bg \/ stack'[k].bg < pres'[i].bg
    <3>1. /\ pres[i].bg <= pres[i].end /\ pres[i].end < lc - 1
          /\ \A k \in 1 .. d : pres[i].end < stack[k].bg \/ stack[k].bg < pres[i].bg
      BY DEF ScanInv, RegionsBehind, n, d
    <3> QED
      BY <1>1, <1>2, <1>4, <3>1
  <2>2. /\ pres'[n + 1].bg <= pres'[n + 1].end /\ pres'[n + 1].end < lc' - 1
        /\ \A k \in 1 .. Len(stack') :
              pres'[n + 1].end < stack'[k].bg \/ stack'[k].bg < pres'[n + 1].bg
    BY <1>1, <1>2, <1>4, <1>5
  <2>3. \A i \in 1 .. Len(pres') : i \in 1 .. n \/ i = n + 1
    BY <1>1, <1>2
  <2> QED
    BY <2>1, <2>2, <2>3 DEF RegionsBehind
<1>8. RegionsNested'
  <2>1. ASSUME NEW i \in 1 .. n
        PROVE  /\ pres'[i].end < pres'[n + 1].end
               /\ pres'[i].end < pres'[n + 1].bg \/ pres'[n + 1].bg < pres'[i].bg
    <3>1. pres[i].end < lc - 1 /\ (pres[i].end < stack[d].bg \/ stack[d].bg < pres[i].bg)
      BY <1>1 DEF ScanInv, RegionsBehind, n, d
    <3> QED
      BY <1>1, <1>2, <3>1
  <2>2. ASSUME NEW i \in 1 .. n, NEW j \in 1 .. n, i < j
        PROVE  /\ pres'[i].end < pres'[j].end
               /\ pres'[i].end < pres'[j].bg \/ pres'[j].bg < pres'[i].bg
    BY <1>2, <2>2 DEF ScanInv, RegionsNested, n
  <2>3. \A i, j \in 1 .. Len(pres') :
            i < j => i \in 1 .. n /\ (j \in 1 .. n \/ j = n + 1)
    BY <1>1, <1>2
  <2> QED
    BY <2>1, <2>2, <2>3 DEF RegionsNested
<1> QED
  BY <1>6, <1>7, <1>8 DEF ScanInv

(* Every step of the scanner keeps the invariant. *)
LEMMA ScanStep == TypeOK /\ ScanInv /\ [Next]_vars => ScanInv'
<1> SUFFICES ASSUME TypeOK, ScanInv, [Next]_vars
             PROVE  ScanInv'
  OBVIOUS
<1> USE DEF ScanInv, StackOrdered, RegionsBehind, RegionsNested
<1>1. CASE UNCHANGED vars
  BY <1>1 DEF vars
<1>2. CASE ReturnPres
  BY <1>2 DEF ReturnPres
<1>3. ASSUME NEW l \in Lines, ScanLine(l)
      PROVE  ScanInv'
  <2>1. lc' = lc + 1
    BY <1>3 DEF ScanLine, CppLine
  <2>2. l \in Line /\ FirstToken[l.cond] \in Conds /\ lc \in Nat
    BY LinesAssumption, FirstTokenAssumption, LineNumbers DEF Line
  <2>3. CASE UNCHANGED <<stack, pres>>
    <3>1. lc \in Nat /\ lc' = lc + 1 /\ stack' = stack /\ pres' = pres
      BY <2>1, <2>2, <2>3
    <3>2. ASSUME NEW k \in 1 .. Len(stack)
          PROVE  stack[k].bg \in 1 .. lc' - 1
      BY <3>1
    <3>3. ASSUME NEW i \in 1 .. Len(pres)
          PROVE  pres[i].end < lc' - 1
      BY <3>1, LineNumbers
    <3> QED
      BY <3>1, <3>2, <3>3
  <2>4. CASE PushIf(l)
    <3> DEFINE m == [t |-> l.dir, name |-> FirstToken[l.cond], bg |-> lc]
               d == Len(stack)
    <3>1. m \in Mark /\ m.bg = lc
      BY <2>2, <2>4 DEF PushIf, Mark
    <3>2. /\ Len(stack') = d + 1
          /\ \A k \in 1 .. d : stack'[k] = stack[k]
          /\ stack'[d + 1] = m
      BY <2>4, <3>1, AppendProperties DEF PushIf, TypeOK
    <3>3. pres' = pres
      BY <2>4 DEF PushIf
    <3>4. /\ d \in Nat
          /\ \A k \in 1 .. Len(stack') : k \in 1 .. d \/ (k = d + 1 /\ stack'[k].bg = lc)
      BY <3>1, <3>2, LineNumbers
    <3> HIDE DEF m, d
    <3>5. StackOrdered'
      <4>1. /\ \A k \in 1 .. d : stack[k].bg \in 1 .. lc - 1
            /\ \A k, j \in 1 .. d : k < j => stack[k].bg < stack[j].bg
        BY DEF d
      <4>2. \A k \in 1 .. Len(stack') : stack'[k].bg \in 1 .. lc' - 1
        BY <2>1, <2>2, <3>2, <3>4, <4>1, LineNumbers
      <4>3. \A k, j \in 1 .. Len(stack') : k < j => stack'[k].bg < stack'[j].bg
        BY <2>1, <2>2, <3>2, <3>4, <4>1
      <4> QED
        BY <4>2, <4>3
    <3>6. RegionsBehind'
      <4> SUFFICES ASSUME NEW i \in 1 .. Len(pres)
                   PROVE  /\ pres[i].bg <= pres[i].end /\ pres[i].end < lc' - 1
                          /\ \A k \in 1 .. Len(stack') :
                                pres[i].end < stack'[k].bg \/ stack'[k].bg < pres[i].bg
        BY <3>3
      <4>1. /\ pres[i].bg <= pres[i].end /\ pres[i].end < lc - 1
            /\ \A k \in 1 .. d : pres[i].end < stack[k].bg \/ stack[k].bg < pres[i].bg
            /\ pres[i].end \in Nat
        BY LineNumbers DEF d
      <4>2. pres[i].end < lc' - 1
        BY <2>1, <2>2, <4>1
      <4>3. ASSUME NEW k \in 1 .. Len(stack')
            PROVE  pres[i].end < stack'[k].bg \/ stack'[k].bg < pres[i].bg
        <5>1. CASE k \in 1 .. d
          BY <3>2, <4>1, <5>1
        <5>2. CASE k = d + 1 /\ stack'[k].bg = lc
          BY <2>2, <4>1, <5>2
        <5> QED
          BY <3>4, <5>1, <5>2
      <4> QED
        BY <4>1, <4>2, <4>3
    <3> QED
      BY <3>3, <3>5, <3>6
  <2>5. CASE SwapElif(l)
    <3> DEFINE m == [t |-> "ifdef", name |-> FirstToken[l.cond], bg |-> lc]
    <3>1. m \in Mark /\ m.bg = lc
      BY <2>2 DEF Mark, Openers
    <3>2. stack # <<>> /\ pres' = PopRegion /\ stack' = Append(Rest, m)
      BY <2>5 DEF SwapElif
    <3> QED
      BY <2>1, <3>1, <3>2, PopKeepsScanInv
  <2>6. CASE SwapElse(l)
    <3> DEFINE m == [t |-> "ifndef", name |-> Popped.name, bg |-> lc]
    <3>1. stack # <<>> /\ pres' = PopRegion /\ stack' = Append(Rest, m)
      BY <2>6 DEF SwapElse
    <3>2. m \in Mark /\ m.bg = lc
      BY <2>2, <3>1, PoppedType DEF Mark, Openers
    <3> QED
      BY <2>1, <3>1, <3>2, PopKeepsScanInv
  <2>7. CASE PopEndif(l)
    <3>1. stack # <<>> /\ pres' = PopRegion /\ stack' = Rest
      BY <2>7 DEF PopEndif
    <3>2. [t |-> "if", name |-> FirstToken[l.cond], bg |-> lc] \in Mark
      BY <2>2 DEF Mark, Openers
    <3> QED
      BY <2>1, <3>1, <3>2, PopKeepsScanInv
  <2> QED
    BY <1>3, <2>3, <2>4, <2>5, <2>6, <2>7 DEF ScanLine, SkipLine, PopEmpty, scanVars
<1> QED
  BY <1>1, <1>2, <1>3 DEF Next

(* Whatever the file and however its directives are spelled, the regions   *)
(* that create_preprocessor_map returns nest, inner ones first.            *)
THEOREM RegionsNest == Spec => []ScanInv
<1>1. Init => ScanInv
  BY DEF Init, CppInit, ScanInv, StackOrdered, RegionsBehind, RegionsNested
<1> QED
  BY <1>1, ScanStep, TypeCorrect, PTL DEF Spec

(* The loop of contained_in_preprocessor may stop at its first hit: that   *)
(* hit is the smallest listed region around the function.                  *)
THEOREM FirstHitInnermost == Spec => []FirstHitIsInnermost
<1>1. TypeOK /\ ScanInv => FirstHitIsInnermost
  <2> SUFFICES ASSUME TypeOK, ScanInv,
                      NEW s \in 1 .. lc - 1, NEW e \in 1 .. lc - 1,
                      NEW i \in 1 .. Len(pres), NEW j \in 1 .. Len(pres),
                      s <= e, FirstHit(i, s, e), Holds(pres[j], s, e)
               PROVE  pres[j].bg <= pres[i].bg /\ pres[i].end <= pres[j].end
    BY DEF FirstHitIsInnermost
  <2>1. i <= j
    BY LineNumbers DEF FirstHit
  <2>2. CASE i = j
    BY <2>2, LineNumbers
  <2>3. CASE i < j
    <3>1. /\ pres[i].end < pres[j].end
          /\ pres[i].end < pres[j].bg \/ pres[j].bg < pres[i].bg
      BY <2>3 DEF ScanInv, RegionsNested
    <3>2. pres[j].bg <= s /\ e <= pres[i].end
      BY DEF FirstHit, Holds
    <3> QED
      BY <3>1, <3>2, LineNumbers
  <2> QED
    BY <2>1, <2>2, <2>3, LineNumbers
<1> QED
  BY <1>1, RegionsNest, TypeCorrect, PTL

-----------------------------------------------------------------------------
(* How a line changes the number of open groups and of open marks. *)
LEMMA Depths ==
    ASSUME TypeOK, NEW l \in Lines, ScanLine(l)
    PROVE  /\ Len(open) \in Nat /\ Len(stack) \in Nat
           /\ open # <<>> <=> Len(open) > 0
           /\ stack # <<>> <=> Len(stack) > 0
           /\ CppOpen(l) => Len(open') = Len(open) + 1
           /\ CppElif(l) \/ CppElse(l) => open # <<>> /\ Len(open') = Len(open)
           /\ CppEndif(l) => open # <<>> /\ Len(open') = Len(open) - 1
           /\ PushIf(l) => Len(stack') = Len(stack) + 1
           /\ SwapElif(l) \/ SwapElse(l) => Len(stack') = Len(stack)
           /\ PopEndif(l) => Len(stack') = Len(stack) - 1
<1>1. open \in Seq(OpenGroup) /\ stack \in Seq(Mark)
  BY DEF TypeOK, CppTypeOK
<1>2. /\ Len(open) \in Nat /\ Len(stack) \in Nat
      /\ open # <<>> <=> Len(open) > 0
      /\ stack # <<>> <=> Len(stack) > 0
  BY <1>1, EmptySeq, LenProperties
<1>3. open # <<>> => Len(Below) = Len(open) - 1 /\ Below \in Seq(OpenGroup)
  BY <1>1, DropLast DEF Below
<1>4. stack # <<>> => Len(Rest) = Len(stack) - 1 /\ Rest \in Seq(Mark)
  BY <1>1, DropLast DEF Rest
<1>5. \A S : \A q \in Seq(S) : \A x : Len(Append(q, x)) = Len(q) + 1
  OBVIOUS
<1>6. CppOpen(l) => Len(open') = Len(open) + 1
  BY <1>1, <1>5 DEF CppOpen
<1>7. CppElif(l) \/ CppElse(l) => open # <<>> /\ Len(open') = Len(open) - 1 + 1
  BY <1>3, <1>5 DEF CppElif, CppElse
<1>8. CppEndif(l) => open # <<>> /\ Len(open') = Len(open) - 1
  BY <1>3 DEF CppEndif
<1>9. PushIf(l) => Len(stack') = Len(stack) + 1
  BY <1>1, <1>5 DEF PushIf
<1>10. SwapElif(l) \/ SwapElse(l) => Len(stack') = Len(stack) - 1 + 1
  BY <1>4, <1>5 DEF SwapElif, SwapElse
<1>11. PopEndif(l) => Len(stack') = Len(stack) - 1
  BY <1>4 DEF PopEndif
<1>12. Len(open) - 1 + 1 = Len(open) /\ Len(stack) - 1 + 1 = Len(stack)
  BY <1>2
<1> QED
  BY <1>2, <1>6, <1>7, <1>8, <1>9, <1>10, <1>11, <1>12, Zenon

(* With its opening directives spelled as expected, a file never makes the *)
(* scanner pop an empty stack: closing directives that the scanner misses  *)
(* only leave marks behind.                                                *)
THEOREM OpenersPreventUnderflow == Spec => [](DepthCovered /\ NoUnderflow)
<1>1. Init => DepthCovered /\ NoUnderflow
  BY DEF Init, CppInit, DepthCovered, NoUnderflow
<1>2. TypeOK /\ DepthCovered /\ NoUnderflow /\ [Next]_vars => (DepthCovered /\ NoUnderflow)'
  <2> SUFFICES ASSUME TypeOK, DepthCovered, NoUnderflow, [Next]_vars
               PROVE  (DepthCovered /\ NoUnderflow)'
    OBVIOUS
  <2> USE DEF DepthCovered, NoUnderflow
  <2>1. CASE UNCHANGED vars
    BY <2>1 DEF vars
  <2>2. CASE ReturnPres
    BY <2>2 DEF ReturnPres
  <2>3. ASSUME NEW l \in Lines, ScanLine(l), "opener" \notin odd'
        PROVE  (DepthCovered /\ NoUnderflow)'
    <3>0. "opener" \notin odd /\ (l.dir \in Openers => l.spelled)
      BY <2>3 DEF ScanLine, Odd, Oddities
    <3>1. status = "scanning" /\ Len(open) <= Len(stack)
      BY <2>3, <3>0 DEF ScanLine
    <3>2. CASE CppText(l)
      BY <2>3, <3>1, <3>2 DEF ScanLine, CppText, SkipLine, scanVars, PushIf, SwapElif,
                              SwapElse, PopEndif, PopEmpty, Openers
    <3>3. CASE CppOpen(l)
      <4>1. PushIf(l)
        BY <2>3, <3>0, <3>3 DEF ScanLine, CppOpen, SkipLine, SwapElif, SwapElse,
                          PopEndif, PopEmpty, Openers
      <4> QED
        BY <2>3, <3>1, <3>3, <4>1, Depths DEF PushIf
    <3>4. CASE CppElif(l) \/ CppElse(l)
      <4>1. stack # <<>> /\ l.dir \in {"elif", "else"}
        BY <2>3, <3>1, <3>4, Depths DEF CppElif, CppElse
      <4>2. SkipLine(l) \/ SwapElif(l) \/ SwapElse(l)
        BY <2>3, <4>1 DEF ScanLine, PushIf, PopEndif, PopEmpty, Openers
      <4> QED
        BY <2>3, <3>1, <3>4, <4>2, Depths DEF SkipLine, scanVars, SwapElif, SwapElse
    <3>5. CASE CppEndif(l)
      <4>1. stack # <<>> /\ l.dir = "endif"
        BY <2>3, <3>1, <3>5, Depths DEF CppEndif
      <4>2. SkipLine(l) \/ PopEndif(l)
        BY <2>3, <4>1 DEF ScanLine, PushIf, SwapElif, SwapElse, PopEmpty, Openers
      <4> QED
        BY <2>3, <3>1, <3>5, <4>2, Depths DEF SkipLine, scanVars, PopEndif
    <3> QED
      BY <2>3, <3>2, <3>3, <3>4, <3>5 DEF ScanLine, CppLine
  <2>4. CASE "opener" \in odd'
    BY <2>4
  <2> QED
    BY <2>1, <2>2, <2>3, <2>4 DEF Next
<1> QED
  BY <1>1, <1>2, TypeCorrect, PTL DEF Spec

-----------------------------------------------------------------------------
(* The strengthening of GuardFaithful: in a file without oddities the      *)
(* scanner and the preprocessor are in step.  A mark and an open group, a  *)
(* region and a closed group, cover the same lines and, if the form of the *)
(* group is sayable, say the same condition; that of an #ifdef can also be *)
(* negated.                                                                *)
Twins(t, name, bg, g) ==
    /\ bg = g.start
    /\ g.form \in SayableForms => g.lits = {LitOf(t, name)}
OpenTwins(m, g) ==
    /\ Twins(m.t, m.name, m.bg, g)
    /\ g.form = "ifdef" => g.rest = {LitOf("ifndef", m.name)}
ClosedTwins(r, g) == Twins(r.t, r.name, r.bg, g) /\ r.end = g.end
InStep ==
    /\ Len(open) = Len(stack) /\ Len(closed) = Len(pres)
    /\ \A k \in 1 .. Len(stack) : OpenTwins(stack[k], open[k])
    /\ \A k \in 1 .. Len(pres) : ClosedTwins(pres[k], closed[k])
StepInv == odd = {} => InStep

LEMMA AppendFacts ==
    ASSUME NEW S, NEW q \in Seq(S), NEW x \in S
    PROVE  /\ Append(q, x) \in Seq(S) /\ Len(q) \in Nat /\ Len(Append(q, x)) = Len(q) + 1
           /\ Append(q, x)[Len(q) + 1] = x
           /\ \A i \in 1 .. Len(q) : Append(q, x)[i] = q[i]
OBVIOUS

(* A branch that opens: twins are pushed. *)
LEMMA PushTwins ==
    ASSUME NEW M, NEW G, NEW s \in Seq(M), NEW o \in Seq(G), NEW m \in M, NEW g \in G,
           Len(o) = Len(s), \A k \in 1 .. Len(s) : OpenTwins(s[k], o[k]), OpenTwins(m, g)
    PROVE  /\ Len(Append(o, g)) = Len(Append(s, m))
           /\ \A k \in 1 .. Len(Append(s, m)) : OpenTwins(Append(s, m)[k], Append(o, g)[k])
<1>1. /\ Len(s) \in Nat /\ Len(Append(s, m)) = Len(s) + 1 /\ Append(s, m)[Len(s) + 1] = m
      /\ \A i \in 1 .. Len(s) : Append(s, m)[i] = s[i]
  BY AppendFacts
<1>2. /\ Len(Append(o, g)) = Len(s) + 1 /\ Append(o, g)[Len(s) + 1] = g
      /\ \A i \in 1 .. Len(s) : Append(o, g)[i] = o[i]
  BY AppendFacts
<1>3. ASSUME NEW k \in 1 .. Len(s) + 1 PROVE OpenTwins(Append(s, m)[k], Append(o, g)[k])
  <2>1. CASE k = Len(s) + 1  BY <1>1, <1>2, <2>1
  <2>2. CASE k # Len(s) + 1
    <3>1. k \in 1 .. Len(s)  BY <1>1, <2>2
    <3>. QED  BY <1>1, <1>2, <3>1
  <2>. QED  BY <2>1, <2>2
<1>. QED  BY <1>1, <1>2, <1>3

LEMMA ListTwins ==
    ASSUME NEW R, NEW G, NEW s \in Seq(R), NEW o \in Seq(G), NEW m \in R, NEW g \in G,
           Len(o) = Len(s), \A k \in 1 .. Len(s) : ClosedTwins(s[k], o[k]), ClosedTwins(m, g)
    PROVE  /\ Len(Append(o, g)) = Len(Append(s, m))
           /\ \A k \in 1 .. Len(Append(s, m)) : ClosedTwins(Append(s, m)[k], Append(o, g)[k])
<1>1. /\ Len(s) \in Nat /\ Len(Append(s, m)) = Len(s) + 1 /\ Append(s, m)[Len(s) + 1] = m
      /\ \A i \in 1 .. Len(s) : Append(s, m)[i] = s[i]
  BY AppendFacts
<1>2. /\ Len(Append(o, g)) = Len(s) + 1 /\ Append(o, g)[Len(s) + 1] = g
      /\ \A i \in 1 .. Len(s) : Append(o, g)[i] = o[i]
  BY AppendFacts
<1>3. ASSUME NEW k \in 1 .. Len(s) + 1 PROVE ClosedTwins(Append(s, m)[k], Append(o, g)[k])
  <2>1. CASE k = Len(s) + 1  BY <1>1, <1>2, <2>1
  <2>2. CASE k # Len(s) + 1
    <3>1. k \in 1 .. Len(s)  BY <1>1, <2>2
    <3>. QED  BY <1>1, <1>2, <3>1
  <2>. QED  BY <2>1, <2>2
<1>. QED  BY <1>1, <1>2, <1>3

(* A branch that pops: the tops are twins, and what remains. *)
LEMMA PopTwins ==
    ASSUME TypeOK, InStep, stack # <<>>
    PROVE  /\ open # <<>> /\ OpenTwins(Popped, Top)
           /\ Popped \in Mark /\ Rest \in Seq(Mark) /\ Top \in OpenGroup /\ Below \in Seq(OpenGroup)
           /\ Len(Below) = Len(Rest)
           /\ \A k \in 1 .. Len(Rest) : OpenTwins(Rest[k], Below[k])
           /\ Len(CloseTop) = Len(PopRegion)
           /\ \A k \in 1 .. Len(PopRegion) : ClosedTwins(PopRegion[k], CloseTop[k])
<1>1. /\ stack \in Seq(Mark) /\ open \in Seq(OpenGroup)
      /\ pres \in Seq(Region) /\ closed \in Seq(ClosedGroup) /\ lc \in Nat
      /\ Len(open) = Len(stack) /\ Len(closed) = Len(pres)
  BY MaxLinesAssumption DEF TypeOK, CppTypeOK, InStep
<1>2. open # <<>>
  <2>1. Len(stack) # 0  BY <1>1, EmptySeq
  <2>. QED  BY <1>1, <2>1
<1>3. /\ Len(stack) \in Nat \ {0} /\ Popped \in Mark /\ Rest \in Seq(Mark)
      /\ Len(Rest) = Len(stack) - 1
      /\ \A k \in 1 .. Len(stack) - 1 : Rest[k] = stack[k]
  BY <1>1, DropLast DEF Popped, Rest
<1>4. /\ Top \in OpenGroup /\ Below \in Seq(OpenGroup) /\ Len(Below) = Len(stack) - 1
      /\ \A k \in 1 .. Len(stack) - 1 : Below[k] = open[k]
  BY <1>1, <1>2, DropLast DEF Top, Below
<1>5. OpenTwins(Popped, Top)
  <2>1. Len(stack) \in 1 .. Len(stack)  BY <1>3
  <2>. QED  BY <1>1, <2>1 DEF InStep, Popped, Top
<1>6. \A k \in 1 .. Len(Rest) : OpenTwins(Rest[k], Below[k])
  <2>. TAKE k \in 1 .. Len(Rest)
  <2>1. k \in 1 .. Len(stack) - 1 /\ k \in 1 .. Len(stack)  BY <1>3
  <2>2. Rest[k] = stack[k] /\ Below[k] = open[k]  BY <1>3, <1>4, <2>1
  <2>. QED  BY <2>1, <2>2 DEF InStep
<1>7. /\ Len(CloseTop) = Len(PopRegion)
      /\ \A k \in 1 .. Len(PopRegion) : ClosedTwins(PopRegion[k], CloseTop[k])
  <2>. DEFINE r == [t |-> Popped.t, name |-> Popped.name, bg |-> Popped.bg, end |-> lc - 1]
              g == [start |-> Top.start, end |-> lc - 1, form |-> Top.form, lits |-> Top.lits]
  <2>1. ClosedTwins(r, g)  BY <1>5 DEF OpenTwins, ClosedTwins, Twins
  <2>2. r \in [t : Openers, name : Conds, bg : Nat, end : Int]  BY <1>1, <1>3 DEF Mark
  <2>3. PopRegion = Append(pres, r) /\ CloseTop = Append(closed, g)  BY DEF PopRegion, CloseTop
  <2>. HIDE DEF r, g
  <2>4. PICK S : r \in S /\ pres \in Seq(S)
    <3>1. r \in Region \cup {r} /\ pres \in Seq(Region \cup {r})  BY <1>1
    <3>. QED  BY <3>1
  <2>5. PICK T : g \in T /\ closed \in Seq(T)
    <3>1. g \in ClosedGroup \cup {g} /\ closed \in Seq(ClosedGroup \cup {g})  BY <1>1
    <3>. QED  BY <3>1
  <2>6. \A k \in 1 .. Len(pres) : ClosedTwins(pres[k], closed[k])  BY DEF InStep
  <2>. QED  BY <1>1, <2>1, <2>3, <2>4, <2>5, <2>6, ListTwins
<1>. QED  BY <1>2, <1>3, <1>4, <1>5, <1>6, <1>7

LEMMA StepInStep ==
    ASSUME TypeOK, InStep, NEW l \in Lines, ScanLine(l), odd' = {}
    PROVE  InStep'
<1>1. Odd(l) = {} /\ CppLine(l)  BY DEF ScanLine
<1>2. l \in Line /\ l.dir \in Dirs /\ l.cond \in Conds /\ l.spelled \in BOOLEAN
  BY LinesAssumption DEF Line
<1>3. l.dir # "text" => l.spelled /\ FirstToken[l.cond] = l.cond
  <2>. SUFFICES ASSUME l.dir # "text" PROVE l.spelled /\ FirstToken[l.cond] = l.cond
    OBVIOUS
  <2>1. "condition" \notin Odd(l) /\ "opener" \notin Odd(l) /\ "closer" \notin Odd(l)  BY <1>1
  <2>2. FirstToken[l.cond] = l.cond  BY <2>1 DEF Odd, Oddities
  <2>3. l.dir \in Openers \/ l.dir \in {"elif", "else", "endif"}  BY <1>2 DEF Dirs
  <2>4. l.spelled  BY <2>1, <2>3 DEF Odd, Oddities
  <2>. QED  BY <2>2, <2>4
<1>4. /\ stack \in Seq(Mark) /\ open \in Seq(OpenGroup)
      /\ pres \in Seq(Region) /\ closed \in Seq(ClosedGroup) /\ lc \in Nat
      /\ Len(open) = Len(stack) /\ Len(closed) = Len(pres)
      /\ \A k \in 1 .. Len(stack) : OpenTwins(stack[k], open[k])
      /\ \A k \in 1 .. Len(pres) : ClosedTwins(pres[k], closed[k])
  BY MaxLinesAssumption DEF TypeOK, CppTypeOK, InStep
<1>5. TypeOK'  BY ScanType DEF Next
<1>6. CASE l.dir = "text"
  <2>1. open' = open /\ closed' = closed
    BY <1>1, <1>6 DEF CppLine, CppText, CppOpen, CppElif, CppElse, CppEndif, Openers
  <2>2. stack' = stack /\ pres' = pres
    BY <1>6 DEF ScanLine, SkipLine, PushIf, SwapElif, SwapElse, PopEndif, PopEmpty, scanVars, Openers
  <2>. QED  BY <1>4, <2>1, <2>2 DEF InStep
<1>7. CASE l.dir \in Openers
  <2>. DEFINE lit == LitOf(l.dir, l.cond)
              g == [start |-> lc, form |-> l.dir, lits |-> {lit}, rest |-> {Negate(lit)}]
              m == [t |-> l.dir, name |-> l.cond, bg |-> lc]
  <2>1. open' = Append(open, g) /\ closed' = closed
    BY <1>1, <1>7 DEF CppLine, CppText, CppOpen, CppElif, CppElse, CppEndif, Openers
  <2>2. stack' = Append(stack, m) /\ pres' = pres
    BY <1>3, <1>7 DEF ScanLine, SkipLine, PushIf, SwapElif, SwapElse, PopEndif, PopEmpty, Openers
  <2>3. OpenTwins(m, g)
    <3>1. ASSUME l.dir = "ifdef" PROVE Negate(lit) = LitOf("ifndef", l.cond)
      <4>1. lit = [test |-> "defined", cond |-> l.cond, pos |-> TRUE]  BY <3>1 DEF LitOf
      <4>2. LitOf("ifndef", l.cond) = [test |-> "defined", cond |-> l.cond, pos |-> FALSE]
        BY DEF LitOf
      <4>3. Negate(lit) = [test |-> "defined", cond |-> l.cond, pos |-> FALSE]
        <5>1. Negate(lit) = [[test |-> "defined", cond |-> l.cond, pos |-> TRUE]
                               EXCEPT !.pos = FALSE]
          <6>1. lit.pos = TRUE  BY <4>1
          <6>2. (~lit.pos) = FALSE  BY <6>1, Zenon
          <6>3. Negate(lit) = [lit EXCEPT !.pos = ~lit.pos]  BY Zenon DEF Negate
          <6>. HIDE DEF lit
          <6>. QED  BY <4>1, <6>2, <6>3, Zenon
        <5>. QED  BY <5>1
      <4>. QED  BY <4>2, <4>3
    <3>. QED  BY <3>1 DEF OpenTwins, Twins
  <2>. HIDE DEF g, m
  <2>4. PICK S : m \in S /\ stack \in Seq(S)
    <3>1. m \in Mark \cup {m} /\ stack \in Seq(Mark \cup {m})  BY <1>4
    <3>. QED  BY <3>1
  <2>5. PICK T : g \in T /\ open \in Seq(T)
    <3>1. g \in OpenGroup \cup {g} /\ open \in Seq(OpenGroup \cup {g})  BY <1>4
    <3>. QED  BY <3>1
  <2>6. /\ Len(Append(open, g)) = Len(Append(stack, m))
        /\ \A k \in 1 .. Len(Append(stack, m)) : OpenTwins(Append(stack, m)[k], Append(open, g)[k])
    BY <1>4, <2>3, <2>4, <2>5, PushTwins
  <2>. QED  BY <1>4, <2>1, <2>2, <2>6 DEF InStep
<1>8. CASE l.dir \in {"elif", "else", "endif"}
  <2>1. open # <<>> /\ closed' = CloseTop
    BY <1>1, <1>8 DEF CppLine, CppText, CppOpen, CppElif, CppElse, CppEndif, Openers
  <2>2. stack # <<>>
    <3>1. Len(open) # 0  BY <1>4, <2>1, EmptySeq
    <3>. QED  BY <1>4, <3>1
  <2>3. pres' = PopRegion
    BY <1>3, <1>8, <2>2
    DEF ScanLine, SkipLine, PushIf, SwapElif, SwapElse, PopEndif, PopEmpty, Openers
  <2>4. /\ OpenTwins(Popped, Top) /\ Popped \in Mark /\ Top \in OpenGroup
        /\ Rest \in Seq(Mark) /\ Below \in Seq(OpenGroup) /\ Len(Below) = Len(Rest)
        /\ \A k \in 1 .. Len(Rest) : OpenTwins(Rest[k], Below[k])
        /\ Len(CloseTop) = Len(PopRegion)
        /\ \A k \in 1 .. Len(PopRegion) : ClosedTwins(PopRegion[k], CloseTop[k])
    BY <2>2, PopTwins
  <2>5. ASSUME NEW m, NEW g, OpenTwins(m, g), stack' = Append(Rest, m), open' = Append(Below, g)
        PROVE  InStep'
    <3>1. m \in Mark \cup {m} /\ Rest \in Seq(Mark \cup {m})  BY <2>4
    <3>2. g \in OpenGroup \cup {g} /\ Below \in Seq(OpenGroup \cup {g})  BY <2>4
    <3>3. /\ Len(Append(Below, g)) = Len(Append(Rest, m))
          /\ \A k \in 1 .. Len(Append(Rest, m)) : OpenTwins(Append(Rest, m)[k], Append(Below, g)[k])
      BY <2>4, <2>5, <3>1, <3>2, PushTwins
    <3>. QED  BY <2>1, <2>3, <2>4, <2>5, <3>3 DEF InStep
  <2>6. CASE l.dir = "elif"
    <3>. DEFINE lit == LitOf("if", l.cond)
                g == [start |-> lc, form |-> "elif", lits |-> Top.rest \cup {lit},
                      rest |-> Top.rest \cup {Negate(lit)}]
                m == [t |-> "ifdef", name |-> FirstToken[l.cond], bg |-> lc]
    <3>1. open' = Append(Below, g)
      BY <1>1, <2>6 DEF CppLine, CppText, CppOpen, CppElif, CppElse, CppEndif, Openers
    <3>2. stack' = Append(Rest, m)
      BY <1>3, <2>2, <2>6
      DEF ScanLine, SkipLine, PushIf, SwapElif, SwapElse, PopEndif, PopEmpty, Openers
    <3>3. OpenTwins(m, g)  BY DEF OpenTwins, Twins, SayableForms
    <3>. HIDE DEF m, g
    <3>. QED  BY <2>5, <3>1, <3>2, <3>3
  <2>7. CASE l.dir = "else"
    <3>. DEFINE g == [start |-> lc, lits |-> Top.rest, rest |-> {},
                      form |-> IF Top.form = "ifdef" THEN "ifdef-else" ELSE "other-else"]
                m == [t |-> "ifndef", name |-> Popped.name, bg |-> lc]
    <3>1. open' = Append(Below, g)
      BY <1>1, <2>7 DEF CppLine, CppText, CppOpen, CppElif, CppElse, CppEndif, Openers
    <3>2. stack' = Append(Rest, m)
      BY <1>3, <2>2, <2>7
      DEF ScanLine, SkipLine, PushIf, SwapElif, SwapElse, PopEndif, PopEmpty, Openers
    <3>3. OpenTwins(m, g)
      <4>1. Top.form = "ifdef" => Top.rest = {LitOf("ifndef", Popped.name)}
        BY <2>4 DEF OpenTwins
      <4>2. g.form \in SayableForms => Top.form = "ifdef"  BY DEF SayableForms
      <4>3. g.form # "ifdef"  OBVIOUS
      <4>. QED  BY <4>1, <4>2, <4>3 DEF OpenTwins, Twins
    <3>. HIDE DEF m, g
    <3>. QED  BY <2>5, <3>1, <3>2, <3>3
  <2>8. CASE l.dir = "endif"
    <3>1. open' = Below
      BY <1>1, <2>8 DEF CppLine, CppText, CppOpen, CppElif, CppElse, CppEndif, Openers
    <3>2. stack' = Rest
      BY <1>3, <2>2, <2>8
      DEF ScanLine, SkipLine, PushIf, SwapElif, SwapElse, PopEndif, PopEmpty, Openers
    <3>. QED  BY <2>1, <2>3, <2>4, <3>1, <3>2 DEF InStep
  <2>. QED  BY <1>8, <2>6, <2>7, <2>8
<1>. QED  BY <1>2, <1>6, <1>7, <1>8 DEF Dirs

LEMMA StepInvInductive == Spec => []StepInv
<1>1. Init => StepInv  BY DEF Init, CppInit, StepInv, InStep
<1>2. TypeOK /\ StepInv /\ [Next]_vars => StepInv'
  <2>. SUFFICES ASSUME TypeOK, StepInv, [Next]_vars, odd' = {} PROVE InStep'
    BY DEF StepInv
  <2>1. ASSUME NEW l \in Lines, ScanLine(l) PROVE InStep'
    <3>1. odd = {}  BY <2>1 DEF ScanLine
    <3>. QED  BY <2>1, <3>1, StepInStep DEF StepInv
  <2>2. CASE ReturnPres \/ UNCHANGED vars
    <3>1. open' = open /\ closed' = closed /\ stack' = stack /\ pres' = pres /\ odd' = odd
      BY <2>2 DEF ReturnPres, vars
    <3>2. InStep  BY <3>1 DEF StepInv
    <3>. QED  BY <3>1, <3>2 DEF InStep
  <2>. QED  BY <2>1, <2>2 DEF Next
<1>. QED  BY <1>1, <1>2, TypeCorrect, PTL DEF Spec

(* For files of any length, in which directives are spelled as expected    *)
(* and test one token each: the guard that contained_in_preprocessor finds *)
(* for a function in a group of a sayable form is exactly the condition of *)
(* its innermost group, and a function in no group gets none.              *)
THEOREM GuardsAreFaithful == Spec => []GuardFaithful
<1>1. TypeOK /\ StepInv /\ ScanInv => GuardFaithful
  <2>. SUFFICES ASSUME TypeOK, InStep, ScanInv,
                       NEW s \in 1 .. lc - 1, NEW e \in 1 .. lc - 1, WholeSpan(s, e)
       PROVE  /\ \A k \in 1 .. Len(pres) : FirstHit(k, s, e) =>
                    \E i \in 1 .. Len(closed) : InGroup(closed[i], s, e)
              /\ \A i \in 1 .. Len(closed) :
                    Innermost(i, s, e) /\ closed[i].form \in SayableForms =>
                       \E k \in 1 .. Len(pres) :
                          FirstHit(k, s, e) /\ closed[i].lits = {GuardLit(pres[k])}
    BY DEF GuardFaithful, StepInv
  <2>1. /\ pres \in Seq(Region) /\ closed \in Seq(ClosedGroup) /\ lc \in Nat
        /\ Len(closed) = Len(pres) /\ Len(pres) \in Nat
        /\ s \in Int /\ e \in Int /\ s <= e
    BY MaxLinesAssumption DEF TypeOK, CppTypeOK, InStep, WholeSpan
  <2>2. ASSUME NEW k \in 1 .. Len(pres)
        PROVE  /\ pres[k].bg = closed[k].start /\ pres[k].end = closed[k].end
               /\ pres[k].bg \in Nat /\ pres[k].end \in Nat
               /\ closed[k].form \in SayableForms => closed[k].lits = {GuardLit(pres[k])}
    <3>1. pres[k] \in Region  BY <2>1
    <3>2. ClosedTwins(pres[k], closed[k])  BY DEF InStep
    <3>. QED  BY <3>1, <3>2 DEF ClosedTwins, Twins, GuardLit, Region
  <2>3. ASSUME NEW k \in 1 .. Len(pres), Holds(pres[k], s, e)
        PROVE  InGroup(closed[k], s, e)
    <3>1. InGroup(closed[k], s, e) \/ e < closed[k].start \/ closed[k].end < s
          \/ (s < closed[k].start /\ closed[k].end < e)
      BY <2>1 DEF WholeSpan
    <3>. QED  BY <2>1, <2>2, <2>3, <3>1 DEF Holds
  <2>4. ASSUME NEW i \in 1 .. Len(pres), Innermost(i, s, e)
        PROVE  FirstHit(i, s, e)
    <3>1. InGroup(closed[i], s, e)  BY <2>4 DEF Innermost
    <3>2. Holds(pres[i], s, e) /\ pres[i].bg < s
      BY <2>1, <2>2, <3>1 DEF InGroup, Holds
    <3>3. ASSUME NEW j \in 1 .. i - 1, Holds(pres[j], s, e) PROVE FALSE
      <4>1. j \in 1 .. Len(pres) /\ j < i  BY <2>1
      <4>2. InGroup(closed[j], s, e)  BY <2>3, <3>3, <4>1
      <4>3. closed[j].start <= closed[i].start  BY <2>1, <2>4, <4>1, <4>2 DEF Innermost
      <4>4. pres[j].end < pres[i].bg \/ pres[i].bg < pres[j].bg
        BY <4>1 DEF ScanInv, RegionsNested
      <4>5. /\ pres[j].bg \in Nat /\ pres[j].end \in Nat /\ pres[i].bg \in Nat
            /\ pres[j].bg = closed[j].start /\ pres[i].bg = closed[i].start
        BY <2>2, <4>1
      <4>. QED  BY <2>1, <3>2, <3>3, <4>3, <4>4, <4>5 DEF Holds
    <3>. QED  BY <3>2, <3>3 DEF FirstHit
  <2>. QED  BY <2>1, <2>2, <2>3, <2>4 DEF FirstHit
<1>. QED  BY <1>1, TypeCorrect, RegionsNest, StepInvInductive, PTL
=============================================================================
