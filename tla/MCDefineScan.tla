---------------------------- MODULE MCDefineScan ----------------------------
(* Instances of DefineScan for TLC: which lines the files may hold. *)
EXTENDS DefineScan, TLC

CONSTANTS f1, f2, M, N, tM, tN, tMx     \* model values: files, macros, tokens

MCFiles == {f1, f2}
MCMacros == {M, N}
MCToks == {tM, tN, tMx}
FilePerm == Permutations(MCFiles)

Other == [kind : {"blank"}, macro : {M}, tok : {tM}, cont : {FALSE}]
         \cup [kind : {"other"}, macro : {M}, tok : {tM}, cont : BOOLEAN]
Define(m, t) == [kind : {"define"}, macro : {m}, tok : {t}, cont : BOOLEAN]

(* tM and tMx: "#define M(a)" and "#define M(x)" yield two tokens for one  *)
(* macro.                                                                  *)
AnyDefine == Other \cup Define(M, tM) \cup Define(N, tN) \cup Define(M, tMx)
=============================================================================
