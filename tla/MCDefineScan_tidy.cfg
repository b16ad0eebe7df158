SPECIFICATION Spec
CONSTANTS
    f1 = f1
    f2 = f2
    NoFile = NoFile
    M = M
    N = N
    tM = tM
    tN = tN
    tMx = tMx
    Files <- MCFiles
    Macros <- MCMacros
    Toks <- MCToks
    Lines <- AnyDefine
    MaxLines = 4
    Tidy = TRUE
SYMMETRY FilePerm
CHECK_DEADLOCK FALSE
INVARIANTS
    TypeOK
    DuplicatesExact
    GuardsClosed
    FirstDefinitionWins
