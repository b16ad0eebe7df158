SPECIFICATION Spec
CONSTANTS
    A = A
    B = B
    AandB = AandB
    Conds <- MCConds
    FirstToken <- MCFirstToken
    Lines <- AnyLines
    MaxLines = 6
CHECK_DEADLOCK FALSE
INVARIANTS
    TypeOK
    ScanInv
    FirstHitIsInnermost
    NoUnderflow
    GuardFaithful
