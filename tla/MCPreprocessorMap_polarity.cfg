SPECIFICATION Spec
CONSTANTS
    A = A
    B = B
    AandB = AandB
    Conds <- MCConds
    FirstToken <- MCFirstToken
    Lines <- IfndefElse
    MaxLines = 6
CHECK_DEADLOCK FALSE
INVARIANTS
    GuardMeansGroup
