SPECIFICATION Spec
CONSTANTS
    Faulty = FALSE
    MaxRuns = 1
CHECK_DEADLOCK FALSE
INVARIANTS
    FirstRunAttaches
