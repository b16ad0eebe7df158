SPECIFICATION ScriptsSpec
CONSTANTS
    p = p
    q = q
    A = A
    B = B
    f = f
    drop = drop
    drop6 = drop6
    xdrop = xdrop
    a = a
    b = b
    Blank = Blank
    Off = Off
    NoFile = NoFile
    Procs <- TwoProcs
    Indexers <- OneIndexer
    Repos <- TwoRepos
    Fns <- OneFn
    MaxEdits = 1
    MaxRuns <- RunBounds
    Faulty = TRUE
    MaxVerifyRuns = 3
    Names <- AllNames
    Files <- AllFiles
    Relations <- TwoRelations
    InitialDBs <- DBs
    MaxUpdates = 2
CHECK_DEADLOCK FALSE
SYMMETRY Symmetric
INVARIANTS
    ScriptsTypeOK
    OwnIndexRight
    HeadersCoverGraph
    Loaded
    Described
    DescribedOwn
