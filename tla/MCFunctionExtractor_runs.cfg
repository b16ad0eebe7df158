SPECIFICATION Spec
CONSTANTS
    f = f
    g = g
    m = m
    c1 = c1
    c2 = c2
    h1 = h1
    ha = ha
    hb = hb
    hs = hs
    A = A
    B = B
    S = S
    s1 = s1
    s2 = s2
    NoSpan = NoSpan
    Names <- MCNames
    Srcs <- MCSrcs
    Ext <- MCExt
    Headers <- MCHeaders
    Token <- PlainToken
    Angle <- MCAngle
    GuardMacro <- Distinct
    Includes <- MCIncludes
    Spans <- MCSpans
    Inputs <- AllInputs
    Repeated <- SomeInputs
    MaxRuns = 2
CHECK_DEADLOCK FALSE
INVARIANTS
    TypeOK
    DefinesPrecedeFunctions
    HeadersIncluded
    ListMatchesProgram
    LicenseMeansComplete
PROPERTIES
    CompletesUnlessCause
    ImplementsExtraction
