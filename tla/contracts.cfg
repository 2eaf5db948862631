SPECIFICATION Spec
CONSTANTS
    Shapes <- FourShapes
    Inputs <- AllInputs
INVARIANTS
    TypeOK
    RefsInTable
    MergesKeepContracts
    NothingLeftToMerge
    NamedTypesSurvive
    ResponsesAreRead
    RequestsAreStrict
    PairsConvert
    LoopsAreGone
    FiniteSizeWithinRounds
    NullableReadsNull
    CrateDerivesCompile
    DefaultIsFinite
PROPERTIES
    CyclesReportedOnce
    TablingEnds
