SPECIFICATION LoadSpec
CONSTANTS
    Written <- SmallDocuments
    MaxDepth = 3
    Drafts <- SmallDrafts
    Extensions <- Vendor
    Instances <- SmallInstances
    Documents <- SmallParsed
    MaxRounds = 2
    MaxChain = 2
    Lowered <- LowerCase
    MaxParts = 5
INVARIANTS
    LoadedAsWritten
    NormalizedAsWritten
    ReferencesRead
    KeysLoseNothing
CHECK_DEADLOCK FALSE
