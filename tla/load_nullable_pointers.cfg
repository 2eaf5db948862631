SPECIFICATION LoadSpec
CONSTANTS
    Written <- SmallDocuments
    MaxDepth = 3
    Drafts <- SmallDrafts
    Extensions <- Vendor
    Instances <- SmallInstances
    Documents <- SmallParsed
    MaxRounds = 2
    MaxChain = 2
    Lowered <- LowerCase
    MaxParts = 5
INVARIANT PointersReadAsWritten
CHECK_DEADLOCK FALSE
