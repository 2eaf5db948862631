SPECIFICATION ShapesSpec
CONSTANTS
    MaxDepth = 4
    NameOrder <- MCNameOrder
    Described <- MCNullTags
    Samples <- MCSamples
INVARIANT NothingInvented
CHECK_DEADLOCK FALSE
