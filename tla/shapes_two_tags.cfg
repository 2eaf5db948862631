SPECIFICATION ShapesSpec
CONSTANTS
    MaxDepth = 4
    NameOrder <- MCNameOrder
    Described <- MCForeignTags
    Samples <- MCSamples
INVARIANT TagsStayOnTheWire
CHECK_DEADLOCK FALSE
