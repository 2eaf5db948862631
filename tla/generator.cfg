SPECIFICATION GeneratorSpec
CONSTANTS
    MaxDepth = 4
    NameOrder <- MCNameOrder
    Described <- MCDescribed
    Samples <- MCSamples
    Inputs <- AllGraphs
    Descriptions <- MCDescriptions
    Reserved <- MCReserved
    Unvisited <- Sentinel
INVARIANTS
    NeverInward
    NothingLost
    NothingInvented
    TagsStayOnTheWire
    ComponentsExact
    NamesDistinct
    RoutesServed
PROPERTY Terminates
