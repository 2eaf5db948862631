SPECIFICATION Spec
CONSTANTS
    Shapes <- TwoShapes
    Inputs <- NamedDeriveInputs
INVARIANT DerivesCompile
