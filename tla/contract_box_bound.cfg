SPECIFICATION Spec
CONSTANTS
    Shapes <- OneShape
    Inputs <- NodeInputs
INVARIANT FiniteSize
