\* Every pair of bounds of a four-bit type, with one assignment to the end's
\* binding per iteration.
SPECIFICATION LoopSpec
CONSTANTS
    Types <- MCTypes
    MaxWrites = 1
INVARIANTS
    LoopTypeOK
    CountsTheRange
PROPERTIES
    Terminates
    ImplementsRange
\* A loop that has been left or has finished takes no further step.
CHECK_DEADLOCK FALSE
