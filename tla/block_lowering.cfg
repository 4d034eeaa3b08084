\* Every body of at most twelve blocks, nested at most five deep.
SPECIFICATION Spec
CONSTANTS
    MaxBlocks = 12
    MaxFrames = 5
INVARIANTS
    TypeOK
    PassesAgree
    NeverInventsAReturn
    OneTerminatorEach
    WellFormedFunction
CHECK_DEADLOCK FALSE
