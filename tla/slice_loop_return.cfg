\* A return inside a loop.
CONSTANTS
    x = x
    s = s
    t = t
    Params <- MCParams
    Locals <- OneLocal
    Mutable <- OneLocal
    SliceCall = SliceCall
    OtherCall = OtherCall
    MaxDepth = 2
    MaxDeclDepth = 0
    MaxCode = 8
    NestedLoops = FALSE
    ReturnInLoop = TRUE
SPECIFICATION RunSpec
INVARIANTS
    AcceptedNeverReturnsLocal
CONSTRAINTS
    NotYetRejected
    NoDeadTail
CHECK_DEADLOCK FALSE
