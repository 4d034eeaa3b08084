\* Every accepted body of at most seven entries, run with its loops.
CONSTANTS
    x = x
    s = s
    t = t
    Params <- MCParams
    Locals <- OneLocal
    Mutable <- OneLocal
    SliceCall = SliceCall
    OtherCall = OtherCall
    MaxDepth = 2
    MaxDeclDepth = 1
    MaxCode = 7
    NestedLoops = FALSE
    ReturnInLoop = FALSE
SPECIFICATION RunSpec
INVARIANTS
    AcceptedNeverReturnsLocal
    NoUnsetRead
CONSTRAINT NotYetRejected
CHECK_DEADLOCK FALSE
