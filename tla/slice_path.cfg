\* Every path through bodies of any length: one slice parameter, two slice
\* locals in scope at once, statements nested two deep, loops not nested and
\* without a return inside.
CONSTANTS
    x = x
    s = s
    t = t
    Params <- MCParams
    Locals <- TwoLocals
    Mutable <- TwoLocals
    SliceCall = SliceCall
    OtherCall = OtherCall
    MaxDepth = 2
    MaxDeclDepth = 0
    NestedLoops = FALSE
    ReturnInLoop = FALSE
SPECIFICATION PathSpec
SYMMETRY Symmetry
INVARIANTS
    PathTypeOK
    NoDanglingReturn
    TrackedIsTrue
PROPERTIES
    LoopExitForgetsAssigned
CONSTRAINT NotYetRejected
CHECK_DEADLOCK FALSE
