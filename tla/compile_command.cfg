\* Two invocations, each started twice, with the same -o or with one each.
SPECIFICATION Spec
CONSTANTS
    p1 = p1
    p2 = p2
    a = a
    b = b
    Process = {p1, p2}
    Paths = {a, b}
    Outputs <- SharedOrOwn
    MaxRuns = 2
INVARIANTS
    TypeOK
    ObjectsAreTemporary
    NoPartialExecutable
    OutputByExitCode
PROPERTY
    EveryRunEnds
\* Once every run has ended nothing more happens.
CHECK_DEADLOCK FALSE
