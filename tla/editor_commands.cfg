\* Two commands on one document that is edited once or twice.
SPECIFICATION EditorSpec
CONSTANTS
    p1 = p1
    p2 = p2
    a = a
    Process = {p1, p2}
    Paths = {a}
    Outputs <- OneFile
    MaxRuns = 1
    MaxText = 2
SYMMETRY Exchange
INVARIANT RunsTheTextShown
\* Once every command has ended nothing more happens.
CHECK_DEADLOCK FALSE
