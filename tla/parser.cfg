\* Declarations of nine tokens, and types, statements and expressions of five to
\* seven inside a function, each finished in nine ways.
SPECIFICATION Spec
CONSTANTS
    Families <- MCFamilies
INVARIANTS
    AcceptsTheGrammar
    TreeIsTheText
CHECK_DEADLOCK FALSE
