\* Two functions, one of them possibly a second one of the same name, five blocks
\* with the prelude and the file, and every order of declarations and uses; two
\* array lengths that can be decoded and one that cannot.
SPECIFICATION Spec
CONSTANTS
    Names <- MCNames
    Builtins <- MCBuiltins
    Primitives = {"i32"}
    UnknownNames = {"Foo"}
    Lengths = {1, 2, 3}
    LargestLength = 2
    MaxPosition = 5
    MaxFunctions = 2
    MaxBlocks = 6
INVARIANTS
    TypeOK
    ResolvesLexically
    DuplicatesReported
    ParametersKeepTheirTypes
    OneTypePerShape
    UnknownTypesReportedOnce
CHECK_DEADLOCK FALSE
