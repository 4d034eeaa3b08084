\* Arrays of one or two levels and slices; every value of every index type, and
\* literals one past what fits.  The length 15 exceeds what a signed word
\* holds: an array's length is any u64.
SPECIFICATION Spec
CONSTANTS
    Types <- MCTypes
    LiteralType <- MCLiteralType
    WordHalf = 8
    Lengths = {0, 1, 3, 15}
    MaxLevels = 2
    MaxMagnitude = 6
INVARIANTS
    TrapsExactlyOutOfBounds
    ConstantsDecidedAtCompileTime
    AddressInsideRoot
\* An access ends in a value, a store or a trap.
CHECK_DEADLOCK FALSE
