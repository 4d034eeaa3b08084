\* Integers of two to four bits; expressions of four to seven leaves and operators,
\* alone, and as pairs of statements of up to five.
SPECIFICATION Spec
CONSTANTS
    Bits <- MCBits
    Families <- MCFamilies
INVARIANTS
    AcceptsWhatTheRulesAllow
    ErrorsAreRootCauses
    AcceptedIsLowered
    RunsAsMeant
CHECK_DEADLOCK FALSE
