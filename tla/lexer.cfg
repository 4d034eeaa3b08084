\* Every text of three characters, and of five over smaller alphabets.
SPECIFICATION Spec
CONSTANTS
    Sources <- MCSources
    Letters <- MCLetters
    Digits <- MCDigits
    Keywords <- MCKeywords
INVARIANTS
    TokensTileTheText
    LexemesOfTheGrammar
    LineBreaksEndStatements
PROPERTY
    ReachesEndOfFile
CHECK_DEADLOCK FALSE
