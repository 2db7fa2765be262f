CONSTANTS
    N = 4
    Greedy <- FourPatterns
    Inside <- InsideTwo
    Trees <- FilesWritten
    language <- Asked
    LongString = 7
SPECIFICATION LiveSpec
INVARIANTS
    TypeOK
    TextPreserved
    CallersAgree
    RematchesDescend
    GrammarsReadBack
PROPERTIES
    TokensYieldToOverlap
    Terminates
CHECK_DEADLOCK FALSE
