\* buf of 2 + 8 bytes, which one character can fill to the last.
SPECIFICATION FairSpec
CONSTANTS
    MaxFragments = 4
    Files <- MCFiles
    MaxBufLen = 2
    BufReserve = 8
INVARIANTS
    BufferInBounds
    LineIsFileLine
    WholePage
PROPERTIES
    ImplementsTemplate
    Terminates
CHECK_DEADLOCK FALSE
