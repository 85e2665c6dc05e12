\* Every text of a few tokens and nested values, on a stack that is not full; and
\* encoded values, through a buffer that all of them fit and one that some do not.
SPECIFICATION CodecSpec
CONSTANTS
    MaxTokens = 4
    BufferSizes = {10, 100}
    Odd = {}
    Texts <- MCTexts
    MaxDepth = 8
    LUA_MINSTACK = 20
    NumberSize = 3
    NumberDigits = 2
INVARIANTS
    InOneTable
    Decodes
    RoundTrip
PROPERTY
    CallsEnd
CHECK_DEADLOCK FALSE
