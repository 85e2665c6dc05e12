\* Values whose text is longer than the buffer of a luaL_Buffer.
SPECIFICATION CodecSpec
CONSTANTS
    MaxTokens = 1
    BufferSizes = {10}
    Odd = {}
    Texts <- MCTexts
    MaxDepth = 8
    LUA_MINSTACK = 20
    NumberSize = 3
    NumberDigits = 2
INVARIANTS
    RoundTripOfAll
CHECK_DEADLOCK FALSE
