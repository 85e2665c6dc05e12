\* As many levels as there are cells (DepthChecked); and, in place of it, with more
\* cells than slots, as in the source (MaxTokens = 4, MaxDepth = 8, LUA_MINSTACK = 3),
\* FitsLuaStack.
SPECIFICATION CodecSpec
CONSTANTS
    MaxTokens = 3
    BufferSizes = {100}
    Odd = {}
    Texts <- MCTexts
    MaxDepth = 3
    LUA_MINSTACK = 20
    NumberSize = 3
    NumberDigits = 2
INVARIANTS
    DepthChecked
CHECK_DEADLOCK FALSE
