\* What the other configurations leave out; with each alone one of the invariants is
\* violated.  RoundTrip: "keys" (keys with a quotation mark), "bytes" (strings that
\* are not UTF-8), "wide" (characters of four bytes, which become '?' when they are
\* escaped), "digits" (numbers of more digits than "%.14g" writes), "inf" (numbers
\* that are not finite, written as a word).  Decodes: "arrays" (several arrays at the top), "short" (\u with
\* less than four digits), "slash" (strings that end with a backslash; so is RoundTrip
\* when it is checked without Decodes).
SPECIFICATION CodecSpec
CONSTANTS
    MaxTokens = 3
    BufferSizes = {100}
    Odd = {"slash"}
    Texts <- MCTexts
    MaxDepth = 8
    LUA_MINSTACK = 20
    NumberSize = 4
    NumberDigits = 2
INVARIANTS
    RoundTrip
    Decodes
CHECK_DEADLOCK FALSE
