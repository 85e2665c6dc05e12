\* size_t has three bits: -1 is 7, beyond every text.
SPECIFICATION PagesSpec
CONSTANTS
    Pages <- MCPagesToWrite
    Hosts = {"apache", "stdio"}
    NoString = NoString
    SizeMod = 8
    Procs = {}
    UseCache = {0}
    Quiet = TRUE
    MaxVersion = 1
    MaxTime = 1
    Parts = {"output"}
PROPERTIES
    ImplementsStream
    CallsEnd
CHECK_DEADLOCK FALSE
