\* A key with a space is set.  (One of more than 250 bytes, which a server refuses
\* although it is one word, leaves a reply behind in the same way.)
SPECIFICATION HandlesSpec
CONSTANTS
    Words = {"a", "b"}
    SetKeys <- TwoWords
    Keys <- TwoWords
    Values = {v1, v2}
    MaxCalls = 3
    Libraries = {"memcached"}
    None = None
    Iters = {}
    Conns = {}
    Results = {}
    Luas = {}
    Handles = {}
    Lists = {}
    Files = {}
    MaxSends = 0
    Sessions = {}
    Stmts = {}
    Buffers = {}
    Names = {}
    max_bind_count = 0
    MaxRows = 0
INVARIANTS
    InStep
CHECK_DEADLOCK FALSE
