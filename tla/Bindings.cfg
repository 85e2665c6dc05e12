\* Keys of memcached are one word, but for what get and del are asked.
SPECIFICATION HandlesSpec
CONSTANTS
    None = None
    Iters = {i1, i2}
    Conns = {c1}
    Results = {r1, r2}
    Luas = {l1, l2}
    Handles = {h1}
    Lists = {k1}
    Files = {f1}
    MaxSends = 2
    Sessions = {s1}
    Stmts = {o1}
    Buffers = {b1, b2, b3}
    Names = {n1}
    max_bind_count = 2
    MaxRows = 2
    Words = {"a", "b"}
    SetKeys <- OneWord
    Keys <- TwoWords
    Values = {v1, v2}
    MaxCalls = 5
    Libraries = {"mysql", "curl", "oracle", "memcached"}
INVARIANTS
    MysqlSafe MysqlRows
    CurlSafe InitialisedForScripts StatusIsLast
    OraSafe OraRows BindsInPlace
    InStep Current NoFalseAlarm
CHECK_DEADLOCK FALSE
