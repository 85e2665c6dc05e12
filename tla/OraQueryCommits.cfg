\* Beside the runs: query() commits what execute() has left pending (luaora.cpp:561, 720).
SPECIFICATION Spec
CONSTANTS
    None = None
    Sessions = {s1}
    Stmts = {o1, o2}
    Iters = {i1}
    Buffers = {b1, b2}
    Names = {n1}
    max_bind_count = 1
    MaxRows = 1
PROPERTY PendingUntilEnd
CHECK_DEADLOCK FALSE
