\* Beside the runs: a column is fetched into a row that was freed (luaora.cpp:513, 717).
SPECIFICATION Spec
CONSTANTS
    None = None
    Sessions = {s1}
    Stmts = {o1}
    Iters = {i1}
    Buffers = {b1, b2}
    Names = {n1}
    max_bind_count = 1
    MaxRows = 1
INVARIANT RowsSafe
CHECK_DEADLOCK FALSE
