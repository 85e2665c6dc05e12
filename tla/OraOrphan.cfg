\* Beside the runs: a statement is executed for a session that is closed (luaora.cpp:591, 720).
SPECIFICATION Spec
CONSTANTS
    None = None
    Sessions = {s1}
    Stmts = {o1, o2}
    Iters = {i1}
    Buffers = {b1, b2}
    Names = {n1}
    max_bind_count = 1
    MaxRows = 1
INVARIANT SessionsSafe
CHECK_DEADLOCK FALSE
