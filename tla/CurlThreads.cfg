\* Beside the runs: two threads, which nothing locks, close the log (luacurl.cpp:122-126).
SPECIFICATION Spec
CONSTANTS
    None = None
    Luas = {l1, l2}
    Handles = {}
    Lists = {k1}
    Files = {f1}
    MaxSends = 1
INVARIANT LogSafe
CHECK_DEADLOCK FALSE
