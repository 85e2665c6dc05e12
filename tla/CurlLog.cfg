\* Beside the runs: the log is closed while a handle that is open writes to it (luacurl.cpp:124, 145).
SPECIFICATION Spec
CONSTANTS
    None = None
    Luas = {l1}
    Handles = {h1}
    Lists = {k1}
    Files = {f1}
    MaxSends = 1
INVARIANT LogSafe
CHECK_DEADLOCK FALSE
