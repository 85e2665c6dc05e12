\* Beside the runs: a handle of one Lua state gets the user another has set (luacurl.cpp:33, 258).
\* InitialisedForAll: lua_close collects handles after curl_global_cleanup (luacurl.cpp:148).
SPECIFICATION Spec
CONSTANTS
    None = None
    Luas = {l1, l2}
    Handles = {h1}
    Lists = {k1}
    Files = {f1}
    MaxSends = 1
INVARIANT OwnSettings
CHECK_DEADLOCK FALSE
