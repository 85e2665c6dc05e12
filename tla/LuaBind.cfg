\* Nested binds used as in test.cpp.
SPECIFICATION Spec
CONSTANTS
    Binds = {b1, b2, b3}
    MaxStack = 5
    Disciplined = TRUE
INVARIANTS
    OneHolder
    OwnValues
    FetchesResults
CHECK_DEADLOCK FALSE
