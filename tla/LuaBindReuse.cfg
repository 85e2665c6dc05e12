\* A bind that is used again after its end.
SPECIFICATION Spec
CONSTANTS
    Binds = {b1, b2}
    MaxStack = 4
    Disciplined = FALSE
PROPERTY
    OnlyOnePerVm
CHECK_DEADLOCK FALSE
