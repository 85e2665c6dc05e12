\* A page that writes and then returns a code.
SPECIFICATION Spec
CONSTANTS
    Root = "/"
    Shapes <- AllShapes
    MaxReq = 3
INVARIANTS
    StatusCounts
CHECK_DEADLOCK FALSE
