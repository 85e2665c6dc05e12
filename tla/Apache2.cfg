\* Both builds; only the threaded one serves two connections at once.
SPECIFICATION Spec
CONSTANTS
    c1 = c1
    c2 = c2
    Conns = {c1, c2}
    Root = "/"
    Shapes <- FiveShapes
    MaxReq = 3
    Builds = {FALSE, TRUE}
    InitScript = FALSE
SYMMETRY ConnSymmetry
INVARIANTS
    OwnRequest
    OwnBody
    InOwnDirectory
    StackBounded
CHECK_DEADLOCK FALSE
