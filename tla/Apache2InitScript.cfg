\* An init script that writes to the log.
SPECIFICATION Spec
CONSTANTS
    c1 = c1
    c2 = c2
    Conns = {c1, c2}
    Root = "/"
    Shapes <- FewShapes
    MaxReq = 2
    Builds = {FALSE, TRUE}
    InitScript = TRUE
SYMMETRY ConnSymmetry
INVARIANTS
    LiveContext
CHECK_DEADLOCK FALSE
