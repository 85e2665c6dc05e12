\* The working directory under a threaded MPM.
SPECIFICATION Spec
CONSTANTS
    c1 = c1
    c2 = c2
    Conns = {c1, c2}
    Root = "/"
    Shapes <- FewShapes
    MaxReq = 2
    Builds = {TRUE}
    InitScript = FALSE
SYMMETRY ConnSymmetry
INVARIANTS
    ThreadInOwnDirectory
CHECK_DEADLOCK FALSE
