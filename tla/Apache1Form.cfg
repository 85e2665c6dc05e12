\* The form of a browser.
SPECIFICATION Spec
CONSTANTS
    Root = "/"
    Shapes <- AllShapes
    MaxReq = 3
INVARIANTS
    FormArgs
CHECK_DEADLOCK FALSE
