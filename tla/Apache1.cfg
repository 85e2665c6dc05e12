\* Requests of any shape, one after the other, in children that come and go.
SPECIFICATION Spec
CONSTANTS
    Root = "/"
    Shapes <- AllShapes
    MaxReq = 3
INVARIANTS
    OneHeader
    OwnRequest
    OwnBody
    BackInRoot
CHECK_DEADLOCK FALSE
