SPECIFICATION Spec
CONSTANTS
    v1 = v1
    v2 = v2
    v3 = v3
    v4 = v4
    Vertex <- FourVertices
    Outs <- Lists
    NodeLists <- Orders
    MaxSorts = 2
INVARIANT WalkInv
INVARIANT CycleIsReal
INVARIANT Downstream
INVARIANT Agrees
PROPERTY Idempotent
PROPERTY Returns
CHECK_DEADLOCK FALSE
