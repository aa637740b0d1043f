SPECIFICATION Spec
CONSTANTS
    v1 = v1
    v2 = v2
    v3 = v3
    v4 = v4
    Vertex <- FourVertices
    Outs <- Lists
    NodeLists <- Orders
    MaxSorts = 2
INVARIANT EveryCycleFound
CHECK_DEADLOCK FALSE
