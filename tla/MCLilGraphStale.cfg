SPECIFICATION Spec
CONSTANTS
    NodePtr = {n1, n2, n3}
    EdgePtr = {e1, e2, e3}
    Id = {a, b, bad}
    ValidId = {a, b}
    Type = {untyped}
    Untyped = untyped
    Nil = Nil
    StaleHandles = TRUE
SYMMETRY PointerSymmetry
INVARIANT TypeOK
INVARIANT NodesIndexed
INVARIANT EdgesWired
INVARIANT AdjacencyExact
INVARIANT IndexLive
INVARIANT AdjacencyOrder
PROPERTY AbstractSpec
