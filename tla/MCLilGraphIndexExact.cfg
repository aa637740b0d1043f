SPECIFICATION Spec
CONSTANTS
    NodePtr = {n1, n2, n3}
    EdgePtr = {e1, e2, e3}
    Id = {a, b, bad}
    ValidId = {a, b, bad}
    Type = {untyped}
    Untyped = untyped
    Nil = Nil
    StaleHandles = FALSE
SYMMETRY PointerSymmetry
INVARIANT IndexExact
