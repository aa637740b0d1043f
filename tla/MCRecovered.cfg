SPECIFICATION RecoveredSpec
CONSTANTS
    a = a
    b = b
    NodePtr = {n1, n2, n3}
    EdgePtr = {e1, e2}
    Id = {a, b}
    ValidId = {a, b}
    Type = {untyped, t, u}
    Declared <- AnyTypeOfA
    EdgeTypes = {untyped, t}
    Untyped = untyped
    Nil = Nil
    StaleHandles = FALSE
SYMMETRY PointerSymmetry
VIEW AllButRet
INVARIANT ListsSurvive
INVARIANT EndsAccounted
INVARIANT Healed
PROPERTY PanicsExplained
PROPERTY AbstractUntilMisused
