SPECIFICATION IterSpec
CONSTANTS
    n1 = n1
    n2 = n2
    n3 = n3
    n4 = n4
    e1 = e1
    e2 = e2
    e3 = e3
    e4 = e4
    a = a
    b = b
    c = c
    d = d
    t = t
    NodePtr = {n1, n2, n3, n4}
    EdgePtr = {e1, e2, e3, e4}
    Id = {a, b, c, d}
    ValidId = {a, b, c, d}
    Untyped = Untyped
    Type = {Untyped, t}
    Nil = Nil
    StaleHandles = FALSE
    StartNodes <- ThreeNodes
    StartEdges <- SomeEdges
    MaxCalls = 3
    MaxRoom = 1
INVARIANT AddsAreUnseen
INVARIANT NoRepeats
INVARIANT MissedAreCounted
INVARIANT YieldsExplained
INVARIANT FindEdgesPanics
CHECK_DEADLOCK FALSE
