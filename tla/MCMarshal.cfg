SPECIFICATION MarshalSpec
CONSTANTS
    a = a
    b = b
    c = c
    T = T
    U = U
    k1 = k1
    k2 = k2
    tYPE = tYPE
    u = u
    v = v
    MaxItems = 3
    Room = 4
    MaxEdits = 4
    Id = {a, b, c}
    Gone <- OldNodes
    Untyped = Untyped
    Type = {Untyped, T, U}
    Key = {k1, k2, tYPE}
    TypeKey = {tYPE}
    Value = {u, v}
    NoPos = NoPos
    NoText = NoText
    Items <- AllItems
    EditedDocs <- ShortDocs
    NodeItems <- SomeNodes
    EdgeKeys <- SomeEdges
INVARIANT GraphAsMeant
INVARIANT FirstFault
INVARIANT RoundTrip
PROPERTY Canonical
PROPERTY OldLinesFirst
CHECK_DEADLOCK FALSE
