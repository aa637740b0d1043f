SPECIFICATION Spec
CONSTANTS
    Key = {k1, k2, tYPE}
    TypeKey = {tYPE}
    Value = {u, v}
    Nil = Nil
INVARIANT PairsInv
PROPERTY AbstractSpec
