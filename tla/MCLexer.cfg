SPECIFICATION Spec
CONSTANTS
    MaxLen = 5
    MaxAnyLen = 3
    Alphabets <- SomeAlphabets
INVARIANT TypeOK
INVARIANT Positions
INVARIANT AsSpecified
INVARIANT IdsAgree
CHECK_DEADLOCK FALSE
