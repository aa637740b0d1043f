SPECIFICATION PipelineSpec
CONSTANTS
    MaxTokens = 9
    MaxTextLen = 2
    MaxLen = 4
    MaxAnyLen = 2
    Alphabets <- SomeAlphabets
    Items <- SomeItems
INVARIANT ValuesReadBack
CHECK_DEADLOCK FALSE
