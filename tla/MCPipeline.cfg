SPECIFICATION PipelineSpec
CONSTANTS
    MaxTokens = 9
    MaxTextLen = 5
    MaxLen = 4
    MaxAnyLen = 2
    Alphabets <- SomeAlphabets
    Items <- SomeItems
INVARIANT ParserTypeOK
INVARIANT AcceptsLanguage
INVARIANT ExpectedExact
INVARIANT AstIsWhole
INVARIANT ReadsBackExactly
PROPERTY Returns
CHECK_DEADLOCK FALSE
