\* NameValue('=') from any position the caller reaches, then String and reparse;
\* failed matches and quoted strings from every position on the way.
\* QuotedString is taken one loop iteration at a time.
CONSTANTS
    Nil = Nil
    NilTable = NilTable
    Anon = Anon
    NilValue = NilValue
    T1 = T1
    LexerName = T1
    MaxInt = 99
    Buffers <- ParamBuffers
    Preload <- NoPreload
    TableNames = {}
    Spellings = {}
    Codes = {}
    MatchTokens = {4095, 61}
    PeekDepths = {1}
    Delims = {}
    Separators = {61}
SPECIFICATION LoopSpec
INVARIANT TypeOK
INVARIANT ValuedParametersRoundTrip
INVARIANT DelimitedStringsWellFormed
PROPERTY QuotedStringReturns
