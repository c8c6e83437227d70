\* NameValue of bare names, quoted values and unterminated quotes, then String and reparse.
CONSTANTS
    Nil = Nil
    NilTable = NilTable
    Anon = Anon
    NilValue = NilValue
    T1 = T1
    LexerName = T1
    MaxInt = 99
    Buffers <- ParamBuffers
    Preload <- NoPreload
    TableNames = {}
    Spellings = {}
    Codes = {}
    MatchTokens = {4095, 61}
    PeekDepths = {1}
    Delims = {}
    Separators = {61}
SPECIFICATION LoopSpec
INVARIANT ParsedParametersAreWellFormed
