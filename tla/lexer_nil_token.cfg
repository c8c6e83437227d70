\* Match asked for the WHITESPACE class, and PeekNextToken, at any position.
CONSTANTS
    Nil = Nil
    NilTable = NilTable
    Anon = Anon
    T1 = T1
    T2 = T2
    MaxInt = 99
    LexerName = T1
    Buffers <- MatchBuffers
    Preload <- MatchPreload
    TableNames = {}
    Spellings = {}
    Codes = {}
    MatchTokens <- StaleTokenSet
    PeekDepths = {1, 2}
    Delims = {61}
SPECIFICATION Spec
INVARIANT SuccessfulCallsReturnTokens
