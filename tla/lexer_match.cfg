\* Match, peek and the scanners over identifiers, keywords, literals, numbers and lines.
CONSTANTS
    Nil = Nil
    NilTable = NilTable
    Anon = Anon
    T1 = T1
    T2 = T2
    MaxInt = 11
    LexerName = T1
    Buffers <- MatchBuffers
    Preload <- MatchPreload
    TableNames = {}
    Spellings = {}
    Codes = {}
    MatchTokens <- MatchTokenSet
    PeekDepths = {1, 2}
    Delims = {61, 59}
SPECIFICATION Spec
INVARIANT TypeOK
INVARIANT MatchResultIsConsumedToken
INVARIANT FailedMatchConsumption
INVARIANT PeekAgreesWithMatch
INVARIANT ScansAreMaximalRuns
PROPERTY CursorRefinement
