\* Keyword tables created, selected, renamed and filled by the caller between matches.
\* A panic (AddKeyword into the nil map) ends the program, hence no deadlock check.
CONSTANTS
    Nil = Nil
    NilTable = NilTable
    Anon = Anon
    T1 = T1
    T2 = T2
    LexerName = T1
    MaxInt = 99
    Buffers <- TableBuffers
    Preload <- NoPreload
    TableNames = {T1, T2}
    Spellings <- TableSpellings
    Codes <- TableCodes
    MatchTokens = {4095, 2049}
    PeekDepths = {1}
    Delims = {}
SPECIFICATION Spec
INVARIANT PeekAgreesWithMatch
INVARIANT MatchResultIsConsumedToken
CHECK_DEADLOCK FALSE
