\* A HostPort built through NewHost and the setters, encoded and reparsed.

CONSTANTS
    Nil = Nil
    NilTable = NilTable
    Anon = Anon
    NilHost = NilHost
    NilHostPort = NilHostPort
    NoIP = NoIP
    T1 = T1
    LexerName = T1
    MaxInt = 11
    Buffers <- HostBuffers
    Preload <- NoPreload
    TableNames = {}
    Spellings = {}
    Codes = {}
    MatchTokens = {}
    PeekDepths = {}
    Delims = {}
    HostNames <- CallerHostNames
    Ports <- CallerPorts
SPECIFICATION HostSpec

INVARIANT HeldHostPortsReparse
