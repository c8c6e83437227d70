\* GetHostPort from any position a caller reaches, then String and reparse;
\* the held HostPort is built and edited through the API meanwhile.
CONSTANTS
    Nil = Nil
    NilTable = NilTable
    Anon = Anon
    NilHost = NilHost
    NilHostPort = NilHostPort
    NoIP = NoIP
    T1 = T1
    LexerName = T1
    MaxInt = 10
    Buffers <- HostBuffers
    Preload <- NoPreload
    TableNames = {}
    Spellings = {}
    Codes = {}
    MatchTokens = {}
    PeekDepths = {}
    Delims = {}
    HostNames <- CallerHostNames
    Ports <- CallerPorts
SPECIFICATION HostSpec
INVARIANT HostTypeOK
INVARIANT ParsedHostPortsReencode
INVARIANT CachedAddressIsCurrent
INVARIANT FailedHostPortConsumption
