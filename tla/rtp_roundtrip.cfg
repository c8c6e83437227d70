\* Packets built, parsed, rebuilt and reparsed by one caller.
\* A panic (a CSRC or extension slice shorter than its count, or CSRC
\* words past the end of a received packet) ends the program.
CONSTANTS
    HeaderSize = 12
    ExtHeaderSize = 4
    RtpVersion = 2
    MaxCsrcs = 15
    RtcpSR = 200
    RtcpRR = 201
    NilHeader = NilHeader
    NilExtension = NilExtension
    UnparsedHeader = UnparsedHeader
    UnparsedExtension = UnparsedExtension
    NilTime = NilTime
    BuildArgs <- CallerBuildArgs
    RawPackets <- CallerRawPackets
SPECIFICATION RtpSpec
CHECK_DEADLOCK FALSE
INVARIANT RtpTypeOK
INVARIANT BuiltPacketsParseBack
INVARIANT ParsesDoNotDependOnHeldPacket
