\* ParseRawPacket on received packets: no panic, and GetPayload is the payload.
\* A panic ends the program.
CONSTANTS
    HeaderSize = 12
    ExtHeaderSize = 4
    RtpVersion = 2
    MaxCsrcs = 15
    RtcpSR = 200
    RtcpRR = 201
    NilHeader = NilHeader
    NilExtension = NilExtension
    UnparsedHeader = UnparsedHeader
    UnparsedExtension = UnparsedExtension
    NilTime = NilTime
    BuildArgs <- CallerBuildArgs
    RawPackets <- CallerRawPackets
SPECIFICATION RtpSpec
CHECK_DEADLOCK FALSE

INVARIANT ReceivedPacketsAreUsable
