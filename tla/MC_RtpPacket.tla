---------------------------- MODULE MC_RtpPacket ----------------------------
(***************************************************************************)
(* Instantiation of RtpPacket for TLC.  BuildPacket arguments cover a     *)
(* valid and an RTCP-like payload type and one above 127, zero, one and    *)
(* too many CSRCs, slices shorter than the counts, markers, extensions of *)
(* zero and one word, and payloads of zero and one byte.  Raw packets are  *)
(* laid out as filler for the header, CSRC and extension words followed by *)
(* a short tail, with headers that declare versions 1 and 2, padding,      *)
(* CSRCs and extensions the data may or may not hold.                      *)
(***************************************************************************)
EXTENDS RtpPacket

\* The extension arguments: none, an empty one, one word, and a slice
\* shorter than the length given.
ExtensionArgs == {<<FALSE, 0, <<>>>>, <<TRUE, 0, <<>>>>, <<TRUE, 1, <<9>>>>, <<TRUE, 1, <<>>>>}

CallerBuildArgs ==
    {[payloadtype |-> pt, payloaddata |-> pl, gotmarker |-> mk, numcsrcs |-> nc,
      csrcs |-> cs, gotextension |-> x[1], extensionlen |-> x[2], extensiondata |-> x[3]] :
        pt \in {0, 72, 128}, pl \in {<<>>, <<5>>}, mk \in BOOLEAN,
        nc \in {0, 1, 16}, cs \in {<<>>, <<7>>}, x \in ExtensionArgs}

\* The fields a header parser would read; the CSRC list holds csrccount ids.
Declared(v, pd, x, cc, mp) ==
    [version |-> v, padding |-> pd, extension |-> x, csrccount |-> cc,
     marker |-> mp[1], payloadtype |-> mp[2], csrc |-> [i \in 1 .. cc |-> 7]]

DeclaredExtension(n) == [length |-> n, data |-> [i \in 1 .. n |-> 9]]

\* Version 2 headers with and without padding, CSRCs and an extension of
\* zero or one word, and marker/payload-type pairs that do and do not look
\* like RTCP; the extension record matters only when the bit is set.
DeclaredFields ==
    {<<Declared(2, pd, 0, cc, mp), DeclaredExtension(0)>> :
        pd \in {0, 1}, cc \in {0, 1}, mp \in {<<0, 0>>, <<1, 72>>, <<0, 72>>}}
    \cup {<<Declared(2, pd, 1, cc, <<0, 0>>), DeclaredExtension(n)>> :
        pd \in {0, 1}, cc \in {0, 1}, n \in {0, 1}}

\* Filler for n bytes, then the tail; the last byte is the padding count.
\* Packets with tails of different lengths were received at different times.
\* Also a version 1 packet and one not received on the RTP port.
CallerRawPackets ==
    {[rtp |-> TRUE, time |-> Len(tail), data |-> Filler(n) \o tail, hdr |-> f[1], ext |-> f[2]] :
        n \in {HeaderSize - 1, HeaderSize, HeaderSize + 4},
        tail \in {<<>>, <<5>>, <<5, 1>>, <<3>>}, f \in DeclaredFields}
    \cup {[rtp |-> r, time |-> 1, data |-> Filler(HeaderSize), hdr |-> Declared(v, 0, 0, 0, <<0, 0>>),
          ext |-> DeclaredExtension(0)] : <<r, v>> \in {<<TRUE, 1>>, <<FALSE, 2>>}}
=============================================================================
