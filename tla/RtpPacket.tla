------------------------------ MODULE RtpPacket ------------------------------
(***************************************************************************)
(* The RTP packet codec of src/rtp/rtppacket.go: BuildPacket lays out a    *)
(* packet from its fields, ParseRawPacket reads one back.  An RTPPacket rp *)
(* is a record [receivetime, packet, header, extension, payload]; a time   *)
(* is a natural number standing for an RTPTime value.                      *)
(*                                                                         *)
(* The file uses RTPHeader, RTPExtension, RawPacket and the RTP_* and      *)
(* SIZEOF_* constants, none of which is in the repository.  They enter     *)
(* the model as follows:                                                   *)
(*   - the constants are CONSTANTS, given the values of RFC 3550;          *)
(*   - a header or extension is the record of the fields the codec reads   *)
(*     (sequence number, timestamp and SSRC only pass through and are left *)
(*     out), and Encode writes it as filler bytes of its size: a wire      *)
(*     packet carries the record its Parse would read (RawPacket.hdr/ext); *)
(*   - RTPHeader.Parse fails on data shorter than the fixed header, and    *)
(*     RTPExtension.Parse on data shorter than the extension header.       *)
(***************************************************************************)
EXTENDS Integers, Sequences, Bitwise

CONSTANTS
    HeaderSize,         \* SIZEOF_RTPHEADER
    ExtHeaderSize,      \* SIZEOF_RTPEXTENSION
    RtpVersion,         \* RTP_VERSION
    MaxCsrcs,           \* RTP_MAXCSRCS
    RtcpSR, RtcpRR,     \* RTP_RTCPTYPE_SR, RTP_RTCPTYPE_RR
    NilHeader,          \* a nil *RTPHeader
    NilExtension,       \* a nil *RTPExtension
    UnparsedHeader,     \* a NewRTPHeader() whose Parse failed
    UnparsedExtension,  \* a NewRTPExtension() whose Parse failed
    NilTime             \* a nil *RTPTime

\* The zero RTPPacket a caller allocates.
NewRTPPacket == [receivetime |-> NilTime, packet |-> <<>>, header |-> NilHeader,
                 extension |-> NilExtension, payload |-> <<>>]

\* Encode's output, abstracted to filler bytes of its length.
Filler(n) == [i \in 1 .. n |-> 0]

\* The offset of the payload: fixed header, CSRC words, extension words.
PayloadOffset(h, e) ==
    HeaderSize + 4 * h.csrccount
      + (IF h.extension # 0 THEN ExtHeaderSize + 4 * e.length ELSE 0)

\* Faulty variant of ParseRawPacket's port check: the data is copied into
\* rp before the check.
NotRtpCopiesFirst(p, raw) == [rp |-> [p EXCEPT !.packet = raw.data], ok |-> FALSE, panic |-> FALSE]

\* The result of ParseRawPacket for a packet not received on the RTP port.
NotRtp(p, raw) == [rp |-> p, ok |-> FALSE, panic |-> FALSE]

\* Faulty variant of ParsedExtension: without the else branch, a packet
\* without the extension bit keeps the extension rp held before.
ParsedExtensionKeeps(p, h, ext) == IF h.extension # 0 THEN ext ELSE p.extension

\* rp.extension after a header with extension bit h.extension was read:
\* the extension parsed from the data, or nil when the bit is clear.
ParsedExtension(p, h, ext) == IF h.extension # 0 THEN ext ELSE NilExtension

(***************************************************************************)
(* ParseRawPacket(rawpack): the result is [rp, ok, panic].  rp.packet and  *)
(* rp.header are assigned before the header is parsed and rp.extension     *)
(* before the extension is, so a failure leaves them updated; rp.payload   *)
(* is never assigned.  The slice packet[payloadoffset:] panics when the    *)
(* CSRC words reach past the end.                                          *)
(***************************************************************************)
ParseRawPacket(p, raw) ==
    LET d      == raw.data
        h      == raw.hdr
        off0   == HeaderSize + 4 * h.csrccount
        off    == PayloadOffset(h, raw.ext)
        pad    == IF h.padding # 0 THEN d[Len(d)] ELSE 0
        parsed == [p EXCEPT !.packet = d, !.header = h]
        Out(q, ok) == [rp |-> q, ok |-> ok, panic |-> FALSE]
    IN  CASE ~raw.rtp                          -> NotRtp(p, raw)
          [] Len(d) < HeaderSize               -> Out([parsed EXCEPT !.header = UnparsedHeader], FALSE)
          [] h.version # RtpVersion            -> Out(parsed, FALSE)
          [] h.marker # 0 /\ h.payloadtype \in {RtcpSR & 127, RtcpRR & 127}
                                               -> Out(parsed, FALSE)
          [] h.extension # 0 /\ off0 > Len(d)  -> [rp |-> p, ok |-> FALSE, panic |-> TRUE]
          [] h.extension # 0 /\ Len(d) - off0 < ExtHeaderSize
                                               -> Out([parsed EXCEPT !.extension = UnparsedExtension], FALSE)
          [] OTHER ->
               LET q == [parsed EXCEPT !.extension = ParsedExtension(p, h, raw.ext)]
               IN  CASE pad > Len(d) - off    -> Out(q, FALSE)
                     [] Len(d) - pad - off < 0 -> Out(q, FALSE)
                     [] OTHER                 -> Out(q, TRUE)

\* Faulty variant of BuildPacket's payload-type check: the RTCP-like
\* types 72 and 73 are not refused.
BadPayloadTypeAllowsRtcp(pt) == pt > 127

\* The payload types BuildPacket refuses.
BadPayloadType(pt) == pt > 127 \/ pt \in {72, 73}

(***************************************************************************)
(* BuildPacket(args): the argument checks come first and change nothing.   *)
(* The CSRC and extension copy loops index csrcs and extensiondata up to   *)
(* the counts given, and panic when a slice is shorter.                    *)
(***************************************************************************)
BuildPacket(p, a) ==
    LET h == [version |-> RtpVersion, padding |-> 0,
              extension |-> IF a.gotextension THEN 1 ELSE 0,
              csrccount |-> a.numcsrcs,
              marker |-> IF a.gotmarker THEN 1 ELSE 0,
              payloadtype |-> a.payloadtype & 127,
              csrc |-> SubSeq(a.csrcs, 1, a.numcsrcs)]
        e == [length |-> a.extensionlen, data |-> SubSeq(a.extensiondata, 1, a.extensionlen)]
        built == [p EXCEPT !.packet    = Filler(PayloadOffset(h, e)) \o a.payloaddata,
                           !.header    = h,
                           !.extension = IF a.gotextension THEN e ELSE NilExtension,
                           !.payload   = a.payloaddata]
        Out(q, ok, panic) == [rp |-> q, ok |-> ok, panic |-> panic]
    IN  CASE a.numcsrcs > MaxCsrcs                         -> Out(p, FALSE, FALSE)
          [] BadPayloadType(a.payloadtype)                 -> Out(p, FALSE, FALSE)
          [] Len(a.csrcs) < a.numcsrcs                     -> Out(p, FALSE, TRUE)
          [] a.gotextension /\ Len(a.extensiondata) < a.extensionlen
                                                           -> Out(p, FALSE, TRUE)
          [] OTHER                                         -> Out(built, TRUE, FALSE)

\* The raw packet a built packet travels as: its bytes, and the fields the
\* header and extension parsers read from them.
Wire(p) == [rtp |-> TRUE, time |-> 1, data |-> p.packet, hdr |-> p.header,
            ext |-> IF p.extension = NilExtension THEN [length |-> 0, data |-> <<>>]
                    ELSE p.extension]

-----------------------------------------------------------------------------
(***************************************************************************)
(* The state machine: a caller holding one RTPPacket.  It may replace it   *)
(* by NewPacket or NewRTPPacketFromRawPacket (which return nil on error,   *)
(* and the caller then keeps the packet it had), or call BuildPacket or    *)
(* ParseRawPacket on it in place.  last records which call produced the   *)
(* packet it holds; status records which call panicked, ending the program. *)
(***************************************************************************)
CONSTANTS
    BuildArgs,    \* argument records the caller passes to BuildPacket
    RawPackets    \* raw packets the caller receives

VARIABLES rp, last, status

rtpVars == <<rp, last, status>>

RtpInit == rp = NewRTPPacket /\ last = "none" /\ status = "running"

Panicked(r, where) == status' = IF r.panic THEN where ELSE status

\* NewPacket: BuildPacket on a fresh packet whose receive time is zero.
DoNewPacket(a) ==
    LET r == BuildPacket([NewRTPPacket EXCEPT !.receivetime = 0], a)
    IN  /\ status = "running" /\ Panicked(r, "build panicked")
        /\ rp' = IF r.ok THEN r.rp ELSE rp
        /\ last' = IF r.ok THEN "built" ELSE last

\* NewRTPPacketFromRawPacket: ParseRawPacket on a fresh packet that holds
\* the raw packet's receive time.
FromRawPacket(raw) == [NewRTPPacket EXCEPT !.receivetime = raw.time]

DoNewRTPPacketFromRawPacket(raw) ==
    LET r == ParseRawPacket(FromRawPacket(raw), raw)
    IN  /\ status = "running" /\ Panicked(r, "parse panicked")
        /\ rp' = IF r.ok THEN r.rp ELSE rp
        /\ last' = IF r.ok THEN "parsed" ELSE last

\* rp.BuildPacket(...) and rp.ParseRawPacket(raw) on the packet held.
DoBuildPacket(a) ==
    LET r == BuildPacket(rp, a)
    IN  /\ status = "running" /\ Panicked(r, "build panicked")
        /\ rp' = r.rp
        /\ last' = IF r.ok THEN "built" ELSE "failed"

DoParseRawPacket(raw) ==
    LET r == ParseRawPacket(rp, raw)
    IN  /\ status = "running" /\ Panicked(r, "parse panicked")
        /\ rp' = r.rp
        /\ last' = IF r.ok THEN "parsed" ELSE "failed"

RtpNext ==
    \/ \E a \in BuildArgs : DoNewPacket(a) \/ DoBuildPacket(a)
    \/ \E raw \in RawPackets : DoNewRTPPacketFromRawPacket(raw) \/ DoParseRawPacket(raw)

RtpSpec == RtpInit /\ [][RtpNext]_rtpVars

-----------------------------------------------------------------------------
(* Properties *)

RtpTypeOK ==
    /\ rp.receivetime \in {NilTime} \cup Nat
    /\ rp.packet \in Seq(Int) /\ rp.payload \in Seq(Int)
    /\ rp.header = NilHeader => rp.packet = <<>>
    /\ last \in {"none", "built", "parsed", "failed"}
    /\ status \in {"running", "build panicked", "parse panicked"}

\* The payload bytes of packet p: after the header, CSRC words and
\* extension, before the padding counted by the last byte.
PacketPayload(p) ==
    LET pad == IF p.header.padding # 0 THEN p.packet[Len(p.packet)] ELSE 0
    IN  SubSeq(p.packet, PayloadOffset(p.header, Wire(p).ext) + 1, Len(p.packet) - pad)

(***************************************************************************)
(* Build then parse: a packet BuildPacket laid out is accepted by          *)
(* ParseRawPacket, which reads back the same header and extension and      *)
(* finds the payload at the offset and length the builder used.  This     *)
(* ties BuildPacket's length arithmetic and payload-type checks to         *)
(* ParseRawPacket's offsets and RTCP check.                               *)
(***************************************************************************)
BuiltPacketsParseBack ==
    last = "built" =>
        LET r == ParseRawPacket(NewRTPPacket, Wire(rp))
        IN  /\ r.ok
            /\ r.rp.header = rp.header /\ r.rp.extension = rp.extension
            /\ PacketPayload(r.rp) = rp.payload

(***************************************************************************)
(* GetPayload returns "the actual payload data" of the packet held: after  *)
(* BuildPacket or a successful ParseRawPacket, rp.payload is the packet's *)
(* bytes between the header (CSRCs and extension included) and the         *)
(* padding.  ParseRawPacket computes that length but never assigns        *)
(* rp.payload.                                                             *)
(***************************************************************************)
PayloadIsPacketPayload ==
    last \in {"built", "parsed"} => rp.payload = PacketPayload(rp)

(***************************************************************************)
(* What a caller of ParseRawPacket relies on: a packet it receives is      *)
(* either refused with an error or parsed into one whose GetPayload is the *)
(* packet's payload.  Parsing never panics (the slice packet[payloadoffset:] *)
(* before the extension is read goes past the end when the CSRC words the  *)
(* header declares do), and rp.payload is the payload after it.            *)
(***************************************************************************)
(***************************************************************************)
(* ParseRawPacket reuses the RTPPacket it is called on, and a failed call  *)
(* leaves it half-updated (new bytes and header, the old extension).       *)
(* Whatever the caller holds (built, parsed, or left by a failure),        *)
(* parsing a raw packet in place gives the same verdict as                 *)
(* NewRTPPacketFromRawPacket, and on success the same bytes, header and    *)
(* extension.  The two fields ParseRawPacket never assigns, the payload    *)
(* and the receive time, keep the held packet's values and are left out   *)
(* of the comparison; everything the parse itself decides is compared.   *)
(***************************************************************************)
ParsesDoNotDependOnHeldPacket ==
    \A raw \in RawPackets :
        LET a == ParseRawPacket(rp, raw)
            b == ParseRawPacket(FromRawPacket(raw), raw)
        IN  /\ a.ok = b.ok /\ a.panic = b.panic
            /\ a.ok => [a.rp EXCEPT !.payload = <<>>, !.receivetime = raw.time] = b.rp

ReceivedPacketsAreUsable == status # "parse panicked" /\ PayloadIsPacketPayload
=============================================================================
