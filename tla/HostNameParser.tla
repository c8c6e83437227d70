--------------------------- MODULE HostNameParser ---------------------------
(***************************************************************************)
(* The host[:port] grammar of src/core/HostNameParser.go, run on the lexer *)
(* of CoreLexer, and the value objects it builds: Host (Host.go) and       *)
(* HostPort (HostPort.go).  A Host is a record [hostname, addressType,    *)
(* inet], inet being the inetAddress field, the cached net.ParseIP of the  *)
(* name.  A HostPort is a record [host, port], port -1 meaning no port.    *)
(* The caller holds one HostPort, hp, which it obtains by parsing or by    *)
(* the constructor and then edits with the setters.                        *)
(***************************************************************************)
EXTENDS CoreLexer

CONSTANTS
    NilHost,      \* the nil *Host
    NilHostPort,  \* the nil *HostPort
    NoIP,         \* the nil net.IP
    HostNames,    \* strings the caller passes to NewHost and the setters
    Ports         \* ints the caller passes to SetPort

HOSTNAME    == 0
IPV4ADDRESS == 1
IPV6ADDRESS == 2

Ch_DOT      == 46
Ch_COLON    == 58
Ch_LBRACKET == 91
Ch_RBRACKET == 93

\* isIPv6Address: a non-empty string with a ':' in it.
IsIPv6Address(a) == a # <<>> /\ Ch_COLON \in Range(a)

\* isIPv6Reference reads the first and last byte: it panics on "".
IsIPv6Reference(a) == a[1] = Ch_LBRACKET /\ a[Len(a)] = Ch_RBRACKET

\* NewHost: the IPv6 test is overwritten by the assignment after it.
NewHost(hname) ==
    IF hname = <<>> THEN NilHost
    ELSE [hostname |-> hname, addressType |-> IPV4ADDRESS, inet |-> NoIP]

\* Host.String: an IPv6 address not already in brackets is bracketed.
HostString(h) ==
    IF h.addressType = IPV6ADDRESS /\ ~IsIPv6Reference(h.hostname)
    THEN <<Ch_LBRACKET>> \o h.hostname \o <<Ch_RBRACKET>>
    ELSE h.hostname

\* strings.TrimSpace on ASCII text, and strings.ToLower on ASCII bytes.
AsciiSpace == {9, 10, 11, 12, 13, 32}
TrimSpace(s) ==
    LET keep == {i \in DOMAIN s : s[i] \notin AsciiSpace}
    IN  IF keep = {} THEN <<>> ELSE SubSeq(s, Min(keep), Max(keep))
ToLower(s) == [i \in DOMAIN s |-> IF s[i] \in 65 .. 90 THEN s[i] + 32 ELSE s[i]]

\* SetHostName keeping the cached address (mutant).
SetHostNameKeepsCache(h, hname) ==
    [hostname    |-> IF hname # <<>> THEN ToLower(TrimSpace(hname)) ELSE h.hostname,
     addressType |-> IF IsIPv6Address(hname) THEN IPV6ADDRESS ELSE HOSTNAME,
     inet        |-> h.inet]

\* SetHostName: drops the cached address and reclassifies always, but
\* keeps the old name when hname is "".
SetHostName(h, hname) ==
    [hostname    |-> IF hname # <<>> THEN ToLower(TrimSpace(hname)) ELSE h.hostname,
     addressType |-> IF IsIPv6Address(hname) THEN IPV6ADDRESS ELSE HOSTNAME,
     inet        |-> NoIP]

\* SetHostAddress (and SetAddress): the same without lower-casing.
SetHostAddress(h, address) ==
    [hostname    |-> IF address # <<>> THEN TrimSpace(address) ELSE h.hostname,
     addressType |-> IF IsIPv6Address(address) THEN IPV6ADDRESS ELSE IPV4ADDRESS,
     inet        |-> NoIP]

(***************************************************************************)
(* net.ParseIP, which the cache holds.  An address is abstracted as the    *)
(* text it was parsed from; what matters is which texts parse.  ParseIP    *)
(* reads the text as IPv4 if a '.' comes before any ':', as IPv6 if a ':'  *)
(* comes first.  IPv4 is four decimal fields of value at most 255 without  *)
(* leading zeros; IPv6 is 8 groups of 1 to 4 hex digits, or fewer around   *)
(* one "::", the last two groups possibly written as an IPv4 address.      *)
(***************************************************************************)
RECURSIVE SplitAt(_, _)
SplitAt(s, c) ==
    LET i == SelectInSeq(s, LAMBDA x : x = c)
    IN  IF i = 0 THEN <<s>> ELSE <<SubSeq(s, 1, i - 1)>> \o SplitAt(SubSeq(s, i + 1, Len(s)), c)

DecValue(d) == FoldLeft(LAMBDA acc, x : 10 * acc + x - 48, 0, d)
IsDecOctet(d) ==
    /\ Len(d) \in 1 .. 3 /\ \A i \in DOMAIN d : IsDigit(d[i])
    /\ (Len(d) = 1 \/ d[1] # 48) /\ DecValue(d) <= 255
IsIPv4Literal(s) == LET f == SplitAt(s, Ch_DOT) IN Len(f) = 4 /\ \A i \in 1 .. 4 : IsDecOctet(f[i])

IsHexGroup(g) == Len(g) \in 1 .. 4 /\ \A i \in DOMAIN g : IsHexDigit(g[i])
\* The ':'-separated groups of a piece of an IPv6 text; "" has none.
Groups(p) == IF p = <<>> THEN <<>> ELSE SplitAt(p, Ch_COLON)
\* Well-formed groups, an IPv4 tail allowed last when tail; their width.
GroupsOK(gs, tail) ==
    \A i \in DOMAIN gs : IsHexGroup(gs[i]) \/ (tail /\ i = Len(gs) /\ IsIPv4Literal(gs[i]))
Width(gs) == Len(gs) + (IF gs # <<>> /\ IsIPv4Literal(gs[Len(gs)]) THEN 1 ELSE 0)

IsIPv6Literal(s) ==
    LET ells == {i \in 1 .. Len(s) - 1 : s[i] = Ch_COLON /\ s[i + 1] = Ch_COLON}
        e    == IF ells = {} THEN 0 ELSE Min(ells)
        a    == Groups(SubSeq(s, 1, e - 1))
        b    == Groups(SubSeq(s, e + 2, Len(s)))
    IN  IF e = 0 THEN GroupsOK(SplitAt(s, Ch_COLON), TRUE) /\ Width(SplitAt(s, Ch_COLON)) = 8
        ELSE GroupsOK(a, FALSE) /\ GroupsOK(b, TRUE) /\ Width(a) + Width(b) <= 7

ParseIP(s) ==
    LET sep == SelectInSeq(s, LAMBDA x : x \in {Ch_DOT, Ch_COLON})
    IN  CASE sep # 0 /\ s[sep] = Ch_DOT /\ IsIPv4Literal(s) -> s
          [] sep # 0 /\ s[sep] = Ch_COLON /\ IsIPv6Literal(s) -> s
          [] OTHER -> NoIP

\* GetInetAddress: "" gives nil; a cached address is returned; otherwise
\* the parse is cached, nil included.
GetInetAddress(h) ==
    IF h.hostname = <<>> \/ h.inet # NoIP THEN h ELSE [h EXCEPT !.inet = ParseIP(h.hostname)]

\* GetIpAddress fills the cache only for a host classified HOSTNAME.
GetIpAddress(h) ==
    IF h.hostname # <<>> /\ h.addressType = HOSTNAME /\ h.inet = NoIP
    THEN [h EXCEPT !.inet = ParseIP(h.hostname)] ELSE h

\* Host.Clone copies the name and class, not the cache.
CloneHost(h) == [h EXCEPT !.inet = NoIP]

\* HostPort.Clone: a nil host stays nil.
CloneHostPort(x) == [x EXCEPT !.host = IF @ = NilHost THEN NilHost ELSE CloneHost(@)]

NewHostPort == [host |-> NilHost, port |-> -1]

\* strconv.Itoa
RECURSIVE Digits(_)
Digits(n) == IF n < 10 THEN <<48 + n>> ELSE Digits(n \div 10) \o <<48 + (n % 10)>>
Itoa(n) == IF n < 0 THEN <<45>> \o Digits(-n) ELSE Digits(n)

\* HostPort.String: "" without a host, ":port" only when port # -1.
HostPortString(x) ==
    IF x.host = NilHost THEN <<>>
    ELSE HostString(x.host) \o (IF x.port # -1 THEN <<Ch_COLON>> \o Itoa(x.port) ELSE <<>>)

-----------------------------------------------------------------------------
(* Parsing.  A result is [t, ok, ...] as for the lexer operators.          *)

\* DomainLabel: letters, digits and '-', possibly none; never an error.
LabelChars == {c \in Byte : IsAlpha(c) \/ IsDigit(c)} \cup {45}
DomainLabel(l) == ScanWhile(l, LabelChars, <<>>)

\* Ipv6Reference: hex digits, '.', ':' and '[' up to and including ']';
\* anything else, or the end, is an error after the bytes were consumed.
Ipv6Chars == {c \in Byte : IsHexDigit(c)} \cup {Ch_DOT, Ch_COLON, Ch_LBRACKET}

\* Faulty variant of Ipv6Reference: the closing ']' is consumed but not kept.
Ipv6ReferenceDropsBracket(l) ==
    LET r  == ScanWhile(l, Ipv6Chars, <<>>)
        la == LookAheadK(r.t, 0)
    IN  IF la.ok /\ la.ch = Ch_RBRACKET
        THEN [t |-> ConsumeK(r.t, 1), ok |-> TRUE,  s |-> r.s]
        ELSE [t |-> r.t,              ok |-> FALSE, s |-> r.s]

Ipv6Reference(l) ==
    LET r  == ScanWhile(l, Ipv6Chars, <<>>)
        la == LookAheadK(r.t, 0)
    IN  IF la.ok /\ la.ch = Ch_RBRACKET
        THEN [t |-> ConsumeK(r.t, 1), ok |-> TRUE,  s |-> Append(r.s, Ch_RBRACKET)]
        ELSE [t |-> r.t,              ok |-> FALSE, s |-> r.s]

\* The loop of GetHost: while the next byte is '.', consume it and a label.
RECURSIVE DottedLabels(_, _)
DottedLabels(t, acc) ==
    IF LookAheadK(t, 0).ok /\ LookAheadK(t, 0).ch = Ch_DOT
    THEN LET d == DomainLabel(ConsumeK(t, 1))
         IN  DottedLabels(d.t, acc \o <<Ch_DOT>> \o d.s)
    ELSE [t |-> t, s |-> acc]

\* GetHost: an IPv6 reference after '[', else dotted labels; "" is an error.
GetHost(l) ==
    LET la   == LookAheadK(l, 0)
        v6   == Ipv6Reference(l)
        name == DottedLabels(DomainLabel(l).t, DomainLabel(l).s)
        Done(t, hname) ==
            IF hname = <<>> THEN [t |-> t, ok |-> FALSE, host |-> NilHost]
            ELSE [t |-> t, ok |-> TRUE, host |-> NewHost(hname)]
    IN  CASE la.ok /\ la.ch = Ch_LBRACKET /\ ~v6.ok -> [t |-> v6.t, ok |-> FALSE, host |-> NilHost]
          [] la.ok /\ la.ch = Ch_LBRACKET          -> Done(v6.t, v6.s)
          [] OTHER                                 -> Done(name.t, name.s)

\* Faulty variant of GetHostPort: Number is called without consuming the ':'.
GetHostPortKeepsColon(l) ==
    LET h  == GetHost(l)
        la == LookAheadK(h.t, 0)
        n  == Number(h.t)
    IN  CASE ~h.ok                          -> [t |-> h.t, ok |-> FALSE, hp |-> NilHostPort]
          [] ~(la.ok /\ la.ch = Ch_COLON)   -> [t |-> h.t, ok |-> TRUE,
                                                hp |-> [host |-> h.host, port |-> -1]]
          [] ~n.ok                          -> [t |-> n.t, ok |-> FALSE, hp |-> NilHostPort]
          [] OTHER                          -> [t |-> n.t, ok |-> TRUE,
                                                hp |-> [host |-> h.host, port |-> n.n]]

\* GetHostPort: a host, then ':' and a Number when ':' follows.  A failed
\* Number returns nil with the host and the ':' consumed.
GetHostPort(l) ==
    LET h  == GetHost(l)
        la == LookAheadK(h.t, 0)
        n  == Number(ConsumeK(h.t, 1))
    IN  CASE ~h.ok                          -> [t |-> h.t, ok |-> FALSE, hp |-> NilHostPort]
          [] ~(la.ok /\ la.ch = Ch_COLON)   -> [t |-> h.t, ok |-> TRUE,
                                                hp |-> [host |-> h.host, port |-> -1]]
          [] ~n.ok                          -> [t |-> n.t, ok |-> FALSE, hp |-> NilHostPort]
          [] OTHER                          -> [t |-> n.t, ok |-> TRUE,
                                                hp |-> [host |-> h.host, port |-> n.n]]

-----------------------------------------------------------------------------
(***************************************************************************)
(* The state machine: a header parser's lexer over one buffer and the      *)
(* HostPort the caller holds.  The caller parses a host[:port] or a piece  *)
(* of one, skips a byte, or builds and edits a HostPort with the API.      *)
(***************************************************************************)
VARIABLE hp

hostVars == <<lx, mark, status, hp>>

HostInit == Init /\ hp = NilHostPort

\* A parsing call: the lexer moves, the held HostPort is the caller's.
HostStep(r) == lx' = r.t /\ UNCHANGED <<mark, status, hp>>

\* hp' = the HostPort returned (nil on error).
DoGetHostPort ==
    LET r == GetHostPort(lx) IN lx' = r.t /\ hp' = r.hp /\ UNCHANGED <<mark, status>>

DoGetHost       == HostStep(GetHost(lx))
DoDomainLabel   == HostStep(DomainLabel(lx))
DoIpv6Reference == HostStep(Ipv6Reference(lx))
DoSkipByte      == HostStep(GetNextChar(lx))

\* An edit of the held HostPort; the lexer is untouched.
Edit(new) == hp' = new /\ UNCHANGED <<lx, mark, status>>
Held      == hp # NilHostPort
HeldHost  == Held /\ hp.host # NilHost

DoNewHostPort      == Edit(NewHostPort)
DoSetHost(n)       == Held /\ Edit([hp EXCEPT !.host = NewHost(n)])
DoSetHostName(n)   == HeldHost /\ Edit([hp EXCEPT !.host = SetHostName(@, n)])
DoSetHostAddress(n) == HeldHost /\ Edit([hp EXCEPT !.host = SetHostAddress(@, n)])
DoSetPort(p)       == Held /\ Edit([hp EXCEPT !.port = p])
DoRemovePort       == Held /\ Edit([hp EXCEPT !.port = -1])
DoGetInetAddress   == HeldHost /\ Edit([hp EXCEPT !.host = GetInetAddress(@)])
DoGetIpAddress     == HeldHost /\ Edit([hp EXCEPT !.host = GetIpAddress(@)])
\* The caller replaces its HostPort with a clone of it.
DoClone            == Held /\ Edit(CloneHostPort(hp))

HostNext ==
    \/ DoGetHostPort \/ DoGetHost \/ DoDomainLabel \/ DoIpv6Reference \/ DoSkipByte
    \/ DoNewHostPort \/ DoRemovePort \/ DoGetInetAddress \/ DoGetIpAddress \/ DoClone
    \/ \E n \in HostNames : DoSetHost(n) \/ DoSetHostName(n) \/ DoSetHostAddress(n)
    \/ \E p \in Ports : DoSetPort(p)

HostSpec == HostInit /\ [][HostNext]_hostVars

-----------------------------------------------------------------------------
(* Properties *)

HostType == [hostname : Seq(Byte), addressType : {HOSTNAME, IPV4ADDRESS, IPV6ADDRESS},
             inet : Seq(Byte) \cup {NoIP}]

HostTypeOK ==
    /\ hp \in {NilHostPort} \cup [host : HostType \cup {NilHost}, port : Int]
    /\ lx.ptr \in 0 .. Len(lx.buf)

(***************************************************************************)
(* The inetAddress the held host caches is the address of the name it has *)
(* now: SetHostName and SetHostAddress drop the cache whenever they        *)
(* reclassify, also when they keep the old name, and Clone does not copy  *)
(* it, so GetInetAddress and GetIpAddress never answer for a name the host *)
(* no longer has.                                                          *)
(***************************************************************************)
CachedAddressIsCurrent ==
    HeldHost /\ hp.host.inet # NoIP => hp.host.inet = ParseIP(hp.host.hostname)

\* What GetHostPort makes of a string, from the start of a new lexer.
ReparseHostPort(s) == GetHostPort(NewCoreLexer(LexerName, s))

(***************************************************************************)
(* Parse, String, parse: a HostPort that GetHostPort returns was read from *)
(* the input (the host name is the text at the cursor), and its encoding   *)
(* parses back, consuming all of it, to the same host and port.  This      *)
(* ties DomainLabel, the dotted-label loop, Ipv6Reference's brackets,      *)
(* Number's digits and HostPort.String together.                           *)
(***************************************************************************)
ParsedHostPortsReencode ==
    LET r  == GetHostPort(lx)
        e  == HostPortString(r.hp)
        rr == ReparseHostPort(e)
    IN  r.ok =>
            /\ Text(lx, lx.ptr, lx.ptr + Len(r.hp.host.hostname)) = r.hp.host.hostname
            /\ rr.ok /\ rr.hp = r.hp /\ rr.t.ptr = Len(e)

(***************************************************************************)
(* A failed GetHostPort returns nil but does not rewind: what it consumed  *)
(* is either nothing (no host at the cursor), an unterminated '[' IPv6      *)
(* reference, or a whole host, the ':' after it and the digits Number      *)
(* rejected (none, or a value above MaxInt).  A caller that wants to try   *)
(* another grammar at the same place must have marked the position; this   *)
(* says exactly how far it has to rewind, and that the ':' is consumed     *)
(* before Number runs.                                                     *)
(***************************************************************************)
FailedHostPortConsumption ==
    LET r == GetHostPort(lx)
        h == GetHost(lx)
        u == Text(lx, lx.ptr, r.t.ptr)
        d == Text(lx, h.t.ptr + 1, r.t.ptr)
    IN  ~r.ok =>
            \/ u = <<>>
            \/ u[1] = Ch_LBRACKET /\ Ch_RBRACKET \notin Range(u)
            \/ /\ h.ok /\ r.t.ptr > h.t.ptr /\ lx.buf[h.t.ptr + 1] = Ch_COLON
               /\ \A j \in DOMAIN d : IsDigit(d[j])
               /\ d = <<>> \/ DecimalValue(d) > MaxInt

(***************************************************************************)
(* Host.String is "the host name in encoded form": whatever HostPort the   *)
(* caller holds, built by parsing or through NewHost and the setters, its  *)
(* String() parses back to a HostPort with the same port that encodes to   *)
(* the same text.  NewHost never classifies a name as IPv6, so a name      *)
(* with ':' is written without brackets; SetHostName("") reclassifies the  *)
(* host but keeps the old name.                                            *)
(***************************************************************************)
HeldHostPortsReparse ==
    HeldHost =>
        LET e  == HostPortString(hp)
            rr == ReparseHostPort(e)
        IN  /\ rr.ok /\ rr.t.ptr = Len(e)
            /\ rr.hp.port = hp.port
            /\ HostPortString(rr.hp) = e
=============================================================================
