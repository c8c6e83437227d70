-------------------------- MODULE MC_HostNameParser --------------------------
(***************************************************************************)
(* Instantiation of HostNameParser for TLC.  Buffers are every string of   *)
(* up to four bytes over a (a hex letter), a digit, '-', '.', ':', '[' and *)
(* ']': dotted names, a trailing '.', bracketed references, a reference   *)
(* cut short by a byte it does not allow, a port, a two-digit port above  *)
(* MaxInt (10 in the cfg) and a ':' with no digits all occur.  The        *)
(* caller's strings are "a::1", a name with ':' that is also an IPv6      *)
(* address ParseIP accepts, an upper case name, and "".                    *)
(***************************************************************************)
EXTENDS HostNameParser

CONSTANTS T1   \* the lexer name "charLexer"

NoPreload == <<>>

HostBuffers == UNION {[1 .. k -> {97, 49, 45, 46, 58, 91, 93}] : k \in 0 .. 4}

CallerHostNames == {<<97, 58, 58, 49>>, <<65>>, <<>>}

CallerPorts == {0, 7}
=============================================================================
