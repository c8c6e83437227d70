# TLA+ models of the gosips parsing core

This directory holds TLA+ models of the parts of gosips (`src/`) that keep state:
- the byte cursor;
- the keyword lexer;
- the parameter parser;
- the name/value association list;
- the host[:port] parser and its Host and HostPort values;
- the RTP packet codec.

TLC checks each model against properties that the code's callers rely on. Every definition is translated from the Go source. `PROJECT.json` maps each definition to the lines it models and lists the runs, the seeded faults ("mutants"), the findings and the hazards.

## The system

| Part | Source | State | Operations |
|---|---|---|---|
| Cursor | `core/StringTokenizer.go` | `buffer`, `ptr`, `savedPtr` | `LookAheadK`, `GetNextChar`, `Consume` (jump to `savedPtr`), `ConsumeK`, `GetLine`, `NextToken`, `GetLines`, `GetNextTokenByDelim` |
| Lexer | `core/CoreLexer.go` (embeds the cursor) | keyword tables (`lexerTables`, `currentLexer`, `globalSymbolTable`), `currentMatch` | `AddLexer`, `SelectLexer`, `AddKeyword`, `Match`, `PeekNextToken(K)`, `PeekNextId`, `Ttoken`, `SPorHT`, `QuotedString`, `Comment`, `Number`, `GetString`, byte-string scanners, mark/rewind |
| Parser base | `core/CoreParser.go` | a lexer | `NameValue(sep)`: `ID [SP] [sep [SP] (quoted \| ID)]` |
| Association value | `core/NameValue.go` | name, value, separator, quotes | constructor, setters, `String()` |
| Association list | `core/NameValueList.go` | a `container/list` of `*NameValue` | add, set (delete then append), delete first match, lookups, `Concatenate`, `Clone`, `String` |
| Host parsing | `core/HostNameParser.go`, `Host.go`, `HostPort.go` | a lexer; the HostPort the caller holds, its Host's cached `inetAddress` | `GetHostPort`, `GetHost`, `DomainLabel`, `Ipv6Reference`; `NewHost`, `SetHostName`, `SetHostAddress`/`SetAddress`, `GetInetAddress`, `GetIpAddress`, `Clone`, `NewHostPort`, `SetHost`, `SetPort`, `RemovePort`, `String` |
| Header parser | `parser/HeaderParser.go` | lexer | not modelled (does not compile) |
| Logging | `core/LogWriter.go`, `core/Debug.go` | log file handle, line count | not modelled (file output) |
| RTP codec | `rtp/rtppacket.go` | packet bytes, header, extension, payload | `NewPacket`, `BuildPacket`, `NewRTPPacketFromRawPacket`, `ParseRawPacket` |

How the parts interact:
- A header parser owns a lexer. It registers keywords into named tables, selects a table, then alternates peeks and matches.
- A peek records where the token ends in `savedPtr`. `Consume` jumps there.
- `Match` consumes and records `currentMatch`, which `GetNextToken` returns.
- `NameValue` runs this sequence for one parameter. Its results are stored in a `NameValueList` and encoded back with `String()`.
- `HostNameParser` runs `DomainLabel`, `Ipv6Reference` and `Number` on its lexer and builds a `HostPort`, which callers edit with the setters and encode with `String()`.
- The RTP codec stands apart: it lays a packet out from its fields and reads a received one back.

Everything runs on one goroutine. The hard parts are not concurrency. They are:
- the order of calls, where one call leaves state (`savedPtr`, `currentMatch`, a selected table, consumed input) that a later call trusts;
- errors that are dropped;
- boundaries: the end of the buffer, an empty list, integer overflow, and bytes ≥ 0x80.

## Modules

- **`StringTokenizer`**: the cursor record `[buf, ptr, savedPtr]`.
  - Bytes are integers 0..255. Positions are 0-based, as in Go.
  - Every method is a pure operator that returns the new record and the Go results (`ok` is FALSE when the error is non-nil).
  - The scanning loops are one RECURSIVE `ScanWhile`, as in the code.
  - `StringOfByte` models Go's `string(b)`: a two-byte UTF-8 sequence for b ≥ 0x80.
- **`CoreLexer`**: extends the cursor record with the lexer's fields.
  - Go maps are references, so the tables are one function `maps`, keyed by table name. `Anon` is the unnamed map the constructor makes. `NilTable` is the nil map that `SelectLexer` of an unknown name produces.
  - The state machine has `lx`, `mark` (the caller's `MarkInputPosition`) and `status` (`"panicked"` ends the program).
  - `Next` is a caller issuing any lexer call with arguments from small constant sets. Each action is one whole Go method.
- **`NameValue`**: the association value record and `String()`.
- **`CoreParser`**: `ParseNameValue` is the whole `NameValue` method over the lexer operators, in the code's order. The errors it discards are discarded here too.
  - `ParserNext` is the caller of a parameter grammar: `NameValue`, separator matches, blanks, quoted strings, single bytes, mark and rewind.
- **`ParserLoop`** extends `CoreParser`. It is the same caller, but `QuotedString` (CoreLexer.go:357-384) is taken one loop iteration at a time:
  - `CallQuotedString` is the entry check and the consumed opening quote;
  - `LoopIteration` is one pass of the `for` loop, with the second `GetNextChar` after a backslash whose error is ignored;
  - `pc` is `"loop"` while the call runs.
  - The caller's other calls are allowed only between iterations. The string the loop builds is not state; the cursor is.
- **`NameValueList`**: `lists` maps list ids to sequences of elements. An element is a NameValue record, or `ListElement`, which stands for the `*list.Element` that `Concatenate` stores.
  - Every method that type-asserts an element panics on a `ListElement`.
  - `status` is `"panicked"` after a panic and `"hung"` after a call that never returns.
- **`HostNameParser`** extends `CoreLexer`. A Host is `[hostname, addressType, inet]`, `inet` being the `inetAddress` cache (`NoIP` for nil). A HostPort is `[host, port]`, port -1 meaning none.
  - `ParseIP` models `net.ParseIP` by which texts it accepts: dotted IPv4 with four fields of at most 255 and no leading zeros, and IPv6 with eight hex groups or fewer around one `::`, the last possibly an IPv4 address. An accepted address is represented by its text.
  - `GetInetAddress` and `GetIpAddress` fill the cache (the latter only for a host classified `HOSTNAME`); the setters empty it; `Clone` does not copy it.
  - The parsing operators are built on the lexer operators; the `GetHost` loop over dotted labels is the RECURSIVE `DottedLabels`.
  - `hp` is the HostPort the caller holds: `DoGetHostPort` replaces it with the parse result (nil on error); the edit actions apply one setter each.
  - `Itoa`, `TrimSpace` and `ToLower` model `strconv.Itoa` and the `strings` calls by what they do on bytes.
- **`RtpPacket`**: a packet is `[receivetime, packet, header, extension, payload]`. `NewPacket` sets the receive time to zero and `NewRTPPacketFromRawPacket` to the raw packet's; `ParseRawPacket` and `BuildPacket` leave it alone. `RTPHeader`, `RTPExtension`, `RawPacket` and the `RTP_*`/`SIZEOF_*` constants are not in the repository, so the model assumes:
  - the constants have their RFC 3550 values (CONSTANTS set in the cfg);
  - a header or extension is the record of the fields the codec reads; `Encode` writes filler bytes of its size, and a received packet carries the record its `Parse` would read;
  - `RTPHeader.Parse` fails only on data shorter than the fixed header, `RTPExtension.Parse` only on data shorter than the extension header.
  - `last` is a history variable naming the call that produced the held packet; `status` records which call panicked.
- **`Cursor`, `LexerContexts`, `AssociationList`**: abstract specifications of what `spec.md` promises (see *Refinement* below). They model the specification, not the code.
- **`MC_CoreLexer`, `MC_CoreParser`, `MC_NameValueList`, `MC_HostNameParser`, `MC_RtpPacket`**: the constant definitions (alphabets, buffer sets, preloaded keyword tables) for TLC.

Properties are state invariants that range over every call possible from the current state (for example, `\A tok \in MatchTokens : LET r == Match(lx, tok) IN ...`). Every reachable lexer state therefore checks what each call would return. The scanners are checked against reference definitions written independently of the loops:
- `IsMaximalRun` (sets);
- `DecimalValue` (recursion);
- `WellEscaped` (recursion).

## Runs

| Run | Expect | Checks |
|---|---|---|
| `lexer_match` | pass | Over every 3-byte buffer of `a B 1 SP = ; , LF`, with keywords `AB` and `B` preloaded and `MaxInt` = 11 (so two-digit overflow happens), these hold after any call sequence: a successful `Match` returns a token of the requested type whose value is the consumed text, and sets `currentMatch`; a failed match consumes nothing, except the identifier run of a keyword match; `PeekNextToken` then `Match` of its type agree on token and end position; every scanner (`Ttoken`, `SPorHT`, the byte strings, `Number`) takes the maximal run, and `Number` fails exactly above `MaxInt`. The lexer refines the specification's cursor (`CursorRefinement`). |
| `lexer_tables` | pass | The caller creates, selects and fills tables between matches (in-band codes); peek and match stay in agreement, and a successful match returns the text it consumed. Deadlock is not checked: the reachable panic ends the program. |
| `lexer_nil_token` | violation | A call that returns a nil error returns a token. `Match(WHITESPACE)` returns the previous token (nil at the start), and `PeekNextToken` at the end of the buffer returns nil: both with a nil error. |
| `lexer_contexts` | violation | The lexer against the specification's keyword tables (`KeywordTablesRefinement`). Keywords added right after `NewCoreLexer` go into a map stored under no name, and `AddLexer` of the grammar's own name then makes a fresh empty table current: the keywords are lost. `SelectLexer` of a name never added, then `AddKeyword`, panics on the nil map. |
| `parser_roundtrip` | pass | Over 5-byte buffers of `a = " \ SP ( )`: every valued parameter that `NameValue('=')` accepts encodes with `String()` to text that parses back to the same parameter; `QuotedString` and `Comment` succeed exactly when a closing byte that no backslash escapes is present, and return the body. With `QuotedString` taken one iteration at a time (`ParserLoop`), every call returns (`QuotedStringReturns`, under weak fairness of the loop). |
| `parser_malformed_params` | violation | Every accepted parameter round-trips and every quoted value is terminated. A bare name parses with value `""` and encodes as `a=`, which does not parse; `a="` is accepted as a quoted value. |
| `list_set` | pass | On two lists of up to 3 entries, `SetNameAndValue` on a list with at most one entry of the name leaves exactly the new entry and every other element in its place and order. Deadlock is not checked: panics and the non-terminating `Concatenate` end the program. |
| `list_spec` | violation | The list against the specification's association list (`AssociationListSpec`). `Concatenate` stores `*list.Element` values, panics into an empty list and loops on itself; with two entries of a name, `SetNameAndValue` leaves the second; `Clone` returns an empty list. |
| `host_roundtrip` | pass | Over every buffer of up to 4 bytes of `a 1 - . : [ ]`, with HostPort edits in between: a HostPort that `GetHostPort` returns was read from the input, and its `String()` parses back, consuming all of it, to the same host and port. The `inetAddress` a host caches is always what its current name parses to (`CachedAddressIsCurrent`). A failed `GetHostPort` does not rewind; `FailedHostPortConsumption` pins down what it leaves consumed: nothing, an unterminated `[` reference, or a whole host, the `:` and the digits `Number` rejected. |
| `host_unbracketed` | violation | A HostPort built with `NewHost("a::1")` (or made IPv6 and then renamed with `SetHostName("")`) encodes without brackets, as text that does not parse back to the same host. |
| `rtp_roundtrip` | pass | Every packet `BuildPacket`/`NewPacket` accepts is accepted by `ParseRawPacket`, which reads back the same header and extension and finds the payload where the builder put it. `ParsesDoNotDependOnHeldPacket`: `ParseRawPacket` called in place on whatever packet the caller holds (built, parsed, or half-updated by a failed parse) gives the same verdict, bytes, header and extension as `NewRTPPacketFromRawPacket`. Only the payload and the receive time survive, the two fields `ParseRawPacket` never assigns; the stale receive time is listed as a hazard. Deadlock is not checked: a panic ends the program. |
| `rtp_payload` | violation | `ParseRawPacket` never assigns `rp.payload`; and a header with the extension bit and more CSRC words than the data holds makes the slice at line 69 panic. |
Every property of a passing run has a mutant in `PROJECT.json`. A mutant is a faulty variant of a mapped operator, defined just before it (for example, `MatchKeywordCaseSensitive` or `ScanWhileShort`), and TLC finds the property violated when it replaces the original.

### Bounds

The bounds are chosen so that each case the properties distinguish happens:
- Buffers of 3 to 5 bytes contain an identifier, a separator and a value; an escape with its closing byte; a run that reaches the end of the buffer; and a keyword in both cases.
- `MaxInt` (the largest value `strconv.Atoi` accepts) is scaled down from 2^63−1 to 11 in the lexer runs, 10 in the host run (so that the port `11` overflows) and 99 in the parser run, so that overflow happens within the buffer length. The code's logic at overflow does not depend on the width.
- Lists of up to 3 entries hold two entries of one name plus a concatenated element.
- Host buffers are every string of up to 4 bytes over `a 1 - . : [ ]`. They hold a dotted name, a bracketed IPv6 reference with and without its `]`, and a host followed by a port, by a port above `MaxInt`, or by `:` with no digits. The caller's names are `a::1` (IPv6 by `isIPv6Address`, and an address `net.ParseIP` accepts, so the cache fills), `A` (lower-cased by `SetHostName`) and `""`; ports 0 and 7.
- RTP arguments cover payload types 0, 72 (refused as RTCP-like) and 128; 0, 1 and 16 CSRCs (16 > `RTP_MAXCSRCS`); CSRC and extension slices shorter than their counts; extensions of 0 and 1 words; payloads of 0 and 1 bytes. Received packets are 11, 12 and 16 bytes of filler plus a short tail whose last byte is the padding count, with headers that declare versions 1 and 2, padding, 0 or 1 CSRC and extensions the data may or may not hold.

### Fairness

The code is sequential, and a caller may stop at any time, so the caller's calls get no fairness. The one liveness property is about a loop inside a call. In `ParserLoop`, `LoopSpec` has weak fairness of `LoopIteration`: once the program is inside `QuotedString` it runs the next iteration, because nothing else runs. Under it, `QuotedStringReturns` (`pc = "loop" ~> pc = "idle"`) says every call returns. A loop that ignored `GetNextChar`'s error at its top, as it does after a backslash, would spin at the end of the buffer; the mutant `LoopIterationIgnoresEof` shows TLC finds that.

### Refinement

Three abstract specifications state what `spec.md` promises, and the code is checked against them with `INSTANCE ... WITH` and the abstract `Spec` as a PROPERTY:
- **`Cursor`** (spec §3, §4.1, property 3): the buffer never changes; reads move the position forward within the buffer; a peek moves only the saved position; `Consume` moves to the saved position; a rewind goes to a mark taken earlier. The mapping is `buf`, `pos`, `saved` and `mk` from `lx.buf`, `lx.ptr`, `lx.savedPtr` and `mark`. `lexer_match` passes. The mutant `PeekNextIdNoRestore` (a peek that leaves the cursor after the identifier) breaks it.
- **`LexerContexts`** (spec §3, §4.2, §7): named keyword tables, one current; selecting a name makes it current; a keyword goes into the current table; nothing is fatal. The mapping takes the tables from `lx.maps`, the constructor's map standing for the grammar's name. `lexer_contexts` is violated (see the runs).
- **`AssociationList`** (spec §3, §4.4): an ordered list of name/value entries with add, set (remove all of the name, then append), delete (first of the name), concatenate and clone. Each list element maps to its name and value. `list_spec` is violated.

Further disagreements are listed as hazards in `PROJECT.json` without a run of their own:
- `AddKeyword` accepts codes outside the keyword band;
- `Match` of a byte ≥ 0x80 returns a two-byte value;
- `GetIpAddress` of a host classified `HOSTNAME` whose name is not an address returns the text `<nil>` (the DNS lookup of the Java original is commented out).

## Not modelled

- `HeaderParser` (`parser/HeaderParser.go`): it does not compile. It imports a `gosip/header` package and uses `ParserImpl` and `core.SIPDateNames`, none of which are in the repository, and `Parse` assigns the two results of `GetNextTokenByDelim` to one variable. The cursor calls it intends are modelled in `StringTokenizer`.
- Logging (`LogWriter.go`, `Debug.go`) is file output, outside the specification's scope. `LogMessage` returns at once, because `needsLogging` starts false and nothing sets it. `LogMessageToFile` opens its file with `os.O_APPEND` alone, which is read-only, so its writes fail. It also leaves `printWriter` on the file it closed. Also not modelled: `Dbg_enter`/`Dbg_leave` and `NameValueList.Sprint`.
- The SIP header wrappers in `sip/header`: they build on `SIPHeaderList`, which is not in the repository.
- The `NameValueList` separator and the text of `String()`: only the panic that `String()` can raise is modelled.
- `NewHostNameParserFromLexer`, and the Host and HostPort getters that only read a field (`GetHostName`, `GetAddress`, `IsHostName`, `IsIPAddress`, `GetHost`, `GetPort`, `HasPort`, and `HostPort.GetInetAddress`, which parses without caching).
- The RTP header and extension codecs themselves, which are not in the repository (see the assumptions above), and the sequence number, timestamp and SSRC, which the codec only passes through. A raw packet's receive time is a small number, derived in `MC_RtpPacket` from the length of its tail. The RTP getters only read fields.

## Plan for the next modules

1. A history variable for the last peek, to state what `Consume` may do after other calls (the stale `savedPtr` hazard). `Cursor` allows `Consume` to go to the saved position from anywhere, as the code does.
2. `GetString`'s loop taken step by step, like `QuotedString`'s. It restores the cursor at the end of the buffer.
3. The RTP getters. After a failed in-place `ParseRawPacket` the header is the new one and the extension the old one, so `HasExtension` and the extension getters can disagree. `ParsesDoNotDependOnHeldPacket` shows that this leftover does not survive the next successful parse. No property covers the getters read before that parse.
