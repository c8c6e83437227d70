------------------------------ MODULE CoreParser ------------------------------
(***************************************************************************)
(* The parser base of src/core/CoreParser.go: the name [sep value]         *)
(* production every parameter grammar uses, run on the lexer of CoreLexer. *)
(* The debug trace hooks (Dbg_enter, Dbg_leave, PeekLine) only print when  *)
(* Debug.ParserDebug is set and change no parsing state: not modelled.     *)
(***************************************************************************)
EXTENDS CoreLexer, NameValue

CONSTANT Separators   \* separator bytes callers pass to NameValue

(***************************************************************************)
(* NameValue(separator): an ID, optional blanks, and when the separator    *)
(* follows, optional blanks and either a quoted string or another ID.      *)
(* QuotedString's error is discarded.  Without the separator the value is  *)
(* the empty string, not nil.  A failure returns with the input consumed   *)
(* so far.                                                                 *)
(***************************************************************************)
ParseNameValue(lx0, separator) ==
    LET m    == Match(lx0, CORELEXER_ID)
        name == m.t.currentMatch.tokenValue
        t1   == SPorHT(m.t)
        la   == LookAheadK(t1, 0)
        t2   == SPorHT(ConsumeK(t1, 1))
        la2  == LookAheadK(t2, 0)
        q    == QuotedString(t2)
        v    == Match(t2, CORELEXER_ID)
    IN  IF ~m.ok THEN [t |-> m.t, ok |-> FALSE, nv |-> NilValue]
        ELSE IF ~(la.ch = separator /\ la.ok)
        THEN [t |-> t1, ok |-> TRUE, nv |-> NewNameValue(name, <<>>)]
        ELSE IF la2.ch = 34 /\ la2.ok
        THEN [t |-> q.t, ok |-> TRUE, nv |-> SetQuotedValue(NewNameValue(name, q.s))]
        ELSE IF ~v.ok THEN [t |-> v.t, ok |-> FALSE, nv |-> NilValue]
        ELSE [t |-> v.t, ok |-> TRUE,
              nv |-> NewNameValue(name, v.t.currentMatch.tokenValue)]

DoNameValue(separator) == Running /\ Step(ParseNameValue(lx, separator))

(***************************************************************************)
(* The caller of a parameter grammar: between NameValue calls it matches   *)
(* the list separators, skips blanks, reads quoted strings and single      *)
(* bytes, and marks and rewinds to try alternatives.                       *)
(***************************************************************************)
ParserNext ==
    \/ \E sep \in Separators : DoNameValue(sep)
    \/ \E tok \in MatchTokens : DoMatch(tok)
    \/ DoSPorHT \/ DoQuotedString \/ DoGetNextChar
    \/ DoMarkInputPosition \/ DoRewindInputPosition

ParserSpec == Init /\ [][ParserNext]_vars

-----------------------------------------------------------------------------
(* Properties *)

\* What a parser makes of the encoding of nv, from the start of a new lexer.
Reparse(nv, separator) ==
    ParseNameValue(NewCoreLexer(LexerName, NameValueString(nv)), separator)

RoundTrips(r, separator) ==
    LET rr == Reparse(r.nv, separator)
    IN  /\ rr.ok
        /\ rr.nv = r.nv
        /\ rr.t.ptr = Len(NameValueString(r.nv))

(***************************************************************************)
(* Parse then String then parse: a parameter parsed with a value (after    *)
(* the separator, quoted or not) encodes to text that parses back to the   *)
(* same name, value and quoting, consuming the whole encoding.             *)
(***************************************************************************)
ValuedParametersRoundTrip ==
    \A sep \in Separators :
        LET r == ParseNameValue(lx, sep)
        IN  (r.ok /\ (r.nv.isQuotedString \/ r.nv.value # <<>>)) => RoundTrips(r, sep)

(***************************************************************************)
(* Every parsed parameter round-trips, bare names included: a name without *)
(* a value encodes as the bare name and parses back as one.                *)
(***************************************************************************)
ParametersRoundTrip ==
    \A sep \in Separators :
        LET r == ParseNameValue(lx, sep) IN r.ok => RoundTrips(r, sep)

(***************************************************************************)
(* A malformed quoted value is a parse failure: when NameValue succeeds    *)
(* with a quoted value, the input held the opening quote, the value's      *)
(* bytes and an unescaped closing quote, and the call consumed through it. *)
(***************************************************************************)
QuotedValuesAreTerminated ==
    \A sep \in Separators :
        LET r   == ParseNameValue(lx, sep)
            val == r.nv.value
        IN  (r.ok /\ r.nv.isQuotedString) =>
                /\ WellEscaped(val, 34)
                /\ r.t.ptr >= Len(val) + 2
                /\ Text(lx, r.t.ptr - Len(val) - 2, r.t.ptr) = <<34>> \o val \o <<34>>

(***************************************************************************)
(* What NameValue accepts is a parameter of the grammar: every parameter   *)
(* it returns re-encodes to text that parses back to it, and a quoted      *)
(* value was closed in the input.                                          *)
(***************************************************************************)
ParsedParametersAreWellFormed == ParametersRoundTrip /\ QuotedValuesAreTerminated
=============================================================================
