------------------------------ MODULE CoreLexer ------------------------------
(***************************************************************************)
(* The lexer of src/core/CoreLexer.go.  A lexer is the tokenizer record    *)
(* of StringTokenizer extended with                                        *)
(*   currentMatch      the token of the last successful Match, or Nil;     *)
(*   lexerTables       the set of table names created by AddLexer;         *)
(*   maps              the keyword maps, keyed by reference: a table name, *)
(*                     or Anon for the unnamed map the constructor makes;  *)
(*   currentLexer      the reference of the current map, NilTable for the  *)
(*                     nil map SelectLexer returns for an unknown name;    *)
(*   currentLexerName  the name last set;                                  *)
(*   globalSymbolTable code -> first spelling registered for it.           *)
(* Go maps are references, so AddKeyword through currentLexer updates the  *)
(* map that lexerTables holds under the same name: here both are the one   *)
(* entry maps[currentLexer].                                               *)
(*                                                                         *)
(* The first part gives every method as a pure operator; the second part   *)
(* is the state machine of a caller issuing any sequence of calls.         *)
(***************************************************************************)
EXTENDS StringTokenizer, FiniteSets, TLC

CONSTANTS
    Nil,       \* the nil *Token
    NilTable,  \* the nil LexerMap
    Anon,      \* the LexerMap made by NewCoreLexer, in no table
    MaxInt     \* the largest value strconv.Atoi accepts

CORELEXER_START      == 2048
CORELEXER_END        == CORELEXER_START + 2048
CORELEXER_ID         == CORELEXER_END - 1
CORELEXER_WHITESPACE == CORELEXER_END + 1
CORELEXER_DIGIT      == CORELEXER_END + 2
CORELEXER_ALPHA      == CORELEXER_END + 3

\* Codes strictly inside the keyword band
KeywordBand == (CORELEXER_START + 1) .. (CORELEXER_END - 1)

\* The bytes Ttoken accepts: alphanumerics and - . ! % * _ + ` ' ~
IdChars == {c \in Byte : IsAlpha(c) \/ IsDigit(c)}
             \cup {45, 46, 33, 37, 42, 95, 43, 96, 39, 126}

Token(value, type) == [tokenValue |-> value, tokenType |-> type]

UpperSeq(s) == [i \in DOMAIN s |-> ToUpperByte(s[i])]

EmptyMap == [s \in {} |-> 0]

NewCoreLexer(lexerName, buffer) ==
    [buf               |-> buffer,
     ptr               |-> 0,
     savedPtr          |-> 0,
     currentMatch      |-> Nil,
     lexerTables       |-> {},
     maps              |-> (Anon :> EmptyMap),
     currentLexer      |-> Anon,
     currentLexerName  |-> lexerName,
     globalSymbolTable |-> EmptyMap]

\* Reading a nil Go map yields no entry.
CurrentMap(lx) ==
    IF lx.currentLexer = NilTable THEN EmptyMap ELSE lx.maps[lx.currentLexer]

-----------------------------------------------------------------------------
(* Keyword tables *)

\* Writing into the nil map panics.
AddKeyword(lx, name, value) ==
    IF lx.currentLexer = NilTable
    THEN [lx |-> lx, panic |-> TRUE]
    ELSE [lx |-> [lx EXCEPT
            !.maps[lx.currentLexer] = (name :> value) @@ @,
            !.globalSymbolTable =
                IF value \in DOMAIN @ THEN @ ELSE (value :> name) @@ @],
          panic |-> FALSE]

\* Makes the named map current, creating it; the current name is untouched.
AddLexer(lx, lexerName) ==
    IF lexerName \in lx.lexerTables
    THEN [lx EXCEPT !.currentLexer = lexerName]
    ELSE [lx EXCEPT !.currentLexer = lexerName,
                    !.lexerTables  = @ \cup {lexerName},
                    !.maps         = (lexerName :> EmptyMap) @@ @]

SelectLexer(lx, lexerName) ==
    [lx EXCEPT !.currentLexer =
                   IF lexerName \in lx.lexerTables THEN lexerName ELSE NilTable,
               !.currentLexerName = lexerName]

SetLexerName(lx, lexerName) == [lx EXCEPT !.currentLexerName = lexerName]

-----------------------------------------------------------------------------
(* Scanning *)

StartsId(lx) == LookAheadK(lx, 0).ok /\ LookAheadK(lx, 0).ch \in IdChars

\* Ttoken and GetNextId
Ttoken(lx) == ScanWhile(lx, IdChars, <<>>)

TtokenAllowSpace(lx) == ScanWhile(lx, IdChars \cup {32, 9}, <<>>)

SPorHT(lx) == ScanWhile(lx, {32, 9}, <<>>).t

\* Faulty variant of PeekNextId: the position is not restored.
PeekNextIdNoRestore(lx) ==
    LET r == Ttoken(lx)
    IN  [t |-> [r.t EXCEPT !.savedPtr = r.t.ptr], s |-> r.s]

PeekNextId(lx) ==
    LET r == Ttoken(lx)
    IN  [t |-> [lx EXCEPT !.savedPtr = r.t.ptr], s |-> r.s]

ByteStringNoSemicolon(lx) == ScanWhile(lx, Byte \ {LF, 59}, <<>>)

ByteStringNoComma(lx) == ScanWhile(lx, Byte \ {LF, 44}, <<>>)

\* strconv.Atoi on a run of decimal digits
Atoi(s) ==
    LET v == FoldLeft(LAMBDA acc, d : 10 * acc + (d - 48), 0, s)
    IN  IF v > MaxInt THEN [ok |-> FALSE, n |-> 0] ELSE [ok |-> TRUE, n |-> v]

\* The digits are consumed even when Atoi then fails.
Number(lx) ==
    LET la == LookAheadK(lx, 0)
        r  == ScanWhile(lx, {c \in Byte : IsDigit(c)}, <<>>)
    IN  IF ~la.ok \/ ~IsDigit(la.ch)
        THEN [t |-> lx, ok |-> FALSE, n |-> -1]
        ELSE IF Atoi(r.s).ok
             THEN [t |-> r.t, ok |-> TRUE,  n |-> Atoi(r.s).n]
             ELSE [t |-> r.t, ok |-> FALSE, n |-> -1]

-----------------------------------------------------------------------------
(* Matching.  A result is [t, ok, tok]: the lexer after the call, whether  *)
(* the error is nil, and the *Token returned (Nil when none).              *)

Matched(lx, tk) == [t |-> [lx EXCEPT !.currentMatch = tk], ok |-> TRUE, tok |-> tk]
Failed(lx)      == [t |-> lx, ok |-> FALSE, tok |-> Nil]

\* Faulty variant of MatchId: the token is returned but not recorded.
MatchIdNoCurrentMatch(lx) ==
    IF ~StartsId(lx) THEN Failed(lx)
    ELSE LET r == Ttoken(lx)
         IN  [t |-> r.t, ok |-> TRUE, tok |-> Token(r.s, CORELEXER_ID)]

\* The generic ID: fails without consuming unless an identifier starts here.
MatchId(lx) ==
    IF ~StartsId(lx) THEN Failed(lx)
    ELSE LET r == Ttoken(lx) IN Matched(r.t, Token(r.s, CORELEXER_ID))

\* Faulty variant of MatchKeyword: the lookup is not case-folded.
MatchKeywordCaseSensitive(lx, tok) ==
    LET r == Ttoken(lx)
    IN  IF r.s \in DOMAIN CurrentMap(lx) /\ CurrentMap(lx)[r.s] = tok
        THEN Matched(r.t, Token(r.s, tok))
        ELSE Failed(r.t)

\* A keyword: the identifier run is consumed before the lookup, so a
\* failing lookup returns with the run already consumed.
MatchKeyword(lx, tok) ==
    LET r   == Ttoken(lx)
        key == UpperSeq(r.s)
    IN  IF key \in DOMAIN CurrentMap(lx) /\ CurrentMap(lx)[key] = tok
        THEN Matched(r.t, Token(r.s, tok))
        ELSE Failed(r.t)

\* A character class.  A class other than DIGIT and ALPHA matches nothing
\* and returns the previous currentMatch with a nil error.
MatchClass(lx, tok) ==
    LET la      == LookAheadK(lx, 0)
        inClass == \/ tok = CORELEXER_DIGIT /\ IsDigit(la.ch)
                   \/ tok = CORELEXER_ALPHA /\ IsAlpha(la.ch)
    IN  CASE ~la.ok -> Failed(lx)
          [] la.ok /\ tok \notin {CORELEXER_DIGIT, CORELEXER_ALPHA} ->
                 [t |-> lx, ok |-> TRUE, tok |-> lx.currentMatch]
          [] la.ok /\ inClass -> Matched(ConsumeK(lx, 1), Token(StringOfByte(la.ch), tok))
          [] OTHER -> Failed(lx)

\* Faulty variant of MatchChar: the byte is read with GetNextChar before
\* the comparison.
MatchCharEager(lx, tok) ==
    LET r == GetNextChar(lx)
    IN  IF r.ok /\ r.ch = tok % 256
        THEN Matched(r.t, Token(StringOfByte(tok % 256), tok))
        ELSE Failed(r.t)

\* A literal byte: byte(tok) keeps the low 8 bits of the code, and the
\* token's value is string(byte(tok)).
MatchChar(lx, tok) ==
    LET la == LookAheadK(lx, 0)
    IN  IF la.ok /\ la.ch = tok % 256
        THEN Matched(ConsumeK(lx, 1), Token(StringOfByte(tok % 256), tok))
        ELSE Failed(lx)

Match(lx, tok) ==
    CASE tok = CORELEXER_ID                           -> MatchId(lx)
      [] tok \in KeywordBand /\ tok # CORELEXER_ID     -> MatchKeyword(lx, tok)
      [] tok > CORELEXER_END                          -> MatchClass(lx, tok)
      [] OTHER                                        -> MatchChar(lx, tok)

\* The token PeekNextTokenK builds at the cursor, or Nil at the end.
PeekOne(lx) ==
    IF StartsId(lx)
    THEN LET r   == Ttoken(lx)
             key == UpperSeq(r.s)
         IN  [t   |-> r.t,
              tok |-> Token(r.s, IF key \in DOMAIN CurrentMap(lx)
                                 THEN CurrentMap(lx)[key] ELSE CORELEXER_ID)]
    ELSE LET r == GetNextChar(lx)
         IN  [t   |-> r.t,
              tok |-> IF ~r.ok THEN Nil
                      ELSE Token(StringOfByte(r.ch), CASE IsAlpha(r.ch) -> CORELEXER_ALPHA
                                             [] IsDigit(r.ch) -> CORELEXER_DIGIT
                                             [] OTHER         -> r.ch)]

(***************************************************************************)
(* PeekNextTokenK builds up to n tokens, stopping at the end of the        *)
(* buffer; the remaining slots stay nil.  The err it returns is the outer  *)
(* one, which the loop never assigns (its own err is a shadowing :=), so   *)
(* the call always succeeds.  savedPtr is left after the last token and    *)
(* ptr restored.                                                           *)
(***************************************************************************)
RECURSIVE PeekLoop(_, _, _)
PeekLoop(t, n, acc) ==
    IF Len(acc) = n THEN [t |-> t, toks |-> acc]
    ELSE LET r == PeekOne(t)
         IN  IF r.tok = Nil
             THEN [t |-> t, toks |-> acc \o [i \in 1 .. (n - Len(acc)) |-> Nil]]
             ELSE PeekLoop(r.t, n, Append(acc, r.tok))

PeekNextTokenK(lx, n) ==
    LET r == PeekLoop(lx, n, <<>>)
    IN  [t |-> [lx EXCEPT !.savedPtr = r.t.ptr], ok |-> TRUE, toks |-> r.toks]

PeekNextToken(lx) ==
    LET r == PeekNextTokenK(lx, 1) IN [t |-> r.t, ok |-> r.ok, tok |-> r.toks[1]]

-----------------------------------------------------------------------------
(* Delimited strings *)

(***************************************************************************)
(* The loop of QuotedString and Comment after the opening delimiter: a     *)
(* backslash and the byte after it are both kept.  At a backslash that is  *)
(* the last byte, QuotedString discards GetNextChar's error and appends    *)
(* the byte 0 it returned (nulOnEof), Comment stops with the error.        *)
(***************************************************************************)
\* Faulty variant of EscapedUntil: a backslash escapes nothing.
RECURSIVE EscapedUntilNoEscape(_, _, _, _)
EscapedUntilNoEscape(t, close, nulOnEof, acc) ==
    LET r == GetNextChar(t)
    IN  CASE ~r.ok        -> [t |-> t, ok |-> FALSE, s |-> acc]
          [] r.ch = close -> [t |-> r.t, ok |-> TRUE, s |-> acc]
          [] OTHER        -> EscapedUntilNoEscape(r.t, close, nulOnEof, Append(acc, r.ch))

RECURSIVE EscapedUntil(_, _, _, _)
EscapedUntil(t, close, nulOnEof, acc) ==
    LET r == GetNextChar(t)
    IN  CASE ~r.ok        -> [t |-> t, ok |-> FALSE, s |-> acc]
          [] r.ch = close -> [t |-> r.t, ok |-> TRUE, s |-> acc]
          [] r.ch = 92    ->
               LET e == GetNextChar(r.t)
               IN  IF e.ok \/ nulOnEof
                   THEN EscapedUntil(e.t, close, nulOnEof, acc \o <<92, e.ch>>)
                   ELSE [t |-> e.t, ok |-> FALSE, s |-> Append(acc, 92)]
          [] OTHER        -> EscapedUntil(r.t, close, nulOnEof, Append(acc, r.ch))

\* Faulty variant of Delimited: the opening byte is consumed without the
\* end-of-buffer check.
DelimitedNoEofCheck(lx, open, close, nulOnEof) ==
    IF LookAheadK(lx, 0).ok /\ LookAheadK(lx, 0).ch # open
    THEN [t |-> lx, ok |-> TRUE, s |-> <<>>]
    ELSE EscapedUntil(ConsumeK(lx, 1), close, nulOnEof, <<>>)

\* Not at the opening byte: "" with the lookahead's error (nil if a byte is there).
Delimited(lx, open, close, nulOnEof) ==
    LET la == LookAheadK(lx, 0)
    IN  IF ~la.ok \/ la.ch # open
        THEN [t |-> lx, ok |-> la.ok, s |-> <<>>]
        ELSE EscapedUntil(ConsumeK(lx, 1), close, nulOnEof, <<>>)

QuotedString(lx) == Delimited(lx, 34, 34, TRUE)

Comment(lx) == Delimited(lx, 40, 41, FALSE)

(***************************************************************************)
(* GetString(c): bytes up to c, which is consumed; a backslash is dropped  *)
(* and the byte after it kept.  At the end of the buffer ptr is restored   *)
(* to where the call started and the bytes read so far are returned with   *)
(* the error.                                                              *)
(***************************************************************************)
RECURSIVE GetStringLoop(_, _, _, _)
GetStringLoop(t, c, start, acc) ==
    LET la     == LookAheadK(t, 0)
        t1     == ConsumeK(t, 1)
        es     == LookAheadK(t1, 0)
        eol(s) == [t |-> [t EXCEPT !.ptr = start], ok |-> FALSE, s |-> s]
    IN  IF ~la.ok THEN eol(acc)
        ELSE IF la.ch = c THEN [t |-> t1, ok |-> TRUE, s |-> acc]
        ELSE IF la.ch = 92
             THEN IF ~es.ok THEN eol(acc)
                  ELSE GetStringLoop(ConsumeK(t1, 1), c, start, Append(acc, es.ch))
        ELSE GetStringLoop(t1, c, start, Append(acc, la.ch))

GetString(lx, c) == GetStringLoop(lx, c, lx.ptr, <<>>)

MarkInputPosition(lx) == lx.ptr

RewindInputPosition(lx, position) == [lx EXCEPT !.ptr = position]

-----------------------------------------------------------------------------
(***************************************************************************)
(* The state machine: one lexer over one buffer, and a caller (a header    *)
(* parser) that may issue any call with any argument from small sets.      *)
(* mark is the position the caller holds from MarkInputPosition, status    *)
(* becomes "panicked" when a call panics, which ends the program.          *)
(***************************************************************************)
CONSTANTS
    Buffers,      \* the buffers a lexer may be created over
    LexerName,    \* the name given to NewCoreLexer
    Preload,      \* <<table, spelling, code>> registered before parsing starts
    TableNames,   \* names the caller passes to AddLexer/SelectLexer/SetLexerName
    Spellings,    \* spellings the caller passes to AddKeyword
    Codes,        \* codes the caller passes to AddKeyword
    MatchTokens,  \* token types the caller passes to Match
    PeekDepths,   \* n the caller passes to PeekNextTokenK
    Delims        \* bytes the caller passes to GetString/GetNextTokenByDelim

VARIABLES lx, mark, status

vars == <<lx, mark, status>>

\* A header parser's constructor: AddLexer(table) and AddKeyword for each entry.
Registered(buffer) ==
    FoldLeft(LAMBDA l, e : AddKeyword(AddLexer(l, e[1]), e[2], e[3]).lx,
             NewCoreLexer(LexerName, buffer), Preload)

\* The lexers a caller can construct, one per buffer.
InitialLexers == {Registered(b) : b \in Buffers}

Init ==
    /\ lx \in InitialLexers
    /\ mark = Nil
    /\ status = "running"

Running == status = "running"

\* A call that only moves the cursor: r is the method's result record.
Step(r) == lx' = r.t /\ UNCHANGED <<mark, status>>

DoAddKeyword(s, c) ==
    /\ Running
    /\ LET r == AddKeyword(lx, s, c)
       IN  /\ lx' = r.lx
           /\ status' = IF r.panic THEN "panicked" ELSE status
    /\ UNCHANGED mark

DoAddLexer(n) ==
    /\ Running /\ lx' = AddLexer(lx, n) /\ UNCHANGED <<mark, status>>

DoSelectLexer(n) ==
    /\ Running /\ lx' = SelectLexer(lx, n) /\ UNCHANGED <<mark, status>>

DoSetLexerName(n) ==
    /\ Running /\ lx' = SetLexerName(lx, n) /\ UNCHANGED <<mark, status>>

DoMatch(tok)          == Running /\ Step(Match(lx, tok))
DoPeekNextTokenK(n)   == Running /\ Step(PeekNextTokenK(lx, n))
DoPeekNextId          == Running /\ Step(PeekNextId(lx))
DoConsume             == Running /\ Step([t |-> Consume(lx)])
DoTtoken              == Running /\ Step(Ttoken(lx))
DoTtokenAllowSpace    == Running /\ Step(TtokenAllowSpace(lx))
DoSPorHT              == Running /\ Step([t |-> SPorHT(lx)])
DoQuotedString        == Running /\ Step(QuotedString(lx))
DoComment             == Running /\ Step(Comment(lx))
DoByteStringNoSemicolon == Running /\ Step(ByteStringNoSemicolon(lx))
DoByteStringNoComma   == Running /\ Step(ByteStringNoComma(lx))
DoNumber              == Running /\ Step(Number(lx))
DoGetString(c)        == Running /\ Step(GetString(lx, c))
DoGetNextChar         == Running /\ Step(GetNextChar(lx))
DoGetLine             == Running /\ Step(GetLine(lx))
DoNextToken           == Running /\ Step(NextToken(lx))
DoGetLines            == Running /\ Step(GetLines(lx))
DoGetNextTokenByDelim(d) == Running /\ Step(GetNextTokenByDelim(lx, d))

DoMarkInputPosition ==
    /\ Running /\ mark' = MarkInputPosition(lx) /\ UNCHANGED <<lx, status>>

DoRewindInputPosition ==
    /\ Running /\ mark # Nil
    /\ lx' = RewindInputPosition(lx, mark)
    /\ UNCHANGED <<mark, status>>

Next ==
    \/ \E s \in Spellings, c \in Codes : DoAddKeyword(s, c)
    \/ \E n \in TableNames : DoAddLexer(n) \/ DoSelectLexer(n) \/ DoSetLexerName(n)
    \/ \E tok \in MatchTokens : DoMatch(tok)
    \/ \E n \in PeekDepths : DoPeekNextTokenK(n)
    \/ \E d \in Delims : DoGetString(d) \/ DoGetNextTokenByDelim(d)
    \/ DoPeekNextId \/ DoConsume \/ DoTtoken \/ DoTtokenAllowSpace \/ DoSPorHT
    \/ DoQuotedString \/ DoComment \/ DoByteStringNoSemicolon
    \/ DoByteStringNoComma \/ DoNumber \/ DoGetNextChar \/ DoGetLine
    \/ DoNextToken \/ DoGetLines \/ DoMarkInputPosition \/ DoRewindInputPosition

Spec == Init /\ [][Next]_vars

-----------------------------------------------------------------------------
(* Properties *)

TokenType == [tokenValue : Seq(Byte), tokenType : Int]

\* Type invariant; it includes the cursor bound 0 <= ptr <= len(buffer).
TypeOK ==
    /\ lx.buf \in Seq(Byte)
    /\ lx.ptr \in 0 .. Len(lx.buf)
    /\ lx.savedPtr \in 0 .. Len(lx.buf)
    /\ lx.currentMatch \in TokenType \cup {Nil}
    /\ lx.currentLexer \in lx.lexerTables \cup {Anon, NilTable}
    /\ DOMAIN lx.maps = lx.lexerTables \cup {Anon}
    /\ mark \in 0 .. Len(lx.buf) \cup {Nil}
    /\ status \in {"running", "panicked"}

(***************************************************************************)
(* Match then GetNextToken: whenever Match(tok) returns a nil error, it    *)
(* returns a token of type tok whose value is exactly the text the call    *)
(* consumed, and GetNextToken (currentMatch) returns that same token.      *)
(***************************************************************************)
MatchResultIsConsumedToken ==
    \A tok \in MatchTokens :
        LET r == Match(lx, tok)
        IN  r.ok => /\ r.tok # Nil
                    /\ r.tok.tokenType = tok
                    /\ r.tok.tokenValue = Text(lx, lx.ptr, r.t.ptr)
                    /\ r.t.currentMatch = r.tok

(***************************************************************************)
(* A failing Match changes nothing except the one documented consumption:  *)
(* a failed keyword match has consumed the identifier run; a failed match  *)
(* of ID, a character class or a literal byte leaves the cursor where it   *)
(* was, so the caller can try another alternative without rewinding.      *)
(***************************************************************************)
FailedMatchConsumption ==
    \A tok \in MatchTokens :
        LET r == Match(lx, tok)
        IN  ~r.ok => r.t = [lx EXCEPT !.ptr =
                              IF tok \in KeywordBand \ {CORELEXER_ID}
                              THEN Ttoken(lx).t.ptr ELSE lx.ptr]

(***************************************************************************)
(* Peek then Match: when PeekNextToken sees a token, Match of that token's *)
(* type succeeds from the same position, returns the same token and leaves *)
(* the cursor where Consume would put it (savedPtr of the peek).  Header   *)
(* parsers choose a grammar branch by peeking and then match it.           *)
(***************************************************************************)
PeekAgreesWithMatch ==
    LET p == PeekNextToken(lx)
    IN  p.tok # Nil =>
            LET m == Match(lx, p.tok.tokenType)
            IN  /\ m.ok
                /\ m.tok = p.tok
                /\ m.t.ptr = p.t.savedPtr

\* Reference: end is the end of the longest run of bytes in S from ptr.
IsMaximalRun(t, S, end) ==
    /\ end \in t.ptr .. Len(t.buf)
    /\ \A i \in t.ptr .. (end - 1) : At(t, i) \in S
    /\ end < Len(t.buf) => At(t, end) \notin S

RECURSIVE DecimalValue(_)
DecimalValue(s) ==
    IF s = <<>> THEN 0 ELSE 10 * DecimalValue(Front(s)) + (Last(s) - 48)

(***************************************************************************)
(* The scanners consume exactly the longest run of their byte class and    *)
(* return its text: Ttoken, TtokenAllowSpace, SPorHT, ByteStringNoSemicolon*)
(* and ByteStringNoComma; Number returns the decimal value of the digits   *)
(* it consumed and fails only on a non-digit or on a value above MaxInt.   *)
(***************************************************************************)
ScansAreMaximalRuns ==
    /\ \A sc \in {<<Ttoken(lx), IdChars>>,
                  <<TtokenAllowSpace(lx), IdChars \cup {32, 9}>>,
                  <<[t |-> SPorHT(lx), s |-> Text(lx, lx.ptr, SPorHT(lx).ptr)], {32, 9}>>,
                  <<ByteStringNoSemicolon(lx), Byte \ {LF, 59}>>,
                  <<ByteStringNoComma(lx), Byte \ {LF, 44}>>} :
           /\ IsMaximalRun(lx, sc[2], sc[1].t.ptr)
           /\ sc[1].s = Text(lx, lx.ptr, sc[1].t.ptr)
    /\ LET r      == Number(lx)
           digits == {c \in Byte : IsDigit(c)}
       IN  IF StartsId(lx) /\ IsDigit(LookAheadK(lx, 0).ch)
           THEN /\ IsMaximalRun(lx, digits, r.t.ptr)
                /\ r.ok = (DecimalValue(Text(lx, lx.ptr, r.t.ptr)) <= MaxInt)
                /\ r.ok => r.n = DecimalValue(Text(lx, lx.ptr, r.t.ptr))
           ELSE ~r.ok /\ r.t = lx

\* Reference: s is a run of plain bytes and backslash pairs, no bare close.
RECURSIVE WellEscaped(_, _)
WellEscaped(s, close) ==
    IF s = <<>> THEN TRUE
    ELSE IF Head(s) = 92 THEN Len(s) >= 2 /\ WellEscaped(Tail(Tail(s)), close)
    ELSE Head(s) # close /\ WellEscaped(Tail(s), close)

(***************************************************************************)
(* QuotedString and Comment, called at their opening byte, succeed exactly *)
(* when the buffer holds a closing byte that no backslash escapes; they    *)
(* then consume through it and return the bytes between, escapes kept     *)
(* verbatim.                                                               *)
(***************************************************************************)
DelimitedStringsWellFormed ==
    \A d \in {<<QuotedString(lx), 34, 34>>, <<Comment(lx), 40, 41>>} :
        LET r == d[1]  open == d[2]  close == d[3]
            closes == {j \in (lx.ptr + 2) .. Len(lx.buf) :
                          At(lx, j - 1) = close
                          /\ WellEscaped(Text(lx, lx.ptr + 1, j - 1), close)}
        IN  (LookAheadK(lx, 0).ok /\ LookAheadK(lx, 0).ch = open) =>
                /\ r.ok = (closes # {})
                /\ r.ok => /\ r.t.ptr \in closes
                           /\ r.s = Text(lx, lx.ptr + 1, r.t.ptr - 1)

(***************************************************************************)
(* PeekNextToken returns a token or an error: at the end of the buffer the *)
(* end-of-input condition reaches the caller (PeekNextToken returns the    *)
(* error when PeekNextTokenK reports one), never a nil token with a nil    *)
(* error.                                                                  *)
(***************************************************************************)
PeekReturnsTokenOrError ==
    LET r == PeekNextToken(lx) IN r.ok => r.tok # Nil

(***************************************************************************)
(* A call that returns a nil error returns a token: Match(tok) a token of  *)
(* type tok, PeekNextToken the token at the cursor.  Header parsers check  *)
(* only the error and then read the token's type and value.               *)
(***************************************************************************)
SuccessfulCallsReturnTokens ==
    /\ \A tok \in MatchTokens :
           LET r == Match(lx, tok) IN r.ok => r.tok # Nil /\ r.tok.tokenType = tok
    /\ PeekReturnsTokenOrError

(***************************************************************************)
(* The lexer implements the spec's cursor: over any sequence of calls the  *)
(* buffer never changes, every reading call (Match, the scanners, the      *)
(* line and delimiter calls) only moves the position forward within the   *)
(* buffer and leaves savedPtr alone, every peek restores the position and *)
(* leaves savedPtr inside the buffer ahead of it, and the position moves   *)
(* back only through Consume or RewindInputPosition.                       *)
(***************************************************************************)
AbstractCursor == INSTANCE Cursor WITH buf <- lx.buf, pos <- lx.ptr,
                      saved <- lx.savedPtr, mk <- mark, NoMark <- Nil

CursorRefinement == AbstractCursor!Spec
(***************************************************************************)
(* The lexer implements the spec's keyword tables.  The map NewCoreLexer   *)
(* makes stands for the table of the name the lexer was constructed with   *)
(* until AddLexer of that name creates a table of its own; the nil map     *)
(* SelectLexer leaves for a name never added stands for that name's empty *)
(* table.  Every call is a table selection, a keyword registration into    *)
(* the current table, or leaves the tables alone, and none panics.        *)
(***************************************************************************)
ContextNames == TableNames \cup {LexerName}

TableOf(n) ==
    CASE n \in lx.lexerTables -> lx.maps[n]
      [] n = LexerName        -> lx.maps[Anon]
      [] OTHER                -> EmptyMap

CurrentTableName ==
    CASE lx.currentLexer = Anon     -> LexerName
      [] lx.currentLexer = NilTable -> lx.currentLexerName
      [] OTHER                      -> lx.currentLexer

AbstractContexts == INSTANCE LexerContexts
                        WITH Names <- ContextNames, InitialName <- LexerName,
                             tables <- [n \in ContextNames |-> TableOf(n)],
                             current <- CurrentTableName,
                             fatal <- status = "panicked"

KeywordTablesRefinement == AbstractContexts!Spec
=============================================================================
