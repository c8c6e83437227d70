--------------------------- MODULE StringTokenizer ---------------------------
(***************************************************************************)
(* The cursor of src/core/StringTokenizer.go.  A tokenizer t is a record   *)
(* [buf, ptr, savedPtr, ...]: buf is the byte buffer (a sequence of        *)
(* integers 0..255), ptr the next unread position and savedPtr the scratch *)
(* slot written by the peek operations.  Positions are 0-based as in Go,   *)
(* so the Go expression buffer[i] is buf[i + 1] here.                      *)
(*                                                                         *)
(* Every operator is pure: it takes a tokenizer and returns the updated    *)
(* tokenizer together with the results of the Go method (ok is FALSE when  *)
(* the method returns a non-nil error).  The lexer and parser modules      *)
(* extend the record with their own fields; [t EXCEPT !.ptr = ...] keeps   *)
(* those fields untouched.                                                 *)
(***************************************************************************)
EXTENDS Integers, Sequences, SequencesExt

Byte == 0 .. 255
LF   == 10

NewStringTokenizer(buffer) == [buf |-> buffer, ptr |-> 0, savedPtr |-> 0]

HasMoreChars(t) == t.ptr < Len(t.buf)

IsDigit(ch) == ch \in 48 .. 57
IsAlpha(ch) == ch \in (65 .. 90) \cup (97 .. 122)

\* strings.ToUpper on one ASCII byte
ToUpperByte(ch) == IF ch \in 97 .. 122 THEN ch - 32 ELSE ch

IsHexDigit(ch) == IsDigit(ch) \/ ToUpperByte(ch) \in 65 .. 70

\* Go's string(b) for a byte b: the UTF-8 encoding of the rune b, two
\* bytes when b >= 0x80.
StringOfByte(b) == IF b < 128 THEN <<b>> ELSE <<192 + (b \div 64), 128 + (b % 64)>>

\* The Go byte buffer[i]
At(t, i) == t.buf[i + 1]

\* The Go substring buffer[from:to]
Text(t, from, to) == SubSeq(t.buf, from + 1, to)

LookAheadK(t, k) ==
    IF t.ptr + k < Len(t.buf)
    THEN [ok |-> TRUE,  ch |-> At(t, t.ptr + k)]
    ELSE [ok |-> FALSE, ch |-> 0]

\* Faulty variant of GetNextChar: advances past the end of the buffer.
GetNextCharPastEnd(t) ==
    IF t.ptr >= Len(t.buf)
    THEN [t |-> [t EXCEPT !.ptr = @ + 1], ok |-> FALSE, ch |-> 0]
    ELSE [t |-> [t EXCEPT !.ptr = @ + 1], ok |-> TRUE, ch |-> At(t, t.ptr)]

GetNextChar(t) ==
    IF t.ptr >= Len(t.buf)
    THEN [t |-> t, ok |-> FALSE, ch |-> 0]
    ELSE [t |-> [t EXCEPT !.ptr = @ + 1], ok |-> TRUE, ch |-> At(t, t.ptr)]

\* Moves to the position saved by the last peek, wherever ptr is now.
Consume(t) == [t EXCEPT !.ptr = t.savedPtr]

ConsumeK(t, k) == [t EXCEPT !.ptr = @ + k]

(***************************************************************************)
(* The scanning loop shared by the tokenizer and the lexer: consume bytes  *)
(* while HasMoreChars and the next byte is in the class S, collecting      *)
(* them.  Written as the loop of the code, one byte per step.              *)
(***************************************************************************)
\* Faulty variant of ScanWhile: stops one byte before the end of the buffer.
RECURSIVE ScanWhileShort(_, _, _)
ScanWhileShort(t, S, acc) ==
    IF t.ptr + 1 < Len(t.buf) /\ LookAheadK(t, 0).ch \in S
    THEN ScanWhileShort(ConsumeK(t, 1), S, Append(acc, LookAheadK(t, 0).ch))
    ELSE [t |-> t, s |-> acc]

RECURSIVE ScanWhile(_, _, _)
ScanWhile(t, S, acc) ==
    IF HasMoreChars(t) /\ LookAheadK(t, 0).ch \in S
    THEN ScanWhile(ConsumeK(t, 1), S, Append(acc, LookAheadK(t, 0).ch))
    ELSE [t |-> t, s |-> acc]

\* Reads up to and including the next newline, or to the end.
GetLine(t) ==
    LET body == ScanWhile(t, Byte \ {LF}, <<>>)
    IN  IF HasMoreChars(body.t)
        THEN [t |-> ConsumeK(body.t, 1), s |-> Append(body.s, LF)]
        ELSE body

\* NextToken copies bytes up to and including a newline: the same as GetLine.
NextToken(t) == GetLine(t)

PeekLine(t) == [t |-> t, s |-> GetLine(t).s]

\* GetLines: GetLine until the end of the buffer; the lines, in order.
RECURSIVE GetLines(_)
GetLines(t) ==
    IF ~HasMoreChars(t) THEN [t |-> t, lines |-> <<>>]
    ELSE LET l == GetLine(t)
             r == GetLines(l.t)
         IN  [t |-> r.t, lines |-> <<l.s>> \o r.lines]

(***************************************************************************)
(* Copies bytes up to (not including) delim.  Reaching the end of the      *)
(* buffer first is an error, returned after the bytes were consumed.       *)
(***************************************************************************)
GetNextTokenByDelim(t, delim) ==
    LET r == ScanWhile(t, Byte \ {delim}, <<>>)
    IN  IF HasMoreChars(r.t)
        THEN [t |-> r.t, ok |-> TRUE,  s |-> r.s]
        ELSE [t |-> r.t, ok |-> FALSE, s |-> <<>>]
=============================================================================
