------------------------------ MODULE ParserLoop ------------------------------
(***************************************************************************)
(* The parameter grammar's caller of CoreParser with QuotedString         *)
(* (src/core/CoreLexer.go) taken one loop iteration at a time instead of  *)
(* as one step.  QuotedString checks the opening quote and consumes it,   *)
(* then loops: GetNextChar, stop at an error or the closing quote, and    *)
(* after a backslash read one more byte with GetNextChar, ignoring its    *)
(* error.  pc is "loop" while the call runs.  The string the loop         *)
(* accumulates is not part of the state: what is checked is that the call *)
(* returns.                                                                *)
(***************************************************************************)
EXTENDS CoreParser

VARIABLE pc    \* "idle" between calls, "loop" inside QuotedString's loop

loopVars == <<lx, mark, status, pc>>

LoopInit == Init /\ pc = "idle"

\* A call of the caller's other methods, between QuotedString calls.
Idle(A) == pc = "idle" /\ A /\ UNCHANGED pc

\* Faulty variant of CallQuotedString: the quote is consumed without the
\* end-of-buffer check.
CallQuotedStringNoEofCheck ==
    LET la == LookAheadK(lx, 0)
    IN  /\ pc = "idle" /\ Running
        /\ IF la.ok /\ la.ch # 34
           THEN UNCHANGED <<lx, pc>>
           ELSE lx' = ConsumeK(lx, 1) /\ pc' = "loop"
        /\ UNCHANGED <<mark, status>>

\* QuotedString's entry: not at a quote, it returns at once; at one, the
\* quote is consumed and the loop starts.
CallQuotedString ==
    LET la == LookAheadK(lx, 0)
    IN  /\ pc = "idle" /\ Running
        /\ IF la.ok /\ la.ch = 34
           THEN lx' = ConsumeK(lx, 1) /\ pc' = "loop"
           ELSE UNCHANGED <<lx, pc>>
        /\ UNCHANGED <<mark, status>>

\* Faulty variant of LoopIteration: GetNextChar's error is ignored here as
\* it is after a backslash, and the byte 0 it returns is kept.
LoopIterationIgnoresEof ==
    LET r == GetNextChar(lx)
        e == GetNextChar(r.t)
    IN  /\ pc = "loop"
        /\ CASE r.ch = 34 /\ r.ok -> lx' = r.t /\ pc' = "idle"
             [] r.ch = 92 /\ r.ok -> lx' = e.t /\ UNCHANGED pc
             [] OTHER             -> lx' = r.t /\ UNCHANGED pc
        /\ UNCHANGED <<mark, status>>

\* One iteration: an error or the closing quote ends the call; a backslash
\* takes the byte after it too, whatever GetNextChar says.
LoopIteration ==
    LET r == GetNextChar(lx)
        e == GetNextChar(r.t)
    IN  /\ pc = "loop"
        /\ CASE ~r.ok     -> UNCHANGED lx /\ pc' = "idle"
             [] r.ch = 34 -> lx' = r.t /\ pc' = "idle"
             [] r.ch = 92 -> lx' = e.t /\ UNCHANGED pc
             [] OTHER     -> lx' = r.t /\ UNCHANGED pc
        /\ UNCHANGED <<mark, status>>

LoopNext ==
    \/ Idle(\E sep \in Separators : DoNameValue(sep))
    \/ Idle(\E tok \in MatchTokens : DoMatch(tok))
    \/ Idle(DoSPorHT) \/ Idle(DoGetNextChar)
    \/ Idle(DoMarkInputPosition) \/ Idle(DoRewindInputPosition)
    \/ CallQuotedString \/ LoopIteration

(***************************************************************************)
(* The program is single-threaded: once inside QuotedString it runs the    *)
(* loop's next iteration, which is what weak fairness of LoopIteration     *)
(* says.  Nothing obliges the caller to call anything, so its own calls    *)
(* get no fairness.                                                        *)
(***************************************************************************)
LoopSpec == LoopInit /\ [][LoopNext]_loopVars /\ WF_loopVars(LoopIteration)

-----------------------------------------------------------------------------
(* Properties *)

(***************************************************************************)
(* QuotedString returns: every call that enters the loop leaves it, at the *)
(* closing quote or at the end of the buffer, however the backslashes in   *)
(* between fall.                                                           *)
(***************************************************************************)
QuotedStringReturns == pc = "loop" ~> pc = "idle"
=============================================================================
