------------------------------- MODULE Cursor -------------------------------
(***************************************************************************)
(* The cursor the specification promises (spec.md, sections 3 and 4.1 and *)
(* property 3), as an abstract specification of what the lexer does to    *)
(* its input position.  The buffer never changes; the position stays in    *)
(* 0 .. len(buffer) and only moves forward, except when the caller         *)
(* rewinds to a mark it took or a call advances to the saved position a   *)
(* peek wrote.  A peek leaves the position where it was.                   *)
(***************************************************************************)
EXTENDS Naturals, Sequences

CONSTANTS
    Buffers,   \* the buffers a lexer may be constructed over
    NoMark     \* the caller holds no mark yet

VARIABLES
    buf,       \* the input buffer
    pos,       \* the next unread position
    saved,     \* the scratch position written by peeks
    mk         \* the position the caller marked, or NoMark

cursorVars == <<buf, pos, saved, mk>>

Init == buf \in Buffers /\ pos = 0 /\ saved = 0 /\ mk = NoMark

\* A reading call consumes zero or more bytes and leaves saved alone.
Read == pos' \in pos .. Len(buf) /\ UNCHANGED <<buf, saved, mk>>

\* A peek records where the peeked text ends and restores the position.
Peek == saved' \in pos .. Len(buf) /\ UNCHANGED <<buf, pos, mk>>

\* The call that commits a peek moves to the saved position.
AdvanceToSaved == pos' = saved /\ UNCHANGED <<buf, saved, mk>>

MarkPosition == mk' = pos /\ UNCHANGED <<buf, pos, saved>>

RewindTo == mk # NoMark /\ pos' = mk /\ UNCHANGED <<buf, saved, mk>>

Next == Read \/ Peek \/ AdvanceToSaved \/ MarkPosition \/ RewindTo

Spec == Init /\ [][Next]_cursorVars
=============================================================================
