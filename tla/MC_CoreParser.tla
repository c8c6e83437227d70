---------------------------- MODULE MC_CoreParser ----------------------------
(***************************************************************************)
(* Instantiation of CoreParser for TLC: buffers of up to five bytes over   *)
(* a letter, '=', '"', '\', a blank, '(' and ')', which hold bare names,   *)
(* name=value, quoted values with escapes, blanks around '=', unterminated *)
(* quotes, and comments with escaped and missing closing parentheses.      *)
(***************************************************************************)
EXTENDS ParserLoop

CONSTANTS T1

NoPreload == <<>>

ParamBuffers ==
    UNION {[1 .. k -> {97, 61, 34, 92, 32, 40, 41}] : k \in 0 .. 5}
=============================================================================
