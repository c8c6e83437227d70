---------------------------- MODULE MC_CoreLexer ----------------------------
(***************************************************************************)
(* Instantiation of CoreLexer for TLC.  Bytes are written by name; each    *)
(* run picks a small alphabet that exercises the operations it is about,  *)
(* and buffers are all sequences over it up to a length.                   *)
(***************************************************************************)
EXTENDS CoreLexer

CONSTANTS T1, T2   \* table names (model values)

Ch_a == 97   Ch_B == 66   Ch_1 == 49   Ch_SP == 32   Ch_EQ == 61
Ch_DQ == 34  Ch_BS == 92  Ch_LP == 40  Ch_RP == 41   Ch_SEMI == 59
Ch_COMMA == 44

KW_AB == 2049   \* keyword "AB"
KW_B  == 2050   \* keyword "B"

NoPreload == <<>>

BuffersOver(A, n) == UNION {[1 .. k -> A] : k \in 0 .. n}

\* Run lexer_match: identifiers, keywords in any case, classes, literals,
\* numbers, byte strings, lines and delimiters.
MatchBuffers  == BuffersOver({Ch_a, Ch_B, Ch_1, Ch_SP, Ch_EQ, Ch_SEMI, Ch_COMMA, LF}, 3)
MatchPreload  == << <<T1, <<65, 66>>, KW_AB>>, <<T1, <<66>>, KW_B>> >>
MatchTokenSet == {CORELEXER_ID, KW_AB, KW_B, CORELEXER_ALPHA,
                  CORELEXER_DIGIT, Ch_EQ, Ch_SP, Ch_SEMI}

\* Run lexer_delimited: quoted strings, comments, escapes, GetString.
DelimBuffers  == BuffersOver({Ch_DQ, Ch_BS, Ch_LP, Ch_RP, Ch_a}, 4)

\* Run lexer_tables: tables created, selected and filled by the caller.
TableBuffers  == {<<Ch_a, Ch_B>>, <<Ch_B>>}
TableSpellings == {<<65, 66>>, <<66>>}
TableCodes    == {KW_AB}

\* Run lexer_stale_match: Match also asked for the WHITESPACE class.
StaleTokenSet == MatchTokenSet \cup {CORELEXER_WHITESPACE}

=============================================================================
