---------------------------- MODULE LexerContexts ----------------------------
(***************************************************************************)
(* The keyword tables the specification promises (spec.md, sections 3,     *)
(* 4.2 and 7), as an abstract specification.  A lexer constructed with a   *)
(* grammar table name has that table current; selecting or adding a table  *)
(* by name makes it current, and a name never added stands for an empty    *)
(* table created on the first keyword registered into it; addKeyword       *)
(* inserts into the current table.  Nothing in the engine is fatal: no     *)
(* call ends the program.                                                  *)
(***************************************************************************)
EXTENDS TLC

CONSTANTS
    Names,        \* table names
    InitialName,  \* the grammar table name given to the constructor
    Spellings,    \* keyword spellings
    Codes         \* keyword codes

VARIABLES
    tables,       \* tables[n]: the keyword map of table n
    current,      \* the name of the current table
    fatal         \* a call ended the program

contextVars == <<tables, current, fatal>>

NoKeywords == [s \in {} |-> 0]

Init ==
    /\ tables = [n \in Names |-> NoKeywords]
    /\ current = InitialName
    /\ fatal = FALSE

\* selectTable and addTable: the named table becomes current.
SelectTable(n) == current' = n /\ UNCHANGED <<tables, fatal>>

AddKeyword(s, c) ==
    /\ tables' = [tables EXCEPT ![current] = (s :> c) @@ @]
    /\ UNCHANGED <<current, fatal>>

Next ==
    \/ \E n \in Names : SelectTable(n)
    \/ \E s \in Spellings, c \in Codes : AddKeyword(s, c)

Spec == Init /\ [][Next]_contextVars
=============================================================================
