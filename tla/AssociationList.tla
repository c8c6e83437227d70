--------------------------- MODULE AssociationList ---------------------------
(***************************************************************************)
(* The association list the specification promises (spec.md, sections 3   *)
(* and 4.4): an ordered sequence of name/value entries, looked up by the   *)
(* first entry of a name.  add appends; setByNameAndValue removes every    *)
(* entry of the name and appends the new one; remove deletes the first    *)
(* entry of the name; concatenate splices another list's entries after    *)
(* the tail or before the head, in their order, and is a no-op for an     *)
(* empty list; Clone returns a list with the same entries.  Lookups and    *)
(* rendering change nothing and are stuttering steps.                      *)
(***************************************************************************)
EXTENDS Sequences, SequencesExt

CONSTANTS
    Lists,    \* the lists a caller holds
    Names,    \* entry names
    Values    \* entry values (the absent value among them)

VARIABLE assoc  \* assoc[l]: the entries of list l, in order

Entry(n, v) == [name |-> n, value |-> v]

Init == assoc = [l \in Lists |-> <<>>]

Add(l, n, v) == assoc' = [assoc EXCEPT ![l] = Append(@, Entry(n, v))]

Set(l, n, v) ==
    assoc' = [assoc EXCEPT ![l] = Append(SelectSeq(@, LAMBDA e : e.name # n), Entry(n, v))]

Delete(l, n) ==
    LET i == SelectInSeq(assoc[l], LAMBDA e : e.name = n)
    IN  i # 0 /\ assoc' = [assoc EXCEPT ![l] = RemoveAt(@, i)]

Concatenate(l, m, atFront) ==
    assoc' = [assoc EXCEPT ![l] = IF atFront THEN assoc[m] \o @ ELSE @ \o assoc[m]]

Clone(l, m) == assoc' = [assoc EXCEPT ![m] = assoc[l]]

Next ==
    \E l, m \in Lists, n \in Names, v \in Values, atFront \in BOOLEAN :
        \/ Add(l, n, v) \/ Set(l, n, v) \/ Delete(l, n)
        \/ Concatenate(l, m, atFront) \/ Clone(l, m)

Spec == Init /\ [][Next]_assoc
=============================================================================
