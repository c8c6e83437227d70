---------------------------- MODULE NameValueList ----------------------------
(***************************************************************************)
(* The association list of src/core/NameValueList.go: a container/list of  *)
(* *NameValue, scanned front to back.  lists[l] is the sequence of         *)
(* elements of list l; an element is a NameValue record, or ListElement    *)
(* when Concatenate stored a *list.Element as the element's value.  Every  *)
(* method that reads an element asserts its value to be a *NameValue,     *)
(* which panics on a ListElement.  status records a panic or a loop that *)
(* never ends, both of which end the program.                              *)
(***************************************************************************)
EXTENDS NameValue, Integers, SequencesExt

CONSTANTS
    Lists,        \* the lists a caller holds
    Names,        \* names the caller passes
    Values,       \* values the caller passes (NilValue among them)
    NilNV,        \* the nil *NameValue
    ListElement,  \* a *list.Element stored as an element's value
    MaxLen        \* bound on the length of a list

VARIABLES lists, status

vars == <<lists, status>>

IsNameValue(e) == e # ListElement

\* The first element the front-to-back scan for name n stops at, or 0.
ScanStop(s, n) == SelectInSeq(s, LAMBDA e : ~IsNameValue(e) \/ e.name = n)

\* GetNameValue: the first element named n, NilNV if none, or a panic.
GetNameValue(s, n) ==
    LET i == ScanStop(s, n)
    IN  CASE i = 0                -> [panic |-> FALSE, nv |-> NilNV]
          [] ~IsNameValue(s[i])   -> [panic |-> TRUE,  nv |-> NilNV]
          [] OTHER                -> [panic |-> FALSE, nv |-> s[i]]

\* GetValue: the value of GetNameValue, nil when there is none.
GetValue(s, n) ==
    LET r == GetNameValue(s, n)
    IN  [panic |-> r.panic, value |-> IF r.nv = NilNV THEN NilValue ELSE r.nv.value]

\* Delete removes the first element named n only.
Delete(s, n) ==
    LET i == ScanStop(s, n)
    IN  CASE i = 0                -> [panic |-> FALSE, s |-> s, found |-> FALSE]
          [] ~IsNameValue(s[i])   -> [panic |-> TRUE,  s |-> s, found |-> FALSE]
          [] OTHER                -> [panic |-> FALSE, s |-> RemoveAt(s, i), found |-> TRUE]

\* Faulty variant of AddNameValue: the nil check is dropped.
AddNameValueNoNilCheck(s, nv) == Append(s, nv)

\* A nil NameValue is ignored.
AddNameValue(s, nv) == IF nv = NilNV THEN s ELSE Append(s, nv)

\* Faulty variant of SetNameValue: the Delete is dropped.
SetNameValueAppendOnly(s, nv) ==
    IF nv = NilNV THEN [panic |-> TRUE, s |-> s] ELSE [panic |-> FALSE, s |-> Append(s, nv)]

\* SetNameValue: Delete(nv.name), then append; nv.name of nil panics.
SetNameValue(s, nv) ==
    IF nv = NilNV THEN [panic |-> TRUE, s |-> s]
    ELSE LET d == Delete(s, nv.name)
         IN  [panic |-> d.panic, s |-> IF d.panic THEN s ELSE Append(d.s, nv)]

\* The methods that type-assert every element: String, GetNames, Clone.
ReadsAll(s) == [panic |-> \E i \in DOMAIN s : ~IsNameValue(s[i])]

(***************************************************************************)
(* Concatenate(nvl, topFlag) pushes each *list.Element e of nvl, not       *)
(* e.Value, so every element it adds is a ListElement.  At the back of the *)
(* list itself the loop follows the elements it pushes and never ends; at  *)
(* the front of an empty list, InsertBefore dereferences a nil mark.       *)
(***************************************************************************)
Concatenate(s, other, topFlag, sameList) ==
    LET added == [i \in DOMAIN other |-> ListElement]
    IN  CASE other = <<>>                 -> [status |-> "running",  s |-> s]
          [] ~topFlag /\ sameList         -> [status |-> "hung",     s |-> s]
          [] ~topFlag                     -> [status |-> "running",  s |-> s \o added]
          [] s = <<>>                     -> [status |-> "panicked", s |-> s]
          [] OTHER                        -> [status |-> "running",  s |-> added \o s]

-----------------------------------------------------------------------------

Init == lists = [l \in Lists |-> <<>>] /\ status = "running"

Running == status = "running"

Panicked(p) == IF p THEN "panicked" ELSE status

DoAddNameValue(l, nv) ==
    /\ Running /\ Len(lists[l]) < MaxLen
    /\ lists' = [lists EXCEPT ![l] = AddNameValue(@, nv)]
    /\ UNCHANGED status

DoAddNameAndValue(l, n, v) ==
    /\ Running /\ Len(lists[l]) < MaxLen
    /\ lists' = [lists EXCEPT ![l] = AddNameValue(@, NewNameValue(n, v))]
    /\ UNCHANGED status

DoSetNameValue(l, nv) ==
    LET r == SetNameValue(lists[l], nv)
    IN  /\ Running /\ Len(r.s) <= MaxLen
        /\ lists' = [lists EXCEPT ![l] = r.s]
        /\ status' = Panicked(r.panic)

DoSetNameAndValue(l, n, v) == DoSetNameValue(l, NewNameValue(n, v))

DoDelete(l, n) ==
    LET r == Delete(lists[l], n)
    IN  /\ Running
        /\ lists' = [lists EXCEPT ![l] = r.s]
        /\ status' = Panicked(r.panic)

\* GetNameValue, GetValue, HasNameValue, GetParameter: a lookup that
\* returns changes nothing; the step is the one that panics.
DoGetNameValue(l, n) ==
    /\ Running /\ GetNameValue(lists[l], n).panic
    /\ status' = "panicked" /\ UNCHANGED lists

\* String and GetNames: the step is the one that panics.
DoString(l) ==
    /\ Running /\ ReadsAll(lists[l]).panic
    /\ status' = "panicked" /\ UNCHANGED lists

\* m := l.Clone(): the copies are put in a local list that is dropped.
DoClone(l, m) ==
    /\ Running
    /\ IF ReadsAll(lists[l]).panic
       THEN status' = "panicked" /\ UNCHANGED lists
       ELSE lists' = [lists EXCEPT ![m] = <<>>] /\ UNCHANGED status

DoConcatenate(l, m, topFlag) ==
    LET r == Concatenate(lists[l], lists[m], topFlag, l = m)
    IN  /\ Running /\ Len(r.s) <= MaxLen
        /\ lists' = [lists EXCEPT ![l] = r.s]
        /\ status' = r.status

NVInputs == {NewNameValue(n, v) : n \in Names, v \in Values} \cup {NilNV}

Next ==
    \/ \E l \in Lists, nv \in NVInputs : DoAddNameValue(l, nv) \/ DoSetNameValue(l, nv)
    \/ \E l \in Lists, n \in Names, v \in Values :
           DoAddNameAndValue(l, n, v) \/ DoSetNameAndValue(l, n, v)
    \/ \E l \in Lists, n \in Names : DoDelete(l, n) \/ DoGetNameValue(l, n)
    \/ \E l \in Lists : DoString(l)
    \/ \E l, m \in Lists : DoClone(l, m) \/ \E top \in BOOLEAN : DoConcatenate(l, m, top)

Spec == Init /\ [][Next]_vars

-----------------------------------------------------------------------------

TypeOK ==
    /\ lists \in [Lists -> Seq((NVInputs \ {NilNV}) \cup {ListElement})]
    /\ \A l \in Lists : Len(lists[l]) <= MaxLen
    /\ status \in {"running", "panicked", "hung"}

\* The number of entries of list s named n.
Count(s, n) == Cardinality({i \in DOMAIN s : IsNameValue(s[i]) /\ s[i].name = n})

(***************************************************************************)
(* SetNameAndValue(n, v) on a list that holds at most one entry named n    *)
(* replaces it: afterwards the list holds exactly one such entry, a       *)
(* lookup of n that returns gives v, and the other elements are still     *)
(* there in their order (Delete, then AddNameValue).                       *)
(***************************************************************************)
Others(s, n) == SelectSeq(s, LAMBDA e : ~(IsNameValue(e) /\ e.name = n))

SetReplacesSoleEntry ==
    [][\A l \in Lists, n \in Names, v \in Values :
          (DoSetNameAndValue(l, n, v) /\ status' = "running" /\ Count(lists[l], n) <= 1)
            => /\ Count(lists'[l], n) = 1
               /\ Others(lists'[l], n) = Others(lists[l], n)
               /\ ~GetValue(lists'[l], n).panic => GetValue(lists'[l], n).value = v]_vars

(***************************************************************************)
(* NameValueList implements the specification's association list: seen   *)
(* as the sequence of its entries' names and values, every call that      *)
(* returns is one of the list operations of the spec (a panic or a call    *)
(* that never returns ends the program and changes no list).  This covers *)
(* Set removing every entry of the name, Concatenate splicing the other    *)
(* list's entries, and Clone copying the list.                             *)
(***************************************************************************)
AsEntry(e) == IF IsNameValue(e) THEN [name |-> e.name, value |-> e.value] ELSE e

AbstractList == INSTANCE AssociationList
                    WITH assoc <- [l \in Lists |-> [i \in DOMAIN lists[l] |-> AsEntry(lists[l][i])]]

AssociationListSpec == AbstractList!Spec
=============================================================================
