------------------------------ MODULE NameValue ------------------------------
(***************************************************************************)
(* The association value of src/core/NameValue.go.  Names, values,         *)
(* separators and quotes are byte sequences; value is NilValue when the Go *)
(* interface{} holds nil.  The runtime check that a value is nil or a      *)
(* string is the type of the value field here.                             *)
(***************************************************************************)
EXTENDS Sequences

CONSTANT NilValue   \* the nil value of a NameValue

NewNameValue(n, v) ==
    [name           |-> n,
     value          |-> v,
     separator      |-> <<61>>,     \* SIPSeparatorNames_EQUALS
     quotes         |-> <<>>,
     isQuotedString |-> FALSE]

SetSeparator(nv, sep) == [nv EXCEPT !.separator = sep]

SetQuotedValue(nv) == [nv EXCEPT !.isQuotedString = TRUE, !.quotes = <<34>>]

SetName(nv, n) == [nv EXCEPT !.name = n]

SetValue(nv, v) == [nv EXCEPT !.value = v]

\* Faulty variant of String(): the quotes are left out.
NameValueStringNoQuotes(nv) ==
    CASE nv.name # <<>> /\ nv.value # NilValue -> nv.name \o nv.separator \o nv.value
      [] nv.name = <<>> /\ nv.value # NilValue -> nv.value
      [] nv.name # <<>> /\ nv.value = NilValue -> nv.name
      [] OTHER                                  -> <<>>

\* String(): quotes around the value, no escaping of the value's bytes.
NameValueString(nv) ==
    CASE nv.name # <<>> /\ nv.value # NilValue ->
             nv.name \o nv.separator \o nv.quotes \o nv.value \o nv.quotes
      [] nv.name = <<>> /\ nv.value # NilValue -> nv.quotes \o nv.value \o nv.quotes
      [] nv.name # <<>> /\ nv.value = NilValue -> nv.name
      [] OTHER                                  -> <<>>
=============================================================================
