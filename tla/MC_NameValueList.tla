-------------------------- MODULE MC_NameValueList --------------------------
EXTENDS NameValueList

CONSTANTS L1, L2

\* Two one-byte names and values: "a", "b" and "1", with a nil value.
ListNames  == {<<97>>, <<98>>}
ListValues == {<<49>>, NilValue}
=============================================================================
