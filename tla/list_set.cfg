CONSTANTS
    NilValue = NilValue
    NilNV = NilNV
    ListElement = ListElement
    L1 = L1
    L2 = L2
    Lists = {L1, L2}
    Names <- ListNames
    Values <- ListValues
    MaxLen = 3
SPECIFICATION Spec
\* A panic or a call that never returns ends the program.
CHECK_DEADLOCK FALSE
INVARIANT TypeOK
PROPERTY SetReplacesSoleEntry
