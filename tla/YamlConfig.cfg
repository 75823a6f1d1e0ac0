SPECIFICATION Spec
CONSTANTS
    Keys <- MCKeys
    Values <- MCValues
    Numbers = {"0", "1", "-1"}
    NumberOf <- MCNumberOf
    UintRange = 1073741824
    MaxEvents = 16
    MaxNesting = 4
CHECK_DEADLOCK FALSE
INVARIANTS
    TypeOK
    ReadAsWritten
    WrongRejected
