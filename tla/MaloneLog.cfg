SPECIFICATION Spec
CONSTANTS
    Size = 4
    Wide = 8
    Junk = Junk
    MaxBytes = 10
INVARIANTS
    InOrder
    WholeLog
PROPERTIES
    StopEnds
CHECK_DEADLOCK FALSE
