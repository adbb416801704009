SPECIFICATION Spec
CONSTANTS
    Selected = {0, 1}
    Layout <- MCSameLayout
    Base <- MCBase
    Size <- MCEqualSize
    AddrSpace = 6
    MaxSent = 3
    DiskSize = 4
INVARIANTS
    RecordsOwnChannel
CHECK_DEADLOCK FALSE
