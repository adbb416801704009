SPECIFICATION PtsBehaviour
CONSTANTS
    Selected = {0, 1}
    Layout <- MCLayout
    Base <- MCBase
    Size <- MCSize
    AddrSpace = 24
    MaxSent = 2
    DiskSize = 2
    Window = {1}
    Elsewhere <- MCElsewhere
    Quarter = 6
    Marks = {0, 1}
PROPERTIES
    ImplementsEsRecorder
CHECK_DEADLOCK FALSE
