SPECIFICATION Spec
CONSTANTS
    Selected = {1}
    Layout <- MCLayout
    Base <- MCBase
    Size <- MCSize
    AddrSpace = 16
    MaxSent = 10
    DiskSize = 9
INVARIANTS
    FaithfulRecording
    StaysInBuffer
    WarnsWithReason
    NeverWithoutFile
PROPERTIES
    KeepsUp
CHECK_DEADLOCK FALSE
