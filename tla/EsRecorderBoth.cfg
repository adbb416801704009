SPECIFICATION Spec
CONSTANTS
    Selected = {0, 1}
    Layout <- MCLayout
    Base <- MCBase
    Size <- MCEqualSize
    AddrSpace = 6
    MaxSent = 1
    DiskSize = 2
INVARIANTS
    TypeOK
    OneFilePerPost
    PostNotStranded
PROPERTIES
    LastPostTaken
CHECK_DEADLOCK FALSE
