SPECIFICATION Spec
CONSTANTS
    Windows = 1
    Page = 5
    Top = 6
    RingSize = 2
    QueueSize = 3
    MaxWrites = 2
    MaxCount = 4
INVARIANTS
    SettingsKept
    OpenedStaysOpen
    
    CrashesWithReason
CHECK_DEADLOCK FALSE
CONSTRAINTS
    OneAtATime
    OneDescriptor
