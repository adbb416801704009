SPECIFICATION Spec
CONSTANTS
    Slots = {s1, s2}
    NoSlot = NoSlot
    Unset = Unset
    ChipIds <- MCChipIds
    SX7 <- MCSX7
    SX8 <- MCSX8
    TenBit <- MCTenBit
    MaxPictures = 3
    MaxShort = 1
INVARIANTS
    UsesWhatItRead
    DumpHoldsItsPlanes
    
PROPERTIES
    Ends
    FollowsItsSlot
CHECK_DEADLOCK FALSE
