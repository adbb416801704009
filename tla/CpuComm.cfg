SPECIFICATION Spec
CONSTANTS
    Requests <- MCRequests
    NoAddress = NoAddress
    MaxTrouble = 3
INVARIANTS
    AddressOfItsIndex
    SendsOnlyWhenMapped
PROPERTIES
    AddressesFound
CHECK_DEADLOCK FALSE
