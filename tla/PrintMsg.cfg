SPECIFICATION Spec
CONSTANTS
    Total = 4
    FirstSent = {0, 1}
    MaxSent = 10
    Torn = Torn
INVARIANTS
    EveryMessageHasItsLine
    ShowsItsMessage
PROPERTIES
    FollowsTheLog
    EveryMessageFollowed
CHECK_DEADLOCK FALSE
