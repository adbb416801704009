SPECIFICATION Spec
CONSTANTS
    Total = 2
    Word = 8
    FirstSent = {1}
    MaxSent = 8
    Torn = Torn
INVARIANTS
    EveryMessageHasItsLine
    ShowsItsMessage
    LostBeforeSampleIsMarked
    MarkMeansLoss
PROPERTIES
    FollowsTheLog
    EveryMessageFollowed
CHECK_DEADLOCK FALSE
