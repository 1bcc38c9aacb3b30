CONSTANTS
    NoName = NoName
    Unknown = Unknown
    Names <- MCNames
    Length <- MCLength
    Holds <- MCHolds
    Family <- MCFamily
    Interests <- MCInterests
    Devices <- MCDevices
    DevInfo = TRUE
    Evdev = FALSE
    AwaitConnect = TRUE
    MaxChanges = 3
SPECIFICATION FairSpec
INVARIANTS
    PictureIsExact
    DifferenceIsOnItsWay
PROPERTIES
    PictureSettles
CHECK_DEADLOCK FALSE
