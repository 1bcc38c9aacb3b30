CONSTANTS
    NoName = NoName
    Unknown = Unknown
    Names <- MCNames
    Length <- MCLength
    Holds <- MCHolds
    Family <- MCFamily
    Interests <- MCInterests
    Devices <- TwoDevices
    DevInfo = TRUE
    Evdev = FALSE
    AwaitConnect = FALSE
    MaxChanges = 2
SPECIFICATION Spec
INVARIANTS
    NoDeviceMissed
CHECK_DEADLOCK FALSE
