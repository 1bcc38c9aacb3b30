CONSTANTS
    Devices <- MCDevices
    Entries <- MCEntries
    NoValue = NoValue
    Unknown = Unknown
    MaxEntries = 3
    MaxFailures = 1
SPECIFICATION Spec
INVARIANTS
    MatchIsLinearizable
    PositivesFailClosed
    TemporaryReleased
CHECK_DEADLOCK FALSE
