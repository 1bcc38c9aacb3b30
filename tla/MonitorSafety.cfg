CONSTANTS
    r1 = r1
    r2 = r2
    hidraw = hidraw
    mouse = mouse
    lost = lost
    NoEvent = NoEvent
    TagFilter = TagFilter
    Readers <- TwoReaders
    Kinds <- MCTwoKinds
    Deliverable <- MCOneDeliverable
    SocketFds <- OrdinaryFds
    PipeCap = 1
    MaxEvents = 3
    MaxRefs = 2
    MaxFaults = 1
    MaxHangups = 1
SPECIFICATION Spec
INVARIANTS
    TypeOK
    WakeupAccounting
    ReceiveFindsDevice
    InOrder
    Ownership
    SafeTeardown
PROPERTIES
    KeepsLiveConnection
    ChannelSpec
CHECK_DEADLOCK FALSE
