CONSTANTS
    r1 = r1
    r2 = r2
    hidraw = hidraw
    mouse = mouse
    lost = lost
    NoEvent = NoEvent
    TagFilter = TagFilter
    Readers <- OneReader
    Kinds <- MCDeliverable
    Deliverable <- MCDeliverable
    SocketFds <- OrdinaryFds
    PipeCap = 1
    MaxEvents = 2
    MaxRefs = 1
    MaxFaults = 1
    MaxHangups = 1
SPECIFICATION FairSpec
PROPERTIES
    UnrefCompletes
    Reconnects
    EventsReachReader
    MessagesConsumed
CHECK_DEADLOCK FALSE
