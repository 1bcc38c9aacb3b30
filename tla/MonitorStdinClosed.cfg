CONSTANTS
    r1 = r1
    r2 = r2
    hidraw = hidraw
    mouse = mouse
    lost = lost
    NoEvent = NoEvent
    TagFilter = TagFilter
    Readers <- OneReader
    Kinds <- MCTwoKinds
    Deliverable <- MCOneDeliverable
    SocketFds <- StdinClosed
    PipeCap = 1
    MaxEvents = 2
    MaxRefs = 1
    MaxFaults = 0
    MaxHangups = 1
SPECIFICATION Spec
PROPERTIES
    RespawnIsTimeout
CHECK_DEADLOCK FALSE
