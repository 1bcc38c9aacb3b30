CONSTANTS
    s1 = s1
    s2 = s2
    s3 = s3
    s4 = s4
    thread = thread
    App = App
    Receiver = thread
    Idle = Idle
    NoSlot = NoSlot
    Slots <- FourSlots
    MaxRefs = 2
    MaxCount = 5
SPECIFICATION Spec
INVARIANTS
    TypeOK
    SoleOwner
    HeldIsLive
    ContextAccounting
    NothingLeaks
SYMMETRY Symmetry
CHECK_DEADLOCK FALSE
