CONSTANTS
    main = main
    monitor = monitor
    Unknown = Unknown
    Threads <- MCThreads
    Lengths <- LuckyStack
    Nodes <- MCNodes
    Family <- MCFamily
    Fds = {3, 4}
    Capable <- MCCapable
SPECIFICATION HandlersSpec
INVARIANTS
    SkippedIfEvdev
    DescriptorsAccounted
    DescribedAsItIs
PROPERTIES
    AcceptedIsBuilt
SYMMETRY MCSymmetry
CHECK_DEADLOCK FALSE
