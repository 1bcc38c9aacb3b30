CONSTANTS
    main = main
    monitor = monitor
    Unknown = Unknown
    Threads <- MCThreads
    Lengths <- AnyStack
    Nodes <- MCNodes
    Family <- MCFamily
    Fds = {3, 4}
    Capable <- MCCapable
SPECIFICATION HandlersSpec
INVARIANTS
    SkippedIfEvdev
CHECK_DEADLOCK FALSE
