CONSTANTS
    a = a
    bb = bb
    ccc = ccc
    Names <- MCNames
    Length <- MCLength
    Trees <- MCTrees
    RootLength = 5
    Sizes <- MCSizes
SPECIFICATION Spec
INVARIANTS
    LevelsAgree
    VisitsEntriesOnce
    FailureReported
    VisitsAllUncut
CHECK_DEADLOCK FALSE
