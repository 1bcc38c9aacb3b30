CONSTANTS
    Names <- MCNames
    Null = 0
    Providers <- MCProviders
    Accepted <- MCAccepted
    Extra <- MCNames
SPECIFICATION Spec
INVARIANTS
    TypeOK
    RankRule
    LookupsAgree
    ScanAllOrNothing
    IterationComplete
PROPERTIES
    ListSpec
CHECK_DEADLOCK FALSE
