CONSTANTS
    Strings <- MCStrings
    Lengths <- MCLengths
SPECIFICATION Spec
INVARIANTS
    Decodable
    KeepsOnlyText
    StaysInBuffer
CHECK_DEADLOCK FALSE
