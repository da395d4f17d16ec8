CONSTANTS
    Byte <- MCByte
    MaxIn = 9
SPECIFICATION Spec
INVARIANTS
    LinesExact
    RoundTrip
CHECK_DEADLOCK FALSE
