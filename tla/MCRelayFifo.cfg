CONSTANTS
    c1 = c1
    c2 = c2
    c3 = c3
    a1 = a1
    a2 = a2
    Conn <- MCConn2
    Addr <- MCAddr
    MaxLines = 4
    LinesPerTick = 2
    None = None
SPECIFICATION Spec
SYMMETRY MCSymmetry2
INVARIANT DeliveredExactly
CHECK_DEADLOCK FALSE
