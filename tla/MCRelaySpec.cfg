CONSTANTS
    c1 = c1
    c2 = c2
    c3 = c3
    a1 = a1
    a2 = a2
    Conn <- MCConn
    Addr <- MCAddr
    MaxLines = 2
    LinesPerTick = 2
    None = None
SPECIFICATION Spec
SYMMETRY MCSymmetry
INVARIANT SpecDeliveredToPool
CHECK_DEADLOCK FALSE
