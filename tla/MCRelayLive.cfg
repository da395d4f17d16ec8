CONSTANTS
    c1 = c1
    c2 = c2
    c3 = c3
    a1 = a1
    a2 = a2
    Conn <- MCConn2
    Addr <- MCAddr
    MaxLines = 3
    LinesPerTick = 1
    None = None
SPECIFICATION FairSpec
PROPERTIES EventualDelivery CleanupOnClose
CHECK_DEADLOCK FALSE
