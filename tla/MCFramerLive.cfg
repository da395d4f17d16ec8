CONSTANTS
    Byte <- MCByte
    MaxIn = 7
SPECIFICATION FairSpec
PROPERTY
    EndDelivered
CHECK_DEADLOCK FALSE
