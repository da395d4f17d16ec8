CONSTANTS
    Byte <- MCByte
    MaxIn = 8
SPECIFICATION Spec
INVARIANT PollFrames
PROPERTY StreamExtends
CHECK_DEADLOCK FALSE
