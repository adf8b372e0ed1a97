SPECIFICATION LogSpec
CONSTANTS
    u1 = u1
    u2 = u2
    u3 = u3
    Threads <- MCThreads
    LogBufferSize = 1
    MaxLogs = 0
INVARIANT StopJoins
