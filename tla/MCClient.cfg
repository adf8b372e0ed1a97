SPECIFICATION LogFairSpec
CONSTANTS
    u1 = u1
    u2 = u2
    u3 = u3
    Threads <- MCThreads
    LogBufferSize = 2
    MaxLogs = 5
INVARIANTS OneStopper StoppedClean JoinNeedsNobody LossHandled LogComplete StopWritesLog
PROPERTY StopReturns
PROPERTY LossFreesReceivers
