SPECIFICATION Spec
CONSTANTS
    Timeouts <- WatchedPeer
    Chunked <- BodyAndSend
    FrameKinds <- ReadableOrNot
    MaxSends = 2
    MaxBeats = 0
    MaxFrames = 2
INVARIANT TypeOK
INVARIANT OutboxWriter
INVARIANT WireInOrder
INVARIANT DeliveredInOrder
INVARIANT NoZombie
INVARIANT CallbackOnce
INVARIANT HeartbeatsGoOn
INVARIANT TimersOwned
PROPERTY NothingAfterFailedWrite
PROPERTY IsChannel
\* A closed connection whose handlers have run stops for good.
CHECK_DEADLOCK FALSE
