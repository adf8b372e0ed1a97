SPECIFICATION FairSpec
CONSTANTS
    Timeouts <- BodyAndSend
    Chunked <- BodyAndSend
    FrameKinds <- Messages
    MaxSends = 1
    MaxBeats = 0
    MaxFrames = 1
PROPERTY TransfersEnd
\* A closed connection whose handlers have run stops for good.
CHECK_DEADLOCK FALSE
