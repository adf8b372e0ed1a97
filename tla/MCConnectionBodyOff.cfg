SPECIFICATION Spec
CONSTANTS
    Timeouts <- OnlyReadTimeout
    Chunked <- Nothing
    FrameKinds <- Messages
    MaxSends = 0
    MaxBeats = 0
    MaxFrames = 1
INVARIANT BodyTimeoutOff
\* A closed connection whose handlers have run stops for good.
CHECK_DEADLOCK FALSE
