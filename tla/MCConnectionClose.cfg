SPECIFICATION IOSpec
CONSTANTS
    Timeouts <- BeatingOnly
    Chunked <- Nothing
    FrameKinds <- BeatsWithBody
    MaxSends = 0
    MaxBeats = 2
    MaxFrames = 1
INVARIANT HeartbeatsGoOn
INVARIANT TimersOwned
INVARIANT PendingIsWatched
INVARIANT ClosedWaitsForNobody
PROPERTY ClosedWindsDown
PROPERTY CloseCompletes
PROPERTY ReadEnds
PROPERTY QueuedSentOrClosed
\* A closed connection whose handlers have run stops for good.
CHECK_DEADLOCK FALSE
