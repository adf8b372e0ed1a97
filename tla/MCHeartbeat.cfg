SPECIFICATION Spec
CONSTANTS
    Sends <- BothEnds
    Watches <- BothEnds
    ReadValues <- FiveOrSix
    WatchValues <- FiveOrSeven
    RateValues <- OneOrTwo
    Delay = 1
    MaxFlight = 2
    MaxSilence = 8
INVARIANT IdleStaysUp
INVARIANT SilentPeerDropped
