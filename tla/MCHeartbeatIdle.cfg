SPECIFICATION Spec
CONSTANTS
    Sends <- OnlyClient
    Watches <- OnlyServer
    ReadValues <- Only5
    WatchValues <- Only5
    RateValues <- Only2
    Delay = 1
    MaxFlight = 2
    MaxSilence = 6
INVARIANT IdleKeptAlive
