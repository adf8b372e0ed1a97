SPECIFICATION FairSpec
CONSTANTS
    MaxClients = 3
    MaxStarts = 2
INVARIANTS NoStrayConnection StoppedClean ListensOn NothingHoldsJoin
PROPERTIES ClientsServed StopReturnsUnlessLate
