SPECIFICATION FairSpec
CONSTANTS
    MaxClients = 1
    MaxStarts = 1
PROPERTY StopReturns
