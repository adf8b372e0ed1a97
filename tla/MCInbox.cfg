SPECIFICATION InboxFairSpec
CONSTANTS
    u1 = u1
    u2 = u2
    u3 = u3
    Users <- ThreeUsers
    MaxMessages = 3
    HalfBase = 2
    MaxMessageSize = 1
    Own = "little"
    Peer = "big"
    MaxFrames = 3
    Garbage <- EmptyAndLong
INVARIANTS NoLostWakeup MessagesAsSent OnlyGarbageRefused ReceivedAsSent
PROPERTIES IsMailbox MailboxServes
