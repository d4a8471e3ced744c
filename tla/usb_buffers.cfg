\* Three buffers beyond the four that are armed: as many as replies may take.
SPECIFICATION FairSpec
CONSTANTS
    NumBuffers = 7
    TxPacketLimit = 1
    MaxSent = 5
    MaxReplies = 3
    MaxResets = 1
    None = None
INVARIANTS
    TypeOK
    OnePlace
    ReplyInReach
PROPERTIES
    ImplementsLink
    StarvedServed
