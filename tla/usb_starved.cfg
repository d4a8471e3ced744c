\* A reply is fetched between the two looks usb_free takes, and a command
\* arrives before the count of those in need is set to 0.
SPECIFICATION FairSpec
CONSTANTS
    NumBuffers = 6
    TxPacketLimit = 1
    MaxSent = 5
    MaxReplies = 4
    MaxResets = 0
    None = None
PROPERTIES
    StarvedAlwaysServed
