SPECIFICATION FairSpec
CONSTANTS
    short = short
    long = long
    Lines <- MCLines
    LineLen <- MCLineLen
    MaxLine = 3
    MaxSendQueue = 4
    RetryTimeout = 1
    Protocol = "udp"
    MaxDatagram = 4
    AlwaysResolveDns = FALSE
    Faults = {"connect"}
PROPERTIES
    RecoversFromFullQueue
