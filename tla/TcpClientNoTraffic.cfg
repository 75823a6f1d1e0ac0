SPECIFICATION FairLoopSpec
CONSTANTS
    short = short
    long = long
    Lines <- MCLines
    LineLen <- MCLineLen
    MaxLine = 3
    MaxSendQueue = 4
    RetryTimeout = 1
    Protocol = "tcp"
    MaxDatagram = 9
    AlwaysResolveDns = FALSE
    Faults = {"send"}
PROPERTIES
    QueuedLinesRetried
