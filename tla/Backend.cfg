SPECIFICATION BackendSpec
CONSTANTS
    short = short
    long = long
    Lines <- MCLines
    LineLen <- MCLineLen
    MaxLine = 3
    MaxSendQueue = 4
    RetryTimeout = 1
    Protocol = "tcp"
    MaxDatagram = 9
    AlwaysResolveDns = TRUE
    Faults = {"resolve", "socket", "nonblock", "connect", "timeout", "sockopt", "refused", "recv", "eof", "send", "nomem"}
    MaxLines = 6
INVARIANTS
    TypeOK
    SocketMatchesState
    WatchersMatchState
    NoWatcherOfFreedClient
    NoLostWakeup
    QueueLimit
    NothingLost
    CountersAddUp
    FailingReported
