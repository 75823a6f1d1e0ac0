SPECIFICATION FairServersSpec
CONSTANTS
    a1 = a1
    a2 = a2
    c1 = c1
    c2 = c2
    Addresses = {a1, a2}
    Malformed = Malformed
    MaxShards = 2
    MaxRepeated = 4
    Configs <- MCConfigs
    Faults = {"connect", "nomem"}
    Clients = {c1, c2}
    Signals = {"SIGINT", "SIGTERM"}
    MaxListeners = 1
    MaxAddrs = 2
    MaxFailures = 1
    BusyConfigs <- MCBusy
INVARIANTS
    TypeOK
    ShardsMatchConfig
    OneClientPerBackend
    ReleasedOnce
    ServersTypeOK
    SessionsAccounted
PROPERTIES
    NothingNewAfterSignal
    ClientsServed
    SignalsEndProcess
