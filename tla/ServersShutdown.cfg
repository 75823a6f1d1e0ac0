SPECIFICATION ServersSpec
CONSTANTS
    a1 = a1
    a2 = a2
    c1 = c1
    c2 = c2
    Addresses = {a1, a2}
    Malformed = Malformed
    MaxShards = 1
    MaxRepeated = 0
    Configs <- MCConfigs
    Faults = {"connect", "nomem"}
    Clients = {c1}
    Signals = {"SIGINT", "SIGTERM"}
    MaxListeners = 1
    MaxAddrs = 2
    MaxFailures = 0
    BusyConfigs <- MCBusy
INVARIANTS
    NoUseAfterFree
