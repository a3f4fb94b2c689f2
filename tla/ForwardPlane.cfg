CONSTANTS
    Uris = {a1}
    Nonces = {n1, n2}
    Addrs <- MCAddrs
    Ports <- MCPorts
    PunchSrc <- OwnAddress
    Datagrams <- BothWays
    MaxId = 2
    MaxIssued = 2
    IdleTTL = 1
    PendingTTL = 1
SPECIFICATION FairSpec
INVARIANTS TypeOK TablesAgree BindingAuthorised DeliveredToRegistered
PROPERTIES KeptWarm IdleReclaimed
