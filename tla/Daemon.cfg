SPECIFICATION FairSpec
CONSTANTS
    MaxClients = 2
    MaxFds = 2
    Conns = {c1, c2, c3}
INVARIANTS
    TypeOK
    OneOwner
    BrokerOutlivesThreads
    SocketRemoved
PROPERTIES
    StopCompletes
    ConnectAnswered
\* The daemon exits.
CHECK_DEADLOCK FALSE
