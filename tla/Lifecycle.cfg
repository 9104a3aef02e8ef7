SPECIFICATION FairSpec
CONSTANTS
    c1 = c1
    c2 = c2
    Clients <- MCClients
    Signals <- MCSignals
    MaxFaults = 2
INVARIANTS
    TypeOK
    RedisOutlivesConnections
    OrderlyExitIsClean
PROPERTIES
    DeafnessEnds
    SignalEndsProcess
