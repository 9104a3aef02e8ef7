SPECIFICATION Spec
CONSTANTS
    c1 = c1
    c2 = c2
    Clients <- MCClients
    Signals <- OneSignal
    MaxFaults = 0
INVARIANT
    RedisDisconnectedFirst
