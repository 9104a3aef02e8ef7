SPECIFICATION Spec
CONSTANTS
    a1 = a1
    b1 = b1
    b2 = b2
    n1 = n1
    Instances <- MCInstances
    Users <- MCUsers
    Sockets <- BothInstances
    Notifs <- OneNotif
    Owner <- MCOwner
    Home <- MCHome
    Receiver <- MCReceiver
    MaxFaults = 2
INVARIANTS
    TypeOK
    NothingFallsThrough
    DuplicatesOnlyFromSync
    PublisherNeverPushes
    DeliveredIsKnown
PROPERTY
    ReadIsFinalWhenQuiet
