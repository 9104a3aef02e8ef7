SPECIFICATION FairSpec
CONSTANTS
    a1 = a1
    b1 = b1
    b2 = b2
    n1 = n1
    Instances <- MCInstances
    Users <- MCUsers
    Sockets <- BothUsers
    Notifs <- OneNotif
    Owner <- MCOwner
    Home <- MCHome
    Receiver <- MCReceiver
    MaxFaults = 2
PROPERTIES
    ConnectedDeviceGetsIt
    BacklogIsRecovered
    ImplementsMailbox
