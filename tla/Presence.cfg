SPECIFICATION Spec
CONSTANTS
    Instances <- MCInstances
    Users <- MCUsers
    Sockets <- MCSockets
    Owner <- MCOwner
    Home <- MCHome
INVARIANTS
    TypeOK
    IndexConsistent
    RosterSound
PROPERTY
    ImplementsRoster
