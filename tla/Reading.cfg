SPECIFICATION Spec
CONSTANTS
    n1 = n1
    n2 = n2
    r1 = r1
    r2 = r2
    r3 = r3
    Users <- MCUsers
    Notifs <- MCNotifs
    Malformed <- MCMalformed
    Receiver <- MCReceiver
    Requests <- MCRequests
    MaxMarks = 1
    MaxFaults = 1
SYMMETRY Interchangeable
INVARIANTS
    TypeOK
    ReadStays
    BadgeFollowsReadAll
    CountsAddUp
    RepeatKeepsReadAt
