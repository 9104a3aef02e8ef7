SPECIFICATION FairSpec
CONSTANTS
    Instances <- MCInstances
    Senders <- TwoSenders
    Devices <- MCDevices
    Home <- MCHome
    MaxEvents = 3
    MaxFaults = 1
INVARIANTS
    TypeOK
    LatestEventWins
PROPERTY
    StopIsShown
