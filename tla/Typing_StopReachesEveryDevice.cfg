SPECIFICATION Spec
CONSTANTS
    Instances <- MCInstances
    Senders <- OneSender
    Devices <- MCDevices
    Home <- MCHome
    MaxEvents = 2
    MaxFaults = 0
INVARIANT
    StopReachesEveryDevice
