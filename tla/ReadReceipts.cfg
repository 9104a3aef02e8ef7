SPECIFICATION Spec
CONSTANTS
    Instances <- MCInstances
    Devices <- MCDevices
    Home <- MCHome
    Requests <- MCRequests
    Via <- MCVia
    MaxFaults = 2
INVARIANTS
    TypeOK
    ReceiptOnlyAfterRead
    SuccessTellsSender
