SPECIFICATION Spec
CONSTANTS
    Requests <- MCRequests
    Instances <- MCInstances
    At <- MCAt
    Emails <- MCEmails
    Passwords <- MCPasswords
    Strong <- MCStrong
    First72 <- MCFirst72
    MaxFaults = 1
INVARIANTS
    TypeOK
    SuccessIsKept
    LoginIsRegistered
    RegisteredCanLogin
    RefusedOnlyIfTaken
