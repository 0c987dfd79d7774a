CONSTANTS
    Nodes <- MCDevices
    Devices <- MCDevices
    Holders <- MCHolders
    Quorum = 2
    MaxUpdates = 2
    MaxTS = 4
    NoLog = NoLog
    NoObj = NoObj
    NoInfo = NoInfo
SPECIFICATION FairSpec
\* After the last update is settled nothing is left to do.
CHECK_DEADLOCK FALSE
INVARIANTS
    WaitingHasLog
PROPERTIES
    AppliedOnlyAdvances
    EventuallySettled
