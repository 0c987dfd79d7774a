CONSTANTS
    NoLog = NoLog
    Users = {1, 2, 3}
    Nodes = {4, 5, 6}
    Owner <- MCOwner
    Weight <- MCWeight
    Masters = {1, 2}
    Creator = 6
    ExpireOplogSeconds = 3
    MaxTS = 4
    LogResults = {"sync", "later", "newer", "refused"}
    PendingResults = {"sync", "later", "sign", "refused"}
    DevLogResults = {"sync", "later", "newer"}
    DevPendingResults = {"sync", "later", "sign"}
    DevExpireOplogSeconds = 4
SPECIFICATION MCSpec
\* The life of the one log ends.
CHECK_DEADLOCK FALSE
INVARIANTS
    AliveVerifies
    AliveSignedByAll
    LoopComputesClosedForm
PROPERTIES
    
    DevicesAgree
