CONSTANTS
    NoLog = NoLog
    Users = {1, 2, 3}
    Nodes = {1, 2, 3}
    Owner <- MCOwner
    Weight <- MCWeight
    Masters = {1, 2, 3}
    Creator = 1
    ExpireOplogSeconds = 3
    MaxTS = 3
    LogResults = {"sync"}
    PendingResults = {"sync"}
SPECIFICATION FairSpec
PROPERTY SignatureKept
CHECK_DEADLOCK FALSE
