CONSTANTS
    NoLog = NoLog
    Users = {1, 2}
    Nodes = {1, 2, 3}
    Owner <- MasterDevices
    Weight <- MCWeight
    Masters = {1, 2}
    Creator = 1
    ExpireOplogSeconds = 3
    MaxTS = 3
    LogResults = {"sync"}
    PendingResults = {"sync"}
SPECIFICATION Spec
INVARIANT SentVerifies
CHECK_DEADLOCK FALSE
