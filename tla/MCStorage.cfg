SPECIFICATION MCSpec
CONSTANTS
    Procs = {p1, p2, p3}
    IDs = {a, b}
    NIterLock = 2
    Threads = {t1, t2}
    Ids = {1}
    DBOps = {"ForcePutAll", "TryPutAll", "TryPutAllGetOrig", "TryPutAllSameUT", "DeleteAll", "GetByIdxKey"}
    MaxTS = 1
    NoIndex = NoIndex
    NoCall = NoCall
    Logs = {g1, g2}
    NoHour = NoHour
    Hours <- MCHours
    Span <- MCSpan
    MaxSaves = 2
    MaxCrashes = 1
    MaxFailures = 1
    MaxIndex = 4
    MaxTerm = 3
    MaxRaftCrashes = 2
    CrashInside = FALSE
\* The merkle tree and raft are done when their bounds are reached.
CHECK_DEADLOCK FALSE
INVARIANTS
    WriterExclusion
    EntryMatchesHolders
    
    StaleIsScheduled
    StorageServesLog
PROPERTIES
    NewerStays
    EventuallyFresh
    
