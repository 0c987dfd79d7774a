CONSTANTS
    MaxIndex = 4
    MaxTerm = 3
    MaxRaftCrashes = 2
    CrashInside = TRUE
SPECIFICATION RSSpec
CHECK_DEADLOCK FALSE
INVARIANT CommittedIsChosen
