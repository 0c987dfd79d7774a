CONSTANTS
    Node = {"a", "b"}
    \* an object
    Creator = "a"
    Blocks = {"block"}
    MaxQueue = 3
    MaxDrops = 1
    MaxExpires = 1
    \* persons
    Person = {"a", "b", "c"}
    Owner = "a"
    MaxMasters = 2
    MaxLogs = 6
    \* operation keys
    Master = "a"
    Renew = 2
    Expire = 4
    MaxTime = 6
    MaxFlight = 1
    MaxRevokes = 1
    MaxFaults = 1
SPECIFICATION MCSpec
\* Everything may be said and done.
CHECK_DEADLOCK FALSE
INVARIANTS
    
    CacheMatchesDB
    
PROPERTIES
    DeletedEverywhere
    MembersAgree
