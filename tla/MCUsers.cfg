CONSTANTS
    Device = {"a", "b"}
    First = "a"
    Inviter = "a"
    Joiner = {"b", "c"}
    Renew = 2
    MaxKeys = 6
    MaxFaults = 2
SPECIFICATION MCSpec
\* Everybody may have joined, or the entity be deleted.
CHECK_DEADLOCK FALSE

    
PROPERTIES
    
    FriendshipForms
    DeleteReachesAll
    EndIsFinal
