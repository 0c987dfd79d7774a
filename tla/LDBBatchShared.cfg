SPECIFICATION DBSpec
CONSTANTS
    Threads = {t1, t2}
    Ids = {1, 2}
    DBOps = {"ForcePutAll"}
    MaxTS = 0
    NoIndex = NoIndex
    NoCall = NoCall
INVARIANT PutTakesEffect
